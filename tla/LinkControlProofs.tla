------------------------- MODULE LinkControlProofs -------------------------
(***************************************************************************)
(* Proofs about LinkControl, for any set of nodes, any aliases and any     *)
(* number of transmit slots.                                               *)
(***************************************************************************)
EXTENDS LinkControl, TLAPS

(***************************************************************************)
(* What a queue holds after a frame is added at its end or taken from its  *)
(* front.                                                                  *)
(***************************************************************************)

LEMMA ToSetMember ==
  ASSUME NEW S, NEW q \in Seq(S), NEW x
  PROVE  x \in ToSet(q) <=> \E i \in 1 .. Len(q) : q[i] = x
BY DEF ToSet

LEMMA AppendHolds ==
  ASSUME NEW S, NEW q \in Seq(S), NEW e \in S
  PROVE  /\ Append(q, e) \in Seq(S)
         /\ Len(Append(q, e)) = Len(q) + 1
         /\ Last(Append(q, e)) = e
         /\ ToSet(Append(q, e)) = ToSet(q) \cup {e}
<1>1. /\ Append(q, e) \in Seq(S)
      /\ Len(Append(q, e)) = Len(q) + 1
      /\ Append(q, e)[Len(q) + 1] = e
      /\ Len(q) \in Nat
  OBVIOUS
<1>2. \A i \in 1 .. Len(q) : Append(q, e)[i] = q[i]
  OBVIOUS
<1>3. ASSUME NEW x
      PROVE  x \in ToSet(Append(q, e)) <=> x \in ToSet(q) \/ x = e
  <2>1. x \in ToSet(Append(q, e)) <=> \E i \in 1 .. Len(q) + 1 : Append(q, e)[i] = x
    BY <1>1, ToSetMember
  <2>2. x \in ToSet(q) <=> \E i \in 1 .. Len(q) : q[i] = x
    BY ToSetMember
  <2> QED
    BY <1>1, <1>2, <2>1, <2>2
<1> QED
  BY <1>1, <1>3 DEF Last

LEMMA TailHolds ==
  ASSUME NEW S, NEW q \in Seq(S), q # <<>>
  PROVE  /\ Head(q) \in S
         /\ Tail(q) \in Seq(S)
         /\ Len(Tail(q)) < Len(q)
         /\ ToSet(q) = {Head(q)} \cup ToSet(Tail(q))
<1>1. /\ Head(q) \in S
      /\ Head(q) = q[1]
      /\ Tail(q) \in Seq(S)
      /\ Len(q) \in Nat \ {0}
      /\ Len(Tail(q)) = Len(q) - 1
  OBVIOUS
<1>2. \A i \in 1 .. Len(q) - 1 : Tail(q)[i] = q[i + 1]
  OBVIOUS
<1>3. ASSUME NEW x
      PROVE  x \in ToSet(q) <=> x = Head(q) \/ x \in ToSet(Tail(q))
  <2>1. x \in ToSet(q) <=> \E i \in 1 .. Len(q) : q[i] = x
    BY ToSetMember
  <2>2. x \in ToSet(Tail(q)) <=> \E i \in 1 .. Len(q) - 1 : Tail(q)[i] = x
    <3>1. x \in ToSet(Tail(q)) <=> \E i \in 1 .. Len(Tail(q)) : Tail(q)[i] = x
      BY <1>1, ToSetMember
    <3> QED
      BY <1>1, <3>1
  <2>3. ASSUME NEW i \in 1 .. Len(q), q[i] = x
        PROVE  x = Head(q) \/ x \in ToSet(Tail(q))
    <3>1. CASE i = 1
      BY <1>1, <2>3, <3>1
    <3>2. CASE i # 1
      <4>1. i - 1 \in 1 .. Len(q) - 1 /\ (i - 1) + 1 = i
        BY <1>1, <3>2
      <4> QED
        BY <1>2, <2>2, <2>3, <4>1
    <3> QED
      BY <3>1, <3>2
  <2>4. ASSUME NEW i \in 1 .. Len(q) - 1, Tail(q)[i] = x
        PROVE  x \in ToSet(q)
    <3>1. i + 1 \in 1 .. Len(q)
      BY <1>1
    <3> QED
      BY <1>2, <2>1, <2>4, <3>1
  <2>5. x = Head(q) => x \in ToSet(q)
    <3>1. 1 \in 1 .. Len(q)
      BY <1>1
    <3> QED
      BY <1>1, <2>1, <3>1
  <2> QED
    BY <2>1, <2>2, <2>3, <2>4, <2>5
<1> QED
  BY <1>1, <1>3

-----------------------------------------------------------------------------
(* Type correctness                                                        *)

LEMMA AliasType ==
  ASSUME TypeOK, NEW n \in Node
  PROVE  getAlias(n) \in Alias
BY LinkAssumption DEF TypeOK, getAlias

LEMMA OwnFrameType ==
  ASSUME TypeOK, NEW n \in Node, NEW k \in Kind,
         NEW to \in Node \cup Alias \cup {Anyone, Outside}
  PROVE  /\ OwnFrame(n, k, to) \in Frame
         /\ OwnFrame(n, k, to).src = getAlias(n)
         /\ OwnFrame(n, k, to).from = n
         /\ OwnFrame(n, k, to).kind = k
         /\ OwnFrame(n, k, to).to = to
BY AliasType DEF OwnFrame, Frame

LEMMA ReusedFrameType ==
  ASSUME TypeOK, NEW n \in Node, NEW k \in Kind
  PROVE  LET f == [OwnFrame(n, k, Anyone) EXCEPT !.src = txSrc[n]]
         IN  f \in Frame /\ f.src = txSrc[n] /\ f.from = n /\ f.kind = k /\ f.to = Anyone
BY AliasType DEF OwnFrame, Frame, TypeOK

\* Handing a frame to the driver keeps the types of what it changes.
LEMMA SendType ==
  ASSUME TypeOK, NEW n \in Node, NEW f \in Frame, sendFrame(n, f)
  PROVE  /\ txSrc' \in [Node -> Alias \cup {Outside}]
         /\ txq' \in [Node -> Seq(Frame)]
<1>1. f.src \in Alias \cup {Outside}
  BY DEF Frame
<1>2. Append(txq[n], f) \in Seq(Frame)
  BY AppendHolds DEF TypeOK
<1> QED
  BY <1>1, <1>2 DEF sendFrame, TypeOK

LEMMA GetFrameType ==
  ASSUME TypeOK, NEW n \in Node, GetFrame(n)
  PROVE  /\ on' \in [Node -> BOOLEAN]
         /\ rxq' \in [Node -> Seq(Frame)]
         /\ rx' \in [Node -> Frame \cup {NoFrame}]
         /\ \A m \in Node \ {n} : rx'[m] = rx[m]
<1>1. rxq[n] \in Seq(Frame)
  BY DEF TypeOK
<1>2. rxq[n] # <<>> => Head(rxq[n]) \in Frame /\ Tail(rxq[n]) \in Seq(Frame)
  BY <1>1, TailHolds
<1> QED
  BY <1>2 DEF GetFrame, TypeOK

LEMMA ReceivingType ==
  ASSUME TypeOK, NEW n \in Node, Receiving(n)
  PROVE  /\ on' \in [Node -> BOOLEAN]
         /\ rxq' \in [Node -> Seq(Frame)]
         /\ rx' \in [Node -> Frame \cup {NoFrame}]
         /\ pc' \in [Node -> {"loop", "init", "receive"}]
         /\ rx[n] \in Frame
         /\ \A m \in Node : pc'[m] = "receive" => rx'[m] \in Frame
BY DEF Receiving, TypeOK

LEMMA ToReceiveType ==
  ASSUME TypeOK, NEW n \in Node, NEW f \in Frame \cup {NoFrame}, ToReceive(n, f)
  PROVE  /\ pc' \in [Node -> {"loop", "init", "receive"}]
         /\ pc'[n] = "receive" => f \in Frame
         /\ \A m \in Node \ {n} : pc'[m] = pc[m]
BY DEF ToReceive, TypeOK

\* What every case of check that starts an iteration leaves behind.
LEMMA IterationType ==
  ASSUME TypeOK, NEW n \in Node, GetFrame(n), ToReceive(n, rx'[n])
  PROVE  /\ on' \in [Node -> BOOLEAN]
         /\ rxq' \in [Node -> Seq(Frame)]
         /\ rx' \in [Node -> Frame \cup {NoFrame}]
         /\ pc' \in [Node -> {"loop", "init", "receive"}]
         /\ \A m \in Node : pc'[m] = "receive" => rx'[m] \in Frame
<1>1. rx'[n] \in Frame \cup {NoFrame}
  BY GetFrameType
<1>2. pc'[n] = "receive" => rx'[n] \in Frame
  BY <1>1, ToReceiveType
<1>3. ASSUME NEW m \in Node \ {n}, pc'[m] = "receive"
      PROVE  rx'[m] \in Frame
  <2>1. pc[m] = "receive" /\ rx'[m] = rx[m]
    BY <1>1, <1>3, ToReceiveType, GetFrameType
  <2> QED
    BY <2>1 DEF TypeOK
<1> QED
  BY <1>1, <1>2, <1>3, GetFrameType, ToReceiveType

LEMMA TypeInductive ==
  ASSUME TypeOK, [Next]_vars
  PROVE  TypeOK'
<1> USE DEF TypeOK
<1>0. /\ \A s \in 0 .. 3 : s + 1 \in LinkState /\ s \in LinkState
      /\ {STATE_INITIAL, STATE_WAIT_CONFIRM, STATE_ALIAS_ASSIGNED,
          STATE_PERMITTED, STATE_INITIALIZED} \subseteq LinkState
  BY DEF LinkState, STATE_INITIAL, STATE_WAIT_CONFIRM, STATE_ALIAS_ASSIGNED,
         STATE_PERMITTED, STATE_INITIALIZED
<1>k. {"CIM", "RIM", "AMD", "AMR", "AME", "VerifyNID", "VerifiedNID",
       "InitComplete", "Message"} \subseteq Kind
  BY DEF Kind
<1>1. ASSUME NEW n \in Node, SendCIM(n)
      PROVE  TypeOK'
  BY <1>0, <1>1, <1>k, OwnFrameType, SendType, IterationType
     DEF SendCIM, Advance
<1>2. ASSUME NEW n \in Node, StartWait(n)
      PROVE  TypeOK'
  BY <1>0, <1>2, IterationType DEF StartWait
<1>3. ASSUME NEW n \in Node, KeepWaiting(n)
      PROVE  TypeOK'
  BY <1>3, IterationType DEF KeepWaiting
<1>4. ASSUME NEW n \in Node, ConfirmAlias(n)
      PROVE  TypeOK'
  BY <1>0, <1>4, <1>k, OwnFrameType, SendType, IterationType
     DEF ConfirmAlias, Advance
<1>5. ASSUME NEW n \in Node, SendAMD(n)
      PROVE  TypeOK'
  BY <1>0, <1>5, <1>k, OwnFrameType, SendType, GetFrameType
     DEF SendAMD, Advance
<1>6. ASSUME NEW n \in Node, FallThroughToInit(n)
      PROVE  TypeOK'
  BY <1>0, <1>6, <1>k, OwnFrameType, SendType, ToReceiveType
     DEF FallThroughToInit, Advance
<1>7. ASSUME NEW n \in Node, SendInitComplete(n)
      PROVE  TypeOK'
  BY <1>0, <1>7, <1>k, OwnFrameType, SendType, IterationType
     DEF SendInitComplete, Advance
<1>8. ASSUME NEW n \in Node, CheckInitialized(n)
      PROVE  TypeOK'
  BY <1>8, IterationType DEF CheckInitialized
<1>9. ASSUME NEW n \in Node, DefendAlias(n)
      PROVE  TypeOK'
  <2>1. rx[n].from \in Node \cup {Outside}
    BY <1>9, ReceivingType DEF DefendAlias, Frame
  <2> QED
    BY <1>9, <1>k, <2>1, OwnFrameType, SendType, ReceivingType
       DEF DefendAlias, sendWait
<1>10. ASSUME NEW n \in Node, GiveUpAlias(n)
       PROVE  TypeOK'
  <2>1. (pos[n] + 1) % Period \in 0 .. Period - 1
    BY LinkAssumption
  <2> QED
    BY <1>0, <1>10, <1>k, <2>1, OwnFrameType, SendType, ReceivingType
       DEF GiveUpAlias
<1>11. ASSUME NEW n \in Node, AnswerAME(n)
       PROVE  TypeOK'
  BY <1>11, <1>k, OwnFrameType, SendType, ReceivingType DEF AnswerAME, sendWait
<1>12. ASSUME NEW n \in Node, AnswerVerify(n)
       PROVE  TypeOK'
  BY <1>12, <1>k, ReusedFrameType, SendType, ReceivingType DEF AnswerVerify, sendWait
<1>13. ASSUME NEW n \in Node, IgnoreFrame(n)
       PROVE  TypeOK'
  BY <1>13, ReceivingType DEF IgnoreFrame
<1>14. ASSUME NEW n \in Node, Application(n)
       PROVE  TypeOK'
  BY <1>14, <1>k, ReusedFrameType, SendType DEF Application, sendWait
<1>15. ASSUME NEW n \in Node, Transmit(n)
       PROVE  TypeOK'
  <2>1. Head(txq[n]) \in Frame /\ Tail(txq[n]) \in Seq(Frame)
    BY <1>15, TailHolds DEF Transmit
  <2>2. \A m \in Node : Append(rxq[m], Head(txq[n])) \in Seq(Frame)
    BY <2>1, AppendHolds
  <2> QED
    BY <1>15, <2>1, <2>2 DEF Transmit
<1>16. ASSUME NEW n \in Node, PowerOn(n)
       PROVE  TypeOK'
  BY <1>16 DEF PowerOn
<1>17. ASSUME NEW n \in Node, PowerOff(n)
       PROVE  TypeOK'
  BY <1>0, <1>17, LinkAssumption DEF PowerOff
<1>18. ASSUME NEW e \in Enquiries, Enquire(e[1], e[2])
       PROVE  TypeOK'
  <2> DEFINE f == [kind |-> e[1], src |-> Outside, from |-> Outside, to |-> e[2]]
  <2>1. f \in Frame
    BY <1>k, LinkAssumption DEF Frame
  <2>2. \A m \in Node : Append(rxq[m], f) \in Seq(Frame)
    BY <2>1, AppendHolds
  <2> QED
    BY <1>18, <2>2 DEF Enquire
<1>19. CASE UNCHANGED vars
  BY <1>19 DEF vars
<1> QED
  BY <1>1, <1>2, <1>3, <1>4, <1>5, <1>6, <1>7, <1>8, <1>9, <1>10, <1>11,
     <1>12, <1>13, <1>14, <1>15, <1>16, <1>17, <1>18, <1>19
     DEF Next, check, receivedFrame

-----------------------------------------------------------------------------
(* What the parts of a step do to the frames under way                     *)

\* Frames the driver of n has accepted and not yet sent.
Queued(n) == ToSet(txq[n])

\* A frame that neither claims an alias nor objects to a claim.
Neutral(f) == f.kind # "CIM" /\ (f.kind = "RIM" => f.to \notin Node)

\* The conjuncts of ClaimInv by name.
Orderly ==
  \A n \in Node :
    /\ \A f \in Queued(n) : f.from = n
    /\ pc[n] = "loop" => rx[n] = NoFrame
    /\ pc[n] = "init" => state[n] \in {STATE_ALIAS_ASSIGNED, STATE_PERMITTED}
    /\ ~on[n] => state[n] = STATE_INITIAL

Settled == \A n \in Node : HoldsAlias(n) => CIMsAnswered(n)

Contested ==
  \A m, n \in Node :
    /\ m # n
    /\ state[m] # STATE_INITIAL
    /\ state[n] # STATE_INITIAL
    /\ getAlias(m) = getAlias(n)
    => Objection(m, n) \/ Objection(n, m)

LEMMA ClaimInvParts == ClaimInv <=> Orderly /\ Settled /\ Contested
BY DEF ClaimInv, Orderly, Settled, Contested, Queued

LEMMA UnderWayTypes ==
  ASSUME TypeOK, NEW n \in Node
  PROVE  /\ Queued(n) \subseteq Frame
         /\ Received(n) \subseteq Frame
BY DEF TypeOK, Queued, Received, ToSet

\* Reading a frame moves it within Received.
LEMMA GetFrameMoves ==
  ASSUME TypeOK, Orderly, NEW n \in Node, GetFrame(n)
  PROVE  \A m \in Node : Received(m)' = Received(m)
<1>1. rx[n] = NoFrame
  BY DEF GetFrame, Orderly
<1>2. CASE rxq[n] = <<>>
  BY <1>1, <1>2 DEF GetFrame, Received, TypeOK
<1>3. CASE rxq[n] # <<>>
  <2>1. /\ ToSet(rxq[n]) = {Head(rxq[n])} \cup ToSet(Tail(rxq[n]))
        /\ Head(rxq[n]) # NoFrame
    BY <1>3, TailHolds, LinkAssumption DEF TypeOK
  <2> QED
    BY <1>1, <1>3, <2>1 DEF GetFrame, Received, TypeOK
<1> QED
  BY <1>2, <1>3

\* receivedFrame is done with the frame it works on.
LEMMA ReceivingDrops ==
  ASSUME TypeOK, NEW n \in Node, Receiving(n)
  PROVE  /\ rx[n] \in Received(n)
         /\ Received(n) \subseteq Received(n)' \cup {rx[n]}
         /\ Received(n)' \subseteq Received(n)
         /\ \A m \in Node \ {n} : Received(m)' = Received(m)
<1>1. rx[n] \in Frame /\ rx[n] # NoFrame
  BY LinkAssumption, ReceivingType
<1> QED
  BY <1>1 DEF Receiving, Received, TypeOK

\* sendFrame adds at most its frame.
LEMMA SendAdds ==
  ASSUME TypeOK, NEW n \in Node, NEW f \in Frame, sendFrame(n, f)
  PROVE  /\ Queued(n)' = IF Ready(n) THEN Queued(n) \cup {f} ELSE Queued(n)
         /\ \A m \in Node \ {n} : Queued(m)' = Queued(m)
<1>1. ToSet(Append(txq[n], f)) = ToSet(txq[n]) \cup {f}
  BY AppendHolds DEF TypeOK
<1> QED
  BY <1>1 DEF sendFrame, Queued, TypeOK

(***************************************************************************)
(* Steps that lose no frame a claim depends on keep every contest under    *)
(* way, and steps that add neutral frames only keep what has been settled. *)
(***************************************************************************)

LEMMA ObjectionKept ==
  ASSUME NEW m \in Node, NEW n \in Node, Objection(m, n),
         pos'[m] = pos[m],
         \A k \in {m, n} :
           /\ Queued(k) \subseteq Queued(k)'
           /\ \A f \in Received(k) : f.src = getAlias(m) => f \in Received(k)'
  PROVE  Objection(m, n)'
<1>1. getAlias(m)' = getAlias(m)
  BY DEF getAlias
<1> QED
  BY <1>1 DEF Objection, Queued

LEMMA ContestedKept ==
  ASSUME Contested,
         \A m \in Node : state'[m] # STATE_INITIAL =>
           /\ state[m] # STATE_INITIAL
           /\ pos'[m] = pos[m]
           /\ Queued(m) \subseteq Queued(m)'
           /\ \A f \in Received(m) : f.src = getAlias(m) => f \in Received(m)'
  PROVE  Contested'
<1> SUFFICES ASSUME NEW m \in Node, NEW n \in Node, m # n,
                    state'[m] # STATE_INITIAL, state'[n] # STATE_INITIAL,
                    getAlias(m)' = getAlias(n)'
             PROVE  Objection(m, n)' \/ Objection(n, m)'
  BY DEF Contested
<1>1. getAlias(m) = getAlias(n)
  BY DEF getAlias
<1> QED
  BY <1>1, ObjectionKept DEF Contested

LEMMA AnsweredKept ==
  ASSUME NEW n \in Node, CIMsAnswered(n),
         \A m \in Node :
           /\ \A f \in Queued(m)' : f \in Queued(m) \/ Neutral(f)
           /\ \A f \in Received(m)' : f \in Received(m) \/ Neutral(f)
  PROVE  CIMsAnswered(n)'
BY DEF CIMsAnswered, Queued, Neutral

LEMMA SettledKept ==
  ASSUME Settled,
         \A m \in Node :
           /\ HoldsAlias(m)' => HoldsAlias(m)
           /\ \A f \in Queued(m)' : f \in Queued(m) \/ Neutral(f)
           /\ \A f \in Received(m)' : f \in Received(m) \/ Neutral(f)
  PROVE  Settled'
BY AnsweredKept DEF Settled

-----------------------------------------------------------------------------
(* The inductive invariant, step by step                                   *)

\* Steps of check that send nothing, or a neutral frame.
LEMMA CalmCheck ==
  ASSUME TypeOK, ClaimInv, NEW n \in Node,
         \/ StartWait(n) \/ KeepWaiting(n) \/ SendAMD(n) \/ FallThroughToInit(n)
         \/ SendInitComplete(n) \/ CheckInitialized(n)
  PROVE  Settled' /\ Contested'
<1> USE DEF STATE_INITIAL, STATE_WAIT_CONFIRM, STATE_ALIAS_ASSIGNED, STATE_PERMITTED,
            STATE_INITIALIZED
<1>1. Orderly /\ Settled /\ Contested
  BY ClaimInvParts
<1>2. \A m \in Node : Received(m)' = Received(m)
  <2>1. CASE FallThroughToInit(n)
    BY <2>1 DEF FallThroughToInit, Received
  <2>2. CASE GetFrame(n)
    BY <1>1, <2>2, GetFrameMoves
  <2> QED
    BY <2>1, <2>2 DEF StartWait, KeepWaiting, SendAMD, SendInitComplete, CheckInitialized
<1>3. \A m \in Node : /\ Queued(m) \subseteq Queued(m)'
                      /\ \A f \in Queued(m)' : f \in Queued(m) \/ Neutral(f)
  <2>1. ASSUME NEW k \in {"AMD", "InitComplete"}, sendFrame(n, OwnFrame(n, k, Anyone))
        PROVE  \A m \in Node : /\ Queued(m) \subseteq Queued(m)'
                              /\ \A f \in Queued(m)' : f \in Queued(m) \/ Neutral(f)
    <3>1. OwnFrame(n, k, Anyone) \in Frame /\ Neutral(OwnFrame(n, k, Anyone))
      BY OwnFrameType DEF Kind, Neutral
    <3> QED
      BY <2>1, <3>1, SendAdds
  <2>2. CASE UNCHANGED txq
    BY <2>2 DEF Queued
  <2> QED
    BY <2>1, <2>2 DEF StartWait, KeepWaiting, SendAMD, FallThroughToInit,
                      SendInitComplete, CheckInitialized
<1>4. pc[n] = "init" => state[n] \in {STATE_ALIAS_ASSIGNED, STATE_PERMITTED}
  BY <1>1 DEF Orderly
<1>5. \A m \in Node : /\ HoldsAlias(m)' => HoldsAlias(m)
                      /\ state'[m] # STATE_INITIAL => state[m] # STATE_INITIAL
  BY <1>4 DEF HoldsAlias, StartWait, KeepWaiting, SendAMD, FallThroughToInit,
              SendInitComplete, CheckInitialized, Advance, TypeOK
<1>6. UNCHANGED pos
  BY DEF StartWait, KeepWaiting, SendAMD, FallThroughToInit, SendInitComplete,
         CheckInitialized
<1>7. Settled'
  BY <1>1, <1>2, <1>3, <1>5, SettledKept
<1>8. Contested'
  BY <1>1, <1>2, <1>3, <1>5, <1>6, ContestedKept
<1> QED
  BY <1>7, <1>8

\* Steps of receivedFrame, the power switches and the environment that give
\* rise to no claim and to no objection.
LEMMA CalmReceive ==
  ASSUME TypeOK, ClaimInv, NEW n \in Node,
         \/ GiveUpAlias(n) \/ AnswerAME(n) \/ AnswerVerify(n) \/ IgnoreFrame(n)
  PROVE  Settled' /\ Contested'
<1>1. Orderly /\ Settled /\ Contested
  BY ClaimInvParts
<1>2. Receiving(n) /\ rx[n] \in Frame
  BY ReceivingType DEF GiveUpAlias, AnswerAME, AnswerVerify, IgnoreFrame
<1>3. \A m \in Node : /\ Queued(m) \subseteq Queued(m)'
                      /\ \A f \in Queued(m)' : f \in Queued(m) \/ Neutral(f)
  <2>1. ASSUME NEW f \in Frame, Neutral(f), sendFrame(n, f)
        PROVE  \A m \in Node : /\ Queued(m) \subseteq Queued(m)'
                              /\ \A g \in Queued(m)' : g \in Queued(m) \/ Neutral(g)
    BY <2>1, SendAdds
  <2>2. CASE GiveUpAlias(n)
    <3>1. OwnFrame(n, "AMR", Anyone) \in Frame /\ Neutral(OwnFrame(n, "AMR", Anyone))
      BY OwnFrameType DEF Kind, Neutral
    <3> QED
      BY <2>1, <2>2, <3>1 DEF GiveUpAlias
  <2>3. CASE AnswerAME(n)
    <3>1. OwnFrame(n, "AMD", Anyone) \in Frame /\ Neutral(OwnFrame(n, "AMD", Anyone))
      BY OwnFrameType DEF Kind, Neutral
    <3> QED
      BY <2>1, <2>3, <3>1 DEF AnswerAME, sendWait
  <2>4. CASE AnswerVerify(n)
    <3> DEFINE f == [OwnFrame(n, "VerifiedNID", Anyone) EXCEPT !.src = txSrc[n]]
    <3>1. f \in Frame /\ Neutral(f)
      BY ReusedFrameType DEF Kind, Neutral
    <3> QED
      BY <2>1, <2>4, <3>1 DEF AnswerVerify, sendWait
  <2>5. CASE IgnoreFrame(n)
    BY <2>5 DEF IgnoreFrame, Queued
  <2> QED
    BY <2>2, <2>3, <2>4, <2>5
<1>4. \A m \in Node : Received(m)' \subseteq Received(m)
  BY <1>2, ReceivingDrops
<1>5. \A m \in Node : /\ HoldsAlias(m)' => HoldsAlias(m)
                      /\ state'[m] # STATE_INITIAL => state[m] # STATE_INITIAL /\ pos'[m] = pos[m]
  BY DEF HoldsAlias, GiveUpAlias, AnswerAME, AnswerVerify, IgnoreFrame, TypeOK,
         STATE_INITIAL, STATE_ALIAS_ASSIGNED, STATE_PERMITTED, STATE_INITIALIZED
<1>6. \A m \in Node : state'[m] # STATE_INITIAL =>
        \A f \in Received(m) : f.src = getAlias(m) => f \in Received(m)'
  <2>1. \A m \in Node \ {n} : Received(m)' = Received(m)
    BY <1>2, ReceivingDrops
  <2>2. state'[n] # STATE_INITIAL => rx[n].src # getAlias(n)
    BY DEF GiveUpAlias, AnswerAME, AnswerVerify, IgnoreFrame, TypeOK
  <2>3. Received(n) \subseteq Received(n)' \cup {rx[n]}
    BY <1>2, ReceivingDrops
  <2> QED
    BY <2>1, <2>2, <2>3
<1>7. Settled'
  BY <1>1, <1>3, <1>4, <1>5, SettledKept
<1>8. Contested'
  BY <1>1, <1>3, <1>5, <1>6, ContestedKept
<1> QED
  BY <1>7, <1>8

LEMMA CalmApplication ==
  ASSUME TypeOK, ClaimInv, NEW n \in Node, Application(n)
  PROVE  Settled' /\ Contested'
<1> DEFINE f == [OwnFrame(n, "Message", Anyone) EXCEPT !.src = txSrc[n]]
<1>1. Orderly /\ Settled /\ Contested
  BY ClaimInvParts
<1>2. f \in Frame /\ Neutral(f)
  BY ReusedFrameType DEF Kind, Neutral
<1>3. \A m \in Node : /\ Queued(m) \subseteq Queued(m)'
                      /\ \A g \in Queued(m)' : g \in Queued(m) \/ Neutral(g)
  BY <1>2, SendAdds DEF Application, sendWait
<1>4. \A m \in Node : Received(m)' = Received(m) /\ HoldsAlias(m)' = HoldsAlias(m)
  BY DEF Application, Received, HoldsAlias
<1>5. UNCHANGED <<state, pos>>
  BY DEF Application
<1>6. Settled'
  BY <1>1, <1>3, <1>4, SettledKept
<1>7. Contested'
  BY <1>1, <1>3, <1>4, <1>5, ContestedKept
<1> QED
  BY <1>6, <1>7

LEMMA CalmEnquire ==
  ASSUME TypeOK, ClaimInv, NEW e \in Enquiries, Enquire(e[1], e[2])
  PROVE  Settled' /\ Contested'
<1> DEFINE f == [kind |-> e[1], src |-> Outside, from |-> Outside, to |-> e[2]]
<1>1. Orderly /\ Settled /\ Contested
  BY ClaimInvParts
<1>2. f \in Frame /\ Neutral(f)
  BY LinkAssumption DEF Kind, Neutral, Frame
<1>3. \A m \in Node : /\ Received(m) \subseteq Received(m)'
                      /\ Received(m)' \subseteq Received(m) \cup {f}
  <2> SUFFICES ASSUME NEW m \in Node
               PROVE  /\ Received(m) \subseteq Received(m)'
                      /\ Received(m)' \subseteq Received(m) \cup {f}
    OBVIOUS
  <2>1. ToSet(Append(rxq[m], f)) = ToSet(rxq[m]) \cup {f}
    BY <1>2, AppendHolds DEF TypeOK
  <2>2. rxq'[m] \in {rxq[m], Append(rxq[m], f)} /\ rx' = rx
    BY DEF Enquire
  <2> QED
    BY <2>1, <2>2 DEF Received
<1>4. UNCHANGED <<state, pos, txq>>
  BY DEF Enquire
<1>5. \A m \in Node : Queued(m)' = Queued(m) /\ HoldsAlias(m)' = HoldsAlias(m)
  BY <1>4 DEF Queued, HoldsAlias
<1>6. Settled'
  BY <1>1, <1>2, <1>3, <1>5, SettledKept
<1>7. Contested'
  BY <1>1, <1>3, <1>4, <1>5, ContestedKept
<1> QED
  BY <1>6, <1>7

LEMMA CalmPower ==
  ASSUME TypeOK, ClaimInv, NEW n \in Node, PowerOn(n) \/ PowerOff(n)
  PROVE  Settled' /\ Contested'
<1>1. Orderly /\ Settled /\ Contested
  BY ClaimInvParts
<1>2. CASE PowerOn(n)
  BY <1>1, <1>2 DEF PowerOn, Settled, Contested, HoldsAlias, CIMsAnswered, Objection,
                    Received, getAlias
<1>3. CASE PowerOff(n)
  <2>1. \A m \in Node \ {n} : /\ state'[m] = state[m]
                              /\ pos'[m] = pos[m]
                              /\ Queued(m)' = Queued(m)
                              /\ Received(m)' = Received(m)
    BY <1>3 DEF PowerOff, Queued, Received, TypeOK
  <2>2. Queued(n)' = {} /\ Received(n)' = {}
    BY <1>3 DEF PowerOff, Queued, Received, TypeOK, ToSet
  <2>3. state'[n] = STATE_INITIAL
    BY <1>3 DEF PowerOff, TypeOK
  <2>4. \A m \in Node : HoldsAlias(m)' => HoldsAlias(m)
    BY <2>1, <2>3 DEF HoldsAlias, STATE_INITIAL, STATE_ALIAS_ASSIGNED, STATE_PERMITTED,
                      STATE_INITIALIZED
  <2>5. Settled'
    BY <1>1, <2>1, <2>2, <2>4, SettledKept
  <2>6. Contested'
    BY <1>1, <2>1, <2>3, ContestedKept
  <2> QED
    BY <2>5, <2>6
<1> QED
  BY <1>2, <1>3

\* A node that enters a contest brings its CIM along.
LEMMA ClaimSendCIM ==
  ASSUME TypeOK, ClaimInv, NEW n \in Node, SendCIM(n)
  PROVE  Settled' /\ Contested'
<1> DEFINE f == OwnFrame(n, "CIM", Anyone)
<1>1. Orderly /\ Settled /\ Contested
  BY ClaimInvParts
<1>2. f \in Frame /\ f.kind = "CIM" /\ f.from = n /\ f.src = getAlias(n)
  BY OwnFrameType DEF Kind
<1>3. \A m \in Node : Received(m)' = Received(m)
  BY <1>1, GetFrameMoves DEF SendCIM
<1>4. /\ Queued(n)' = IF Ready(n) THEN Queued(n) \cup {f} ELSE Queued(n)
      /\ \A m \in Node \ {n} : Queued(m)' = Queued(m)
  BY <1>2, SendAdds DEF SendCIM
<1>5. UNCHANGED pos /\ \A m \in Node : getAlias(m)' = getAlias(m)
  BY DEF SendCIM, getAlias
<1>6. /\ \A m \in Node \ {n} : state'[m] = state[m]
      /\ ~Ready(n) => state'[n] = state[n]
      /\ ~HoldsAlias(n)'
  BY DEF SendCIM, Advance, TypeOK, HoldsAlias, STATE_ALIAS_ASSIGNED, STATE_PERMITTED,
         STATE_INITIALIZED
<1>7. Settled'
  <2> SUFFICES ASSUME NEW m \in Node, HoldsAlias(m)'
               PROVE  CIMsAnswered(m)'
    BY DEF Settled
  <2>1. m # n /\ HoldsAlias(m)
    BY <1>6 DEF HoldsAlias
  <2>2. CIMsAnswered(m)
    BY <1>1, <2>1 DEF Settled
  <2> QED
    BY <1>2, <1>3, <1>4, <2>1, <2>2 DEF CIMsAnswered, Queued
<1>8. CASE Ready(n)
  <2> SUFFICES ASSUME NEW m \in Node, NEW k \in Node, m # k,
                      state'[m] # STATE_INITIAL, state'[k] # STATE_INITIAL,
                      getAlias(m)' = getAlias(k)'
               PROVE  Objection(m, k)' \/ Objection(k, m)'
    BY <1>7 DEF Contested
  <2>1. f \in Queued(n)'
    BY <1>4, <1>8
  <2>2. \A p \in Node : Objection(n, p)'
    BY <1>2, <1>5, <2>1 DEF Objection, Queued
  <2>3. CASE n \in {m, k}
    BY <2>2, <2>3
  <2>4. CASE n \notin {m, k}
    <3>1. Objection(m, k) \/ Objection(k, m)
      BY <1>1, <1>5, <1>6, <2>4 DEF Contested
    <3> QED
      BY <1>3, <1>4, <1>5, <2>4, <3>1, ObjectionKept
  <2> QED
    BY <2>3, <2>4
<1>9. CASE ~Ready(n)
  BY <1>1, <1>3, <1>4, <1>5, <1>6, <1>7, <1>9, ContestedKept
<1> QED
  BY <1>7, <1>8, <1>9

\* A node that takes its alias has outlasted the objections by then.
LEMMA ClaimConfirmAlias ==
  ASSUME TypeOK, ClaimInv, NEW n \in Node, ConfirmAlias(n)
  PROVE  Settled' /\ Contested'
<1> DEFINE f == OwnFrame(n, "RIM", Anyone)
<1>1. Orderly /\ Settled /\ Contested
  BY ClaimInvParts
<1>2. f \in Frame /\ Neutral(f)
  BY OwnFrameType, LinkAssumption DEF Kind, Neutral
<1>3. \A m \in Node : Received(m)' = Received(m)
  BY <1>1, GetFrameMoves DEF ConfirmAlias
<1>4. \A m \in Node : /\ Queued(m) \subseteq Queued(m)'
                      /\ \A g \in Queued(m)' : g \in Queued(m) \/ Neutral(g)
  BY <1>2, SendAdds DEF ConfirmAlias
<1>5. UNCHANGED pos
  BY DEF ConfirmAlias
<1>6. /\ \A m \in Node \ {n} : state'[m] = state[m]
      /\ state[n] # STATE_INITIAL
  BY DEF ConfirmAlias, Advance, TypeOK, STATE_INITIAL, STATE_WAIT_CONFIRM
<1>7. Settled'
  <2> SUFFICES ASSUME NEW m \in Node, HoldsAlias(m)'
               PROVE  CIMsAnswered(m)'
    BY DEF Settled
  <2>1. CIMsAnswered(m)
    <3>1. CASE m = n
      BY <3>1 DEF ConfirmAlias
    <3>2. CASE m # n
      BY <1>1, <1>6, <3>2 DEF Settled, HoldsAlias
    <3> QED
      BY <3>1, <3>2
  <2> QED
    BY <1>3, <1>4, <2>1, AnsweredKept
<1>8. Contested'
  BY <1>1, <1>3, <1>4, <1>5, <1>6, ContestedKept
<1> QED
  BY <1>7, <1>8

\* The CIM that is dealt with leaves an objection in its place.
LEMMA ClaimDefendAlias ==
  ASSUME TypeOK, ClaimInv, NEW n \in Node, DefendAlias(n)
  PROVE  Settled' /\ Contested'
<1> DEFINE c == rx[n]
           f == OwnFrame(n, "RIM", c.from)
<1>1. Orderly /\ Settled /\ Contested
  BY ClaimInvParts
<1>2. Receiving(n) /\ Ready(n) /\ sendFrame(n, f) /\ UNCHANGED <<state, pos>>
  BY DEF DefendAlias, sendWait
<1>3. /\ c \in Frame
      /\ c.src = getAlias(n)
      /\ c.kind = "CIM"
      /\ c.from \in Node \cup {Outside}
  BY <1>2, ReceivingType DEF DefendAlias, Frame
<1>4. f \in Frame /\ f.kind = "RIM" /\ f.to = c.from /\ f.src = getAlias(n)
  BY <1>3, OwnFrameType DEF Kind
<1>5. /\ Queued(n)' = Queued(n) \cup {f}
      /\ \A m \in Node \ {n} : Queued(m)' = Queued(m)
  BY <1>2, <1>4, SendAdds
<1>6. /\ c \in Received(n)
      /\ Received(n) \subseteq Received(n)' \cup {c}
      /\ \A m \in Node : Received(m)' \subseteq Received(m)
      /\ \A m \in Node \ {n} : Received(m)' = Received(m)
  BY <1>2, ReceivingDrops
<1>7. \A m \in Node : /\ getAlias(m)' = getAlias(m)
                      /\ HoldsAlias(m)' = HoldsAlias(m)
                      /\ state'[m] = state[m]
  BY <1>2 DEF getAlias, HoldsAlias
<1>8. Settled'
  <2> SUFFICES ASSUME NEW m \in Node, HoldsAlias(m)
               PROVE  CIMsAnswered(m)'
    BY <1>7 DEF Settled
  <2>1. CIMsAnswered(m)
    BY <1>1 DEF Settled
  <2>2. m # n => f.to # m
    BY <1>3, <1>4, <1>6, <2>1 DEF CIMsAnswered
  <2>3. \A g \in Queued(m)' : g.kind # "CIM"
    BY <1>4, <1>5, <2>1 DEF CIMsAnswered, Queued
  <2>4. ASSUME NEW k \in Node \ {m}
        PROVE  /\ \A g \in Received(k)' : ~(g.kind = "CIM" /\ g.from = m)
               /\ \A g \in Queued(k)' : ~(g.kind = "RIM" /\ g.to = m)
    BY <1>5, <1>6, <2>1, <2>2 DEF CIMsAnswered, Queued
  <2>5. \A g \in Received(m)' : ~(g.kind = "RIM" /\ g.to = m)
    BY <1>6, <2>1 DEF CIMsAnswered
  <2> QED
    BY <2>3, <2>4, <2>5 DEF CIMsAnswered, Queued
<1>9. Contested'
  <2>1. ASSUME NEW m \in Node, NEW k \in Node, m # k, Objection(m, k),
               getAlias(m) = getAlias(k)
        PROVE  Objection(m, k)'
    <3>1. CASE k = n /\ c.from = m
      BY <1>4, <1>5, <1>7, <2>1, <3>1 DEF Objection, Queued
    <3>2. CASE ~(k = n /\ c.from = m)
      BY <1>3, <1>5, <1>6, <1>7, <2>1, <3>2 DEF Objection, Queued
    <3> QED
      BY <3>1, <3>2
  <2> QED
    BY <1>1, <1>7, <2>1 DEF Contested
<1> QED
  BY <1>8, <1>9

\* A frame on the bus reaches every node that could miss it.
LEMMA ClaimTransmit ==
  ASSUME TypeOK, ClaimInv, NEW n \in Node, Transmit(n)
  PROVE  Settled' /\ Contested'
<1> DEFINE h == Head(txq[n])
<1>1. Orderly /\ Settled /\ Contested
  BY ClaimInvParts
<1>2. /\ h \in Frame
      /\ ToSet(txq[n]) = {h} \cup ToSet(Tail(txq[n]))
  BY TailHolds DEF Transmit, TypeOK
<1>3. /\ Queued(n) = {h} \cup Queued(n)'
      /\ \A m \in Node \ {n} : Queued(m)' = Queued(m)
  BY <1>2 DEF Transmit, Queued, TypeOK
<1>4. h.from = n
  BY <1>1, <1>3 DEF Orderly
<1>5. \A m \in Node : Received(m)' = IF on[m] /\ m # n THEN Received(m) \cup {h} ELSE Received(m)
  <2> SUFFICES ASSUME NEW m \in Node
               PROVE  Received(m)' = IF on[m] /\ m # n THEN Received(m) \cup {h} ELSE Received(m)
    OBVIOUS
  <2>1. ToSet(Append(rxq[m], h)) = ToSet(rxq[m]) \cup {h}
    BY <1>2, AppendHolds DEF TypeOK
  <2>2. rx' = rx /\ rxq'[m] = IF on[m] /\ m # n THEN Append(rxq[m], h) ELSE rxq[m]
    BY DEF Transmit
  <2> QED
    BY <2>1, <2>2 DEF Received
<1>6. /\ UNCHANGED <<state, pos>>
      /\ \A m \in Node : getAlias(m)' = getAlias(m) /\ HoldsAlias(m)' = HoldsAlias(m)
  BY DEF Transmit, getAlias, HoldsAlias
<1>7. Settled'
  <2> SUFFICES ASSUME NEW m \in Node, HoldsAlias(m)
               PROVE  CIMsAnswered(m)'
    BY <1>6 DEF Settled
  <2>1. CIMsAnswered(m)
    BY <1>1 DEF Settled
  <2>2. \A g \in Queued(m)' : g.kind # "CIM"
    BY <1>3, <2>1 DEF CIMsAnswered, Queued
  <2>3. ASSUME NEW k \in Node \ {m}
        PROVE  /\ \A g \in Received(k)' : ~(g.kind = "CIM" /\ g.from = m)
               /\ \A g \in Queued(k)' : ~(g.kind = "RIM" /\ g.to = m)
    BY <1>3, <1>4, <1>5, <2>1 DEF CIMsAnswered, Queued
  <2>4. \A g \in Received(m)' : ~(g.kind = "RIM" /\ g.to = m)
    BY <1>3, <1>5, <2>1 DEF CIMsAnswered, Queued
  <2> QED
    BY <2>2, <2>3, <2>4 DEF CIMsAnswered, Queued
<1>8. Contested'
  <2>1. ASSUME NEW m \in Node, NEW k \in Node, m # k, Objection(m, k), on[m], on[k]
        PROVE  Objection(m, k)'
    BY <1>3, <1>5, <1>6, <2>1 DEF Objection, Queued
  <2>2. \A m \in Node : state[m] # STATE_INITIAL => on[m]
    BY <1>1 DEF Orderly
  <2> QED
    BY <1>1, <1>6, <2>1, <2>2 DEF Contested
<1> QED
  BY <1>7, <1>8

\* What a node queues is its own; a frame is at hand only while it is worked on.
LEMMA OrderlyKept ==
  ASSUME TypeOK, Orderly, [Next]_vars
  PROVE  Orderly'
<1> USE DEF STATE_INITIAL, STATE_WAIT_CONFIRM, STATE_ALIAS_ASSIGNED, STATE_PERMITTED,
            STATE_INITIALIZED
<1> DEFINE OwnOnly(n) == \A f \in Queued(n) : f.from = n
           Kept(m) == /\ on'[m] = on[m] /\ state'[m] = state[m]
                      /\ pc'[m] = pc[m] /\ rx'[m] = rx[m]
           InStep(m) == /\ pc[m] = "loop" => rx[m] = NoFrame
                        /\ pc[m] = "init" => state[m] \in {STATE_ALIAS_ASSIGNED, STATE_PERMITTED}
                        /\ ~on[m] => state[m] = STATE_INITIAL
<1> SUFFICES \A m \in Node : OwnOnly(m)' /\ InStep(m)'
  BY DEF Orderly
<1>0. \A m \in Node : OwnOnly(m) /\ InStep(m)
  BY DEF Orderly
<1> HIDE DEF OwnOnly, InStep, Kept
<1>1. ASSUME NEW n \in Node, NEW f \in Frame, f.from = n, sendFrame(n, f)
      PROVE  \A m \in Node : OwnOnly(m)'
  BY <1>0, <1>1, SendAdds DEF OwnOnly
<1>2. ASSUME UNCHANGED txq
      PROVE  \A m \in Node : OwnOnly(m)'
  BY <1>0, <1>2 DEF OwnOnly, Queued
<1>3. ASSUME NEW m \in Node, Kept(m)
      PROVE  InStep(m)'
  BY <1>0, <1>3 DEF InStep, Kept
<1>4. ASSUME NEW n \in Node, check(n)
      PROVE  \A m \in Node : OwnOnly(m)' /\ InStep(m)'
  <2>1. \A m \in Node : OwnOnly(m)'
    <3>1. ASSUME NEW k \in {"CIM", "RIM", "AMD", "InitComplete"}
          PROVE  OwnFrame(n, k, Anyone) \in Frame /\ OwnFrame(n, k, Anyone).from = n
      BY OwnFrameType DEF Kind
    <3> QED
      BY <1>1, <1>2, <1>4, <3>1
         DEF check, SendCIM, StartWait, KeepWaiting, ConfirmAlias, SendAMD,
             FallThroughToInit, SendInitComplete, CheckInitialized
  <2>2. \A m \in Node \ {n} : Kept(m)
    BY <1>4 DEF check, SendCIM, StartWait, KeepWaiting, ConfirmAlias, SendAMD,
                FallThroughToInit, SendInitComplete, CheckInitialized, GetFrame,
                ToReceive, Advance, TypeOK, Kept
  <2>3. InStep(n)'
    <3>1. on'[n]
      BY <1>4 DEF check, SendCIM, StartWait, KeepWaiting, ConfirmAlias, SendAMD,
                  FallThroughToInit, SendInitComplete, CheckInitialized, GetFrame
    <3>2. CASE SendAMD(n)
      BY <3>1, <3>2 DEF SendAMD, Advance, GetFrame, TypeOK, InStep
    <3>3. CASE FallThroughToInit(n)
      BY <3>1, <3>3 DEF FallThroughToInit, ToReceive, TypeOK, InStep
    <3>4. CASE ToReceive(n, rx'[n])
      BY <3>1, <3>4 DEF ToReceive, TypeOK, InStep
    <3> QED
      BY <1>4, <3>2, <3>3, <3>4
         DEF check, SendCIM, StartWait, KeepWaiting, ConfirmAlias, SendInitComplete,
             CheckInitialized
  <2> QED
    BY <1>3, <2>1, <2>2, <2>3
<1>5. ASSUME NEW n \in Node, receivedFrame(n)
      PROVE  \A m \in Node : OwnOnly(m)' /\ InStep(m)'
  <2>1. Receiving(n)
    BY <1>5 DEF receivedFrame, DefendAlias, GiveUpAlias, AnswerAME, AnswerVerify, IgnoreFrame
  <2>2. rx[n].from \in Node \cup {Outside}
    BY <2>1, ReceivingType DEF Frame
  <2>3. \A m \in Node : OwnOnly(m)'
    <3>1. ASSUME NEW k \in {"RIM", "AMR", "AMD"}, NEW to \in Node \cup {Anyone, Outside}
          PROVE  OwnFrame(n, k, to) \in Frame /\ OwnFrame(n, k, to).from = n
      BY OwnFrameType DEF Kind
    <3>2. LET f == [OwnFrame(n, "VerifiedNID", Anyone) EXCEPT !.src = txSrc[n]]
          IN  f \in Frame /\ f.from = n
      BY ReusedFrameType DEF Kind
    <3> QED
      BY <1>1, <1>2, <1>5, <2>2, <3>1, <3>2
         DEF receivedFrame, DefendAlias, GiveUpAlias, AnswerAME, AnswerVerify, IgnoreFrame,
             sendWait
  <2>4. \A m \in Node \ {n} : Kept(m)
    BY <1>5, <2>1 DEF receivedFrame, DefendAlias, GiveUpAlias, AnswerAME, AnswerVerify,
                      IgnoreFrame, Receiving, TypeOK, Kept
  <2>5. InStep(n)'
    BY <2>1 DEF Receiving, TypeOK, InStep
  <2> QED
    BY <1>3, <2>3, <2>4, <2>5
<1>6. ASSUME NEW n \in Node, Application(n)
      PROVE  \A m \in Node : OwnOnly(m)' /\ InStep(m)'
  <2>1. LET f == [OwnFrame(n, "Message", Anyone) EXCEPT !.src = txSrc[n]]
        IN  f \in Frame /\ f.from = n
    BY ReusedFrameType DEF Kind
  <2> QED
    BY <1>1, <1>3, <1>6, <2>1 DEF Application, sendWait, Kept
<1>7. ASSUME NEW n \in Node, Transmit(n)
      PROVE  \A m \in Node : OwnOnly(m)' /\ InStep(m)'
  <2>1. ToSet(Tail(txq[n])) \subseteq ToSet(txq[n])
    BY <1>7, TailHolds DEF Transmit, TypeOK
  <2>2. \A m \in Node : Queued(m)' \subseteq Queued(m)
    BY <1>7, <2>1 DEF Transmit, Queued, TypeOK
  <2> QED
    BY <1>0, <1>3, <1>7, <2>2 DEF Transmit, OwnOnly, Kept
<1>8. ASSUME NEW n \in Node, PowerOn(n)
      PROVE  \A m \in Node : OwnOnly(m)' /\ InStep(m)'
  BY <1>0, <1>2, <1>8 DEF PowerOn, InStep, TypeOK
<1>9. ASSUME NEW n \in Node, PowerOff(n)
      PROVE  \A m \in Node : OwnOnly(m)' /\ InStep(m)'
  <2>1. \A m \in Node : Queued(m)' \subseteq Queued(m)
    BY <1>9 DEF PowerOff, Queued, TypeOK, ToSet
  <2>2. \A m \in Node \ {n} : Kept(m)
    BY <1>9 DEF PowerOff, TypeOK, Kept
  <2>3. InStep(n)'
    BY <1>9 DEF PowerOff, TypeOK, InStep
  <2> QED
    BY <1>0, <1>3, <2>1, <2>2, <2>3 DEF OwnOnly
<1>10. ASSUME NEW e \in Enquiries, Enquire(e[1], e[2])
       PROVE  \A m \in Node : OwnOnly(m)' /\ InStep(m)'
  BY <1>2, <1>3, <1>10 DEF Enquire, Kept
<1>11. CASE UNCHANGED vars
  BY <1>2, <1>3, <1>11 DEF vars, Kept
<1> QED
  BY <1>4, <1>5, <1>6, <1>7, <1>8, <1>9, <1>10, <1>11 DEF Next

LEMMA ClaimInductive ==
  ASSUME TypeOK, ClaimInv, [Next]_vars
  PROVE  ClaimInv'
<1>1. Orderly'
  BY ClaimInvParts, OrderlyKept
<1>2. Settled' /\ Contested'
  <2>1. CASE \E n \in Node : check(n)
    BY <2>1, CalmCheck, ClaimSendCIM, ClaimConfirmAlias DEF check
  <2>2. CASE \E n \in Node : receivedFrame(n)
    BY <2>2, CalmReceive, ClaimDefendAlias DEF receivedFrame
  <2>3. CASE UNCHANGED vars
    BY <2>3, ClaimInvParts
       DEF vars, Settled, Contested, HoldsAlias, CIMsAnswered, Objection, Received, getAlias
  <2> QED
    BY <2>1, <2>2, <2>3, CalmApplication, ClaimTransmit, CalmPower, CalmEnquire DEF Next
<1> QED
  BY <1>1, <1>2 DEF ClaimInv, Orderly, Settled, Contested, Queued

LEMMA Initially ==
  ASSUME Init
  PROVE  TypeOK /\ ClaimInv
<1>1. TypeOK
  BY LinkAssumption DEF Init, TypeOK, LinkState, STATE_INITIAL
<1>2. \A n \in Node : ToSet(txq[n]) = {} /\ Received(n) = {}
  BY DEF Init, Received, ToSet
<1>3. \A n \in Node : ~HoldsAlias(n)
  BY DEF Init, HoldsAlias, STATE_INITIAL, STATE_ALIAS_ASSIGNED, STATE_PERMITTED,
         STATE_INITIALIZED
<1>4. ClaimInv
  BY <1>2, <1>3 DEF Init, ClaimInv
<1> QED
  BY <1>1, <1>4

-----------------------------------------------------------------------------
(* The theorems                                                            *)

\* Every variable keeps its type: the state stays one that check handles and
\* receivedFrame is entered with a frame at hand.
THEOREM TypeCorrect == Spec => []TypeOK
<1>1. Init => TypeOK
  BY Initially
<1>2. TypeOK /\ [Next]_vars => TypeOK'
  BY TypeInductive
<1> QED
  BY <1>1, <1>2, PTL DEF Spec

\* Of two nodes that claim one alias, one has an objection under way to it
\* or a CIM of its own under way to the other, whatever the interleaving of
\* check, receivedFrame, the driver and the power switch.
THEOREM ClaimsContested == Spec => []ClaimInv
<1>1. Init => ClaimInv
  BY Initially
<1>2. TypeOK /\ ClaimInv /\ [Next]_vars => ClaimInv'
  BY ClaimInductive
<1> QED
  BY <1>1, <1>2, TypeCorrect, PTL DEF Spec

LEMMA ClaimImpliesUnique ==
  ASSUME TypeOK, ClaimInv
  PROVE  AliasesUnique
<1> SUFFICES ASSUME NEW m \in Node, NEW n \in Node, m # n, HoldsAlias(m), HoldsAlias(n),
                    getAlias(m) = getAlias(n)
             PROVE  FALSE
  BY DEF AliasesUnique
<1>1. state[m] # STATE_INITIAL /\ state[n] # STATE_INITIAL
  BY DEF HoldsAlias, STATE_INITIAL, STATE_ALIAS_ASSIGNED, STATE_PERMITTED, STATE_INITIALIZED
<1>2. Objection(m, n) \/ Objection(n, m)
  BY <1>1 DEF ClaimInv
<1>3. CIMsAnswered(m) /\ CIMsAnswered(n)
  BY DEF ClaimInv
<1> QED
  BY <1>2, <1>3 DEF Objection, CIMsAnswered

\* No two nodes that are past the CIM/RIM exchange of LinkControl::check have
\* the same alias.
THEOREM UniqueAliases == Spec => []AliasesUnique
<1>1. TypeOK /\ ClaimInv => AliasesUnique
  BY ClaimImpliesUnique
<1> QED
  BY <1>1, TypeCorrect, ClaimsContested, PTL

-----------------------------------------------------------------------------
(* The shared transmit buffer                                              *)

\* A node that has begun to claim its alias, or is past check in this
\* iteration, has a frame with its present alias in txBuffer.
TxCurrent ==
  \A n \in Node : state[n] # STATE_INITIAL \/ pc[n] # "loop" => txSrc[n] = getAlias(n)

LEMMA TxCurrentKept ==
  ASSUME TypeOK, ClaimInv, TxCurrent, [Next]_vars
  PROVE  TxCurrent'
<1> USE DEF STATE_INITIAL, STATE_WAIT_CONFIRM, STATE_ALIAS_ASSIGNED, STATE_PERMITTED,
            STATE_INITIALIZED
<1> DEFINE Current(m) == state[m] # STATE_INITIAL \/ pc[m] # "loop" => txSrc[m] = getAlias(m)
           Kept(m) == /\ state'[m] = state[m] /\ pc'[m] = pc[m]
                      /\ txSrc'[m] = txSrc[m] /\ pos'[m] = pos[m]
<1> SUFFICES \A m \in Node : Current(m)'
  BY DEF TxCurrent
<1>0. \A m \in Node : Current(m)
  BY DEF TxCurrent
<1>1. ASSUME NEW m \in Node, Kept(m)
      PROVE  Current(m)'
  BY <1>0, <1>1 DEF getAlias
<1>2. ASSUME NEW n \in Node, NEW k, NEW to, sendFrame(n, OwnFrame(n, k, to)), pos'[n] = pos[n]
      PROVE  txSrc'[n] = getAlias(n)'
  BY <1>2 DEF sendFrame, OwnFrame, getAlias, TypeOK
<1>3. ASSUME NEW n \in Node, check(n)
      PROVE  \A m \in Node : Current(m)'
  <2>1. \A m \in Node \ {n} : Kept(m)
    BY <1>3 DEF check, SendCIM, StartWait, KeepWaiting, ConfirmAlias, SendAMD,
                FallThroughToInit, SendInitComplete, CheckInitialized, GetFrame,
                ToReceive, Advance, TypeOK, sendFrame
  <2>2. pos' = pos /\ getAlias(n)' = getAlias(n)
    BY <1>3 DEF check, SendCIM, StartWait, KeepWaiting, ConfirmAlias, SendAMD,
                FallThroughToInit, SendInitComplete, CheckInitialized, getAlias
  <2>3. CASE StartWait(n) \/ KeepWaiting(n) \/ CheckInitialized(n)
    <3>1. state[n] # STATE_INITIAL /\ UNCHANGED txSrc
      BY <2>3 DEF StartWait, KeepWaiting, CheckInitialized
    <3> QED
      BY <1>0, <1>1, <2>1, <2>2, <3>1
  <2>4. CASE ~(StartWait(n) \/ KeepWaiting(n) \/ CheckInitialized(n))
    <3>1. txSrc'[n] = getAlias(n)'
      BY <1>2, <1>3, <2>2, <2>4 DEF check, SendCIM, ConfirmAlias, SendAMD, FallThroughToInit,
                                    SendInitComplete
    <3> QED
      BY <1>1, <2>1, <3>1
  <2> QED
    BY <2>3, <2>4
<1>4. ASSUME NEW n \in Node, receivedFrame(n)
      PROVE  \A m \in Node : Current(m)'
  <2>1. pc[n] = "receive" /\ pc'[n] = "loop" /\ txSrc[n] = getAlias(n)
    BY <1>0, <1>4 DEF receivedFrame, DefendAlias, GiveUpAlias, AnswerAME, AnswerVerify,
                      IgnoreFrame, Receiving, TypeOK
  <2>2. \A m \in Node \ {n} : Kept(m)
    BY <1>4 DEF receivedFrame, DefendAlias, GiveUpAlias, AnswerAME, AnswerVerify,
                IgnoreFrame, Receiving, TypeOK, sendWait, sendFrame
  <2>3. CASE GiveUpAlias(n)
    <3>1. state'[n] = STATE_INITIAL
      BY <2>3 DEF GiveUpAlias, TypeOK
    <3> QED
      BY <1>1, <2>1, <2>2, <3>1
  <2>4. CASE IgnoreFrame(n)
    BY <1>1, <2>1, <2>2, <2>4 DEF IgnoreFrame, getAlias
  <2>5. CASE DefendAlias(n) \/ AnswerAME(n)
    <3>1. txSrc'[n] = getAlias(n)'
      BY <1>2, <2>5 DEF DefendAlias, AnswerAME, sendWait
    <3> QED
      BY <1>1, <2>2, <3>1
  <2>6. CASE AnswerVerify(n)
    <3>1. txSrc'[n] = txSrc[n] /\ pos' = pos
      BY <2>6 DEF AnswerVerify, sendWait, sendFrame, OwnFrame, TypeOK
    <3> QED
      BY <1>1, <2>1, <2>2, <3>1 DEF getAlias
  <2> QED
    BY <1>4, <2>3, <2>4, <2>5, <2>6 DEF receivedFrame
<1>5. ASSUME NEW n \in Node, Application(n)
      PROVE  \A m \in Node : Current(m)'
  <2>1. \A m \in Node : Kept(m)
    BY <1>5 DEF Application, sendWait, sendFrame, OwnFrame, TypeOK
  <2> QED
    BY <1>1, <2>1
<1>6. ASSUME NEW n \in Node, Transmit(n)
      PROVE  \A m \in Node : Current(m)'
  BY <1>1, <1>6 DEF Transmit
<1>7. ASSUME NEW n \in Node, PowerOn(n) \/ PowerOff(n)
      PROVE  \A m \in Node : Current(m)'
  <2>1. \A m \in Node : Kept(m) \/ (state'[m] = STATE_INITIAL /\ pc'[m] = "loop")
    BY <1>7 DEF PowerOn, PowerOff, TypeOK
  <2> QED
    BY <1>1, <2>1
<1>8. ASSUME NEW e \in Enquiries, Enquire(e[1], e[2])
      PROVE  \A m \in Node : Current(m)'
  BY <1>1, <1>8 DEF Enquire
<1>9. CASE UNCHANGED vars
  BY <1>1, <1>9 DEF vars
<1> QED
  BY <1>3, <1>4, <1>5, <1>6, <1>7, <1>8, <1>9 DEF Next

\* A frame is queued by sendFrame only.
LEMMA OwnAliasStep ==
  ASSUME TypeOK, ClaimInv, TxCurrent, Next
  PROVE  \A n \in Node : Len(txq'[n]) > Len(txq[n]) => Last(txq'[n]).src = getAlias(n)
<1> USE DEF STATE_INITIAL, STATE_INITIALIZED
<1> DEFINE Good(m) == Len(txq'[m]) > Len(txq[m]) => Last(txq'[m]).src = getAlias(m)
<1>0. \A m \in Node : txq[m] \in Seq(Frame) /\ Len(txq[m]) \in Nat
  BY DEF TypeOK
<1>1. ASSUME NEW m \in Node, txq'[m] = txq[m]
      PROVE  Good(m)
  BY <1>0, <1>1
<1>2. ASSUME NEW n \in Node, NEW f \in Frame, f.src = getAlias(n), sendFrame(n, f)
      PROVE  \A m \in Node : Good(m)
  <2>1. \A m \in Node \ {n} : txq'[m] = txq[m]
    BY <1>2 DEF sendFrame, TypeOK
  <2>2. txq'[n] \in {txq[n], Append(txq[n], f)}
    BY <1>2 DEF sendFrame, TypeOK
  <2>3. Last(Append(txq[n], f)) = f
    BY <1>0, AppendHolds
  <2>4. Good(n)
    BY <1>1, <1>2, <2>2, <2>3
  <2> QED
    BY <1>1, <2>1, <2>4
<1>3. ASSUME NEW n \in Node, check(n)
      PROVE  \A m \in Node : Good(m)
  <2>1. ASSUME NEW k \in {"CIM", "RIM", "AMD", "InitComplete"}
        PROVE  OwnFrame(n, k, Anyone) \in Frame /\ OwnFrame(n, k, Anyone).src = getAlias(n)
    BY OwnFrameType DEF Kind
  <2>2. \/ UNCHANGED txq
        \/ \E k \in {"CIM", "RIM", "AMD", "InitComplete"} : sendFrame(n, OwnFrame(n, k, Anyone))
    BY <1>3 DEF check, SendCIM, StartWait, KeepWaiting, ConfirmAlias, SendAMD,
                FallThroughToInit, SendInitComplete, CheckInitialized
  <2> QED
    BY <1>1, <1>2, <2>1, <2>2
<1>4. ASSUME NEW n \in Node, receivedFrame(n)
      PROVE  \A m \in Node : Good(m)
  <2>1. /\ pc[n] = "receive"
        /\ rx[n].from \in Node \cup {Outside}
    <3>1. Receiving(n)
      BY <1>4 DEF receivedFrame, DefendAlias, GiveUpAlias, AnswerAME, AnswerVerify, IgnoreFrame
    <3> QED
      BY <3>1, ReceivingType DEF Frame, Receiving
  <2>2. ASSUME NEW k \in {"RIM", "AMR", "AMD"}, NEW to \in Node \cup {Anyone, Outside}
        PROVE  OwnFrame(n, k, to) \in Frame /\ OwnFrame(n, k, to).src = getAlias(n)
    BY OwnFrameType DEF Kind
  <2>3. CASE AnswerVerify(n)
    <3> DEFINE f == [OwnFrame(n, "VerifiedNID", Anyone) EXCEPT !.src = txSrc[n]]
    <3>1. txSrc[n] = getAlias(n)
      BY <2>1 DEF TxCurrent
    <3>2. f \in Frame /\ f.src = txSrc[n]
      BY ReusedFrameType DEF Kind
    <3> QED
      BY <1>2, <2>3, <3>1, <3>2 DEF AnswerVerify, sendWait
  <2>4. CASE IgnoreFrame(n)
    BY <1>1, <2>4 DEF IgnoreFrame
  <2>5. CASE DefendAlias(n) \/ GiveUpAlias(n) \/ AnswerAME(n)
    <3>1. \E k \in {"RIM", "AMR", "AMD"}, to \in Node \cup {Anyone, Outside} :
            sendFrame(n, OwnFrame(n, k, to))
      BY <2>1, <2>5 DEF DefendAlias, GiveUpAlias, AnswerAME, sendWait
    <3> QED
      BY <1>2, <2>2, <3>1
  <2> QED
    BY <1>4, <2>3, <2>4, <2>5 DEF receivedFrame
<1>5. ASSUME NEW n \in Node, Application(n)
      PROVE  \A m \in Node : Good(m)
  <2> DEFINE f == [OwnFrame(n, "Message", Anyone) EXCEPT !.src = txSrc[n]]
  <2>1. txSrc[n] = getAlias(n)
    BY <1>5 DEF Application, TxCurrent
  <2>2. f \in Frame /\ f.src = txSrc[n]
    BY ReusedFrameType DEF Kind
  <2> QED
    BY <1>2, <1>5, <2>1, <2>2 DEF Application, sendWait
<1>6. ASSUME NEW n \in Node, Transmit(n)
      PROVE  \A m \in Node : Good(m)
  <2>1. Len(Tail(txq[n])) \in Nat /\ Len(Tail(txq[n])) < Len(txq[n])
    <3>1. Tail(txq[n]) \in Seq(Frame) /\ Len(Tail(txq[n])) < Len(txq[n])
      BY <1>0, <1>6, TailHolds DEF Transmit
    <3> QED
      BY <3>1
  <2>2. \A m \in Node : txq'[m] = IF m = n THEN Tail(txq[n]) ELSE txq[m]
    BY <1>6 DEF Transmit, TypeOK
  <2>3. Good(n)
    <3>1. Len(txq'[n]) = Len(Tail(txq[n]))
      BY <2>2
    <3> QED
      BY <1>0, <2>1, <3>1
  <2> QED
    BY <1>1, <2>2, <2>3
<1>7. ASSUME NEW n \in Node, PowerOff(n)
      PROVE  \A m \in Node : Good(m)
  <2>1. \A m \in Node : txq'[m] = IF m = n THEN << >> ELSE txq[m]
    BY <1>7 DEF PowerOff, TypeOK
  <2>2. Good(n)
    BY <1>0, <2>1
  <2> QED
    BY <1>1, <2>1, <2>2
<1>8. ASSUME UNCHANGED txq
      PROVE  \A m \in Node : Good(m)
  BY <1>1, <1>8
<1> QED
  BY <1>3, <1>4, <1>5, <1>6, <1>7, <1>8 DEF Next, PowerOn, Enquire

\* Every frame goes out under the alias its node has at that moment, though
\* VerifiedNID and the frames of the protocol handlers take whatever source
\* an earlier frame left in txBuffer.
THEOREM OwnAlias == Spec => SendsUnderOwnAlias
<1> DEFINE Step == \A n \in Node :
                     Len(txq'[n]) > Len(txq[n]) => Last(txq'[n]).src = getAlias(n)
<1>1. Init => TxCurrent
  BY DEF Init, TxCurrent, STATE_INITIAL
<1>2. TypeOK /\ ClaimInv /\ TxCurrent /\ [Next]_vars => TxCurrent'
  BY TxCurrentKept
<1>3. TypeOK /\ ClaimInv /\ TxCurrent /\ [Next]_vars => [Step]_vars
  BY OwnAliasStep
<1>4. Spec => [][Step]_vars
  BY <1>1, <1>2, <1>3, TypeCorrect, ClaimsContested, PTL DEF Spec
<1> QED
  BY <1>4 DEF SendsUnderOwnAlias

-----------------------------------------------------------------------------
(* Refinement of the registry                                              *)

\* The alias n stands for in the registry.
Held(n) == IF HoldsAlias(n) THEN getAlias(n) ELSE Outside

\* Whoever takes an alias is the only one to have it afterwards.
LEMMA TakesFreeAlias ==
  ASSUME TypeOK, AliasesUnique', NEW n \in Node, ConfirmAlias(n)
  PROVE  Registry!Next \/ \A m \in Node : Held(m)' = Held(m)
<1> USE DEF STATE_INITIAL, STATE_WAIT_CONFIRM, STATE_ALIAS_ASSIGNED, STATE_PERMITTED,
            STATE_INITIALIZED
<1>1. /\ \A m \in Node : getAlias(m)' = getAlias(m)
      /\ \A m \in Node \ {n} : HoldsAlias(m)' = HoldsAlias(m)
      /\ ~HoldsAlias(n)
  BY DEF ConfirmAlias, Advance, getAlias, HoldsAlias, TypeOK
<1>2. CASE HoldsAlias(n)'
  <2>1. \A m \in Node : Held(m) # getAlias(n)
    BY <1>1, <1>2, AliasType, LinkAssumption DEF AliasesUnique, Held
  <2>2. [m \in Node |-> Held(m)'] = [[m \in Node |-> Held(m)] EXCEPT ![n] = getAlias(n)]
    BY <1>1, <1>2 DEF Held
  <2>3. getAlias(n) \in Alias
    BY AliasType
  <2>4. Registry!Take(n, getAlias(n))
    BY <1>1, <2>1, <2>2 DEF Registry!Take, Held
  <2> QED
    BY <2>3, <2>4 DEF Registry!Next
<1>3. CASE ~HoldsAlias(n)'
  BY <1>1, <1>3 DEF Held
<1> QED
  BY <1>2, <1>3

\* Giving an alias up, or losing power, gives it back, if it was held at all.
LEMMA GivesBackAlias ==
  ASSUME TypeOK, NEW n \in Node, GiveUpAlias(n) \/ PowerOff(n)
  PROVE  Registry!Next \/ \A m \in Node : Held(m)' = Held(m)
<1> USE DEF STATE_INITIAL, STATE_ALIAS_ASSIGNED, STATE_PERMITTED, STATE_INITIALIZED
<1>1. /\ \A m \in Node \ {n} : Held(m)' = Held(m)
      /\ ~HoldsAlias(n)'
  BY DEF GiveUpAlias, PowerOff, getAlias, HoldsAlias, TypeOK, Held
<1>2. CASE HoldsAlias(n)
  <2>1. [m \in Node |-> Held(m)'] = [[m \in Node |-> Held(m)] EXCEPT ![n] = Outside]
    BY <1>1 DEF Held
  <2>2. Held(n) # Outside
    BY <1>2, AliasType, LinkAssumption DEF Held
  <2>3. Registry!GiveBack(n)
    BY <2>1, <2>2 DEF Registry!GiveBack, Held
  <2> QED
    BY <2>3 DEF Registry!Next
<1>3. CASE ~HoldsAlias(n)
  BY <1>1, <1>3 DEF Held
<1> QED
  BY <1>2, <1>3

LEMMA OthersKeepAliases ==
  ASSUME TypeOK, ClaimInv, [Next]_vars,
         \A n \in Node : ~ConfirmAlias(n) /\ ~GiveUpAlias(n) /\ ~PowerOff(n)
  PROVE  \A m \in Node : Held(m)' = Held(m)
<1> USE DEF STATE_INITIAL, STATE_WAIT_CONFIRM, STATE_ALIAS_ASSIGNED, STATE_PERMITTED,
            STATE_INITIALIZED
<1>1. pos' = pos
  BY DEF Next, check, SendCIM, StartWait, KeepWaiting, ConfirmAlias, SendAMD,
         FallThroughToInit, SendInitComplete, CheckInitialized, receivedFrame, DefendAlias,
         AnswerAME, AnswerVerify, IgnoreFrame, Application, Transmit, PowerOn, Enquire, vars
<1>2. \A m \in Node : HoldsAlias(m)' <=> HoldsAlias(m)
  <2>1. CASE \E n \in Node : check(n)
    <3>1. PICK n \in Node : check(n)
      BY <2>1
    <3>2. /\ \A m \in Node \ {n} : state'[m] = state[m]
          /\ HoldsAlias(n)' <=> HoldsAlias(n)
      BY <3>1 DEF check, SendCIM, StartWait, KeepWaiting, ConfirmAlias, SendAMD,
                  FallThroughToInit, SendInitComplete, CheckInitialized, Advance, TypeOK,
                  ClaimInv, HoldsAlias
    <3> QED
      BY <3>2 DEF HoldsAlias
  <2>2. CASE UNCHANGED state
    BY <2>2 DEF HoldsAlias
  <2> QED
    BY <2>1, <2>2 DEF Next, receivedFrame, DefendAlias, AnswerAME, AnswerVerify, IgnoreFrame,
                      Application, Transmit, PowerOn, Enquire, vars
<1> QED
  BY <1>1, <1>2 DEF Held, getAlias

\* The link layer implements the alias registry: check takes an alias only
\* while no other node has it, and receivedFrame and a power failure give
\* it back; no alias is exchanged for another in one step.
THEOREM LinkImplementsRegistry == Spec => ImplementsRegistry
<1> DEFINE h == [n \in Node |-> IF HoldsAlias(n) THEN getAlias(n) ELSE Outside]
<1>1. Init => Registry!Init
  BY DEF Init, Registry!Init, HoldsAlias, STATE_INITIAL, STATE_ALIAS_ASSIGNED,
         STATE_PERMITTED, STATE_INITIALIZED
<1>2. TypeOK /\ ClaimInv /\ AliasesUnique' /\ [Next]_vars => [Registry!Next]_h
  <2> SUFFICES ASSUME TypeOK, ClaimInv, AliasesUnique', [Next]_vars
               PROVE  Registry!Next \/ \A m \in Node : Held(m)' = Held(m)
    BY DEF Held
  <2> QED
    BY TakesFreeAlias, GivesBackAlias, OthersKeepAliases
<1> QED
  BY <1>1, <1>2, TypeCorrect, ClaimsContested, UniqueAliases, PTL
     DEF Spec, ImplementsRegistry, Registry!Spec

=============================================================================
