--------------------------- MODULE DatagramProofs ---------------------------
(***************************************************************************)
(* Proofs about Datagram, for any nodes, datagrams and lengths, and any    *)
(* failures of power and changes of alias.                                 *)
(***************************************************************************)
EXTENDS Datagram, TLAPS

-----------------------------------------------------------------------------
(* Types                                                                   *)

\* Frames that may be under way: a segment is of a datagram its sender has
\* in the buffer, or had since its power came on, and a reply answers one.
Sound(f) ==
  /\ f.kind \in SegmentKind => letter[f.src[1]] # Nothing
  /\ f.kind \in {"Ack", "Reject"} => letter[f.dst[1]] # Nothing

Outgoing(n) == {f \in Frame : f.src[1] = n /\ Sound(f)}

Incoming(n) ==
  {f \in Frame : /\ f.src[1] # n
                 /\ f.kind \notin {"AMD", "AMR"} => f.kind \in Addressed /\ f.dst[1] = n
                 /\ Sound(f)}

\* TypeOK does not follow from types alone: a rejection has the datagram of
\* the buffer sent again, whatever the buffer holds. It is only taken by a
\* node that has filled its buffer.
TypeInv ==
  /\ TypeOK
  /\ \A n \in Node :
       /\ sendcount[n] > 0 => letter[n] # Nothing
       /\ letter[n] # Nothing => sendcount[n] <= Size[letter[n].says]
       /\ changes[n] <= MaxChanges[n]
       /\ txq[n] \in Seq(Outgoing(n))
       /\ rxq[n] \in Seq(Incoming(n))
       /\ link[n] = "off" => txq[n] = <<>> /\ rxq[n] = <<>>

LEMMA QueueWidens ==
  ASSUME NEW S, NEW T, NEW q \in Seq(S), \A f \in ToSet(q) : f \in T
  PROVE  q \in Seq(T)
<1>1. \A i \in DOMAIN q : q[i] \in T
  BY DEF ToSet
<1> QED
  BY <1>1

LEMMA AliasIs ==
  ASSUME NEW n \in Node, NEW k \in Nat, k <= MaxChanges[n]
  PROVE  <<n, k>> \in Alias
<1>1. k \in 0 .. MaxChanges[n]
  BY DatagramAssumption
<1> QED
  BY <1>1 DEF Alias

LEMMA LetterTyped ==
  ASSUME NEW l, l \in [to : Alias, says : Content] \cup {Nothing}, l # Nothing
  PROVE  l.to \in Alias /\ l.says \in Content /\ Size[l.says] \in Nat \ {0}
BY DatagramAssumption

LEMMA TypeInit == Init => TypeInv
<1> SUFFICES ASSUME Init PROVE TypeInv
  OBVIOUS
<1>1. \A n \in Node : changes[n] = 0 /\ 0 <= MaxChanges[n]
  BY DatagramAssumption DEF Init
<1>2. \A n \in Node : getAlias(n) \in Alias
  BY <1>1, AliasIs DEF getAlias
<1>3. changes \in [Node -> Nat] /\ sendcount \in [Node -> Nat]
  BY DEF Init
<1>4. /\ txq \in [Node -> Seq(Frame)]
      /\ rxq \in [Node -> Seq(Frame)]
      /\ rbuf \in [Node -> Seq(Part)]
  BY DEF Init
<1>5. \A n \in Node : txq[n] \in Seq(Outgoing(n)) /\ rxq[n] \in Seq(Incoming(n))
  BY DEF Init
<1> QED
  BY <1>1, <1>2, <1>3, <1>4, <1>5 DEF Init, TypeInv, TypeOK, LinkState

\* What check() sends.
LEMMA SegmentTyped ==
  ASSUME TypeInv, NEW n \in Node, sendcount[n] > 0
  PROVE  [kind |-> KindOf(sendcount[n], Size[letter[n].says]), src |-> getAlias(n),
          dst |-> letter[n].to,
          part |-> <<n, letter[n].says, Size[letter[n].says] - sendcount[n] + 1>>]
            \in Outgoing(n)
<1> DEFINE s == Size[letter[n].says]
           k == sendcount[n]
           f == [kind |-> KindOf(k, s), src |-> getAlias(n), dst |-> letter[n].to,
                 part |-> <<n, letter[n].says, s - k + 1>>]
<1>1. letter[n].to \in Alias /\ letter[n].says \in Content /\ s \in Nat \ {0}
  BY LetterTyped DEF TypeInv, TypeOK
<1>2. k \in Nat /\ k > 0 /\ k <= s
  BY <1>1 DEF TypeInv, TypeOK
<1>3. KindOf(k, s) \in SegmentKind
  <2>1. k = 1 \/ k > 1
    BY <1>2
  <2>2. k = s \/ k < s
    BY <1>1, <1>2
  <2> HIDE DEF k, s
  <2> QED
    BY <1>1, <1>2, <2>1, <2>2 DEF KindOf, SegmentKind
<1>4. s - k + 1 \in Nat
  BY <1>1, <1>2
<1>5. getAlias(n) \in Alias /\ getAlias(n)[1] = n
  BY DEF TypeInv, TypeOK, getAlias
<1>6. f \in Frame
  BY <1>1, <1>3, <1>4, <1>5 DEF Frame, Segment, Part
<1>7. Sound(f)
  <2>1. f.kind \in SegmentKind /\ f.kind \notin {"Ack", "Reject"} /\ f.src[1] = n
    BY <1>3, <1>5 DEF SegmentKind
  <2>2. letter[n] # Nothing
    BY DEF TypeInv
  <2> HIDE DEF f
  <2> QED
    BY <2>1, <2>2 DEF Sound
<1> QED
  BY <1>5, <1>6, <1>7 DEF Outgoing

\* What is sent in reply to a segment.
LEMMA RepliesTyped ==
  ASSUME TypeInv, NEW n \in Node, NEW f \in Incoming(n), f.kind \in SegmentKind,
         NEW b \in BOOLEAN
  PROVE  setDatagramAck(n, f.src) \in Outgoing(n) /\ setDatagramNak(n, f.src, b) \in Outgoing(n)
<1>1. getAlias(n) \in Alias /\ getAlias(n)[1] = n /\ RejectLength[n] \in Nat
  BY DatagramAssumption DEF TypeInv, TypeOK, getAlias
<1>2. f.src \in Alias /\ letter[f.src[1]] # Nothing
  BY DEF Incoming, Frame, Segment, Reply, LinkFrame, Sound
<1>3. setDatagramAck(n, f.src) \in Frame /\ setDatagramNak(n, f.src, b) \in Frame
  BY <1>1, <1>2 DEF setDatagramAck, setDatagramNak, Frame, Reply
<1>4. Sound(setDatagramAck(n, f.src)) /\ Sound(setDatagramNak(n, f.src, b))
  BY <1>2 DEF setDatagramAck, setDatagramNak, Sound, SegmentKind
<1> QED
  BY <1>1, <1>3, <1>4 DEF setDatagramAck, setDatagramNak, Outgoing

\* The frame at the head of a queue.
LEMMA HeadTyped ==
  ASSUME TypeInv, NEW n \in Node, rxq[n] # <<>>
  PROVE  /\ Head(rxq[n]) \in Incoming(n)
         /\ Tail(rxq[n]) \in Seq(Incoming(n))
         /\ Head(rxq[n]).src \in Alias
         /\ Head(rxq[n]).kind \in SegmentKind => Head(rxq[n]).part \in Part
<1>1. rxq[n] \in Seq(Incoming(n))
  BY DEF TypeInv
<1>2. Head(rxq[n]) \in Incoming(n) /\ Tail(rxq[n]) \in Seq(Incoming(n))
  BY <1>1
<1>3. ASSUME NEW f \in Frame
      PROVE  f.src \in Alias /\ (f.kind \in SegmentKind => f.part \in Part)
  <2>1. CASE f \in Segment
    BY <2>1 DEF Segment
  <2>2. CASE f \in Reply
    BY <2>2 DEF Reply, SegmentKind
  <2>3. CASE f \in LinkFrame
    BY <2>3 DEF LinkFrame, SegmentKind
  <2> QED
    BY <2>1, <2>2, <2>3 DEF Frame
<1> QED
  BY <1>2, <1>3 DEF Incoming

\* The queues and what goes with them.
Queues ==
  /\ txq \in [Node -> Seq(Frame)]
  /\ rxq \in [Node -> Seq(Frame)]
  /\ \A n \in Node :
       /\ txq[n] \in Seq(Outgoing(n))
       /\ rxq[n] \in Seq(Incoming(n))
       /\ link[n] = "off" => txq[n] = <<>> /\ rxq[n] = <<>>

Locals ==
  /\ link \in [Node -> LinkState]
  /\ changes \in [Node -> Nat]
  /\ txType \in [Node -> {"CAN", "OpenLcb"}]
  /\ reservedXmt \in [Node -> BOOLEAN]
  /\ letter \in [Node -> [to : Alias, says : Content] \cup {Nothing}]
  /\ sendcount \in [Node -> Nat]
  /\ fromAlias \in [Node -> Alias \cup {Nothing}]
  /\ rbuf \in [Node -> Seq(Part)]
  /\ taken \in [Node -> BOOLEAN]
  /\ \A n \in Node :
       /\ sendcount[n] > 0 => letter[n] # Nothing
       /\ letter[n] # Nothing => sendcount[n] <= Size[letter[n].says]
       /\ changes[n] <= MaxChanges[n]

LEMMA Split == TypeInv <=> Queues /\ Locals
<1>1. TypeInv => Queues /\ Locals
  BY DEF TypeInv, TypeOK, Queues, Locals
<1>2. ASSUME Queues, Locals PROVE TypeInv
  <2>1. \A n \in Node : getAlias(n) \in Alias
    BY <1>2, AliasIs DEF Locals, getAlias
  <2> QED
    BY <1>2, <2>1 DEF TypeInv, TypeOK, Queues, Locals
<1> QED
  BY <1>1, <1>2

LEMMA SoundKept ==
  ASSUME UNCHANGED letter, NEW n
  PROVE  Outgoing(n)' = Outgoing(n) /\ Incoming(n)' = Incoming(n)
BY DEF Outgoing, Incoming, Sound

\* The driver accepts a frame.
LEMMA SendKeeps ==
  ASSUME Queues, NEW n \in Node, NEW f \in Outgoing(n), link[n] # "off",
         txq' = [txq EXCEPT ![n] = Append(@, f)],
         UNCHANGED <<rxq, letter, link>>
  PROVE  Queues'
<1>1. f \in Frame
  BY DEF Outgoing
<1> QED
  BY <1>1, SoundKept DEF Queues

\* A frame is read, and perhaps answered.
LEMMA ReadKeeps ==
  ASSUME Queues, NEW n \in Node, rxq[n] # <<>>, link[n] # "off",
         rxq' = [rxq EXCEPT ![n] = Tail(@)],
         \/ UNCHANGED txq
         \/ \E f \in Outgoing(n) : txq' = [txq EXCEPT ![n] = Append(@, f)],
         UNCHANGED <<letter, link>>
  PROVE  Queues'
<1>1. rxq' \in [Node -> Seq(Frame)] /\ \A m \in Node : rxq'[m] \in Seq(Incoming(m))
  BY DEF Queues
<1>2. txq' \in [Node -> Seq(Frame)] /\ \A m \in Node : txq'[m] \in Seq(Outgoing(m))
  <2>1. CASE UNCHANGED txq
    BY <2>1 DEF Queues
  <2>2. ASSUME NEW f \in Outgoing(n), txq' = [txq EXCEPT ![n] = Append(@, f)]
        PROVE  txq' \in [Node -> Seq(Frame)] /\ \A m \in Node : txq'[m] \in Seq(Outgoing(m))
    <3>1. f \in Frame
      BY DEF Outgoing
    <3> QED
      BY <2>2, <3>1 DEF Queues
  <2> QED
    BY <2>1, <2>2
<1>3. \A m \in Node \ {n} : txq'[m] = txq[m] /\ rxq'[m] = rxq[m]
  BY DEF Queues
<1> QED
  BY <1>1, <1>2, <1>3, SoundKept DEF Queues

\* A link frame of n.
LEMMA LinkFrameTyped ==
  ASSUME TypeInv, NEW n \in Node, NEW kind \in {"AMD", "AMR", "Other"}
  PROVE  linkFrame(n, kind) \in Outgoing(n)
<1>1. getAlias(n) \in Alias /\ getAlias(n)[1] = n
  BY DEF TypeInv, TypeOK, getAlias
<1>2. linkFrame(n, kind) \in Frame
  BY <1>1 DEF linkFrame, Frame, LinkFrame
<1> QED
  BY <1>1, <1>2 DEF linkFrame, Outgoing, Sound, SegmentKind

LEMMA CheckKeeps ==
  ASSUME TypeInv, NEW n \in Node, check(n)
  PROVE  Queues' /\ Locals'
<1>1. Queues /\ Locals
  BY Split
<1>2. Queues'
  <2>1. sendcount[n] > 0 /\ link[n] # "off"
    BY DEF check
  <2>2. segment(n) \in Outgoing(n) /\ linkFrame(n, "Other") \in Outgoing(n)
    BY <2>1, SegmentTyped, LinkFrameTyped DEF segment
  <2>3. PICK f \in Outgoing(n) : sendWait(n, f)
    BY <2>2 DEF check
  <2>4. UNCHANGED <<rxq, letter, link>>
    BY DEF check
  <2> QED
    BY <1>1, <2>1, <2>3, <2>4, SendKeeps DEF sendWait
<1>3. Locals'
  <2>1. \A m \in Node : letter[m] # Nothing => Size[letter[m].says] \in Nat
    BY <1>1, LetterTyped DEF Locals
  <2>2. /\ sendcount' \in [Node -> Nat]
        /\ \A m \in Node : sendcount'[m] <= sendcount[m]
    BY <1>1 DEF check, Locals, receiver
  <2>3. ASSUME NEW m \in Node
        PROVE  /\ sendcount'[m] > 0 => letter[m] # Nothing
               /\ letter[m] # Nothing => sendcount'[m] <= Size[letter[m].says]
    <3>1. sendcount[m] \in Nat /\ sendcount'[m] \in Nat /\ sendcount'[m] <= sendcount[m]
      BY <1>1, <2>2 DEF Locals
    <3>2. sendcount[m] > 0 => letter[m] # Nothing
      BY <1>1 DEF Locals
    <3>3. letter[m] # Nothing => sendcount[m] <= Size[letter[m].says]
      BY <1>1 DEF Locals
    <3> QED
      BY <2>1, <3>1, <3>2, <3>3
  <2> QED
    BY <1>1, <2>2, <2>3 DEF check, Locals, receiver
<1> QED
  BY <1>2, <1>3

\* The handlers that take no new datagram into the buffer and do not send
\* the old one again.
LEMMA ReadLocals ==
  ASSUME Locals, NEW n \in Node,
         fromAlias' \in [Node -> Alias \cup {Nothing}],
         rbuf' \in [Node -> Seq(Part)],
         reservedXmt' \in [Node -> BOOLEAN],
         taken' \in [Node -> BOOLEAN],
         txType' \in [Node -> {"CAN", "OpenLcb"}],
         UNCHANGED <<link, changes, letter, sendcount>>
  PROVE  Locals'
BY DEF Locals

LEMMA AbortKeeps ==
  ASSUME TypeInv, NEW n \in Node, AbortReception(n)
  PROVE  Queues' /\ Locals'
<1>1. Queues /\ Locals
  BY Split
<1>2. Queues'
  BY <1>1, ReadKeeps DEF AbortReception, GetFrame, sending
<1>3. fromAlias' \in [Node -> Alias \cup {Nothing}] /\ rbuf' \in [Node -> Seq(Part)]
  BY <1>1 DEF AbortReception, Locals
<1> QED
  BY <1>1, <1>2, <1>3, ReadLocals DEF AbortReception, GetFrame, Locals, sending

LEMMA IgnoreKeeps ==
  ASSUME TypeInv, NEW n \in Node, IgnoreFrame(n)
  PROVE  Queues' /\ Locals'
<1>1. Queues /\ Locals
  BY Split
<1>2. Queues'
  BY <1>1, ReadKeeps DEF IgnoreFrame, GetFrame, sending
<1> QED
  BY <1>1, <1>2 DEF IgnoreFrame, GetFrame, Locals, sending, receiver

LEMMA AckKeeps ==
  ASSUME TypeInv, NEW n \in Node, ReceiveAck(n)
  PROVE  Queues' /\ Locals'
<1>1. Queues /\ Locals
  BY Split
<1>2. Queues'
  BY <1>1, ReadKeeps DEF ReceiveAck, Released, GetFrame
<1>3. reservedXmt' \in [Node -> BOOLEAN] /\ taken' \in [Node -> BOOLEAN]
  BY <1>1 DEF ReceiveAck, Released, Locals
<1> QED
  BY <1>1, <1>2, <1>3, ReadLocals DEF ReceiveAck, Released, GetFrame, Locals, receiver

LEMMA RejectKeeps ==
  ASSUME TypeInv, NEW n \in Node, ReceiveReject(n)
  PROVE  Queues' /\ Locals'
<1> DEFINE f == Head(rxq[n])
<1>1. Queues /\ Locals
  BY Split
<1>2. Queues'
  BY <1>1, ReadKeeps DEF ReceiveReject, Released, GetFrame
\* The rejection answers a datagram of n, so the buffer has been filled.
<1>3. letter[n] # Nothing
  <2>1. rxq[n] # <<>> /\ f.kind = "Reject"
    BY DEF ReceiveReject, GetFrame
  <2>2. f \in Incoming(n)
    BY <2>1, HeadTyped
  <2> QED
    BY <2>1, <2>2 DEF Incoming, Sound
<1>a. UNCHANGED <<link, changes>>
  BY DEF ReceiveReject, GetFrame
<1>4. CASE sendcount' = [sendcount EXCEPT ![n] = Size[letter[n].says]]
           /\ UNCHANGED <<txq, txType, reservedXmt, letter, receiver, taken>>
  <2>1. Size[letter[n].says] \in Nat
    BY <1>1, <1>3, LetterTyped DEF Locals
  <2>2. sendcount' \in [Node -> Nat]
    BY <1>1, <1>4, <2>1 DEF Locals
  <2>3. ASSUME NEW m \in Node
        PROVE  /\ sendcount'[m] > 0 => letter[m] # Nothing
               /\ letter[m] # Nothing => sendcount'[m] <= Size[letter[m].says]
    <3>1. CASE m = n
      <4>1. sendcount'[m] = Size[letter[m].says]
        BY <1>1, <1>4, <3>1 DEF Locals
      <4> QED
        BY <1>3, <2>1, <3>1, <4>1
    <3>2. CASE m # n
      <4>1. sendcount'[m] = sendcount[m]
        BY <1>1, <1>4, <3>2 DEF Locals
      <4> QED
        BY <1>1, <4>1 DEF Locals
    <3> QED
      BY <3>1, <3>2
  <2>4. UNCHANGED <<link, changes, txType, reservedXmt, letter, fromAlias, rbuf, taken>>
    BY <1>4, <1>a DEF receiver
  <2> QED
    BY <1>1, <1>2, <2>2, <2>3, <2>4 DEF Locals
<1>5. CASE Released(n)
  <2>1. reservedXmt' \in [Node -> BOOLEAN] /\ taken' \in [Node -> BOOLEAN]
    BY <1>1, <1>5 DEF Released, Locals
  <2>2. fromAlias' \in [Node -> Alias \cup {Nothing}] /\ rbuf' \in [Node -> Seq(Part)]
    BY <1>1, <1>5 DEF Released, Locals, receiver
  <2>3. UNCHANGED <<link, changes, txType, letter, sendcount>>
    BY <1>5, <1>a DEF Released
  <2>4. txType' \in [Node -> {"CAN", "OpenLcb"}]
    BY <1>1, <2>3 DEF Locals
  <2> QED
    BY <1>1, <1>2, <2>1, <2>2, <2>3, <2>4, ReadLocals
<1> QED
  BY <1>4, <1>5 DEF ReceiveReject

LEMMA RefuseKeeps ==
  ASSUME TypeInv, NEW n \in Node, RefuseSegment(n)
  PROVE  Queues' /\ Locals'
<1> DEFINE f == Head(rxq[n])
<1>1. Queues /\ Locals
  BY Split
<1>2. /\ rxq[n] # <<>> /\ link[n] # "off" /\ f.kind \in SegmentKind
      /\ rxq' = [rxq EXCEPT ![n] = Tail(@)]
      /\ UNCHANGED <<letter, link>>
  BY DEF RefuseSegment, ReceiveSegment, GetFrame, sending
<1>3. setDatagramNak(n, f.src, TRUE) \in Outgoing(n)
  BY <1>2, HeadTyped, RepliesTyped
<1>4. \/ UNCHANGED txq
      \/ txq' = [txq EXCEPT ![n] = Append(@, setDatagramNak(n, f.src, TRUE))]
  BY DEF RefuseSegment, reply, sendWait
<1>5. Queues'
  BY <1>1, <1>2, <1>3, <1>4, ReadKeeps
<1>6. txType' \in [Node -> {"CAN", "OpenLcb"}]
  BY <1>1 DEF RefuseSegment, reply, setType, Locals
<1> QED
  BY <1>1, <1>5, <1>6, ReadLocals
  DEF RefuseSegment, ReceiveSegment, GetFrame, Locals, sending, receiver

LEMMA StoreKeeps ==
  ASSUME TypeInv, NEW n \in Node, StoreSegment(n)
  PROVE  Queues' /\ Locals'
<1> DEFINE f == Head(rxq[n])
<1>1. Queues /\ Locals
  BY Split
<1>2. rxq[n] # <<>> /\ f.kind \in SegmentKind
  BY DEF StoreSegment, ReceiveSegment, GetFrame
<1>3. f.src \in Alias /\ f.part \in Part
  BY <1>2, HeadTyped
<1>4. fromAlias' \in [Node -> Alias \cup {Nothing}] /\ rbuf' \in [Node -> Seq(Part)]
  BY <1>1, <1>3 DEF StoreSegment, Locals
<1>5. Queues'
  BY <1>1, ReadKeeps DEF StoreSegment, ReceiveSegment, GetFrame, sending
<1> QED
  BY <1>1, <1>4, <1>5, ReadLocals
  DEF StoreSegment, ReceiveSegment, GetFrame, Locals, sending

LEMMA DeliverKeeps ==
  ASSUME TypeInv, NEW n \in Node, DeliverDatagram(n)
  PROVE  Queues' /\ Locals'
<1> DEFINE f == Head(rxq[n])
<1>1. Queues /\ Locals
  BY Split
<1>2. /\ rxq[n] # <<>> /\ link[n] # "off" /\ f.kind \in SegmentKind
      /\ rxq' = [rxq EXCEPT ![n] = Tail(@)]
      /\ UNCHANGED <<letter, link>>
  BY DEF DeliverDatagram, ReceiveSegment, GetFrame, sending
<1>3. /\ setDatagramAck(n, f.src) \in Outgoing(n)
      /\ setDatagramNak(n, f.src, FALSE) \in Outgoing(n)
  BY <1>2, HeadTyped, RepliesTyped
<1>4. \/ txq' = [txq EXCEPT ![n] = Append(@, setDatagramAck(n, f.src))]
      \/ txq' = [txq EXCEPT ![n] = Append(@, setDatagramNak(n, f.src, FALSE))]
  BY DEF DeliverDatagram, reply, sendWait
<1>5. Queues'
  BY <1>1, <1>2, <1>3, <1>4, ReadKeeps
<1>6. fromAlias' \in [Node -> Alias \cup {Nothing}] /\ rbuf' \in [Node -> Seq(Part)]
  BY <1>1 DEF DeliverDatagram, Locals
<1>7. taken' \in [Node -> BOOLEAN]
  BY <1>1 DEF DeliverDatagram, Locals
<1>8. txType' \in [Node -> {"CAN", "OpenLcb"}]
  BY <1>1 DEF DeliverDatagram, reply, setType, Locals
<1> QED
  BY <1>1, <1>5, <1>6, <1>7, <1>8, ReadLocals
  DEF DeliverDatagram, ReceiveSegment, GetFrame, Locals, sending

\* A frame reaches those that listen to it.
LEMMA TransmitKeeps ==
  ASSUME TypeInv, NEW n \in Node, Transmit(n)
  PROVE  Queues' /\ Locals'
<1> DEFINE f == Head(txq[n])
<1>1. Queues /\ Locals
  BY Split
<1>2. txq[n] \in Seq(Outgoing(n)) /\ txq[n] # <<>>
  BY <1>1 DEF Transmit, Queues
<1>3. f \in Outgoing(n) /\ Tail(txq[n]) \in Seq(Outgoing(n))
  BY <1>2
<1>4. f \in Frame /\ Tail(txq[n]) \in Seq(Frame)
  BY <1>1, <1>2, <1>3 DEF Outgoing, Queues
<1>5. \A m \in Node : Hears(n, m, f) => f \in Incoming(m) /\ link[m] # "off"
  BY <1>3 DEF Hears, Outgoing, Incoming
<1>6. /\ rxq' \in [Node -> Seq(Frame)]
      /\ \A m \in Node : rxq'[m] = IF Hears(n, m, f) THEN Append(rxq[m], f) ELSE rxq[m]
  <2>1. rxq' = [m \in Node |-> IF Hears(n, m, f) THEN Append(rxq[m], f) ELSE rxq[m]]
    BY DEF Transmit
  <2>2. \A m \in Node : Append(rxq[m], f) \in Seq(Frame) /\ rxq[m] \in Seq(Frame)
    BY <1>1, <1>4 DEF Queues
  <2> HIDE DEF f
  <2> QED
    BY <2>1, <2>2
<1>7. /\ txq' \in [Node -> Seq(Frame)]
      /\ txq'[n] = Tail(txq[n])
      /\ \A m \in Node \ {n} : txq'[m] = txq[m]
  BY <1>1, <1>4 DEF Transmit, Queues
<1>8. UNCHANGED <<letter, link>>
  BY DEF Transmit, sending
<1>9. ASSUME NEW m \in Node
      PROVE  /\ txq'[m] \in Seq(Outgoing(m))
             /\ rxq'[m] \in Seq(Incoming(m))
             /\ link[m] = "off" => txq'[m] = <<>> /\ rxq'[m] = <<>>
  <2>1. txq[m] \in Seq(Outgoing(m)) /\ rxq[m] \in Seq(Incoming(m))
    BY <1>1 DEF Queues
  <2>2. txq'[m] \in Seq(Outgoing(m))
    BY <1>3, <1>7, <2>1
  <2>3. rxq'[m] \in Seq(Incoming(m))
    <3>1. CASE Hears(n, m, f)
      <4>1. f \in Incoming(m) /\ rxq'[m] = Append(rxq[m], f)
        BY <1>5, <1>6, <3>1
      <4> QED
        BY <2>1, <4>1
    <3>2. CASE ~Hears(n, m, f)
      BY <1>6, <2>1, <3>2
    <3> QED
      BY <3>1, <3>2
  <2>4. ASSUME link[m] = "off" PROVE txq'[m] = <<>> /\ rxq'[m] = <<>>
    <3>1. txq[m] = <<>> /\ rxq[m] = <<>>
      BY <1>1, <2>4 DEF Queues
    <3>2. m # n /\ ~Hears(n, m, f)
      BY <1>2, <1>5, <2>4, <3>1
    <3> QED
      BY <1>6, <1>7, <3>1, <3>2
  <2> QED
    BY <2>2, <2>3, <2>4
<1>10. Queues'
  BY <1>6, <1>7, <1>8, <1>9, SoundKept DEF Queues
<1> QED
  BY <1>1, <1>10 DEF Transmit, Locals, sending, receiver

\* The link layer, or another handler, sends a frame if the driver takes it.
LEMMA LinkKeeps ==
  ASSUME TypeInv, NEW n \in Node, link[n] # "off",
         NEW kind \in {"AMD", "AMR", "Other"},
         sendIfReady(n, linkFrame(n, kind)) \/ sendWait(n, linkFrame(n, kind)),
         NEW s \in LinkState, s # "off", link' = [link EXCEPT ![n] = s],
         NEW type \in {"CAN", "OpenLcb"}, setType(n, type),
         changes' \in [Node -> Nat], \A m \in Node : changes'[m] <= MaxChanges[m],
         UNCHANGED <<rxq, sending, receiver, taken>>
  PROVE  Queues' /\ Locals'
<1> DEFINE f == linkFrame(n, kind)
<1>1. Queues /\ Locals
  BY Split
<1>2. f \in Outgoing(n) /\ f \in Frame
  BY LinkFrameTyped DEF Outgoing
<1>3. UNCHANGED txq \/ txq' = [txq EXCEPT ![n] = Append(@, f)]
  BY DEF sendIfReady, sendWait
<1>4. UNCHANGED <<rxq, reservedXmt, letter, sendcount, fromAlias, rbuf, taken>>
  BY DEF sending, receiver
<1> HIDE DEF f
<1>5. /\ txq' \in [Node -> Seq(Frame)]
      /\ txq'[n] \in Seq(Outgoing(n))
      /\ \A m \in Node \ {n} : txq'[m] = txq[m]
  <2>1. CASE UNCHANGED txq
    BY <1>1, <2>1 DEF Queues
  <2>2. CASE txq' = [txq EXCEPT ![n] = Append(@, f)]
    BY <1>1, <1>2, <2>2 DEF Queues
  <2> QED
    BY <1>3, <2>1, <2>2
<1>6. /\ link' \in [Node -> LinkState] /\ link'[n] # "off"
      /\ \A m \in Node \ {n} : link'[m] = link[m]
  BY <1>1 DEF Locals
<1>7. Queues'
  <2>1. ASSUME NEW m \in Node
        PROVE  /\ txq'[m] \in Seq(Outgoing(m))
               /\ rxq[m] \in Seq(Incoming(m))
               /\ link'[m] = "off" => txq'[m] = <<>> /\ rxq[m] = <<>>
    BY <1>1, <1>5, <1>6 DEF Queues
  <2>2. rxq \in [Node -> Seq(Frame)]
    BY <1>1 DEF Queues
  <2> QED
    BY <1>4, <1>5, <2>1, <2>2, SoundKept DEF Queues
<1>8. txType' \in [Node -> {"CAN", "OpenLcb"}]
  BY <1>1 DEF setType, Locals
<1>9. Locals'
  BY <1>1, <1>4, <1>6, <1>8 DEF Locals
<1> QED
  BY <1>7, <1>9

LEMMA ChangeKeeps ==
  ASSUME TypeInv, NEW n \in Node, ChangeAlias(n)
  PROVE  Queues' /\ Locals'
<1>1. Queues /\ Locals
  BY Split
<1>2. link[n] # "off" /\ changes[n] < MaxChanges[n]
  BY DEF ChangeAlias, Joining
<1>3. changes' \in [Node -> Nat]
  BY <1>1 DEF ChangeAlias, Locals
<1>4. changes[n] \in Nat /\ MaxChanges[n] \in Nat
  BY <1>1, DatagramAssumption DEF Locals
<1>5. changes'[n] <= MaxChanges[n]
  BY <1>1, <1>2, <1>4 DEF ChangeAlias, Locals
<1>6. \A m \in Node \ {n} : changes'[m] <= MaxChanges[m]
  BY <1>1 DEF ChangeAlias, Locals
<1>7. \A m \in Node : changes'[m] <= MaxChanges[m]
  BY <1>5, <1>6
<1>8. "claiming" \in LinkState
  BY DEF LinkState, Joining
<1> QED
  BY <1>2, <1>3, <1>7, <1>8, LinkKeeps DEF ChangeAlias

\* What the link layer sends on the way to an alias, its answers, and those
\* of other handlers.
LEMMA JoinKeeps ==
  ASSUME TypeInv, NEW n \in Node,
         \/ Claimed(n) \/ SendAMD(n) \/ SendInitComplete(n)
         \/ AnswerAME(n) \/ AnswerCIM(n) \/ SendMessage(n)
  PROVE  Queues' /\ Locals'
<1>1. Queues /\ Locals
  BY Split
<1>2. link[n] # "off"
  BY DEF Claimed, SendAMD, SendInitComplete, AnswerAME, AnswerCIM, SendMessage, Joining
<1>3. PICK kind \in {"AMD", "AMR", "Other"} :
        sendIfReady(n, linkFrame(n, kind)) \/ sendWait(n, linkFrame(n, kind))
  BY DEF Claimed, SendAMD, SendInitComplete, AnswerAME, AnswerCIM, SendMessage
<1>4. PICK type \in {"CAN", "OpenLcb"} : setType(n, type)
  BY DEF Claimed, SendAMD, SendInitComplete, AnswerAME, AnswerCIM, SendMessage
<1>5. UNCHANGED <<changes, rxq, sending, receiver, taken>>
  BY DEF Claimed, SendAMD, SendInitComplete, AnswerAME, AnswerCIM, SendMessage
<1>6. \E s \in LinkState : s # "off" /\ link' = [link EXCEPT ![n] = s]
  <2>1. CASE Claimed(n)
    BY <2>1 DEF Claimed, LinkState, Joining
  <2>2. CASE SendAMD(n)
    BY <2>2 DEF SendAMD, LinkState, Joining
  <2>3. CASE SendInitComplete(n)
    <3>1. /\ link[n] = "permitted" \/ link[n] = "unannounced"
          /\ link' = [link EXCEPT ![n] = IF Ready(n) THEN "up"
                                        ELSE IF link[n] = "permitted" THEN link[n]
                                        ELSE "assigned"]
      BY <2>3 DEF SendInitComplete
    <3> QED
      BY <3>1 DEF LinkState, Joining
  <2>4. CASE UNCHANGED link
    <3>1. link[n] \in LinkState /\ link' = [link EXCEPT ![n] = link[n]]
      BY <1>1, <2>4 DEF Locals
    <3> QED
      BY <1>2, <3>1
  <2> QED
    BY <2>1, <2>2, <2>3, <2>4 DEF AnswerAME, AnswerCIM, SendMessage
<1>7. changes' \in [Node -> Nat] /\ \A m \in Node : changes'[m] <= MaxChanges[m]
  BY <1>1, <1>5 DEF Locals
<1> QED
  BY <1>2, <1>3, <1>4, <1>5, <1>6, <1>7, LinkKeeps

LEMMA DiscardKeeps ==
  ASSUME TypeInv, NEW n \in Node, DiscardFrame(n)
  PROVE  Queues' /\ Locals'
<1>1. Queues /\ Locals
  BY Split
<1>2. Queues'
  <2>1. link[n] # "off"
    BY DEF DiscardFrame, Joining
  <2> QED
    BY <1>1, <2>1, ReadKeeps DEF DiscardFrame, sending
<1> QED
  BY <1>1, <1>2 DEF DiscardFrame, Locals, sending, receiver

LEMMA OffKeeps ==
  ASSUME TypeInv, NEW n \in Node, PowerOff(n)
  PROVE  Queues' /\ Locals'
<1>1. Queues /\ Locals
  BY Split
<1>2. /\ link' = [link EXCEPT ![n] = "off"]
      /\ txq' = [txq EXCEPT ![n] = <<>>]
      /\ rxq' = [rxq EXCEPT ![n] = <<>>]
      /\ UNCHANGED <<changes, txType, reservedXmt, letter, sendcount, fromAlias, rbuf, taken>>
  BY DEF PowerOff, sending, receiver
<1>3. txq' \in [Node -> Seq(Frame)] /\ rxq' \in [Node -> Seq(Frame)]
  BY <1>1, <1>2 DEF Queues
<1>4. \A m \in Node \ {n} : txq'[m] = txq[m] /\ rxq'[m] = rxq[m] /\ link'[m] = link[m]
  BY <1>1, <1>2 DEF Queues, Locals
<1>5. txq'[n] = <<>> /\ rxq'[n] = <<>>
  BY <1>1, <1>2 DEF Queues
<1>6. Queues'
  BY <1>1, <1>2, <1>3, <1>4, <1>5, SoundKept DEF Queues
<1> QED
  BY <1>1, <1>2, <1>6 DEF Locals, LinkState

\* A node whose power comes on has nobody else's frames to it, nor has
\* anybody frames of it, but for a segment to be sent.
LEMMA OnKeeps ==
  ASSUME TypeInv, NEW n \in Node, PowerOn(n)
  PROVE  Queues' /\ Locals'
<1> DEFINE f == [kind |-> "Other", src |-> <<n, 0>>]
<1>1. Queues /\ Locals
  BY Split
<1>2. /\ link[n] = "off"
      /\ Forgotten(n)
      /\ link' = [link EXCEPT ![n] = "assigned"]
      /\ changes' = [changes EXCEPT ![n] = 0]
      /\ txq' = [txq EXCEPT ![n] = <<f>>]
      /\ txType' = [txType EXCEPT ![n] = "CAN"]
      /\ reservedXmt' = [reservedXmt EXCEPT ![n] = FALSE]
      /\ letter' = [letter EXCEPT ![n] = Nothing]
      /\ sendcount' = [sendcount EXCEPT ![n] = 0]
      /\ fromAlias' = [fromAlias EXCEPT ![n] = Nothing]
      /\ rbuf' = [rbuf EXCEPT ![n] = <<>>]
      /\ taken' = [taken EXCEPT ![n] = FALSE]
      /\ UNCHANGED rxq
  BY DEF PowerOn, setType
<1>3. <<n, 0>> \in Alias
  <2>1. 0 \in Nat /\ 0 <= MaxChanges[n]
    BY DatagramAssumption
  <2> QED
    BY <2>1, AliasIs
<1>4. f \in Frame
  BY <1>3 DEF Frame, LinkFrame
<1>5. f \in Outgoing(n)'
  BY <1>4 DEF Outgoing, Sound, SegmentKind
<1> HIDE DEF f
<1>6. \A m \in Node \ {n} : letter'[m] = letter[m] /\ txq'[m] = txq[m] /\ link'[m] = link[m]
  BY <1>1, <1>2 DEF Queues, Locals
<1>7. txq' \in [Node -> Seq(Frame)] /\ txq'[n] = <<f>> /\ link'[n] = "assigned"
  BY <1>1, <1>2, <1>4 DEF Queues, Locals
\* Frames that are not about n are as sound as before.
<1>8. ASSUME NEW g \in Frame, Sound(g),
             g.kind \in SegmentKind => g.src[1] # n,
             g.kind \in {"Ack", "Reject"} => g.dst[1] # n
      PROVE  Sound(g)'
  <2>1. g.kind \in SegmentKind => letter'[g.src[1]] # Nothing
    <3>1. CASE g \in Segment
      <4>1. g.src \in Alias
        BY <3>1 DEF Segment
      <4>2. g.src[1] \in Node
        BY <4>1 DEF Alias
      <4> QED
        BY <1>6, <1>8, <4>2 DEF Sound
    <3>2. CASE g \notin Segment
      BY <3>2 DEF Frame, Reply, LinkFrame, SegmentKind
    <3> QED
      BY <3>1, <3>2
  <2>2. g.kind \in {"Ack", "Reject"} => letter'[g.dst[1]] # Nothing
    <3>1. CASE g \in Reply
      <4>1. g.dst \in Alias
        BY <3>1 DEF Reply
      <4>2. g.dst[1] \in Node
        BY <4>1 DEF Alias
      <4> QED
        BY <1>6, <1>8, <4>2 DEF Sound
    <3>2. CASE g \notin Reply
      BY <3>2 DEF Frame, Segment, LinkFrame, SegmentKind
    <3> QED
      BY <3>1, <3>2
  <2> QED
    BY <2>1, <2>2 DEF Sound
<1>9. rxq[n] = <<>>
  BY <1>1, <1>2 DEF Queues
<1>10. ASSUME NEW m \in Node \ {n}
       PROVE  txq'[m] \in Seq(Outgoing(m)') /\ rxq'[m] \in Seq(Incoming(m)')
  <2>1. txq[m] \in Seq(Outgoing(m)) /\ rxq[m] \in Seq(Incoming(m))
    BY <1>1 DEF Queues
  <2>2. ASSUME NEW g \in ToSet(txq[m])
        PROVE  g \in Outgoing(m)'
    <3>1. g \in Outgoing(m)
      BY <2>1 DEF ToSet
    <3>2. ~(g.kind \in {"Ack", "Reject"} /\ g.dst[1] = n)
      BY <1>2 DEF Forgotten
    <3>3. g \in Frame /\ g.src[1] = m /\ Sound(g)
      BY <3>1 DEF Outgoing
    <3> QED
      BY <1>8, <3>2, <3>3 DEF Outgoing
  <2>3. ASSUME NEW g \in ToSet(rxq[m])
        PROVE  g \in Incoming(m)'
    <3>1. g \in Incoming(m)
      BY <2>1 DEF ToSet
    <3>2. g.src[1] # n
      BY <1>2 DEF Forgotten
    <3>3. g \in Frame /\ Sound(g) /\ g.src[1] # m
          /\ (g.kind \notin {"AMD", "AMR"} => g.kind \in Addressed /\ g.dst[1] = m)
      BY <3>1 DEF Incoming
    <3> QED
      BY <1>8, <3>2, <3>3 DEF Incoming
  <2>4. txq'[m] = txq[m] /\ rxq'[m] = rxq[m]
    BY <1>2, <1>6
  <2>5. txq[m] \in Seq(Outgoing(m)')
    BY <2>1, <2>2, QueueWidens
  <2>6. rxq[m] \in Seq(Incoming(m)')
    BY <2>1, <2>3, QueueWidens
  <2> QED
    BY <2>4, <2>5, <2>6
<1>11. Queues'
  <2>1. txq'[n] \in Seq(Outgoing(n)') /\ rxq'[n] \in Seq(Incoming(n)')
    BY <1>2, <1>5, <1>7, <1>9
  <2>2. \A m \in Node : link'[m] = "off" => txq'[m] = <<>> /\ rxq'[m] = <<>>
    BY <1>1, <1>2, <1>6, <1>7 DEF Queues
  <2>3. rxq' \in [Node -> Seq(Frame)]
    BY <1>1, <1>2 DEF Queues
  <2> QED
    BY <1>7, <1>10, <2>1, <2>2, <2>3 DEF Queues
<1>12. Locals'
  <2>1. /\ link' \in [Node -> LinkState]
        /\ changes' \in [Node -> Nat]
        /\ txType' \in [Node -> {"CAN", "OpenLcb"}]
        /\ reservedXmt' \in [Node -> BOOLEAN]
        /\ letter' \in [Node -> [to : Alias, says : Content] \cup {Nothing}]
        /\ sendcount' \in [Node -> Nat]
        /\ fromAlias' \in [Node -> Alias \cup {Nothing}]
        /\ rbuf' \in [Node -> Seq(Part)]
        /\ taken' \in [Node -> BOOLEAN]
    BY <1>1, <1>2 DEF Locals, LinkState, Joining
  <2>2. ASSUME NEW m \in Node
        PROVE  /\ sendcount'[m] > 0 => letter'[m] # Nothing
               /\ letter'[m] # Nothing => sendcount'[m] <= Size[letter'[m].says]
               /\ changes'[m] <= MaxChanges[m]
    <3>1. CASE m = n
      <4>1. sendcount'[m] = 0 /\ letter'[m] = Nothing /\ changes'[m] = 0
        BY <1>1, <1>2, <3>1 DEF Locals
      <4>2. 0 <= MaxChanges[m]
        BY DatagramAssumption
      <4> QED
        BY <4>1, <4>2
    <3>2. CASE m # n
      <4>1. /\ sendcount'[m] = sendcount[m]
            /\ letter'[m] = letter[m]
            /\ changes'[m] = changes[m]
        BY <1>1, <1>2, <3>2 DEF Locals
      <4> QED
        BY <1>1, <4>1 DEF Locals
    <3> QED
      BY <3>1, <3>2
  <2> QED
    BY <2>1, <2>2 DEF Locals
<1> QED
  BY <1>11, <1>12

\* A datagram is posted: the buffer was perhaps empty until now.
LEMMA SendKeepsTypes ==
  ASSUME TypeInv, NEW n \in Node, NEW m \in Node, NEW c \in Content,
         sendTransmitBuffer(n, m, c)
  PROVE  Queues' /\ Locals'
<1> DEFINE l == [to |-> getAlias(m), says |-> c]
<1>1. Queues /\ Locals
  BY Split
<1>2. /\ reservedXmt' = [reservedXmt EXCEPT ![n] = TRUE]
      /\ letter' = [letter EXCEPT ![n] = l]
      /\ sendcount' = [sendcount EXCEPT ![n] = Size[c]]
      /\ UNCHANGED <<link, changes, txq, txType, rxq, fromAlias, rbuf, taken>>
  BY DEF sendTransmitBuffer, receiver
<1>3. l \in [to : Alias, says : Content] /\ l # Nothing /\ l.says = c
  <2>1. getAlias(m) \in Alias
    BY DEF TypeInv, TypeOK
  <2> QED
    BY <2>1, DatagramAssumption
<1> HIDE DEF l
<1>4. letter'[n] = l /\ \A k \in Node \ {n} : letter'[k] = letter[k]
  BY <1>1, <1>2 DEF Locals
<1>5. ASSUME NEW g, Sound(g),
             g.kind \in SegmentKind => g.src[1] \in Node,
             g.kind \in {"Ack", "Reject"} => g.dst[1] \in Node
      PROVE  Sound(g)'
  BY <1>3, <1>4, <1>5 DEF Sound
<1>6. ASSUME NEW g \in Frame, Sound(g) PROVE Sound(g)'
  <2>1. g.kind \in SegmentKind => g.src[1] \in Node
    <3>1. g.src \in Alias
      BY DEF Frame, Segment, Reply, LinkFrame
    <3> QED
      BY <3>1 DEF Alias
  <2>2. g.kind \in {"Ack", "Reject"} => g.dst[1] \in Node
    <3>1. CASE g \in Reply
      <4>1. g.dst \in Alias
        BY <3>1 DEF Reply
      <4> QED
        BY <4>1 DEF Alias
    <3>2. CASE g \notin Reply
      BY <3>2 DEF Frame, Segment, LinkFrame, SegmentKind
    <3> QED
      BY <3>1, <3>2
  <2> QED
    BY <1>5, <1>6, <2>1, <2>2
<1>7. ASSUME NEW k \in Node
      PROVE  txq[k] \in Seq(Outgoing(k)') /\ rxq[k] \in Seq(Incoming(k)')
  <2>1. txq[k] \in Seq(Outgoing(k)) /\ rxq[k] \in Seq(Incoming(k))
    BY <1>1 DEF Queues
  <2>2. ASSUME NEW g \in ToSet(txq[k]) PROVE g \in Outgoing(k)'
    <3>1. g \in Outgoing(k)
      BY <2>1 DEF ToSet
    <3> QED
      BY <1>6, <3>1 DEF Outgoing
  <2>3. ASSUME NEW g \in ToSet(rxq[k]) PROVE g \in Incoming(k)'
    <3>1. g \in Incoming(k)
      BY <2>1 DEF ToSet
    <3> QED
      BY <1>6, <3>1 DEF Incoming
  <2>4. txq[k] \in Seq(Outgoing(k)')
    BY <2>1, <2>2, QueueWidens
  <2>5. rxq[k] \in Seq(Incoming(k)')
    BY <2>1, <2>3, QueueWidens
  <2> QED
    BY <2>4, <2>5
<1>8. Queues'
  BY <1>1, <1>2, <1>7 DEF Queues
<1>9. Locals'
  <2>1. Size[c] \in Nat
    BY DatagramAssumption
  <2>2. /\ reservedXmt' \in [Node -> BOOLEAN]
        /\ letter' \in [Node -> [to : Alias, says : Content] \cup {Nothing}]
        /\ sendcount' \in [Node -> Nat]
    BY <1>1, <1>2, <1>3, <2>1 DEF Locals
  <2>3. ASSUME NEW k \in Node
        PROVE  /\ sendcount'[k] > 0 => letter'[k] # Nothing
               /\ letter'[k] # Nothing => sendcount'[k] <= Size[letter'[k].says]
    <3>1. CASE k = n
      <4>1. sendcount'[k] = Size[c]
        BY <1>1, <1>2, <3>1 DEF Locals
      <4> QED
        BY <1>3, <1>4, <2>1, <3>1, <4>1
    <3>2. CASE k # n
      <4>1. sendcount'[k] = sendcount[k] /\ letter'[k] = letter[k]
        BY <1>1, <1>2, <3>2 DEF Locals
      <4> QED
        BY <1>1, <4>1 DEF Locals
    <3> QED
      BY <3>1, <3>2
  <2>4. UNCHANGED <<link, changes, txType, fromAlias, rbuf, taken>>
    BY <1>2
  <2> QED
    BY <1>1, <2>2, <2>3, <2>4 DEF Locals
<1> QED
  BY <1>8, <1>9

LEMMA StepKeeps == TypeInv /\ [Next]_vars => Queues' /\ Locals'
<1> SUFFICES ASSUME TypeInv, [Next]_vars PROVE Queues' /\ Locals'
  OBVIOUS
<1>1. ASSUME NEW n \in Node, check(n) PROVE Queues' /\ Locals'
  BY <1>1, CheckKeeps
<1>2. ASSUME NEW n \in Node, receivedFrame(n) PROVE Queues' /\ Locals'
  BY <1>2, AbortKeeps, IgnoreKeeps, AckKeeps, RejectKeeps, RefuseKeeps, StoreKeeps,
     DeliverKeeps DEF receivedFrame
<1>3. ASSUME NEW n \in Node,
             \/ Transmit(n) \/ ChangeAlias(n) \/ DiscardFrame(n) \/ Claimed(n)
             \/ SendAMD(n) \/ SendInitComplete(n) \/ AnswerAME(n) \/ AnswerCIM(n)
             \/ SendMessage(n) \/ PowerOff(n) \/ PowerOn(n)
      PROVE  Queues' /\ Locals'
  BY <1>3, TransmitKeeps, ChangeKeeps, DiscardKeeps, JoinKeeps, OffKeeps, OnKeeps
<1>4. ASSUME NEW p \in Posts, sendTransmitBuffer(p[1], p[2], p[3])
      PROVE  Queues' /\ Locals'
  <2>1. p[1] \in Node /\ p[2] \in Node /\ p[3] \in Content
    BY DatagramAssumption
  <2> QED
    BY <1>4, <2>1, SendKeepsTypes
<1>5. CASE UNCHANGED vars
  <2>1. Queues /\ Locals
    BY Split
  <2>2. Queues'
    BY <1>5, <2>1, SoundKept DEF vars, sending, Queues
  <2> QED
    BY <1>5, <2>1, <2>2 DEF vars, sending, receiver, Locals
<1> QED
  BY <1>1, <1>2, <1>3, <1>4, <1>5 DEF Next

\* The variables keep their types: in particular no rejection has a node send
\* again from a buffer it never filled (Datagram.cpp:113), although power
\* fails and aliases change with frames under way.
THEOREM TypeCorrect == Spec => []TypeOK
<1>1. Init => TypeInv
  BY TypeInit
<1>2. TypeInv /\ [Next]_vars => TypeInv'
  <2>1. TypeInv /\ [Next]_vars => Queues' /\ Locals'
    BY StepKeeps
  <2> QED
    BY <2>1, Split, PTL
<1>3. TypeInv => TypeOK
  BY DEF TypeInv
<1> QED
  BY <1>1, <1>2, <1>3, PTL DEF Spec

=============================================================================
