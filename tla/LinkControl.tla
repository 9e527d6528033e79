---------------------------- MODULE LinkControl ----------------------------
(***************************************************************************)
(* The CAN link layer of an OpenLCB node: LinkControl.cpp, as driven by    *)
(* Olcb_loop.  Every node claims a 12-bit alias for itself by sending four *)
(* CIM frames, waiting 200 ms for an objection (RIM), and then announcing  *)
(* the alias (RIM, AMD) and itself (Initialization Complete).  A node that *)
(* sees its alias on another node's frame defends it or gives it up.       *)
(*                                                                         *)
(* Nodes share one broadcast bus.  A node's main loop runs against its     *)
(* CAN driver, which empties the transmit slots and fills the receive      *)
(* queue at moments of its own: a step below is the code between two       *)
(* points where the driver's progress can be seen.                         *)
(***************************************************************************)
EXTENDS Naturals, Sequences, SequencesExt

CONSTANTS
  Node,      \* the nodes on the bus
  Alias,     \* the non-zero aliases
  Outside,   \* sender and source alias of the frames of any other equipment
  Anyone,    \* the subject of a frame that concerns no node in particular
  NoFrame,   \* "no frame received in this iteration"
  Period,    \* length of the cycle of each node's alias generator
  AliasAt,   \* AliasAt[n][i]: the alias n's generator yields after i restarts
  TxSlots,   \* frames the driver accepts before it reports "not ready"
  Enquiries, \* what other equipment sends: pairs of a kind and a subject
  RxSlots,   \* bound: the bus is granted while receive queues are this short
  Fickle,    \* bound: the nodes whose power may fail
  MaxQueue   \* bound: new traffic starts only on receive queues this short

STATE_INITIAL == 0
STATE_WAIT_CONFIRM == 10
STATE_ALIAS_ASSIGNED == 20
STATE_PERMITTED == 25
STATE_INITIALIZED == 30

LinkState ==
  0 .. 4 \cup {STATE_WAIT_CONFIRM, STATE_ALIAS_ASSIGNED, STATE_PERMITTED,
               STATE_INITIALIZED}

Kind == {"CIM", "RIM", "AMD", "AMR", "AME", "VerifyNID", "VerifiedNID",
         "InitComplete", "Message"}

(***************************************************************************)
(* A frame: its kind and source alias, the node that sent it (which the    *)
(* wire does not carry), and what it concerns: the node an AME or a global *)
(* Verify names, the alias an addressed Verify names, or, for a RIM that   *)
(* objects to a CIM, the node that sent the CIM (also not on the wire).    *)
(***************************************************************************)
Frame == [kind : Kind, src : Alias \cup {Outside}, from : Node \cup {Outside},
          to : Node \cup Alias \cup {Anyone, Outside}]

ASSUME LinkAssumption ==
  /\ Outside \notin Node \cup Alias
  /\ Anyone \notin Node \cup Alias
  /\ Period \in Nat \ {0}
  /\ AliasAt \in [Node -> [0 .. Period - 1 -> Alias]]
  /\ TxSlots \in Nat \ {0}
  /\ Enquiries \subseteq {"AME", "VerifyNID", "Message"} \X (Node \cup Alias \cup {Anyone})
  /\ RxSlots \in Nat \ {0}
  /\ Fickle \subseteq Node
  /\ MaxQueue \in Nat
  /\ NoFrame \notin Frame

VARIABLES
  on,      \* on[n]: n has power
  state,   \* LinkControl::state
  pos,     \* restarts of the alias generator so far, modulo Period
  txSrc,   \* source alias standing in the shared txBuffer
  txq,     \* frames the driver of n has accepted and not yet sent
  rxq,     \* frames the driver of n has received and n has not yet read
  rx,      \* rxBuffer: the frame this iteration of Olcb_loop works on
  pc       \* where in Olcb_loop n is

vars == <<on, state, pos, txSrc, txq, rxq, rx, pc>>

getAlias(n) == AliasAt[n][pos[n]]

OwnFrame(n, kind, to) == [kind |-> kind, src |-> getAlias(n), from |-> n, to |-> to]

-----------------------------------------------------------------------------
(* Sending                                                                 *)

\* OpenLcb_can_xmt_ready
Ready(n) == Len(txq[n]) < TxSlots

\* Mutant: the frame is built only once the driver is known to be ready.
sendFrameLate(n, f) ==
  /\ txSrc' = [txSrc EXCEPT ![n] = IF Ready(n) THEN f.src ELSE @]
  /\ txq' = [txq EXCEPT ![n] = IF Ready(n) THEN Append(@, f) ELSE @]

\* LinkControl::sendFrame: the frame is built in txBuffer in any case, and
\* dropped when the driver is not ready for it.
sendFrame(n, f) ==
  /\ txSrc' = [txSrc EXCEPT ![n] = f.src]
  /\ txq' = [txq EXCEPT ![n] = IF Ready(n) THEN Append(@, f) ELSE @]

\* OpenLcb_can_queue_xmt_wait, and every loop around sendFrame: spins until
\* the driver is ready.
sendWait(n, f) == Ready(n) /\ sendFrame(n, f)

-----------------------------------------------------------------------------
(* LinkControl::check                                                      *)

\* The head of an iteration of Olcb_loop: read a received frame, if any.
\* Reading commutes with the driver's steps, so check follows at once.
GetFrame(n) ==
  /\ on[n]
  /\ pc[n] = "loop"
  /\ rx' = [rx EXCEPT ![n] = IF rxq[n] = <<>> THEN NoFrame ELSE Head(rxq[n])]
  /\ rxq' = [rxq EXCEPT ![n] = IF @ = <<>> THEN @ ELSE Tail(@)]
  /\ UNCHANGED on

\* From check on to receivedFrame, or round the loop when no frame came.
ToReceive(n, frame) ==
  pc' = [pc EXCEPT ![n] = IF frame = NoFrame THEN "loop" ELSE "receive"]

\* The node moves on to state s if its frame was accepted.
Advance(n, s) ==
  state' = [state EXCEPT ![n] = IF Ready(n) THEN s ELSE @]

SendCIM(n) ==
  /\ state[n] \in 0 .. 3
  /\ GetFrame(n)
  /\ sendFrame(n, OwnFrame(n, "CIM", Anyone))
  /\ Advance(n, state[n] + 1)
  /\ ToReceive(n, rx'[n])
  /\ UNCHANGED pos

StartWait(n) ==
  /\ state[n] = 4
  /\ GetFrame(n)
  /\ state' = [state EXCEPT ![n] = STATE_WAIT_CONFIRM]
  /\ ToReceive(n, rx'[n])
  /\ UNCHANGED <<pos, txSrc, txq>>

\* An iteration before the 200 ms are over.
KeepWaiting(n) ==
  /\ state[n] = STATE_WAIT_CONFIRM
  /\ GetFrame(n)
  /\ ToReceive(n, rx'[n])
  /\ UNCHANGED <<state, pos, txSrc, txq>>

\* Frames n has received and not yet dealt with.
Received(n) == ToSet(rxq[n]) \cup ({rx[n]} \ {NoFrame})

\* The timing the protocol rests on: within the 200 ms after its last CIM,
\* every node has dealt with the CIMs of n, and n with the objections.
CIMsAnswered(n) ==
  /\ \A f \in ToSet(txq[n]) : f.kind # "CIM"
  /\ \A m \in Node \ {n} :
       /\ \A f \in Received(m) : ~(f.kind = "CIM" /\ f.from = n)
       /\ \A f \in ToSet(txq[m]) : ~(f.kind = "RIM" /\ f.to = n)
  /\ \A f \in Received(n) : ~(f.kind = "RIM" /\ f.to = n)

ConfirmAlias(n) ==
  /\ state[n] = STATE_WAIT_CONFIRM
  /\ CIMsAnswered(n)
  /\ GetFrame(n)
  /\ sendFrame(n, OwnFrame(n, "RIM", Anyone))
  /\ Advance(n, STATE_ALIAS_ASSIGNED)
  /\ ToReceive(n, rx'[n])
  /\ UNCHANGED pos

\* The case falls through into the next one whether or not the AMD went out.
SendAMD(n) ==
  /\ state[n] = STATE_ALIAS_ASSIGNED
  /\ GetFrame(n)
  /\ sendFrame(n, OwnFrame(n, "AMD", Anyone))
  /\ Advance(n, STATE_PERMITTED)
  /\ pc' = [pc EXCEPT ![n] = "init"]
  /\ UNCHANGED pos

FallThroughToInit(n) ==
  /\ on[n]
  /\ pc[n] = "init"
  /\ sendFrame(n, OwnFrame(n, "InitComplete", Anyone))
  /\ Advance(n, STATE_INITIALIZED)
  /\ ToReceive(n, rx[n])
  /\ UNCHANGED <<on, pos, rxq, rx>>

SendInitComplete(n) ==
  /\ state[n] = STATE_PERMITTED
  /\ GetFrame(n)
  /\ sendFrame(n, OwnFrame(n, "InitComplete", Anyone))
  /\ Advance(n, STATE_INITIALIZED)
  /\ ToReceive(n, rx'[n])
  /\ UNCHANGED pos

CheckInitialized(n) ==
  /\ state[n] = STATE_INITIALIZED
  /\ rxq[n] # <<>>
  /\ GetFrame(n)
  /\ ToReceive(n, rx'[n])
  /\ UNCHANGED <<state, pos, txSrc, txq>>

check(n) ==
  \/ SendCIM(n)
  \/ StartWait(n)
  \/ KeepWaiting(n)
  \/ ConfirmAlias(n)
  \/ SendAMD(n)
  \/ FallThroughToInit(n)
  \/ SendInitComplete(n)
  \/ CheckInitialized(n)

-----------------------------------------------------------------------------
(* LinkControl::receivedFrame                                              *)

Receiving(n) ==
  /\ on[n]
  /\ pc[n] = "receive"
  /\ rx' = [rx EXCEPT ![n] = NoFrame]
  /\ pc' = [pc EXCEPT ![n] = "loop"]
  /\ UNCHANGED <<on, rxq>>

\* Mutant: the objection is dropped when the driver is busy.
DefendAliasOnce(n) ==
  /\ Receiving(n)
  /\ rx[n].src = getAlias(n)
  /\ rx[n].kind = "CIM"
  /\ sendFrame(n, OwnFrame(n, "RIM", rx[n].from))
  /\ UNCHANGED <<state, pos>>

\* Another node tries to allocate our alias: insist on telling it.
DefendAlias(n) ==
  /\ Receiving(n)
  /\ rx[n].src = getAlias(n)
  /\ rx[n].kind = "CIM"
  /\ sendWait(n, OwnFrame(n, "RIM", rx[n].from))
  /\ UNCHANGED <<state, pos>>

\* Mutants: the restart keeps the alias; the restart forgets the wrap; a node
\* past its own RIM takes the next alias without claiming it.
GiveUpKeepsAlias(n) ==
  /\ Receiving(n)
  /\ rx[n].src = getAlias(n)
  /\ rx[n].kind # "CIM"
  /\ sendFrame(n, OwnFrame(n, "AMR", Anyone))
  /\ state' = [state EXCEPT ![n] = STATE_INITIAL]
  /\ UNCHANGED pos

GiveUpNoWrap(n) ==
  /\ Receiving(n)
  /\ rx[n].src = getAlias(n)
  /\ rx[n].kind # "CIM"
  /\ sendFrame(n, OwnFrame(n, "AMR", Anyone))
  /\ state' = [state EXCEPT ![n] = STATE_INITIAL]
  /\ pos' = [pos EXCEPT ![n] = @ + 1]

GiveUpKeepsState(n) ==
  /\ Receiving(n)
  /\ rx[n].src = getAlias(n)
  /\ rx[n].kind # "CIM"
  /\ sendFrame(n, OwnFrame(n, "AMR", Anyone))
  /\ pos' = [pos EXCEPT ![n] = (@ + 1) % Period]
  /\ UNCHANGED state

\* Another node uses our alias: AMR if the driver takes it, and restart.
GiveUpAlias(n) ==
  /\ Receiving(n)
  /\ rx[n].src = getAlias(n)
  /\ rx[n].kind # "CIM"
  /\ sendFrame(n, OwnFrame(n, "AMR", Anyone))
  /\ state' = [state EXCEPT ![n] = STATE_INITIAL]
  /\ pos' = [pos EXCEPT ![n] = (@ + 1) % Period]

AsksForAlias(n, f) == f.kind = "AME" /\ f.to \in {n, Anyone}

\* An addressed Verify carries an alias, a global one a node ID or nothing.
AsksToVerify(n, f) == f.kind = "VerifyNID" /\ f.to \in {n, Anyone, getAlias(n)}

AnswerAME(n) ==
  /\ Receiving(n)
  /\ rx[n].src # getAlias(n)
  /\ AsksForAlias(n, rx[n])
  /\ sendWait(n, OwnFrame(n, "AMD", Anyone))
  /\ UNCHANGED <<state, pos>>

\* setVerifiedNID leaves the source alias that stands in txBuffer.
AnswerVerify(n) ==
  /\ Receiving(n)
  /\ rx[n].src # getAlias(n)
  /\ AsksToVerify(n, rx[n])
  /\ sendWait(n, [OwnFrame(n, "VerifiedNID", Anyone) EXCEPT !.src = txSrc[n]])
  /\ UNCHANGED <<state, pos>>

IgnoreFrame(n) ==
  /\ Receiving(n)
  /\ rx[n].src # getAlias(n)
  /\ ~AsksForAlias(n, rx[n])
  /\ ~AsksToVerify(n, rx[n])
  /\ UNCHANGED <<state, pos, txSrc, txq>>

receivedFrame(n) ==
  \/ DefendAlias(n)
  \/ GiveUpAlias(n)
  \/ AnswerAME(n)
  \/ AnswerVerify(n)
  \/ IgnoreFrame(n)

-----------------------------------------------------------------------------
(* The rest of the node, the bus and the equipment on it                   *)

\* Bounds: power fails when no node works on a frame and no more than
\* MaxQueue frames wait in any receive queue; other equipment starts when,
\* besides, no more wait in the transmit slots of some node, and messages
\* when no more wait in those of any node.
Drained == \A m \in Node : Len(rxq[m]) <= MaxQueue /\ rx[m] = NoFrame
SomeIdle == Drained /\ \E m \in Node : Len(txq[m]) <= MaxQueue
Quiet == Drained /\ \A m \in Node : Len(txq[m]) <= MaxQueue

\* The last part of an iteration: when the link is up, a protocol handler
\* may send a message, reusing the source alias that stands in txBuffer.
Application(n) ==
  /\ on[n]
  /\ pc[n] = "loop"
  /\ state[n] = STATE_INITIALIZED
  /\ Quiet
  /\ sendWait(n, [OwnFrame(n, "Message", Anyone) EXCEPT !.src = txSrc[n]])
  /\ UNCHANGED <<on, state, pos, rxq, rx, pc>>

\* The driver puts the oldest frame on the bus, and the other nodes get it.
Transmit(n) ==
  /\ txq[n] # <<>>
  /\ \A m \in Node \ {n} : on[m] => Len(rxq[m]) < RxSlots
  /\ txq' = [txq EXCEPT ![n] = Tail(@)]
  /\ rxq' = [m \in Node |-> IF on[m] /\ m # n THEN Append(rxq[m], Head(txq[n]))
                                              ELSE rxq[m]]
  /\ UNCHANGED <<on, state, pos, txSrc, rx, pc>>

\* Other equipment asks for aliases or node IDs, or sends anything else.
Enquire(kind, to) ==
  /\ SomeIdle
  /\ rxq' = [m \in Node |->
       IF on[m] THEN Append(rxq[m], [kind |-> kind, src |-> Outside,
                                     from |-> Outside, to |-> to])
                ELSE rxq[m]]
  /\ UNCHANGED <<on, state, pos, txSrc, txq, rx, pc>>

\* setup(): static storage is zero, link.reset() seeds the generator.
PowerOn(n) ==
  /\ ~on[n]
  /\ on' = [on EXCEPT ![n] = TRUE]
  /\ UNCHANGED <<state, pos, txSrc, txq, rxq, rx, pc>>

\* A node without power forgets everything, its driver's queues included.
PowerOff(n) ==
  /\ on[n]
  /\ n \in Fickle
  /\ Drained
  /\ on' = [on EXCEPT ![n] = FALSE]
  /\ state' = [state EXCEPT ![n] = STATE_INITIAL]
  /\ pos' = [pos EXCEPT ![n] = 0]
  /\ txSrc' = [txSrc EXCEPT ![n] = Outside]
  /\ txq' = [txq EXCEPT ![n] = <<>>]
  /\ rxq' = [rxq EXCEPT ![n] = <<>>]
  /\ rx' = [rx EXCEPT ![n] = NoFrame]
  /\ pc' = [pc EXCEPT ![n] = "loop"]

-----------------------------------------------------------------------------

Init ==
  /\ on = [n \in Node |-> FALSE]
  /\ state = [n \in Node |-> STATE_INITIAL]
  /\ pos = [n \in Node |-> 0]
  /\ txSrc = [n \in Node |-> Outside]
  /\ txq = [n \in Node |-> <<>>]
  /\ rxq = [n \in Node |-> <<>>]
  /\ rx = [n \in Node |-> NoFrame]
  /\ pc = [n \in Node |-> "loop"]

Next ==
  \/ \E n \in Node :
       \/ check(n)
       \/ receivedFrame(n)
       \/ Application(n)
       \/ Transmit(n)
       \/ PowerOn(n)
       \/ PowerOff(n)
  \/ \E e \in Enquiries : Enquire(e[1], e[2])

Spec == Init /\ [][Next]_vars

(***************************************************************************)
(* Olcb_loop is called over and over, the driver keeps sending what it has *)
(* accepted, every node is switched on, and millis() goes on, so that some *)
(* iteration of the wait finds the 200 ms over.                            *)
(***************************************************************************)
Fairness ==
  \A n \in Node :
    /\ WF_vars(check(n) \/ receivedFrame(n))
    /\ WF_vars(Transmit(n))
    /\ WF_vars(PowerOn(n))
    /\ SF_vars(ConfirmAlias(n))

FairSpec == Spec /\ Fairness

-----------------------------------------------------------------------------
(* Properties                                                              *)

\* The type of every variable; receivedFrame runs only on a frame.
TypeOK ==
  /\ on \in [Node -> BOOLEAN]
  /\ state \in [Node -> LinkState]
  /\ pos \in [Node -> 0 .. Period - 1]
  /\ txSrc \in [Node -> Alias \cup {Outside}]
  /\ txq \in [Node -> Seq(Frame)]
  /\ rxq \in [Node -> Seq(Frame)]
  /\ rx \in [Node -> Frame \cup {NoFrame}]
  /\ pc \in [Node -> {"loop", "init", "receive"}]
  /\ \A n \in Node : pc[n] = "receive" => rx[n] \in Frame

HoldsAlias(n) ==
  state[n] \in {STATE_ALIAS_ASSIGNED, STATE_PERMITTED, STATE_INITIALIZED}

\* No two nodes ever get past the CIM/RIM exchange with the same alias,
\* however their claims, objections, restarts and power failures interleave.
AliasesUnique ==
  \A m, n \in Node : m # n /\ HoldsAlias(m) /\ HoldsAlias(n) => getAlias(m) # getAlias(n)

\* Why: n has yet to see a CIM of m for the alias m now has, or m has yet
\* to see what n answered to it.
Objection(m, n) ==
  \/ \E f \in ToSet(txq[m]) \cup Received(n) :
        f.kind = "CIM" /\ f.from = m /\ f.src = getAlias(m)
  \/ \E f \in ToSet(txq[n]) \cup Received(m) :
        f.kind = "RIM" /\ f.to = m /\ f.src = getAlias(m)

\* Two nodes that both claim an alias cannot both be unaware of it, and a
\* node that holds an alias has outlasted every objection to its claim.
ClaimInv ==
  /\ \A n \in Node :
       /\ \A f \in ToSet(txq[n]) : f.from = n
       /\ pc[n] = "loop" => rx[n] = NoFrame
       /\ pc[n] = "init" => state[n] \in {STATE_ALIAS_ASSIGNED, STATE_PERMITTED}
       /\ ~on[n] => state[n] = STATE_INITIAL
       /\ HoldsAlias(n) => CIMsAnswered(n)
  /\ \A m, n \in Node :
       /\ m # n
       /\ state[m] # STATE_INITIAL
       /\ state[n] # STATE_INITIAL
       /\ getAlias(m) = getAlias(n)
       => Objection(m, n) \/ Objection(n, m)

\* Seen from outside, the protocol is a registry of aliases: an alias is
\* taken while nobody holds it, and never exchanged for another directly.
Registry == INSTANCE AliasRegistry
  WITH None <- Outside,
       holds <- [n \in Node |-> IF HoldsAlias(n) THEN getAlias(n) ELSE Outside]

ImplementsRegistry == Registry!Spec

\* Every frame a node queues carries the alias the node has at that moment,
\* although most frames reuse the source alias left in the shared txBuffer
\* by an earlier one.
SendsUnderOwnAlias ==
  [][\A n \in Node : Len(txq'[n]) > Len(txq[n]) => Last(txq'[n]).src = getAlias(n)]_vars

\* Nodes that start on the same alias sort themselves out: every node ends
\* up initialized, for good, though an objection also unseats the objector.
LinkComesUp == \A n \in Node : <>[](state[n] = STATE_INITIALIZED)

\* "send AMD to go to Permitted" (LinkControl.cpp:136): a node reports
\* Initialization Complete only from the state its AMD took it to.
AMDBeforeInit ==
  [][\A n \in Node : state'[n] = STATE_INITIALIZED
                       => state[n] \in {STATE_PERMITTED, STATE_INITIALIZED}]_vars

=============================================================================
