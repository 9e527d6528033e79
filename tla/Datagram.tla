------------------------------ MODULE Datagram ------------------------------
(***************************************************************************)
(* The datagram protocol: Datagram.cpp on nodes that send each other       *)
(* datagrams in segments of one frame, the application being one that      *)
(* calls getTransmitBuffer and sendTransmitBuffer in its loop              *)
(* (Configuration::check, the loop of DatagramTest.cpp) and whose callback *)
(* takes some datagrams and turns down others.                             *)
(*                                                                         *)
(* Nodes lose power, and their link layers give up one alias for another,  *)
(* with or without a word: an AMR or AMD the driver has no room for is not *)
(* sent. All handlers build their frames in one buffer, txBuffer, and a    *)
(* segment has whatever frame type the last of them left there: segments   *)
(* that leave as link frames are lost.                                     *)
(*                                                                         *)
(* The handlers of an iteration of Olcb_loop may follow each other in any  *)
(* order here: an iteration without a frame, or with the driver busy,      *)
(* skips the one or the other.                                             *)
(***************************************************************************)
EXTENDS Naturals, Sequences, SequencesExt

CONSTANTS
  Node,         \* the nodes
  Content,      \* what a datagram says
  Size,         \* Size[c]: the number of segments of a datagram that says c
  Posts,        \* what applications send: <<sender, receiver, content>>
  Accepts,      \* <<receiver, content>>: what the callback returns 0 for
  RejectLength, \* RejectLength[n]: bytes of a rejection n sends
  Nothing,      \* "no alias", "no datagram"
  TxSlots,      \* frames the driver accepts before it reports "not ready"
  RxSlots,      \* bound: the bus is granted while receive queues are this short
  Fickle,       \* bound: the nodes whose power may fail
  Enquired,     \* bound: the nodes other equipment sends enquiries
  Contested,    \* bound: the nodes whose alias it tries to claim
  MaxChanges    \* bound: MaxChanges[n]: n's changes of alias before power fails

\* The aliases a node has one after another; only the link layer needs to
\* know more of them.
Alias == UNION {{n} \X (0 .. MaxChanges[n]) : n \in Node}

\* One segment: whose datagram, what it says, which part of it.
Part == Node \X Content \X Nat

SegmentKind == {"First", "Mid", "Last", "All"}

Segment == [kind : SegmentKind, src : Alias, dst : Alias, part : Part]

\* DATAGRAM_REJECTED_BUFFER_FULL and _OUT_OF_ORDER ask for the datagram to
\* be sent again, _DATAGRAM_TYPE_NOT_ACCEPTED does not.
Reply == [kind : {"Ack", "Reject"}, src : Alias, dst : Alias, again : BOOLEAN, length : Nat]

\* Alias map definition and reset, and the frames no Datagram object looks at.
LinkFrame == [kind : {"AMD", "AMR", "Other"}, src : Alias]

Frame == Segment \cup Reply \cup LinkFrame

ASSUME DatagramAssumption ==
  /\ Size \in [Content -> Nat \ {0}]
  /\ Posts \subseteq Node \X Node \X Content
  /\ \A p \in Posts : p[1] # p[2]
  /\ Accepts \subseteq Node \X Content
  /\ RejectLength \in [Node -> Nat]
  /\ Nothing \notin Alias \cup [to : Alias, says : Content] \cup [to : Node, says : Content]
  /\ TxSlots \in Nat \ {0}
  /\ RxSlots \in Nat \ {0}
  /\ Fickle \subseteq Node
  /\ Enquired \subseteq Node
  /\ Contested \subseteq Node
  /\ MaxChanges \in [Node -> Nat]

VARIABLES
  link,        \* the state of LinkControl, below
  changes,     \* times n's link layer has changed the alias
  txq,         \* frames the driver of n has accepted and not yet sent
  txType,      \* the frame type txBuffer has
  rxq,         \* frames the driver of n has received and n has not yet read
  reservedXmt,
  letter,      \* tbuf, resendcount and dest: what the buffer was filled with
  sendcount,   \* segments still to be sent
  fromAlias,   \* the sender of the datagram being received, or Nothing
  rbuf,        \* its segments so far
  taken        \* history: the datagram of n has been accepted

sending == <<reservedXmt, letter, sendcount>>
receiver == <<fromAlias, rbuf>>
vars == <<link, changes, txq, txType, rxq, sending, receiver, taken>>

\* LinkControl::state: before the RIM, before the AMD, after it, and
\* initialized. One that found the driver busy tries Initialization Complete
\* in the same call, "unannounced". "off" is without power, or back and
\* claiming its first alias.
Joining == {"claiming", "assigned", "permitted"}
LinkState == {"off", "unannounced", "up"} \cup Joining

getAlias(n) == <<n, changes[n]>>

receiving(n) == fromAlias[n] # Nothing

-----------------------------------------------------------------------------
(* Sending                                                                 *)

Ready(n) == Len(txq[n]) < TxSlots

\* OpenLcb_can_queue_xmt_wait
sendWait(n, f) == Ready(n) /\ txq' = [txq EXCEPT ![n] = Append(@, f)]

\* OpenLcb_can_xmt_ready, then OpenLcb_can_queue_xmt_wait, as sendFrame does
sendIfReady(n, f) ==
  txq' = IF Ready(n) THEN [txq EXCEPT ![n] = Append(@, f)] ELSE txq

setType(n, type) == txType' = [txType EXCEPT ![n] = type]

linkFrame(n, kind) == [kind |-> kind, src |-> getAlias(n)]

\* getTransmitBuffer and sendTransmitBuffer
sendTransmitBuffer(n, m, c) ==
  /\ link[n] = "up"
  /\ ~reservedXmt[n]
  /\ reservedXmt' = [reservedXmt EXCEPT ![n] = TRUE]
  /\ letter' = [letter EXCEPT ![n] = [to |-> getAlias(m), says |-> c]]
  /\ sendcount' = [sendcount EXCEPT ![n] = Size[c]]
  /\ UNCHANGED <<link, changes, txq, txType, rxq, receiver, taken>>

\* The kind of the segment when k of s are still to be sent.
KindOf(k, s) ==
  CASE k = s /\ k = 1 -> "All"
    [] k = s /\ k > 1 -> "First"
    [] k < s /\ k > 1 -> "Mid"
    [] k < s /\ k = 1 -> "Last"

segment(n) ==
  LET s == Size[letter[n].says]
  IN  [kind |-> KindOf(sendcount[n], s), src |-> getAlias(n), dst |-> letter[n].to,
       part |-> <<n, letter[n].says, s - sendcount[n] + 1>>]

\* setOpenLcbFormat and setDestAlias leave the frame type alone.
check(n) ==
  /\ link[n] = "up"
  /\ sendcount[n] > 0
  /\ sendWait(n, IF txType[n] = "OpenLcb" THEN segment(n) ELSE linkFrame(n, "Other"))
  /\ sendcount' = [sendcount EXCEPT ![n] = @ - 1]
  /\ UNCHANGED <<link, changes, txType, rxq, reservedXmt, letter, receiver, taken>>

-----------------------------------------------------------------------------
(* receivedFrame                                                           *)

\* The next frame is read; the link layer lets it through.
GetFrame(n) ==
  /\ link[n] = "up"
  /\ rxq[n] # <<>>
  /\ rxq' = [rxq EXCEPT ![n] = Tail(@)]
  /\ UNCHANGED <<link, changes>>

\* The frames that have a destination
Addressed == SegmentKind \cup {"Ack", "Reject"}

\* Mutant: only an AMR stops a reception.
EndsReceptionAMR(n, f) == f.kind = "AMR" /\ f.src = fromAlias[n]

EndsReception(n, f) == f.kind \in {"AMR", "AMD"} /\ f.src = fromAlias[n]

\* OpenLcbCanBuffer::isForHere
IsForHere(n, f) == f.kind \in Addressed /\ f.dst = getAlias(n)

AbortReception(n) ==
  /\ GetFrame(n)
  /\ EndsReception(n, Head(rxq[n]))
  /\ fromAlias' = [fromAlias EXCEPT ![n] = Nothing]
  /\ rbuf' = [rbuf EXCEPT ![n] = <<>>]
  /\ UNCHANGED <<txq, txType, sending, taken>>

IgnoreFrame(n) ==
  /\ GetFrame(n)
  /\ ~EndsReception(n, Head(rxq[n]))
  /\ ~IsForHere(n, Head(rxq[n]))
  /\ UNCHANGED <<txq, txType, sending, receiver, taken>>

\* Mutant: every rejection is final.
AsksAgainNever(f) == FALSE

\* "check permanent or temporary"
AsksAgain(f) == f.length < 6 \/ f.again

\* The buffer is released, whoever the reply is from.
Released(n) ==
  /\ reservedXmt' = [reservedXmt EXCEPT ![n] = FALSE]
  /\ taken' = [taken EXCEPT ![n] = FALSE]
  /\ UNCHANGED <<txq, txType, letter, sendcount, receiver>>

ReceiveAck(n) ==
  /\ GetFrame(n)
  /\ IsForHere(n, Head(rxq[n]))
  /\ Head(rxq[n]).kind = "Ack"
  /\ Released(n)

ReceiveReject(n) ==
  /\ GetFrame(n)
  /\ IsForHere(n, Head(rxq[n]))
  /\ Head(rxq[n]).kind = "Reject"
  /\ \/ /\ AsksAgain(Head(rxq[n]))
        /\ sendcount' = [sendcount EXCEPT ![n] = Size[letter[n].says]]
        /\ UNCHANGED <<txq, txType, reservedXmt, letter, receiver, taken>>
     \/ /\ ~AsksAgain(Head(rxq[n]))
        /\ Released(n)

Final(f) == f.kind \in {"Last", "All"}

\* Mutant: the sender of a later segment is not looked at.
FitsAnySender(n, f) ==
  IF f.kind \in {"First", "All"} THEN ~receiving(n) ELSE receiving(n)

\* Whether a segment starts or continues a reception.
Fits(n, f) ==
  IF f.kind \in {"First", "All"} THEN ~receiving(n) ELSE fromAlias[n] = f.src

ReceiveSegment(n) ==
  /\ GetFrame(n)
  /\ IsForHere(n, Head(rxq[n]))
  /\ Head(rxq[n]).kind \in SegmentKind

\* Mutant: setDestAlias before the format says where the destination goes.
setDatagramAckLost(n, to) ==
  [kind |-> "Ack", src |-> getAlias(n), dst |-> Nothing, again |-> FALSE, length |-> 2]

setDatagramAck(n, to) ==
  [kind |-> "Ack", src |-> getAlias(n), dst |-> to, again |-> FALSE, length |-> 2]

setDatagramNak(n, to, again) ==
  [kind |-> "Reject", src |-> getAlias(n), dst |-> to, again |-> again,
   length |-> RejectLength[n]]

\* setDatagramReply starts the frame with init(), which sets the frame type.
reply(n, f) == sendWait(n, f) /\ setType(n, "OpenLcb")

\* Mutant: every segment is rejected, not only the final one.
RefuseEverySegment(n) ==
  LET f == Head(rxq[n]) IN
  /\ ReceiveSegment(n)
  /\ ~Fits(n, f)
  /\ reply(n, setDatagramNak(n, f.src, TRUE))
  /\ UNCHANGED <<sending, receiver, taken>>

\* A segment that does not fit is passed over; the final one is rejected.
RefuseSegment(n) ==
  LET f == Head(rxq[n]) IN
  /\ ReceiveSegment(n)
  /\ ~Fits(n, f)
  /\ \/ Final(f) /\ reply(n, setDatagramNak(n, f.src, TRUE))
     \/ ~Final(f) /\ UNCHANGED <<txq, txType>>
  /\ UNCHANGED <<sending, receiver, taken>>

StoreSegment(n) ==
  LET f == Head(rxq[n]) IN
  /\ ReceiveSegment(n)
  /\ Fits(n, f)
  /\ ~Final(f)
  /\ fromAlias' = [fromAlias EXCEPT ![n] = f.src]
  /\ rbuf' = [rbuf EXCEPT ![n] = Append(@, f.part)]
  /\ UNCHANGED <<txq, txType, sending, taken>>

\* What the callback is given when f ends the datagram.
Handed(n, f) == Append(rbuf[n], f.part)

\* The segments of the datagram m has posted.
PostedParts(m) ==
  [i \in 1 .. Size[letter[m].says] |-> <<m, letter[m].says, i>>]

\* The callback decides by the first byte.
Welcome(n, parts) == <<n, parts[1][2]>> \in Accepts

DeliverDatagram(n) ==
  LET f == Head(rxq[n]) IN
  /\ ReceiveSegment(n)
  /\ Fits(n, f)
  /\ Final(f)
  /\ fromAlias' = [fromAlias EXCEPT ![n] = Nothing]
  /\ rbuf' = [rbuf EXCEPT ![n] = <<>>]
  /\ \/ /\ Welcome(n, Handed(n, f))
        /\ reply(n, setDatagramAck(n, f.src))
        /\ taken' = [m \in Node |-> \/ taken[m]
                                    \/ reservedXmt[m] /\ Handed(n, f) = PostedParts(m)]
     \/ /\ ~Welcome(n, Handed(n, f))
        /\ reply(n, setDatagramNak(n, f.src, FALSE))
        /\ UNCHANGED taken
  /\ UNCHANGED sending

receivedFrame(n) ==
  \/ AbortReception(n)
  \/ IgnoreFrame(n)
  \/ ReceiveAck(n)
  \/ ReceiveReject(n)
  \/ RefuseSegment(n)
  \/ StoreSegment(n)
  \/ DeliverDatagram(n)

-----------------------------------------------------------------------------
(* The bus                                                                 *)

\* Frames the other nodes' Datagram objects would pass over are left out.
Hears(n, m, f) ==
  /\ m # n
  /\ link[m] # "off"
  /\ f.kind \in {"AMD", "AMR"} \/ (f.kind \in Addressed /\ f.dst[1] = m)

Transmit(n) ==
  LET f == Head(txq[n]) IN
  /\ txq[n] # <<>>
  /\ \A m \in Node : Hears(n, m, f) => Len(rxq[m]) < RxSlots
  /\ txq' = [txq EXCEPT ![n] = Tail(@)]
  /\ rxq' = [m \in Node |-> IF Hears(n, m, f) THEN Append(rxq[m], f) ELSE rxq[m]]
  /\ UNCHANGED <<link, changes, txType, sending, receiver, taken>>

-----------------------------------------------------------------------------
(* The link layer, the other handlers, and the power supply                *)

\* The alias is given up. The AMR is dropped if the driver is busy.
ChangeAlias(n) ==
  /\ link[n] \in Joining \cup {"up"}
  /\ changes[n] < MaxChanges[n]
  /\ link' = [link EXCEPT ![n] = "claiming"]
  /\ changes' = [changes EXCEPT ![n] = @ + 1]
  /\ sendIfReady(n, linkFrame(n, "AMR"))
  /\ setType(n, "CAN")
  /\ UNCHANGED <<rxq, sending, receiver, taken>>

\* Olcb_loop keeps frames from the protocols while the link is not up.
DiscardFrame(n) ==
  /\ link[n] \in Joining
  /\ rxq[n] # <<>>
  /\ rxq' = [rxq EXCEPT ![n] = Tail(@)]
  /\ UNCHANGED <<link, changes, txq, txType, sending, receiver, taken>>

\* The 200 ms a node waits for its alias are longer than frames from before,
\* and replies to them, are under way.
Forgotten(n) ==
  \A m \in Node \ {n} :
    /\ \A f \in ToSet(rxq[m]) : f.src[1] # n
    /\ \A f \in ToSet(txq[m]) : ~(f.kind \in {"Ack", "Reject"} /\ f.dst[1] = n)

\* The wait is over: the RIM.
Claimed(n) ==
  /\ link[n] = "claiming"
  /\ txq[n] = <<>>
  /\ Forgotten(n)
  /\ link' = [link EXCEPT ![n] = "assigned"]
  /\ sendWait(n, linkFrame(n, "Other"))
  /\ setType(n, "CAN")
  /\ UNCHANGED <<changes, rxq, sending, receiver, taken>>

\* The AMD. There is no break: when the driver is busy the next case is tried
\* all the same, and if that succeeds the alias is never announced.
SendAMD(n) ==
  /\ link[n] = "assigned"
  /\ link' = [link EXCEPT ![n] = IF Ready(n) THEN "permitted" ELSE "unannounced"]
  /\ sendIfReady(n, linkFrame(n, "AMD"))
  /\ setType(n, "CAN")
  /\ UNCHANGED <<changes, rxq, sending, receiver, taken>>

SendInitComplete(n) ==
  /\ link[n] \in {"permitted", "unannounced"}
  /\ link' = [link EXCEPT ![n] = IF Ready(n) THEN "up"
                                 ELSE IF @ = "permitted" THEN @ ELSE "assigned"]
  /\ sendIfReady(n, linkFrame(n, "Other"))
  /\ setType(n, "OpenLcb")
  /\ UNCHANGED <<changes, rxq, sending, receiver, taken>>

\* Other equipment asks for the alias of n.
AnswerAME(n) ==
  /\ n \in Enquired
  /\ link[n] \in Joining \cup {"up"}
  /\ sendWait(n, linkFrame(n, "AMD"))
  /\ setType(n, "CAN")
  /\ UNCHANGED <<link, changes, rxq, sending, receiver, taken>>

\* Other equipment tries to claim the alias of n: "tell them", by an RIM.
AnswerCIM(n) ==
  /\ n \in Contested
  /\ link[n] \in Joining \cup {"up"}
  /\ sendWait(n, linkFrame(n, "Other"))
  /\ setType(n, "CAN")
  /\ UNCHANGED <<link, changes, rxq, sending, receiver, taken>>

\* The answer of another handler to an enquiry
SendMessage(n) ==
  /\ n \in Enquired
  /\ link[n] \in Joining \cup {"up"}
  /\ sendWait(n, linkFrame(n, "Other"))
  /\ setType(n, "OpenLcb")
  /\ UNCHANGED <<link, changes, rxq, sending, receiver, taken>>

PowerOff(n) ==
  /\ link[n] # "off"
  /\ n \in Fickle
  /\ link' = [link EXCEPT ![n] = "off"]
  /\ txq' = [txq EXCEPT ![n] = <<>>]
  /\ rxq' = [rxq EXCEPT ![n] = <<>>]
  /\ UNCHANGED <<changes, txType, sending, receiver, taken>>

\* The node is back and has claimed its first alias, up to the RIM. What it
\* knew counts as lost only now.
PowerOn(n) ==
  /\ link[n] = "off"
  /\ Forgotten(n)
  /\ link' = [link EXCEPT ![n] = "assigned"]
  /\ changes' = [changes EXCEPT ![n] = 0]
  /\ txq' = [txq EXCEPT ![n] = << [kind |-> "Other", src |-> <<n, 0>>] >>]
  /\ setType(n, "CAN")
  /\ reservedXmt' = [reservedXmt EXCEPT ![n] = FALSE]
  /\ letter' = [letter EXCEPT ![n] = Nothing]
  /\ sendcount' = [sendcount EXCEPT ![n] = 0]
  /\ fromAlias' = [fromAlias EXCEPT ![n] = Nothing]
  /\ rbuf' = [rbuf EXCEPT ![n] = <<>>]
  /\ taken' = [taken EXCEPT ![n] = FALSE]
  /\ UNCHANGED rxq

-----------------------------------------------------------------------------

Init ==
  /\ link = [n \in Node |-> "up"]
  /\ changes = [n \in Node |-> 0]
  /\ txq = [n \in Node |-> <<>>]
  /\ txType = [n \in Node |-> "OpenLcb"]
  /\ rxq = [n \in Node |-> <<>>]
  /\ reservedXmt = [n \in Node |-> FALSE]
  /\ letter = [n \in Node |-> Nothing]
  /\ sendcount = [n \in Node |-> 0]
  /\ fromAlias = [n \in Node |-> Nothing]
  /\ rbuf = [n \in Node |-> <<>>]
  /\ taken = [n \in Node |-> FALSE]

Next ==
  \/ \E n \in Node :
       \/ check(n)
       \/ receivedFrame(n)
       \/ Transmit(n)
       \/ ChangeAlias(n)
       \/ DiscardFrame(n)
       \/ Claimed(n)
       \/ SendAMD(n)
       \/ SendInitComplete(n)
       \/ AnswerAME(n)
       \/ AnswerCIM(n)
       \/ SendMessage(n)
       \/ PowerOff(n)
       \/ PowerOn(n)
  \/ \E p \in Posts : sendTransmitBuffer(p[1], p[2], p[3])

Spec == Init /\ [][Next]_vars

-----------------------------------------------------------------------------
(* Properties                                                              *)

\* The type of every variable.
TypeOK ==
  /\ link \in [Node -> LinkState]
  /\ changes \in [Node -> Nat] /\ \A n \in Node : getAlias(n) \in Alias
  /\ txq \in [Node -> Seq(Frame)]
  /\ txType \in [Node -> {"CAN", "OpenLcb"}]
  /\ rxq \in [Node -> Seq(Frame)]
  /\ reservedXmt \in [Node -> BOOLEAN]
  /\ letter \in [Node -> [to : Alias, says : Content] \cup {Nothing}]
  /\ sendcount \in [Node -> Nat]
  /\ fromAlias \in [Node -> Alias \cup {Nothing}]
  /\ rbuf \in [Node -> Seq(Part)]
  /\ taken \in [Node -> BOOLEAN]

\* rptr is compared with nothing (Datagram.cpp:180): what the receive buffer
\* holds never reaches the length of the datagram that began it, so that room
\* for the longest datagram is room enough.
FitsBuffer ==
  \A n \in Node : rbuf[n] # <<>> => Len(rbuf[n]) < Size[rbuf[n][1][2]]

\* n works on the frame at the head of its queue in this step.
Works(n) == rxq[n] # <<>> /\ link[n] = "up" /\ link'[n] = "up" /\ rxq'[n] = Tail(rxq[n])

\* The callback is given datagrams whole, as their senders posted them, and
\* none once it was accepted, while senders take turns, start again after a
\* rejection, lose power, or change their aliases half way through.
DeliversWhole ==
  [][\A n \in Node :
       LET f == Head(rxq[n]) IN
       /\ Works(n)
       /\ IsForHere(n, f)
       /\ f.kind \in SegmentKind
       /\ Fits(n, f)
       /\ Final(f)
       => \E m \in Node :
            /\ reservedXmt[m]
            /\ ~taken[m]
            /\ letter[m].to = getAlias(n)
            /\ Handed(n, f) = PostedParts(m)]_vars

\* Datagram.cpp:102: nobody but the node a datagram was sent to sends a reply
\* to it, so that not looking at the source of a reply does no harm.
RepliesFromDest ==
  [][\A n \in Node :
       LET f == Head(rxq[n]) IN
       Works(n) /\ IsForHere(n, f) /\ f.kind \in {"Ack", "Reject"}
         => reservedXmt[n] /\ sendcount[n] = 0 /\ letter[n].to = f.src]_vars

\* The transmit buffers, segments and replies amount to a mailbox.
Posted(n) ==
  IF reservedXmt[n] THEN [to |-> letter[n].to[1], says |-> letter[n].says] ELSE Nothing

Wanted(l) == <<l.to, l.says>> \in Accepts

Mail == INSTANCE Mailbox
  WITH Letter <- [to : Node, says : Content], None <- Nothing,
       up <- [n \in Node |-> link[n] # "off"],
       letter <- [n \in Node |-> Posted(n)]

ImplementsMailbox == Mail!Spec

\* "permanent, drop" (Datagram.cpp:118): a datagram of a type its receiver
\* does not accept is not sent again.
PermanentDropped ==
  [][\A n \in Node :
       LET f == Head(rxq[n]) IN
       Works(n) /\ IsForHere(n, f) /\ f.kind = "Reject" /\ ~f.again
         => sendcount'[n] = 0]_vars

=============================================================================
