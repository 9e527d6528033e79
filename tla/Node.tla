-------------------------------- MODULE Node --------------------------------
(***************************************************************************)
(* A node whose link is up, as its main loop runs it: Olcb_loop calls the  *)
(* handlers of the protocols one after another, all of them building their *)
(* frames in the one txBuffer, and clients on the bus ask for what the     *)
(* protocols serve: the node's identification (SNII), its protocols (PIP), *)
(* its configuration (Configuration over Datagram). The events of one      *)
(* input stand for those of the application; RequestSet says how the event *)
(* handler keeps and orders them.                                          *)
(*                                                                         *)
(* A sketch chooses by OLCB_NO_... definitions what is compiled in.        *)
(***************************************************************************)
EXTENDS BlueGold, Sequences, SequencesExt

CONSTANTS
  Client,       \* nodes that ask this one for something
  Nobody,       \* no client
  Settings,     \* records of a sketch's parts (below), of who asks for
                \* what, a set of <<client, request>>, and of Texts
  NumInputs,    \* NUM_INPUTS
  MaxInputScan, \* MAX_INPUT_SCAN: steps of the scan in a round
  ReplyLength,  \* segments of the reply to a read
  ConstCount,   \* const_count: bytes of SNII_const_data
  VarOffset,    \* var_offset: where the user's comment begins
  VarSize,      \* bytes of the EEPROM from the user's name on
  FrameBytes,   \* bytes of text in a frame of an SNII reply
  Texts,        \* what the user may have entered: the places of zero bytes
  TxSlots,      \* frames the driver accepts before it reports "not ready"
  RxSlots,      \* bound: requests that wait in the driver
  MaxEnquiries  \* bound: alias map enquiries

Part == {"Datagram", "BlueGold", "Inputs"}

Request == {"Snii", "Pip", "Read", "Write", "Update", "Odd"}

ASSUME NodeAssumption ==
  /\ Nobody \notin Client
  /\ Settings \subseteq [parts : SUBSET Part,
                         asks : SUBSET (Client \X Request), texts : SUBSET Texts]
  /\ {NumInputs, MaxInputScan} \subseteq Nat
  /\ {ReplyLength, ConstCount, FrameBytes, TxSlots, RxSlots} \subseteq Nat \ {0}
  /\ VarSize \in Nat
  /\ VarOffset \in 0 .. VarSize - 1
  /\ \A z \in Texts : z \subseteq 0 .. VarSize - 1 /\ VarSize - 1 \in z
  /\ MaxEnquiries \in Nat

VARIABLES
  parts,      \* what the sketch has compiled in
  asks,       \* who asks for what
  pc,         \* the handler Olcb_loop calls next
  rxq,        \* frames the driver has received and the loop has not read
  txq,        \* frames the driver has accepted and not yet sent
  txType,     \* the frame type txBuffer has
  reservedXmt,
  sendcount,  \* segments of the reply in tbuf still to be sent
  dest,       \* its addressee
  request,    \* Configuration's request: what is asked for, and by whom
  snii,       \* state, ptr and dest of SNII.cpp
  pip,        \* dest of PIP.cpp while queued
  zeros,      \* the user's texts in the EEPROM: the places of zero bytes
  button,     \* what each input reads
  states,     \* inputStates: what produceFromInputs read last
  scanIndex,  \* inputsScanIndex: the input it reads next
  events,     \* the events of the inputs that are to be sent
  waits,      \* what each client waits for
  got,        \* segments of a reply each client has received
  enquiries,  \* alias map enquiries so far
  stuck,      \* history: the last segment of a reply left as a link frame
  text,       \* history: the bytes of the SNII reply so far, unless torn
  torn,       \* history: the texts have changed since it began
  told,       \* history: the state of each input the last event sent stands for
  crossed     \* history: inputs whose two events waited at a time, or whose
              \* state a reset has forgotten

loopVars == <<parts, asks, pc>>
busVars == <<rxq, txq, txType, waits, got, enquiries>>
datagramVars == <<reservedXmt, sendcount, dest, stuck>>
configVars == <<request, zeros>>
sniiVars == <<snii, text, torn>>
inputVars == <<button, states, scanIndex, events, told, crossed>>
localVars == <<inputVars, bgVars>>
vars == <<loopVars, busVars, datagramVars, configVars, sniiVars, pip, localVars>>

SniiState == {"Const", "Flag", "Name", "Comment", "Done"}

NoRequest == [what |-> "none", from |-> Nobody]

NoSnii == [state |-> "Done", ptr |-> 0, dest |-> Nobody]

Input == 0 .. NumInputs - 1

Frame(type, what, to, part) == [type |-> type, what |-> what, to |-> to, part |-> part]

-----------------------------------------------------------------------------
(* The loop, the driver and the buffer                                     *)

Handlers == <<"receive", "pce", "dg", "cfg", "bg", "pip", "snii", "inputs">>

CompiledIn(h) ==
  /\ h \in {"dg", "cfg"} => "Datagram" \in parts
  /\ h = "bg" => "BlueGold" \in parts
  /\ h = "inputs" => "Inputs" \in parts

\* The handler after h in the order of Olcb_loop, as far as compiled in
After(h) ==
  LET later == {k \in 1 .. Len(Handlers) :
                  CompiledIn(Handlers[k]) /\ \E j \in 1 .. k - 1 : Handlers[j] = h}
  IN  IF later = {} THEN "receive" ELSE Handlers[Min(later)]

Turn(h) == pc = h /\ pc' = After(h) /\ UNCHANGED <<parts, asks>>

Ready == Len(txq) < TxSlots

\* OpenLcb_can_queue_xmt_wait
sendWait(f) == Ready /\ txq' = Append(txq, f)

\* Built with setOpenLcbMTI, which sets the frame type
sendMessage(what, to, part) ==
  sendWait(Frame("OpenLcb", what, to, part)) /\ txType' = "OpenLcb"

NoSend == UNCHANGED <<txq, txType>>

NothingReceived ==
  /\ Turn("receive")
  /\ rxq = <<>>
  /\ UNCHANGED <<busVars, datagramVars, configVars, sniiVars, pip, localVars>>

Receive(what, c) ==
  /\ Turn("receive")
  /\ rxq # <<>>
  /\ Head(rxq) = [what |-> what, from |-> c]
  /\ rxq' = Tail(rxq)
  /\ UNCHANGED <<got, enquiries, localVars>>

\* LinkControl::receivedFrame leaves a link frame in txBuffer.
AnswerAME ==
  /\ Receive("AME", Nobody)
  /\ sendWait(Frame("CAN", "AMD", Nobody, 0))
  /\ txType' = "CAN"
  /\ UNCHANGED <<waits, datagramVars, configVars, sniiVars, pip>>

\* No handler wants it: rejectMessage.
RejectOther(c) ==
  /\ Receive("Odd", c)
  /\ sendMessage("Reject", c, 0)
  /\ UNCHANGED <<waits, datagramVars, configVars, sniiVars, pip>>

-----------------------------------------------------------------------------
(* Blue/Gold                                                               *)

\* At any time an event of another node may arrive which event i of this one
\* consumes: the callback drives its light.
ConsumeEvent ==
  /\ "BlueGold" \in parts
  /\ Turn("receive")
  /\ \E i \in 0 .. NumEvents - 1 : pceCallback(i)
  /\ UNCHANGED <<busVars, datagramVars, configVars, sniiVars, pip, inputVars>>

bg_check ==
  /\ Turn("bg")
  /\ check
  /\ ~ResetsNode
  /\ IF Identifies THEN sendMessage("Ident", Nobody, 0) ELSE NoSend
  /\ UNCHANGED <<rxq, waits, got, enquiries, datagramVars, configVars, sniiVars, pip,
                 inputVars>>

\* The loop's variables start over. What the driver holds is lost; the EEPROM
\* keeps the texts.
bg_reset ==
  /\ pc = "bg"
  /\ factoryReset
  /\ pc' = "receive"
  /\ rxq' = <<>>
  /\ txq' = <<>>
  /\ txType' = "OpenLcb"
  /\ reservedXmt' = FALSE
  /\ sendcount' = 0
  /\ dest' = Nobody
  /\ request' = NoRequest
  /\ snii' = NoSnii
  /\ pip' = Nobody
  /\ states' = [i \in Input |-> FALSE]
  /\ scanIndex' = 0
  /\ events' = {}
  /\ text' = <<>>
  /\ torn' = FALSE
  /\ crossed' = crossed \cup {i \in Input : told[i]}
  /\ UNCHANGED <<parts, asks, zeros, button, waits, got, enquiries, stuck, told>>

-----------------------------------------------------------------------------
(* Events: PCE::check and produceFromInputs                                *)

\* The events of input i: 2i for high, 2i + 1 for low.
EventOf(i, high) == IF high THEN 2 * i ELSE 2 * i + 1

pce_check ==
  /\ Turn("pce")
  /\ IF events = {}
     THEN UNCHANGED <<txq, txType, events, told>>
     ELSE LET r == Min(events)
          IN  /\ sendMessage("Report", Nobody, r)
              /\ events' = events \ {r}
              /\ told' = [told EXCEPT ![r \div 2] = (r % 2 = 0)]
  /\ UNCHANGED <<rxq, waits, got, enquiries, datagramVars, configVars, sniiVars, pip,
                 button, states, scanIndex, crossed, bgVars>>

\* A mutant: an event is not asked for while the input's other one waits.
ScanOnce(s) ==
  LET i == s.index
  IN  IF i = NumInputs THEN [s EXCEPT !.index = 0]
      ELSE [index |-> i + 1,
            states |-> [s.states EXCEPT ![i] = button[i]],
            events |-> IF s.states[i] = button[i] \/ EventOf(i, ~button[i]) \in s.events
                       THEN s.events ELSE s.events \cup {EventOf(i, button[i])}]

\* A mutant, which is DPH-OlcbBasicNode's scan: the index does not move.
ScanFirst(s) ==
  IF s.states[0] = button[0] THEN s
  ELSE [s EXCEPT !.states[0] = button[0], !.events = @ \cup {EventOf(0, button[0])}]

\* The scan reads input i, and asks for an event if it has changed. One step
\* in a round of the scan only takes it back to the first input.
Scan(s) ==
  LET i == s.index
  IN  IF i = NumInputs THEN [s EXCEPT !.index = 0]
      ELSE IF s.states[i] = button[i] THEN [s EXCEPT !.index = i + 1]
      ELSE [index |-> i + 1,
            states |-> [s.states EXCEPT ![i] = button[i]],
            events |-> s.events \cup {EventOf(i, button[i])}]

ScanRound ==
  LET scan[k \in 0 .. MaxInputScan] ==
        IF k = 0 THEN [index |-> scanIndex, states |-> states, events |-> events]
        ELSE Scan(scan[k - 1])
  IN  scan[MaxInputScan]

produceFromInputs ==
  /\ Turn("inputs")
  /\ LET after == ScanRound
     IN  /\ scanIndex' = after.index
         /\ states' = after.states
         /\ events' = after.events
         /\ crossed' = {i \in Input : \/ {2 * i, 2 * i + 1} \subseteq after.events
                                      \/ i \in crossed /\ after.states[i] = states[i]}
  /\ UNCHANGED <<busVars, datagramVars, configVars, sniiVars, pip, button, told, bgVars>>

-----------------------------------------------------------------------------
(* Datagram, as far as Configuration needs it                              *)

\* setOpenLcbFormat and setDestAlias leave the frame type as it is.
dg_check ==
  /\ Turn("dg")
  /\ IF sendcount > 0 /\ Ready
     THEN /\ sendWait(Frame(txType, "Segment", dest, ReplyLength - sendcount + 1))
          /\ sendcount' = sendcount - 1
          /\ stuck' = (stuck \/ (sendcount = 1 /\ txType = "CAN"))
     ELSE UNCHANGED <<txq, sendcount, stuck>>
  /\ UNCHANGED <<rxq, txType, waits, got, enquiries, reservedXmt, dest, configVars,
                 sniiVars, pip, localVars>>

ReceiveAck(c) ==
  /\ Receive("Ack", c)
  /\ reservedXmt' = FALSE
  /\ NoSend
  /\ UNCHANGED <<waits, sendcount, dest, stuck, configVars, sniiVars, pip>>

\* A mutant: nothing is sent again.
ReceiveNakOnce(c) ==
  /\ Receive("Nak", c)
  /\ NoSend
  /\ UNCHANGED <<waits, datagramVars, configVars, sniiVars, pip>>

\* The addressee asks for the datagram again.
ReceiveNak(c) ==
  /\ Receive("Nak", c)
  /\ sendcount' = ReplyLength
  /\ NoSend
  /\ UNCHANGED <<waits, reservedXmt, dest, stuck, configVars, sniiVars, pip>>

-----------------------------------------------------------------------------
(* Configuration                                                           *)

\* receivedDatagram replaces a request that still waits, and the datagram is
\* acknowledged.
receivedDatagram(what, c) ==
  /\ what \in {"Read", "Write", "Update"}
  /\ Receive(what, c)
  /\ request' = [what |-> what, from |-> c]
  /\ sendMessage("RcvOk", c, 0)
  /\ waits' = [d \in Client |->
                 IF d = request.from /\ d # c /\ request.what # "Update" THEN "none"
                 ELSE IF d = c /\ what = "Update" THEN "none" ELSE waits[d]]
  /\ UNCHANGED <<datagramVars, zeros, sniiVars, pip>>

\* A mutant: the request is not taken back.
processReadAgain ==
  /\ request.what = "Read"
  /\ ~reservedXmt
  /\ reservedXmt' = TRUE
  /\ sendcount' = ReplyLength
  /\ dest' = request.from
  /\ UNCHANGED <<waits, stuck, configVars, sniiVars>>

processRead ==
  /\ request.what = "Read"
  /\ ~reservedXmt
  /\ reservedXmt' = TRUE
  /\ sendcount' = ReplyLength
  /\ dest' = request.from
  /\ request' = NoRequest
  /\ UNCHANGED <<waits, stuck, zeros, sniiVars>>

processWrite ==
  /\ request.what = "Write"
  /\ zeros' \in Texts
  /\ torn' = (snii.state # "Done")
  /\ text' = <<>>
  /\ request' = NoRequest
  /\ waits' = [waits EXCEPT ![request.from] = "none"]
  /\ UNCHANGED <<datagramVars, snii>>

\* The end of an update leaves its request in place, and so calls
\* userWriteCB in every round from now on.
KeepRequest ==
  /\ request.what \in {"none", "Update"} \/ (request.what = "Read" /\ reservedXmt)
  /\ UNCHANGED <<waits, datagramVars, configVars, sniiVars>>

cfg_check ==
  /\ Turn("cfg")
  /\ processRead \/ processWrite \/ KeepRequest
  /\ UNCHANGED <<rxq, txq, txType, got, enquiries, pip, localVars>>

-----------------------------------------------------------------------------
(* PIP                                                                     *)

\* A request replaces the one whose reply is queued.
PIP_receivedFrame(c) ==
  /\ Receive("Pip", c)
  /\ pip' = c
  /\ waits' = [d \in Client |-> IF d = pip /\ d # c THEN "none" ELSE waits[d]]
  /\ NoSend
  /\ UNCHANGED <<datagramVars, configVars, sniiVars>>

\* A mutant: a reply the driver has no room for is forgotten.
PIP_checkOnce ==
  /\ Turn("pip")
  /\ IF pip # Nobody /\ Ready THEN sendMessage("Pip", pip, 0) ELSE NoSend
  /\ pip' = Nobody
  /\ UNCHANGED <<rxq, waits, got, enquiries, datagramVars, configVars, sniiVars, localVars>>

PIP_check ==
  /\ Turn("pip")
  /\ IF pip # Nobody /\ Ready
     THEN sendMessage("Pip", pip, 0) /\ pip' = Nobody
     ELSE NoSend /\ UNCHANGED pip
  /\ UNCHANGED <<rxq, waits, got, enquiries, datagramVars, configVars, sniiVars, localVars>>

-----------------------------------------------------------------------------
(* SNII                                                                    *)

\* A mutant: the end of the comment is not seen.
AfterByteOn(state, ptr) ==
  CASE state = "Const" ->
         IF ptr + 1 >= ConstCount THEN <<"Flag", ptr + 1>> ELSE <<"Const", ptr + 1>>
    [] state = "Flag" -> <<"Name", 0>>
    [] state = "Name" ->
         IF ptr \in zeros THEN <<"Comment", VarOffset>> ELSE <<"Name", ptr + 1>>
    [] OTHER -> <<state, ptr + 1>>

\* Where the reply goes on after byte ptr of the state's text.
AfterByte(state, ptr) ==
  CASE state = "Const" ->
         IF ptr + 1 >= ConstCount THEN <<"Flag", ptr + 1>> ELSE <<"Const", ptr + 1>>
    [] state = "Flag" -> <<"Name", 0>>
    [] state = "Name" ->
         IF ptr \in zeros THEN <<"Comment", VarOffset>> ELSE <<"Name", ptr + 1>>
    [] state = "Comment" ->
         IF ptr \in zeros THEN <<"Done", ptr + 1>> ELSE <<"Comment", ptr + 1>>

\* SNII_nextByte, until the frame is full or the reply complete
SniiRun ==
  LET run[k \in 0 .. FrameBytes] ==
        IF k = 0 THEN [at |-> <<snii.state, snii.ptr>>, bytes |-> <<>>]
        ELSE LET before == run[k - 1]
             IN  IF before.at[1] = "Done" THEN before
                 ELSE [at |-> AfterByte(before.at[1], before.at[2]),
                       bytes |-> Append(before.bytes, before.at)]
  IN  run[FrameBytes]

SNII_check ==
  /\ Turn("snii")
  /\ IF snii.state # "Done" /\ Ready
     THEN /\ sendMessage("Snii", snii.dest, IF SniiRun.at[1] = "Done" THEN 1 ELSE 0)
          /\ snii' = [snii EXCEPT !.state = SniiRun.at[1], !.ptr = SniiRun.at[2]]
          /\ text' = IF torn THEN <<>> ELSE text \o SniiRun.bytes
          /\ UNCHANGED torn
     ELSE NoSend /\ UNCHANGED sniiVars
  /\ UNCHANGED <<rxq, waits, got, enquiries, datagramVars, configVars, pip, localVars>>

\* A mutant: ptr is left where the last reply ended.
SNII_receivedFrameOn(c) ==
  /\ Receive("Snii", c)
  /\ snii.state = "Done"
  /\ snii' = [snii EXCEPT !.state = "Const", !.dest = c]
  /\ text' = <<>>
  /\ torn' = FALSE
  /\ NoSend
  /\ UNCHANGED <<waits, datagramVars, configVars, pip>>

SNII_receivedFrame(c) ==
  /\ Receive("Snii", c)
  /\ snii.state = "Done"
  /\ snii' = [state |-> "Const", ptr |-> 0, dest |-> c]
  /\ text' = <<>>
  /\ torn' = FALSE
  /\ NoSend
  /\ UNCHANGED <<waits, datagramVars, configVars, pip>>

\* Busy: rejectMessage, for the client to ask again later
SNII_reject(c) ==
  /\ Receive("Snii", c)
  /\ snii.state # "Done"
  /\ sendMessage("Reject", c, 0)
  /\ UNCHANGED <<waits, datagramVars, configVars, sniiVars, pip>>

-----------------------------------------------------------------------------
(* Clients, the bus, the user                                              *)

Ask(c, what) ==
  /\ <<c, what>> \in asks
  /\ waits[c] = "none"
  /\ Len(rxq) < RxSlots
  /\ rxq' = Append(rxq, [what |-> what, from |-> c])
  /\ waits' = [waits EXCEPT ![c] = what]
  /\ UNCHANGED <<loopVars, txq, txType, got, enquiries, datagramVars, configVars,
                 sniiVars, pip, localVars>>

\* The answer matters to datagrams, which take over its frame type.
Enquire ==
  /\ "Datagram" \in parts
  /\ enquiries < MaxEnquiries
  /\ Len(rxq) < RxSlots
  /\ enquiries' = enquiries + 1
  /\ rxq' = Append(rxq, [what |-> "AME", from |-> Nobody])
  /\ UNCHANGED <<loopVars, txq, txType, waits, got, datagramVars, configVars, sniiVars,
                 pip, localVars>>

\* A client takes segments as Datagram::receivedFrame does: a link frame is
\* none, and a last segment without a first is sent back for another try.
TakeSegment(f) ==
  IF f.type = "CAN" THEN UNCHANGED <<rxq, waits, got>>
  ELSE IF f.part < ReplyLength
  THEN got' = [got EXCEPT ![f.to] = @ + 1] /\ UNCHANGED <<rxq, waits>>
  ELSE IF got[f.to] = 0 /\ ReplyLength > 1
  THEN rxq' = Append(rxq, [what |-> "Nak", from |-> f.to]) /\ UNCHANGED <<waits, got>>
  ELSE /\ rxq' = Append(rxq, [what |-> "Ack", from |-> f.to])
       /\ waits' = [waits EXCEPT ![f.to] = "none"]
       /\ got' = [got EXCEPT ![f.to] = 0]

\* The oldest frame goes out.
Transmit ==
  /\ txq # <<>>
  /\ txq' = Tail(txq)
  /\ LET f == Head(txq)
     IN  CASE f.what = "Segment" -> TakeSegment(f)
           [] f.what \in {"Reject", "Pip"} \/ (f.what = "Snii" /\ f.part = 1) ->
                waits' = [waits EXCEPT ![f.to] = "none"] /\ UNCHANGED <<rxq, got>>
           [] OTHER -> UNCHANGED <<rxq, waits, got>>
  /\ UNCHANGED <<loopVars, txType, enquiries, datagramVars, configVars, sniiVars, pip,
                 localVars>>

Press ==
  /\ "Inputs" \in parts
  /\ \E i \in Input : button' = [button EXCEPT ![i] = ~@]
  /\ UNCHANGED <<loopVars, busVars, datagramVars, configVars, sniiVars, pip, states,
                 scanIndex, events, told, crossed, bgVars>>

\* Nothing but bg_check reads the buttons: a change counts from then on.
PressBlueGold ==
  /\ "BlueGold" \in parts
  /\ pc = "bg"
  /\ PressOrRelease
  /\ UNCHANGED <<loopVars, busVars, datagramVars, configVars, sniiVars, pip, inputVars>>

-----------------------------------------------------------------------------
Init ==
  /\ \E s \in Settings : parts = s.parts /\ asks = s.asks /\ zeros \in s.texts
  /\ pc = "receive"
  /\ rxq = <<>>
  /\ txq = <<>>
  /\ txType = "OpenLcb"
  /\ reservedXmt = FALSE
  /\ sendcount = 0
  /\ dest = Nobody
  /\ request = NoRequest
  /\ snii = NoSnii
  /\ pip = Nobody
  /\ button = [i \in Input |-> FALSE]
  /\ states = [i \in Input |-> FALSE]
  /\ scanIndex = 0
  /\ events = {}
  /\ waits = [c \in Client |-> "none"]
  /\ got = [c \in Client |-> 0]
  /\ enquiries = 0
  /\ stuck = FALSE
  /\ text = <<>>
  /\ torn = FALSE
  /\ told = [i \in Input |-> FALSE]
  /\ crossed = {}
  /\ BGInit

ReceiveFrom(c) ==
  \/ RejectOther(c)
  \/ ReceiveAck(c)
  \/ ReceiveNak(c)
  \/ \E what \in {"Read", "Write", "Update"} : receivedDatagram(what, c)
  \/ PIP_receivedFrame(c)
  \/ SNII_receivedFrame(c)
  \/ SNII_reject(c)

Olcb_loop ==
  \/ NothingReceived
  \/ AnswerAME
  \/ ConsumeEvent
  \/ \E c \in Client : ReceiveFrom(c)
  \/ pce_check
  \/ dg_check
  \/ cfg_check
  \/ bg_check
  \/ bg_reset
  \/ PIP_check
  \/ SNII_check
  \/ produceFromInputs

Next ==
  \/ Olcb_loop
  \/ \E c \in Client, what \in Request : Ask(c, what)
  \/ Enquire
  \/ Transmit
  \/ Press
  \/ PressBlueGold

Spec == Init /\ [][Next]_vars

\* The loop runs for ever, and the bus is granted again and again, at no fixed
\* distance from the loop: a frame that keeps a handler waiting round after
\* round leaves during that handler's turn some time.
FairSpec ==
  /\ Spec
  /\ WF_vars(Olcb_loop)
  /\ WF_vars(Transmit)
  /\ \A h \in {"dg", "pip", "snii"} : SF_vars(pc = h /\ Transmit)

-----------------------------------------------------------------------------
(* Properties                                                              *)

\* Every variable has its type.
TypeOK ==
  /\ \E s \in Settings : parts = s.parts /\ asks = s.asks
  /\ pc \in {"receive", "pce", "dg", "cfg", "bg", "pip", "snii", "inputs"}
  /\ rxq \in Seq([what : Request \cup {"AME", "Ack", "Nak"}, from : Client \cup {Nobody}])
  /\ txType \in {"CAN", "OpenLcb"}
  /\ reservedXmt \in BOOLEAN
  /\ sendcount \in 0 .. ReplyLength
  /\ request.from \in Client \cup {Nobody}
  /\ snii.state \in SniiState
  /\ snii.ptr \in 0 .. ConstCount + VarSize
  /\ pip \in Client \cup {Nobody}
  /\ zeros \in Texts
  /\ states \in [Input -> BOOLEAN]
  /\ scanIndex \in 0 .. NumInputs
  /\ events \subseteq 0 .. 2 * NumInputs - 1
  /\ waits \in [Client -> Request \cup {"none"}]
  /\ got \in [Client -> 0 .. ReplyLength]
  /\ {blue, gold} \subseteq Button
  /\ panel \in Panel

\* Whoever is sent a reply asked for it and still waits: no request is
\* answered twice, and no reply goes to another client than the one that
\* asked, though SNII, PIP, Datagram and Configuration each keep one
\* addressee and take requests of several clients.
AnswersAsked ==
  \A i \in 1 .. Len(txq) :
    /\ txq[i].what = "Segment" => waits[txq[i].to] = "Read"
    /\ txq[i].what = "Snii" => waits[txq[i].to] = "Snii"
    /\ txq[i].what = "Pip" => waits[txq[i].to] = "Pip"

\* The bytes of a text that begins at ptr, up to the first zero.
TextFrom(state, ptr) ==
  LET last == CHOOSE z \in zeros : z >= ptr /\ \A y \in zeros : y >= ptr => z <= y
  IN  [k \in 1 .. last - ptr + 1 |-> <<state, ptr + k - 1>>]

Identification ==
  [k \in 1 .. ConstCount |-> <<"Const", k - 1>>] \o <<<<"Flag", ConstCount>>>>
    \o TextFrom("Name", 0) \o TextFrom("Comment", VarOffset)

\* A complete identification has every byte once and in order, the
\* manufacturer's, the flag, the user's name and the comment, however the
\* frames fall and whatever is sent between them, unless the user's texts
\* were written meanwhile.
IdentifiesWhole ==
  snii.state = "Done" /\ text # <<>> => text = Identification

\* Once no event of an input waits, the last one sent told the input's state,
\* unless both its events waited at a time: they leave in the order of their
\* indices, which need not be that in which they happened. A reset forgets
\* every state but low, and what had been told of it.
TellsLastState ==
  \A i \in Input \ crossed :
    events \cap {2 * i, 2 * i + 1} = {} => told[i] = states[i]

\* Every input is read again and again: none stays unlike what was read last.
NoticesInputs ==
  \A i \in Input : (button[i] # states[i]) ~> (button[i] = states[i])

\* Whatever a client asks for it is given or refused, unless a request of
\* another client takes its place; a read may fail if the last segment of
\* a reply left as a link frame, since txBuffer still had the frame type
\* of an answer to an enquiry.
EveryoneServed ==
  \A c \in Client :
    /\ (waits[c] \in Request \ {"Read"}) ~> (waits[c] = "none")
    /\ (waits[c] = "Read") ~> (waits[c] = "none" \/ stuck)

\* The transmit buffer is given back in the end, and a request that waits for
\* it taken up, unless the last segment of a reply left as a link frame.
BufferReleased == reservedXmt ~> (~reservedXmt \/ stuck)
=============================================================================
