# A TLA+ model of OlcbRefresh

OlcbRefresh is an OpenLCB (LCC) node for Arduino, Teensy, Tiva and AVR
boards: a link layer that obtains a 12-bit CAN alias, protocol handlers for
events, datagrams, configuration and node identification, EEPROM storage for
the node's EventIDs, and a CAN driver per board. This directory holds TLA+
modules that follow that code, TLC configurations that check them on small
instances, and TLAPS proofs of what matters most.

Paths below are relative to the repository. `CommonCAN` stands for
`libraries/OlcbCommonCAN`.

## 1. Inventory

The program is a single loop, `Olcb_loop` (`libraries/OlcbArduinoCAN/OlcbArduinoCAN.h:122-176`),
called from Arduino's `loop()`. An iteration takes one received frame from the
driver, runs `link.check()`, hands the frame to `link.receivedFrame()` and,
when the link is initialized, to the protocol handlers, and then calls each
handler's `check()`. Everything in the loop shares one `txBuffer` and one
`rxBuffer`. What runs beside the loop is the CAN driver's interrupt handler,
the other nodes on the bus, and the power supply.

| component | state | operations | interacts with | what is hard | what makes it correct |
|---|---|---|---|---|---|
| Link layer (`CommonCAN/LinkControl.cpp`) | `state`, the alias generator, the alias in `txBuffer` | `check`, `receivedFrame`, `reset`, `restart`, `rejectMessage` | driver; every protocol asks it for the alias | nodes claiming one alias at once; objections that unseat the objector; a busy driver; restarts | no alias held twice; frames under the node's own alias; every node comes up |
| Node memory (`CommonCAN/NodeMemory.cpp`, the EEPROM layout of `MemStruct.ino`) | tag, count, node ID, EventIDs in EEPROM; `count` in RAM | `setup`, `reset`, `store`, `setToNewEventID`, `forceInitEvents`; `writeEID` | Blue/Gold reset, learning, configuration writes | power failing between two bytes; what is stored before what | what the tag vouches for is there; node ID kept; EventIDs never handed out twice |
| Tiva driver (`libraries/Tiva/TivaCANv0.cpp`, `tivacan.cpp`) | two rings, `TxPending`, the controller's message objects | `write`, `read`, `tx_idle`, `available`, `CANIntHandler` | the loop, through `OpenLcbCanInterface.cpp` | loop against interrupt handler; full rings; error warnings | a bounded FIFO each way; readiness that lasts; no frame left behind |
| AT90 driver (`libraries/AT90/CanBus.cpp`, `AT90can.cpp`) | two queues, one global frame `buf`, `_transmission_in_progress` | the same | the loop | both sides copy through `buf` | as above |
| Teensy driver (`libraries/TeesyARM/FlexCANv1.cpp`, `flexcan.cpp`) | none of its own: mailboxes and a receive queue in the controller | polled | the loop | arbitration decides the order; readiness always reported | not modelled: it promises nothing |
| MCP2515 driver (`libraries/MCP2515/MCP2515can.cpp`) | three transmit and two receive buffers, in the chip | polled over SPI | the loop | buffers filled from one end and emptied from the other | order kept; nothing left unread |
| Driver interface (`OpenLcbCanInterface.cpp`) | none | `xmt_ready`, `queue_xmt_immediate`, `queue_xmt_wait`, `get_frame` | between the two | readiness read, used later, result ignored | a frame queued after "ready" is accepted |
| Frame buffer (`OpenLcbCanBuffer.cpp`) | header and data of `txBuffer`, kept from frame to frame | setters and predicates | all senders | a setter that leaves a field of the frame before | every frame has the type, source and destination meant |
| Datagrams (`Datagram.cpp`) | transmit buffer and its reservation, receive buffer and `receiving` | `getTransmitBuffer`, `sendTransmitBuffer`, `check`, `receivedFrame` | Configuration, remote nodes | segments of two senders; stale, missing and unrecognised replies; length | a datagram is delivered whole and acknowledged as it was received |
| Configuration (`Configuration.cpp`) | one pending request | `receivedDatagram`, `check`, `process...` | Datagram, memory | a second request before the first is answered | each accepted request is served once |
| Events (`PCE.cpp`) | flags per event, `sendEvent` cursor | `produce`, `receivedFrame`, `check`, learning | EventID lookup, memory, inputs | requests coming while the cursor scans | every request leads to its frame |
| EventID lookup (`EventID.cpp`, `Index.cpp`) | sorted index of hashes | `initTables`, `findIndexOfEventID` | PCE | equal hashes; an index that is stale after learning | lookup finds exactly the equal EventIDs |
| Blue/Gold (`BG.cpp`, `ButtonLed.cpp`) | button history, mode | `check`, `factoryReset` | PCE, node memory | button sequences and timing | a mode is left as documented |
| Identification (`SNII.cpp`, `PIP.cpp`) | one pending reply each | `receivedFrame`, `check` | `txBuffer` | a second request during a reply | each reply complete, to who asked |
| Streams, button protocol | – | – | – | empty in the code | – |
| Sketches | tables, input scanning | `setup`, `produceFromInputs`, `userConfigWrite` | all of the above | scan order | every input change is reported |
| LocoNet, NmraDcc, servo driver, LCmini | – | – | – | other projects' libraries | – |

Every hazard found, with the line where it bites and the properties that cover
it or the reason why none does, is listed in `PROJECT.json`.

## 2. Plan

The modules, in the order in which they were written, the most important
behaviour first:

1. `LinkControl`, composing n nodes, their drivers' queues and the bus;
   abstract specification `AliasRegistry`; proofs in `LinkControlProofs`.
2. `NodeMemory`; proofs in `NodeMemoryProofs`.
3. `TivaCAN` against the abstract `FrameChannel`, proofs in `TivaCANProofs`;
   then the other drivers, `At90CAN` and `McpCAN`, composed with it
   in `CanDrivers`, proofs in `CanDriversProofs`.
4. `Datagram`, nodes that send each other datagrams, against the abstract
   `Mailbox`; proof of the types in `DatagramProofs`, of the rest in
   `DatagramDeliveryProofs`.
5. `EventIndex`, the lookup, and `PCE`, the event handler that uses it, against
   the abstract `RequestSet`; proofs in `PCEProofs`.
6. `BlueGold`, and `Node`, which composes the handlers of an iteration of the
   loop over the shared `txBuffer`: Configuration, SNII, PIP, the input scan
   and the buttons; proofs in `NodeProofs`.

What is left: the arithmetic of the alias generator and of the clock
comparison, which keep no state that interleaves with anything.

## 3. What is modelled

### LinkControl

*State.* `state`, and `pos` for the alias generator (the number of restarts;
`AliasAt[n]` gives the alias after each, a cycle of length `Period`, because
the 48-bit generator only matters through the aliases it yields). `txSrc` is
the source alias left in the shared `txBuffer`: `setAMD`, `setCIM` and the
like set it, `setVerifiedNID` and the protocols' messages reuse it. `txq` and
`rxq` are what the driver has accepted and not sent, received and not handed
over. `rx` is `rxBuffer`, and `pc` the place in `Olcb_loop`.

*Steps.* A step is the code between two points where the driver's progress
can be seen. `GetFrame` and the case of `check()` for the present state are
one step (`SendCIM`, `StartWait`, `KeepWaiting`, `ConfirmAlias`, `SendAMD`,
`SendInitComplete`, `CheckInitialized`), because reading a frame commutes with
the driver's steps. `SendAMD` is followed by `FallThroughToInit`, since the
`case` has no `return` (`LinkControl.cpp:139`). `receivedFrame()` is one of
`DefendAlias`, `GiveUpAlias`, `AnswerAME`, `AnswerVerify`, `IgnoreFrame`, in
the order of the code's tests. `Application` stands for the protocol handlers
that come afterwards. `sendFrame` builds the frame and drops it when the
driver is not ready; `sendWait` is the spinning send. `Transmit` puts a frame
on the bus, where all other nodes get it; `Enquire` is other equipment;
`PowerOn` and `PowerOff` are the supply.

*Assumption on time.* The protocol waits 200 ms so that everyone who has to
object can. `ConfirmAlias` therefore requires `CIMsAnswered`: the node's CIMs
have been sent and looked at, and the objections have come back. Without that
no alias protocol of this form is safe. Nothing is assumed about the order or
speed of anything else, about which frames are lost to a busy driver, or about
how many nodes there are (in the proofs).

*Not in it.* Receive overflow: the bus is held back when a node's receive
queue is at `RxSlots`, so frames reach every powered node. The clock
comparison and the arithmetic of the generator. `rejectMessage` is in `Node`.

### NodeMemory

*State.* `eeprom`, a function from cells to bytes: four tag bytes, two count
bytes, the node ID (in two parts that stand for its six bytes) and four cells
for each event's EventID (two of node ID, two of count). `todo` holds the
writes the running call has still to make; every operation of the code is
straight-line once it has read the tag, so a call fixes its writes at its
start. `count` and `nid` are the RAM copies. `issued` and `ever` are history.

*Steps.* `SetupEvents`, `SetupAll`, `SetupAsIs` are the three branches of
`setup()`; `SetupDone` its end; `CallReset`, `CallStore` the public calls,
`writeEID` a taught EventID, `factoryReset` Blue/Gold's `forceInitEvents`
followed by the jump to address 0 (`Restart`). `WriteNext` performs one EEPROM
write. `PowerFail` may come between any two (`FailsWriting`) or only between
calls. EEPROM starts erased or prepared with a tag and a node ID, as
`NodeMemory.h:22-25` describes. A taught EventID goes to its own place, as in
the basic node, whose offsets are all below 256; in the larger sketches
`writeEID` truncates offsets to 8 bits and writes elsewhere.

### TivaCAN and FrameChannel

*State.* The two rings with `Count`, `RdIndex`, `WrIndex`, `TxPending`, the two
message objects and their pending interrupts, and `sawFree`: the program has
been told the driver is free and has not sent since.

*Steps.* `write()` and `read()` mask the interrupt around what they do, so
each is atomic, and so is the handler, which is one of `ErrorWarning`,
`RxInterrupt`, `TxInterrupt`. `CheckFreeBuffer` and `SendMessage` are two
steps: that is where an interrupt can come between question and answer.
`FrameSent` and `FrameArrives` are the controller. `DirectWrite` is the class's
public `write()` called without asking `tx_idle()`; only then is the transmit
ring used. Nothing in the repository calls it that way (the OpenLCB path asks
first, so it never has more than one frame under way), so the safety run has
it on (`Direct`), to exercise the ring, and the liveness run has it off.

*Abstract specification.* `FrameChannel` is a pair of bounded FIFO queues; what
waits to be sent may be flushed, which is what an error warning does.

### The other drivers, and CanDrivers

A board has one driver; `CanDrivers` is `TivaCAN` with instances of two
others beside it and a variable `board` that says which one runs. What each
promises is not the same:

| driver | sending | receiving |
|---|---|---|
| Tiva | in order, as accepted, unless an error flushes (`FrameChannel`) | in order, the newest dropped |
| MCP2515 | in order, as accepted (`FrameChannel`) | nothing twice, nothing left; order not kept |
| AT90 | as many frames as accepted; the right ones while only one needs `buf` | the same |

*At90CAN.* `can_buffer_get_enqueue_ptr` and `..._dequeue_ptr` take the pointer
they should set by value, and all callers pass the address of one global `buf`.
So the queues are two counters (`txUsed`, `rxUsed`), and `buf` is what program
and handler copy through. The program's copy and its `enqueue` are separate
steps between which the handler may come (`CopyIn`, `Enqueue`, `CopyOut`,
`Dequeue`), and it may come in the middle of a copy: `cut` records that, and a
copy cut short may give a frame of two halves (`Mixed`). The handler may in the
same way send from `buf` in the middle of the program's copy to it; with the one
place of `CAN_TX_BUFFER_SIZE` there is nothing to send then, with more there is.
The repository's README says the AT90CAN does not receive; the functions that
would are modelled as they are. `txWant`, `rxWant` and
`crowded` are history.

*McpCAN.* The transmit buffers with TXREQ set hold a frame. The program fills
the first free one, having seen all of them free; the controller sends the
highest first, which is the chip's rule for equal priorities. `lastRxBuf1Status`
is a local variable (`MCP2515can.cpp:471`), so the branch that should read the
second buffer first (line 483) is never taken.

The Teensy driver is not modelled. `can_check_free_buffer` always says yes,
`write` drops the frame when no mailbox is inactive, the order of sending is
that of the arbitration, and `can_get_message` returns 1 with whatever is in
memory when no frame is there: of what the others promise it keeps nothing.

### EventIndex, PCE and RequestSet

*EventIndex.* `Tables(ids)` is every table `initTables` may leave, qsort being
free in the order of equal hashes, and `FoundIn` the set of places the calls of
`findIndexInArray` return one after another. That bsearch hits any entry of the
hash does not matter, since `findIndex` backs up to the first.

*PCE.* `flags` and `sendEvent` as in the code; `eeprom` holds the stored
EventIDs, `eventids` what `getEID` returns, `eventsIndex` the table. `board`
says which memory model is compiled and how wide an int is: `findCompare`
reads a whole int where the key is 16 bits wide, so on 32-bit boards the lookup
may miss (`MayFind`). `said`, `heard` and `called` are what a step sends and
which callbacks it makes. `sendIdentified`, `sendPCEventReport`,
`sendLearnEvent` and `nothingToSend` are the ways a pass of `check` can go: it
steps over events with nothing to say and stops at the first that has. A
report or a teaching is handled by the node itself before the step ends, as in
the code. `AskFor` marks the events by their places in the table, which is
what `PCE.cpp:150` does. `Restart` is `setup()`; `configWrite` a write of the
Configuration protocol, which changes the EEPROM and nothing else. `learnt` is
history: the EventID an event was taught last and has not yet announced.
`PCE.cpp:232` promises to "notify new eventID". With memory model MEDIUM
`restore()` is empty, so `eventids` keeps the old one and that is what is
announced; `LearntTold` claims the new one of the other two models only.

*RequestSet.* A set of pairs of event and kind of request; a request of the
first event that has any is answered, none is forgotten, and no pass is idle
while one waits. Flags and cursor implement it (`ImplementsRequests`).

### Node and BlueGold

`Node` is one node with its link up. Its `pc` is the handler `Olcb_loop` calls
next: `receive`, then PCE, Datagram, Configuration, Blue/Gold, PIP, SNII in the
loop's order, and the sketch's input scan, each as far as it is compiled in
(`parts`, from the `OLCB_NO_...` definitions). All frames are built in the one
`txBuffer`: `txType` is the frame type left in it, which messages set and
datagram segments do not (`sendMessage`, `dg_check`).

*Datagram and Configuration.* `reservedXmt`, `sendcount`, `dest` as in
`Datagram`, with a reply in one piece to be sent; `request` is Configuration's
pending request. `processRead` waits for the buffer, `processWrite` changes the
texts in the EEPROM (`zeros`: the places of their zero bytes) and `KeepRequest`
is what leaves the request in place: nothing to do, a read that has to wait,
or the end of an update, after which `userWriteCB` is called in every round.
`receivedDatagram` replaces a request that still waits. Each client receives
with the rules of `Datagram::receivedFrame` (`TakeSegment`, and `got` for what it
has received), which asks for the datagram again when the last segment came
without a first one.

*SNII and PIP.* `snii` is the state, pointer and addressee of `SNII.cpp`;
`AfterByte` is `SNII_nextByte`; a frame takes as many bytes as it holds. A
second request is rejected; PIP's second request replaces the first.

*Inputs.* `produceFromInputs` of the AJS sketch: `MaxInputScan` steps a round,
one of which only takes the index back (`Scan`). Digital inputs and block
detectors are one sequence of inputs (`ScanRound` is the whole of a call). `events`
is the set of the inputs' events
that wait; `pce_check` sends the lowest, as `RequestSet` says. `told` and
`crossed` are history; a reset of the node forgets what it read and what it had
told of it, so an input told to be high is then `crossed`. The scan of `DPH-OlcbBasicNode` never moves its index; it
is the mutant `ScanFirst`.

*BlueGold.* Each button has `lastState`, `state` and how long it has lasted,
in three steps (up to 3 seconds, up to 5, longer). `check` does what one call of
`BG::check` does in its order: blue, clearing the marks, gold, factory reset. The
lights are what they show: the blue and the gold one, and the set of events
whose light blinks as selected. That the basic node gives both events of a pair
one light is abstracted: each event has its own. `bg_reset` starts the program
over; the link layer, node memory and drivers see it in their own modules.

### Datagram and Mailbox

*State.* `reservedXmt`; `letter`, what the transmit buffer was filled with
(`tbuf`, `resendcount`, `dest`), which the code keeps after release as well;
`sendcount` in segments (0 where the code has -1; `first` is `sendcount` being
the whole length); `fromAlias`, with `Nothing` for `receiving` being false;
`rbuf` as a sequence of segments, each naming its datagram and its place in it.
`taken` is history: the datagram has been accepted by a callback. `link` is
the state of the link layer, as far as it tells what may be sent, `changes`
counts aliases, and `txType` is the frame type left in the shared `txBuffer`.

*Steps.* `sendTransmitBuffer` is an application that finds the buffer free and
fills it; `check` sends one segment. `setOpenLcbFormat` leaves the frame type
alone, so after an AMD, an AMR or an RIM a segment goes out as a link frame,
which no Datagram object looks at: it is lost, and so are those after it until
another handler builds a message. `receivedFrame` is split at the code's
tests: `AbortReception`, `ReceiveAck`, `ReceiveReject`, `RefuseSegment` (the
three places where a segment is passed over, and rejected if it is the last),
`StoreSegment`, `DeliverDatagram` with the callback and the reply to its result.
`ChangeAlias` drops the AMR if the driver is busy; while the link is down frames
are discarded (`DiscardFrame`). The link comes up as `LinkControl::check` has it:
`Claimed` sends the RIM, `SendAMD` the AMD, and if the driver had no room for
that one, `SendInitComplete` is tried all the same (`unannounced`), so that a
node may go on under an alias nobody was told of, in the middle of a datagram
perhaps. A node that lost power comes back in the same way (`PowerOn`), with its
first alias. `AnswerAME`, `AnswerCIM` and `SendMessage` are the answers of the
link layer and of other handlers to other equipment: they put frames between
the segments and set `txType`.

*Assumptions.* As in `LinkControl`, the 200 ms before an alias is taken are
longer than old frames are under way (`Forgotten`). The driver loses no received
frame. The length of a datagram is whatever `sendTransmitBuffer` is given: the
code does not bound it (`Configuration.cpp:147-150` computes it from the
request), and the model does not either. `FitsBuffer` therefore compares what a
receiver holds with the length of the datagram it began with; if that is longer
than `DATAGRAM_LENGTH` the code overruns its buffers whatever is sent.

*Abstract specification.* In `Mailbox` a node posts one letter at a time, the
addressee takes it at most once, and the sender is released when it was taken
or when it is not wanted, and for no other reason except loss of power.

## 4. What the runs check

| run | instance | properties | shows |
|---|---|---|---|
| `link_safety` | 2 nodes whose generators both run through the same 2 aliases, 1 transmit slot, receive queues up to 2, either may lose power, enquiries by AME and Verify; symmetry in the nodes; 1.06 million states | `TypeOK`, `AliasesUnique`, `ClaimInv`, `SendsUnderOwnAlias`, `ImplementsRegistry` | alias allocation is safe under all interleavings |
| `link_live` | 2 nodes that start on one alias and part afterwards, no power failures; 133 thousand states | `LinkComesUp` | both are initialized in the end, and stay so |
| `link_amd` | as above with enquiries | `AMDBeforeInit`, **violated** | finding 1 |
| `memory_calls` | 3 events, bytes of 4 values (a count of 16), 1 foreign EventID, power fails between calls; 176 thousand states | `TypeOK`, `MemoryValid`, `NodeIDKept`, `SessionIDsUnique` | memory is sound if calls complete |
| `memory_crash_nid` | power may fail between writes, only the calls the sketches make | `NodeIDKept`, **violated** | finding 2 |
| `memory_crash_events` | the same | `MemoryValid`, **violated** | finding 3 |
| `memory_reissue` | power fails between calls only | `ForeverUnique`, **violated** | finding 4 |
| `can_drivers` | one board of each kind; 2 frames; Tiva rings of 3 with direct writes; AT90 queues of 1 and 2; 194 thousand states | `TypeOK`, `DriverInv`, `FreeStaysFree`, `ImplementsChannel`, `SpinEnds`; `At90SendsCounted`, `At90AloneKept`, `At90QueueMoves`; `McpInOrder`, `McpSecondRead` | what each driver promises of the table above, and that the loops which spin on readiness end |
| `datagram_safety` | 3 nodes; n1 sends datagrams of 3 segments to n3, changes its alias once and is sent enquiries; n2 sends datagrams of 1 segment, and of 2 that n3 refuses, and its alias is contested; n3 may lose power; 1 transmit slot, receive queues up to 1; 1.17 million states | `TypeOK`, `FitsBuffer`, `DeliversWhole`, `RepliesFromDest`, `ImplementsMailbox` | datagrams arrive whole and once, though aliases change unannounced and segments are lost; the unchecked end of the buffer and the unchecked source of replies do no harm to such senders |
| `datagram_reject` | the same, no failures, all nodes run this code | `PermanentDropped`, **violated** | finding 5 |
| `events` | 2 events, one consumed and one both produced and consumed; 3 EventIDs, two of one hash; the three memory models, one on a 32-bit board; at most 1 event to send and 1 to learn at a time | `TypeOK`, `NothingSkipped`, `CallbacksRight`, `LearntTold`, `ImplementsRequests`, `Drains` | every request is answered, callbacks go to the right consumers, what is learnt is announced |
| `node` | 5 builds: reading, writing and identification by two clients; identifications torn by writes; PIP and SNII without datagrams; two inputs; Blue/Gold with 2 events. Replies of 2 segments, texts of 2 bytes, 1 transmit and 1 receive slot, 1 alias enquiry; 97 thousand states | `TypeOK`, `AnswersAsked`, `IdentifiesWhole`, `TellsLastState`, `PanelTells`, `EveryoneServed`, `BufferReleased`, `NoticesInputs` | clients are served, once, with whole answers; inputs and buttons are told as they are |

*Why the bounds are enough.* In the link runs two nodes meet on an alias in
every phase of allocation, again after each restart and power failure. One
transmit slot makes "driver busy" as frequent as it can be, which is when
frames are dropped. `MaxQueue = 0` lets power failures and other equipment come
in only when no frame waits to be read (and, for other equipment, one node at
least has nothing to send); that keeps the run finite, and `LinkControlProofs`
proves the safety properties without any bound's value mattering. In the
memory runs a count of 16 lets resets follow each other until the count is used
up; with three events, which do not divide 16, the count also wraps around in
the middle of a reset. `CallReset` is made as long as the EventIDs handed out
since power came on leave enough counts (bound): the code has no such limit, but
a power-on of 65 thousand EventIDs is beyond its use. For
the Tiva driver a ring of 3 lets indices wrap with the ring empty, partly filled
and full, and two frames tell reordering and duplication apart.
For datagrams, three segments give every kind of segment, and one transmit slot
makes the driver busy, so that AMD and AMR are dropped, as often as it can be.
n1's datagram can be cut at each place by a new alias, announced or not, and by
segments that leave as link frames, while n2's datagrams come between. What may
happen to which node is a bound of the instance (`Fickle`, `Enquired`,
`Contested`, `MaxChanges`), and two of these bounds leave out what the code
does not survive; section 5 says what that is. That a sender of one segment
loses power is left to the proofs, which allow it. n3 rejects with two
extra bytes in the safety run, as other equipment may, so that both outcomes of
the test for a permanent rejection occur.

For events, two of them are enough for one to stand on either side of the
cursor, and three EventIDs for a match, a clash of hashes and a miss; every
table and every content of the EEPROM is an initial state. In the node one
slot each way makes every handler wait for the driver, and two clients are
enough for one to displace or interrupt the other. The builds are separate
settings because handlers of different settings share nothing but the order of
the loop and `txBuffer`, and those that meet in `txBuffer` (datagrams,
identification, the link layer's answers) are together in the first two.

*Fairness.* `LinkControl`: the loop runs again and again, the driver keeps
sending, nodes are switched on (weak fairness), and the wait ends (strong
fairness of `ConfirmAlias`: each visit to the waiting state is an iteration
that compares the clock, and the clock goes on whatever else happens).
`CanDrivers`: the controllers send what they hold, the interrupts are served
(`write()` unmasks them), and the loop asks for received frames in every round.
`PCE`: `check` is called in every round. `Node`: the loop runs and the driver
sends; a frame that makes a handler find the driver busy round after round
leaves during that handler's turn some time (strong fairness of `Transmit` in
the turns of Datagram, PIP and SNII), because the time the bus takes for a frame
has no fixed relation to the time of a round. No fairness is assumed of the power supply, of other
equipment, of clients and users, or of the application.

### Findings

1. `LinkControl.cpp:136` says the AMD takes the node to Permitted, but the case
   falls through: if the driver was busy for the AMD and is ready a moment
   later, Initialization Complete goes out and the node is up without an AMD.
2. `NodeMemory.h:75` says a reset leaves the node ID alone. On prepared memory
   (tag EE 55 33 CC) the first start writes the tag EE 55 5E E5 over it byte by
   byte (`store()`, `NodeMemory.cpp:127-130`). A power failure after the third
   byte leaves EE 55 5E CC, neither of the two valid tags, and the next start
   stores the default node ID. (`forceInitEvents` passes through an invalid tag
   in the same way; the shortest trace is that of `store()`.)
3. `NodeMemory.h:23` says the tag means "all memory valid". `reset()` writes the
   tag first and the EventIDs last.
4. `NodeMemory.h:103` calls a new EventID "forever unique". `count` is stored
   before the EventIDs are handed out and not afterwards, so the next factory
   reset hands out the same ones.
5. `Datagram.cpp:118` drops a datagram that was rejected for good, but the test
   at line 111 takes any rejection of less than 6 bytes for a temporary one, and
   `setDatagramNak` sends 4.

## 5. What is proved

For every number of nodes, aliases, events, frames and slots, every ring size
and every content. The only assumptions are the named `ASSUME`s on the constants
in the modules that declare them: `LinkAssumption`, `TivaAssumption`,
`BoardAssumption`, `NodeMemoryAssumption`, `DatagramAssumption`,
`EventIndexAssumption`, `PCEAssumption`, `BlueGoldAssumption` and
`NodeAssumption`. They give constants their types and keep the marks for
"nothing" apart from values; TLC evaluates all of them. Five theorems have a
hypothesis besides, which is named with them.

`LinkControlProofs`

- `TypeCorrect`: `Spec => []TypeOK`, conjunct by conjunct for each action.
- `ClaimsContested`: `Spec => []ClaimInv`. `AliasesUnique` is not inductive:
  two nodes that hold different aliases, one of them about to be given the
  other's, satisfy it. What rules that out is who has seen what. `ClaimInv`
  says it: of two nodes that claim the same alias one still has a CIM to be
  answered, or an objection to receive (`Objection`). A node that confirms has
  neither (`CIMsAnswered`), so the other one does; that is why it cannot
  confirm as well.
- `UniqueAliases`: `Spec => []AliasesUnique`, from `ClaimInv`: both hold, so
  both have `CIMsAnswered`, and neither `Objection` is possible.
- `OwnAlias`: the action property `SendsUnderOwnAlias`, from a second invariant:
  the source alias in `txBuffer` is the node's own as soon as it can send a
  frame that reuses it. It is not so between a restart and the next CIM, and the
  proof rests on `check()` running before `receivedFrame()`.
- `LinkImplementsRegistry`: `Spec => Registry!Spec`, step by step.

`TivaCANProofs`

- `TypeCorrect`, `DriverInOrder`: `TypeOK /\ DriverInv` is inductive; the lemmas
  `AfterIndex`, `AfterStep`, `AfterDistinct` are about index arithmetic modulo
  the ring size, and `PushContents`, `PopContents`, `ClearedContents` say what a
  ring operation does to the sequence of frames it holds.
- `FreeIsStable`: `FreeStaysFree`, because only the program sets `TxPending`.
- `DriverImplementsChannel`: `Spec => Channel!Spec`, one case per action.

`CanDriversProofs`

- `At90Counts`: the AT90 driver sends as many frames as it accepted. `At90Inv`
  adds that the queue counts a frame only when `buf` holds one, and that a
  transmission which has ended still counts as in progress until the handler
  has run: that is why `Enqueue` after an interrupt loses nothing.
- `At90KeepsAlone`: the frames are the right ones while only one at a time needs
  `buf`. `AloneInv` says why: queues grow only when both are empty, so no copy
  is cut short by one that overwrites `buf`.
- `McpKeepsOrder`: the MCP2515 driver implements `FrameChannel`. In `McpInv` at
  most one buffer waits, because the program fills one only after it has seen
  all of them empty.

`NodeMemoryProofs`

- `TypeCorrect`: `Spec => []TypeOK`, power failures at any point included; the
  writes a call has still to make are of the right type.
- `MemoryStaysValid` (hypothesis `~FailsWriting`: power fails between calls
  only, since `memory_crash_events` refutes the property without it):
  `MemoryValid`. It holds between calls only, so `ValidInv` speaks of memory as
  it will be: `Reaches(c, v)` says that cell `c` has `v` or is about to get it
  and nothing else, and `Heading` is the memory a running call leads to. A call
  starts from memory that is `Settled` and leads to memory that is.
- `NodeIDStays` (hypotheses `~FailsWriting` and a node ID without erased bytes):
  `NodeIDKept`, from the same invariant.
- `SessionIDsDiffer`: `SessionIDsUnique`, power failures at any point included.
  `SessionInv` counts the EventIDs of the power-on, those the present call has
  still to write included (`Session`, which a write leaves as it is): if it began
  at the count `start`, they are among the `Cardinality(Session)` that follow, and
  `count` stands at the last of them. So the next ones are free as long as they
  are fewer than the counts together, though `start` is any number EEPROM held and
  the count wraps around. The attempt corrected the bound of `CallReset`: to
  keep `count` itself from wrapping does not help when `setup()` wrapped it,
  and with three events and a count of 16 TLC then finds an EventID twice.

`DatagramProofs`

- `TypeCorrect`: `Spec => []TypeOK`. Types alone are not inductive: a rejection
  has the buffer sent again whatever it holds (`Datagram.cpp:113`). `TypeInv`
  adds `Sound`: the sender of a segment under way, and the addressee of a reply,
  have filled their buffer since their power came on. It survives a loss of
  power because frames of before are gone when the node is back (`Forgotten`).

`DatagramDeliveryProofs`

The invariant is `TypeInv /\ Flow /\ Reception /\ Handing /\ Delivery`, about
every frame under way, proved in this order, each part with the help of the ones
before.

- `RepliesRight`: `RepliesFromDest`, from `Flow` alone. `Flow` says what of a
  datagram is where: the segments between a sender and a receiver are of the one
  in its buffer, in order, perhaps with gaps; a reply is under way only
  once all of it has been sent and read; and whoever replies is the addressee.
  That is why no other node's reply can come between, though the code does not
  look at the source (`Datagram.cpp:101-102`).
- `FitsTheBuffer` (hypothesis `LongSendersSteady`: the power of nodes that send
  datagrams of several segments does not fail): `FitsBuffer`, from `Flow` and
  `Reception`. `Reception` says that the buffer holds parts of one datagram, each
  further on in it than the one before, the last part not among them; and if the
  sender still uses that alias, that datagram is the one in its buffer and what
  is under way goes on from there. Segments may be missing, and no AMD or AMR is
  relied on: a sender that changes its alias is another sender, and the old
  alias never sends again.
- `DeliversWholeDatagrams` (hypothesis `LongSendersUndisturbed`: such a sender
  keeps its power, and if its alias may be contested in the middle of a datagram
  nothing else has it send messages, neither enquiries nor datagrams it has to
  answer): `DeliversWhole`. `Handing` adds that what the buffer
  holds has no gap. Segments are lost as link frames only after an AMD or AMR or
  RIM. After an RIM, by the hypothesis, the rest of the datagram is lost with
  them (`Spoilt`); an AMR comes with another alias; and an AMD reaches the
  receiver between the last segment before the gap and the first after it
  (`GapOK`, `LastOK`, `NextOK`), where it ends the reception, so that the
  last segment finds nothing to end and is rejected.
- `DatagramImplementsMailbox` (the same hypothesis): `ImplementsMailbox`, one case
  per action. `Delivery` says that a datagram that was taken has been sent
  completely, has nothing of it under way but a reply, and that an
  acknowledgement is under way only for one that was taken.

The hypotheses are on nodes that send datagrams of several segments only, and
what they leave out the code does get wrong:

- A sender loses power half way and is back under its first alias. If the
  driver is busy when its AMD is due, nobody is told (`LinkControl.cpp:135-145`).
  The receiver, which still has the first half, passes over the first segment
  of the new datagram and adds the others to that half. With n1 in `Fickle`,
  and nobody changing or contesting aliases, TLC finds `FitsBuffer` violated in
  20 steps: three segments of a datagram of three, the last not among them.
- A sender answers a CIM for its alias with an RIM half way, so the next segment
  is lost, and then sends some message, so the last one is not. No segment carries
  a number. With n1 in `Enquired` and `Contested` and no changes of alias, TLC
  finds `DeliversWhole` violated in 13 steps: the first and the last segment are
  handed to the callback as a datagram, and acknowledged.

`PCEProofs`

- `TypeCorrect`, `NeverSkips`: the inductive invariant is `TypeOK`,
  `NothingSkipped` and `TableOK`: every event is in the table, so that whatever
  the hashes are, marking finds it.
- `RightCallbacks`: `CallbacksRight`, with the lookup as `EventIndex` has it.
- `LearntIsTold`: `LearntTold`. The strengthening, `LearntOK`, adds that what
  was learnt is in the EEPROM, from where restarts and `restore()` fetch it.
- `PCEImplementsRequests`: `Spec => ImplementsRequests`. The cursor is not in
  `RequestSet`; `NothingSkipped` is what makes the first event the cursor
  reaches the first that has something to say.

`NodeProofs`

- `PanelAlwaysTells`: `PanelTells` in `Node`, the buttons of `BlueGold` in a
  running node. `PanelInv` adds the range of the selected index and the type of
  the panel; the other handlers leave the panel alone, except for those that
  start the program over.
- `EventsTellLast`: `TellsLastState`, for any number of inputs. `InputInv` adds
  what holds while an event waits: unless the input is `crossed`, its event that
  waits tells the state that was read, and its other one does not wait.
- `IdentificationWhole`: `IdentifiesWhole`, for any texts and any number of bytes
  in a frame. `SniiInv` says that what has been sent is the beginning of the
  identification, and that the state and pointer stand at the byte after it
  (`Progress`).
- `AnswersGoWhereAsked`: `AnswersAsked`, for any number of clients, queues of any
  length and replies of any number of segments. `AnswersInv` follows each
  request: `Orderly` says that what a client waits for is in one place, the
  driver's queue, a handler, or a frame with the last part of its answer, and in
  no other (`AskedOnce`, `ServedOnce`, `AnswersWaited`); that the segments of the
  one reply are in order and the addressee has received none that is to come
  (`SegmentsInOrder`); and that a reply is acknowledged, or asked for again,
  only when all of it is out (`Reacted`). Every step takes a request from its
  place, which leaves the client `Free`, and puts it into the next one; there is
  a lemma for each way of taking and giving.
- `TypesKept`: `TypeOK`, from these invariants: the range of the scan's index and
  of SNII's pointer are not inductive by themselves.

The scan of the inputs and the text of the identification are recursive
functions. The library's induction theorems take an operator as a parameter,
which the prover cannot instantiate; what stands in for them is that a set of
numbers that is not empty has a least element (`NatMin`, from
`WellFoundedInduction`, whose parameter is a set). `Induction` and `InductionTo`
follow from it, and with them that the functions exist and what they compute
(`ScanDefined`, `RunDefined`).

*Only model-checked.* The liveness properties (`LinkComesUp`, `SpinEnds`,
`At90QueueMoves`, `McpSecondRead`, `Drains`, `EveryoneServed`, `BufferReleased`,
`NoticesInputs`): the prover does not treat fairness. Every safety property of a
passing run is a theorem.

*What does not hold and is not claimed.* A datagram whose reply is lost keeps the
transmit buffer for good, there being no timeout; and a receiver whose sender's
AMR was dropped goes on rejecting others until that alias is announced again.
A request of Configuration that comes before the last was answered replaces it.
Identification marks events by their place in the table (`PCE.cpp:150`), so it
may announce events other than the ones asked for. A taught EventID at an offset
above 255 is written elsewhere. A sender that loses power in the middle of a
datagram and comes back unannounced may have the next one added to the old half
and past the end of the buffer, and one that answers a CIM and then something
else in the middle of a datagram may have it delivered with a segment missing
(see `DatagramDeliveryProofs` above). The length of a datagram is not bounded.

*Not modelled.* The libraries of other projects kept in the repository
(LocoNet, NmraDcc, LCmini, the servo driver, the register definitions of the
controllers such as `kinetis_flexcan.h`): the node does not call them, or they
are names of registers; they are more than half of the repository's lines.
Of the drivers: initialization, filters, modes and error registers, which run
once and interleave with nothing. Configuration's address arithmetic, and its
reset command, which jumps to address 0: the program starts over as after a
loss of power. The 48-bit
generator of aliases and the 32-bit clock. Streams and the button protocol,
which are empty. The tests, and the host build of Arduino's calls.

## 6. Layout

`X.tla` is a component, `XProofs.tla` its theorems, `MCX.tla` the values of its
constants for TLC, `.cfg` files the runs. Operators whose comment begins with
"Mutant" are variants of the operator below them with a plausible mistake;
nothing uses them but `PROJECT.json`, which says for each property which mistake
breaks it.
