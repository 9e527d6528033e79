-------------------------------- MODULE PCE --------------------------------
(***************************************************************************)
(* The producer/consumer events of a node: PCE.cpp on the tables of        *)
(* MemStruct.ino. Whatever the node has to say of an event is a flag of    *)
(* the event, set when a frame or the application asks for it; each pass   *)
(* of check says one thing, of the first event at or behind the cursor     *)
(* sendEvent that has a flag set.                                          *)
(*                                                                         *)
(* The EventIDs themselves are in the EEPROM, and with memory models       *)
(* MEDIUM and LARGE in a copy in RAM as well; the index is only built when *)
(* the node starts. Teaching and configuration writes change the EEPROM.   *)
(***************************************************************************)
EXTENDS EventIndex, FiniteSets

CONSTANTS
  Types,    \* Types[i]: what userInitEventTypes makes of event i
  Boards,   \* builds: the memory model, and whether an int is 32 bits wide
  Nothing,  \* no pass, no report
  Idle,     \* a pass that had nothing to say
  MaxMarks  \* bound: events to be sent, and events to learn, at a time

Mark == {"IDENT", "PRODUCE", "LEARN", "TEACH"}

Board == [memory : {"SMALL", "MEDIUM", "LARGE"}, wide : BOOLEAN]

Reply == [event : Event, says : {"Producer", "Consumer", "Report", "Learn"}, id : EventID]

ASSUME PCEAssumption ==
  /\ Types \in [Event -> SUBSET {"CAN_PRODUCE", "CAN_CONSUME"}]
  /\ Boards \subseteq Board
  /\ Nothing \notin EventID \cup Reply
  /\ Idle \notin EventID \cup Reply
  /\ Idle # Nothing
  /\ MaxMarks \in Nat

VARIABLES
  board,
  eeprom,       \* the EventID stored for each event
  eventids,     \* what getEID returns: the EEPROM's (SMALL), or those of the copy
  eventsIndex,
  flags,
  sendEvent,
  learnt,       \* history: the EventID learnt last and not yet announced, or Nothing
  said,         \* output: what this step's pass of check sent
  heard,        \* output: the EventID of the report handled in this step
  called        \* output: the events the callback was called for

vars == <<board, eeprom, eventids, eventsIndex, flags, sendEvent, learnt, said,
          heard, called>>

Identifies(f, i) == "IDENT" \in f[i] /\ Types[i] # {}

Due(f, i) == Identifies(f, i) \/ "PRODUCE" \in f[i] \/ "TEACH" \in f[i]

Marked(k) == {i \in Event : k \in flags[i]}

\* sendEvent = sendEvent < i ? sendEvent : i, for the events of S,
\* from where the cursor stood
CursorTo(S, cursor) ==
  /\ sendEvent' \in {cursor} \cup S
  /\ \A i \in {cursor} \cup S : sendEvent' <= i

Deaf == heard' = Nothing /\ called' = {}

Silent == said' = Nothing /\ Deaf

-----------------------------------------------------------------------------
(* The start                                                               *)

\* initTables, then userInitEventTypes, which calls newEvent for every event
StartTables ==
  /\ flags' = [i \in Event |-> {"IDENT"}]
  /\ sendEvent' = 0
  /\ eventids' = eeprom
  /\ eventsIndex' \in Tables(eeprom)

Init ==
  /\ board \in Boards
  /\ eeprom \in [Event -> EventID]
  /\ eventids = eeprom
  /\ eventsIndex \in Tables(eeprom)
  /\ flags = [i \in Event |-> {"IDENT"}]
  /\ sendEvent = 0
  /\ learnt = [i \in Event |-> Nothing]
  /\ said = Nothing
  /\ heard = Nothing
  /\ called = {}

Restart == StartTables /\ Silent /\ UNCHANGED <<board, eeprom, learnt>>

-----------------------------------------------------------------------------
(* Looking EventIDs up                                                     *)

\* findCompare reads an int where the key is a uint16_t: where an int is wider
\* its upper half is whatever the stack holds, and the search may miss.
MayFind(e) ==
  {FoundIn(eventsIndex, eventids, e)} \cup (IF board.wide THEN {{}} ELSE {})

\* The consumers handlePCEventReport may call back for a report of e.
CalledFor(places) ==
  {i \in {eventsIndex[p].index : p \in places} : "CAN_CONSUME" \in Types[i]}

handlePCEventReport(e) ==
  /\ heard' = e
  /\ \E places \in MayFind(e) : called' = CalledFor(places)

\* The learners take e.
Learns(e, learners) ==
  /\ eeprom' = [i \in Event |-> IF i \in learners THEN e ELSE eeprom[i]]
  /\ learnt' = [i \in Event |-> IF i \in learners THEN e ELSE learnt[i]]

\* Mutant: restore() is not called.
handleLearnEventStale(e, f, cursor) ==
  LET learners == Marked("LEARN")
  IN  /\ Learns(e, learners)
      /\ flags' = [i \in Event |->
                     IF i \in learners THEN (f[i] \ {"LEARN"}) \cup {"IDENT"} ELSE f[i]]
      /\ CursorTo(learners, cursor)
      /\ eventids' = IF board.memory = "SMALL" THEN eeprom' ELSE eventids

\* Every event marked to learn takes e, and restore() brings the copy of
\* memory model LARGE up to date.
handleLearnEvent(e, f, cursor) ==
  LET learners == Marked("LEARN")
  IN  /\ Learns(e, learners)
      /\ flags' = [i \in Event |->
                     IF i \in learners THEN (f[i] \ {"LEARN"}) \cup {"IDENT"} ELSE f[i]]
      /\ CursorTo(learners, cursor)
      /\ eventids' = IF \/ board.memory = "SMALL"
                        \/ board.memory = "LARGE" /\ learners # {}
                     THEN eeprom' ELSE eventids

-----------------------------------------------------------------------------
(* check                                                                   *)

\* The cursor steps over what has nothing to say, and stops at i.
StopsAt(i) ==
  /\ sendEvent <= i
  /\ Due(flags, i)
  /\ \A j \in Event : sendEvent <= j /\ j < i => ~Due(flags, j)

Without(i, k) == [flags EXCEPT ![i] = @ \ {k}]

\* What event i has learnt is announced, or replaced.
Told(i) == learnt' = [learnt EXCEPT ![i] = Nothing]

Says(i, what) == said' = [event |-> i, says |-> what, id |-> eventids[i]]

\* Mutant: resets every flag, not IDENT alone.
sendIdentifiedAll(i) ==
  /\ StopsAt(i)
  /\ Identifies(flags, i)
  /\ flags' = [flags EXCEPT ![i] = {}]
  /\ sendEvent' = i
  /\ Says(i, IF "CAN_PRODUCE" \in Types[i] THEN "Producer" ELSE "Consumer")
  /\ Told(i)
  /\ Deaf
  /\ UNCHANGED <<board, eeprom, eventids, eventsIndex>>

sendIdentified(i) ==
  /\ StopsAt(i)
  /\ Identifies(flags, i)
  /\ flags' = Without(i, "IDENT")
  /\ sendEvent' = i
  /\ Says(i, IF "CAN_PRODUCE" \in Types[i] THEN "Producer" ELSE "Consumer")
  /\ Told(i)
  /\ Deaf
  /\ UNCHANGED <<board, eeprom, eventids, eventsIndex>>

\* The node hears its own reports.
sendPCEventReport(i) ==
  /\ StopsAt(i)
  /\ ~Identifies(flags, i)
  /\ "PRODUCE" \in flags[i]
  /\ flags' = Without(i, "PRODUCE")
  /\ sendEvent' = i
  /\ Says(i, "Report")
  /\ handlePCEventReport(eventids[i])
  /\ UNCHANGED <<board, eeprom, eventids, learnt, eventsIndex>>

\* Mutant: the mark stays.
sendLearnEventAgain(i) ==
  /\ StopsAt(i)
  /\ ~Identifies(flags, i)
  /\ "PRODUCE" \notin flags[i]
  /\ handleLearnEvent(eventids[i], flags, i)
  /\ Says(i, "Learn")
  /\ Deaf
  /\ UNCHANGED <<board, eventsIndex>>

\* It learns from its own teaching too, which may send the cursor back.
sendLearnEvent(i) ==
  /\ StopsAt(i)
  /\ ~Identifies(flags, i)
  /\ "PRODUCE" \notin flags[i]
  /\ handleLearnEvent(eventids[i], Without(i, "TEACH"), i)
  /\ Says(i, "Learn")
  /\ Deaf
  /\ UNCHANGED <<board, eventsIndex>>

\* Mutant: one step too far.
nothingToSendPast ==
  /\ \A i \in Event : sendEvent <= i => ~Due(flags, i)
  /\ sendEvent' = N + 1
  /\ said' = Idle
  /\ Deaf
  /\ UNCHANGED <<board, eeprom, eventids, learnt, eventsIndex, flags>>

nothingToSend ==
  /\ \A i \in Event : sendEvent <= i => ~Due(flags, i)
  /\ sendEvent' = N
  /\ said' = Idle
  /\ Deaf
  /\ UNCHANGED <<board, eeprom, eventids, learnt, eventsIndex, flags>>

check ==
  \/ \E i \in Event : sendIdentified(i) \/ sendPCEventReport(i) \/ sendLearnEvent(i)
  \/ nothingToSend

-----------------------------------------------------------------------------
(* receivedFrame                                                           *)

\* The events are marked by their places in the index, not by themselves.
AskFor(e, type) ==
  /\ \E places \in MayFind(e) :
       LET asked == {p \in places : type \in Types[p]}
       IN  /\ flags' = [i \in Event |->
                          IF i \in asked THEN flags[i] \cup {"IDENT"} ELSE flags[i]]
           /\ CursorTo(asked, sendEvent)
  /\ Silent
  /\ UNCHANGED <<board, eeprom, eventids, learnt, eventsIndex>>

IdentifyConsumers(e) == AskFor(e, "CAN_CONSUME")

IdentifyProducers(e) == AskFor(e, "CAN_PRODUCE")

IdentifyEvents ==
  /\ flags' = [i \in Event |-> flags[i] \cup {"IDENT"}]
  /\ sendEvent' = 0
  /\ Silent
  /\ UNCHANGED <<board, eeprom, eventids, learnt, eventsIndex>>

PCEventReport(e) ==
  /\ handlePCEventReport(e)
  /\ said' = Nothing
  /\ UNCHANGED <<board, eeprom, eventids, learnt, eventsIndex, flags, sendEvent>>

\* A Learn Event message, or the application teaching an EventID it has
\* (sendTeach(EventID)), which goes out at once.
LearnEvent(e) ==
  /\ handleLearnEvent(e, flags, sendEvent)
  /\ Silent
  /\ UNCHANGED <<board, eventsIndex>>

receivedFrame ==
  \/ \E e \in EventID : \/ IdentifyConsumers(e)
                        \/ IdentifyProducers(e)
                        \/ PCEventReport(e)
                        \/ LearnEvent(e)
  \/ IdentifyEvents

-----------------------------------------------------------------------------
(* The application: the sketch, the buttons, configuration writes          *)

\* Bounds
MayAsk == Cardinality(Marked("PRODUCE")) + Cardinality(Marked("TEACH")) < MaxMarks

MayMark == Cardinality(Marked("LEARN")) < MaxMarks

With(i, k) == [flags EXCEPT ![i] = @ \cup {k}]

\* Mutant: the cursor stays where it is.
produceNoCursor(i) ==
  /\ MayAsk
  /\ "CAN_PRODUCE" \in Types[i]
  /\ flags' = With(i, "PRODUCE")
  /\ Silent
  /\ UNCHANGED <<board, eeprom, eventids, learnt, eventsIndex, sendEvent>>

produce(i) ==
  /\ MayAsk
  /\ "CAN_PRODUCE" \in Types[i]
  /\ flags' = With(i, "PRODUCE")
  /\ CursorTo({i}, sendEvent)
  /\ Silent
  /\ UNCHANGED <<board, eeprom, eventids, learnt, eventsIndex>>

sendTeach(i) ==
  /\ MayAsk
  /\ flags' = With(i, "TEACH")
  /\ CursorTo({i}, sendEvent)
  /\ Silent
  /\ UNCHANGED <<board, eeprom, eventids, learnt, eventsIndex>>

markToLearn(i, mark) ==
  /\ mark => MayMark
  /\ flags' = IF mark THEN With(i, "LEARN") ELSE Without(i, "LEARN")
  /\ Silent
  /\ UNCHANGED <<board, eeprom, eventids, learnt, eventsIndex, sendEvent>>

\* Configuration::processWrite, in the EEPROM alone
configWrite(i, e) ==
  /\ eeprom' = [eeprom EXCEPT ![i] = e]
  /\ eventids' = IF board.memory = "SMALL" THEN eeprom' ELSE eventids
  /\ Told(i)
  /\ Silent
  /\ UNCHANGED <<board, eventsIndex, flags, sendEvent>>

Application ==
  \E i \in Event :
    \/ produce(i)
    \/ sendTeach(i)
    \/ \E mark \in BOOLEAN : markToLearn(i, mark)
    \/ \E e \in EventID : configWrite(i, e)

-----------------------------------------------------------------------------
Next == Restart \/ check \/ receivedFrame \/ Application

Spec == Init /\ [][Next]_vars

\* Olcb_loop calls check in every iteration once the link is up.
FairSpec == Spec /\ WF_vars(check)

-----------------------------------------------------------------------------
(* Properties                                                              *)

\* Every variable has its type.
TypeOK ==
  /\ board \in Board
  /\ eeprom \in [Event -> EventID]
  /\ eventids \in [Event -> EventID]
  /\ eventsIndex \in [Event -> Entry]
  /\ flags \in [Event -> SUBSET Mark]
  /\ sendEvent \in 0 .. N
  /\ learnt \in [Event -> EventID \cup {Nothing}]
  /\ said \in Reply \cup {Nothing, Idle}
  /\ heard \in EventID \cup {Nothing}
  /\ called \in SUBSET Event

\* The cursor never stands behind an event that has something to say: what
\* it has passed stays passed, whatever is asked, learnt or taught
\* meanwhile. check() would never come back to such an event.
NothingSkipped == \A i \in Event : Due(flags, i) => sendEvent <= i

\* Every entry of the table under e's hash is of e, and every event of e is
\* under that hash: no other EventID has the sum of e, and none of these has
\* changed since the start.
Indexed(e) ==
  /\ \A p \in Event : eventsIndex[p].hash = Hash[e] => eventids[eventsIndex[p].index] = e
  /\ \A p \in Event : eventids[eventsIndex[p].index] = e => eventsIndex[p].hash = Hash[e]

\* A report calls the callback for consumers of its EventID alone, though
\* EventIDs share hashes and the table grows stale; and for all of them,
\* where the table is right about the EventID and an int has 16 bits.
CallbacksRight ==
  heard # Nothing =>
    /\ \A i \in called : "CAN_CONSUME" \in Types[i] /\ eventids[i] = heard
    /\ Indexed(heard) /\ ~board.wide =>
         \A i \in Event : "CAN_CONSUME" \in Types[i] /\ eventids[i] = heard => i \in called

\* PCE.cpp:232, "notify new eventID": an event that has learnt an EventID
\* waits to be announced, under that EventID, until it is announced or is
\* given another: whatever else is learnt, taught, asked or configured before
\* its turn, and though the node restarts. With memory model MEDIUM, whose
\* restore() is empty, it waits under the EventID the copy in RAM has.
LearntTold ==
  \A i \in Event : learnt[i] # Nothing /\ Types[i] # {} =>
    /\ "IDENT" \in flags[i]
    /\ sendEvent <= i
    /\ board.memory # "MEDIUM" => eventids[i] = learnt[i]

\* What is asked of the node is answered once, by the first event first, and
\* no pass of check is idle while something waits.
Kind == {"identify", "report", "teach"}

pending ==
  {r \in Event \X Kind :
     CASE r[2] = "identify" -> Identifies(flags, r[1])
       [] r[2] = "report" -> "PRODUCE" \in flags[r[1]]
       [] r[2] = "teach" -> "TEACH" \in flags[r[1]]}

AtStart == {r \in Event \X {"identify"} : Types[r[1]] # {}}

KindOf(what) ==
  CASE what = "Report" -> "report"
    [] what = "Learn" -> "teach"
    [] what \in {"Producer", "Consumer"} -> "identify"

answer == IF said \in {Nothing, Idle} THEN said ELSE <<said.event, KindOf(said.says)>>

Requests == INSTANCE RequestSet WITH NoAnswer <- Nothing

ImplementsRequests == Requests!Spec

\* When nobody asks for anything more, so that in the end the passes of
\* check() are all that happens, they come to an end of what there is to say,
\* though a teaching it sends marks events again and sends the cursor back.
Drains == []<><<said' = Nothing>>_vars \/ <>[](\A i \in Event : ~Due(flags, i))
=============================================================================
