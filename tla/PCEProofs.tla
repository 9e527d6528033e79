----------------------------- MODULE PCEProofs -----------------------------
(***************************************************************************)
(* Proofs about the producer/consumer events, for any number of events,    *)
(* any EventIDs and hashes, and every build.                               *)
(***************************************************************************)
EXTENDS PCE, FiniteSetTheorems, TLAPS

-----------------------------------------------------------------------------
(* The index                                                               *)

\* Every event has an entry in a table that initTables built.
LEMMA TablesComplete ==
  ASSUME NEW ids \in [Event -> EventID], NEW table \in Tables(ids)
  PROVE  /\ table \in [Event -> Entry]
         /\ \A i \in Event : \E p \in Event : table[p].index = i
<1>1. PICK o \in [Event -> Event] :
        /\ \A p, q \in Event : p < q => o[p] # o[q]
        /\ table = [p \in Event |-> [hash |-> Hash[ids[o[p]]], index |-> o[p]]]
  BY DEF Tables
<1>2. o \in Injection(Event, Event)
  <2>1. \A p, q \in Event : p # q => p < q \/ q < p
    BY EventIndexAssumption DEF Event
  <2>2. \A p, q \in Event : o[p] = o[q] => p = q
    BY <1>1, <2>1
  <2> QED
    BY <2>2 DEF Injection, IsInjective
<1>3. IsFiniteSet(Event)
  BY FS_Interval, EventIndexAssumption DEF Event
<1>4. o \in Surjection(Event, Event)
  BY <1>2, <1>3, FS_Injection
<1>5. \A i \in Event : \E p \in Event : o[p] = i
  BY <1>4 DEF Surjection
<1> QED
  BY <1>1, <1>5, EventIndexAssumption DEF Entry

-----------------------------------------------------------------------------
(* The inductive invariant                                                 *)

TableOK == \A i \in Event : \E p \in Event : eventsIndex[p].index = i

IInv == TypeOK /\ TableOK /\ NothingSkipped

LEMMA InitInv == Init => IInv
<1> SUFFICES ASSUME Init PROVE IInv
  OBVIOUS
<1>1. eventsIndex \in [Event -> Entry] /\ TableOK
  BY TablesComplete DEF Init, TableOK
<1>2. TypeOK
  <2>1. learnt \in [Event -> EventID \cup {Nothing}]
    BY DEF Init
  <2> QED
    BY <1>1, <2>1, PCEAssumption, EventIndexAssumption DEF Init, TypeOK, Mark
<1>3. NothingSkipped
  BY DEF Init, NothingSkipped, Event
<1> QED
  BY <1>1, <1>2, <1>3 DEF IInv

\* Where the cursor goes for the events of S.
LEMMA CursorBound ==
  ASSUME NEW c \in 0 .. N, NEW S \in SUBSET Event, CursorTo(S, c)
  PROVE  /\ sendEvent' \in 0 .. N
         /\ sendEvent' <= c
         /\ \A i \in S : sendEvent' <= i
BY EventIndexAssumption DEF CursorTo, Event

\* Flags set behind the cursor, and flags reset anywhere, skip nothing.
LEMMA SkipStep ==
  ASSUME TypeOK, NothingSkipped, flags' \in [Event -> SUBSET Mark],
         \A i \in Event : Due(flags', i) => Due(flags, i) \/ sendEvent' <= i,
         sendEvent' \in 0 .. N, sendEvent' <= sendEvent
  PROVE  NothingSkipped'
<1>1. sendEvent \in 0 .. N
  BY DEF TypeOK
<1>2. ASSUME NEW i \in Event, Due(flags', i)
      PROVE  sendEvent' <= i
  BY <1>1, <1>2, EventIndexAssumption DEF NothingSkipped, Event
<1> QED
  BY <1>2 DEF NothingSkipped, Due, Identifies

\* After check has stopped at i, nothing before i waits.
LEMMA StopStep ==
  ASSUME TypeOK, NothingSkipped, NEW i \in Event, StopsAt(i)
  PROVE  \A j \in Event : Due(flags, j) => i <= j
BY EventIndexAssumption DEF NothingSkipped, StopsAt, TypeOK, Event

\* What handleLearnEvent does to types and cursor, from flags f.
LEMMA LearnStep ==
  ASSUME TypeOK, NEW e \in EventID, NEW f \in [Event -> SUBSET Mark], NEW c \in 0 .. N,
         handleLearnEvent(e, f, c)
  PROVE  /\ eeprom' \in [Event -> EventID]
         /\ eventids' \in [Event -> EventID]
         /\ learnt' \in [Event -> EventID \cup {Nothing}]
         /\ flags' \in [Event -> SUBSET Mark]
         /\ sendEvent' \in 0 .. N
         /\ sendEvent' <= c
         /\ \A i \in Event : \/ flags'[i] = f[i]
                             \/ /\ flags'[i] = (f[i] \ {"LEARN"}) \cup {"IDENT"}
                                /\ sendEvent' <= i
<1> DEFINE learners == Marked("LEARN")
<1>1. learners \in SUBSET Event
  BY DEF Marked
<1>2. CursorTo(learners, c)
  BY DEF handleLearnEvent
<1>3. /\ sendEvent' \in 0 .. N
      /\ sendEvent' <= c
      /\ \A i \in learners : sendEvent' <= i
  BY <1>1, <1>2, CursorBound
<1>4. eeprom' \in [Event -> EventID] /\ learnt' \in [Event -> EventID \cup {Nothing}]
  BY DEF handleLearnEvent, Learns, TypeOK
<1>5. eventids' \in [Event -> EventID]
  BY <1>4 DEF handleLearnEvent, TypeOK
<1>6. flags' = [i \in Event |->
                  IF i \in learners THEN (f[i] \ {"LEARN"}) \cup {"IDENT"} ELSE f[i]]
  BY DEF handleLearnEvent
<1>7. flags' \in [Event -> SUBSET Mark]
  BY <1>6 DEF Mark
<1> QED
  BY <1>3, <1>4, <1>5, <1>6, <1>7

\* The outputs keep their types.
LEMMA SilentType == Silent => said' = Nothing /\ heard' = Nothing /\ called' = {}
BY DEF Silent, Deaf

LEMMA HearingType ==
  ASSUME TypeOK, NEW e \in EventID, handlePCEventReport(e)
  PROVE  heard' = e /\ called' \in SUBSET Event
<1>1. PICK places \in MayFind(e) : called' = CalledFor(places)
  BY DEF handlePCEventReport
<1>2. places \in SUBSET Event
  BY <1>1 DEF MayFind, FoundIn
<1>3. \A p \in places : eventsIndex[p].index \in Event
  BY <1>2 DEF TypeOK, Entry
<1> QED
  BY <1>1, <1>3 DEF handlePCEventReport, CalledFor

\* What is said has its type.
LEMMA SaysType ==
  ASSUME TypeOK, NEW i \in Event, NEW w \in {"Producer", "Consumer", "Report", "Learn"},
         Says(i, w)
  PROVE  said' \in Reply
BY DEF Says, Reply, TypeOK

LEMMA RestartInv ==
  ASSUME IInv, Restart
  PROVE  IInv'
<1>1. eventsIndex' \in Tables(eeprom) /\ eeprom \in [Event -> EventID]
  BY DEF Restart, StartTables, IInv, TypeOK
<1>2. eventsIndex' \in [Event -> Entry] /\ TableOK'
  BY <1>1, TablesComplete DEF TableOK
<1>3. TypeOK'
  BY <1>1, <1>2, SilentType, EventIndexAssumption
     DEF Restart, StartTables, IInv, TypeOK, Mark
<1>4. NothingSkipped'
  BY DEF Restart, StartTables, NothingSkipped, Event
<1> QED
  BY <1>2, <1>3, <1>4 DEF IInv

LEMMA CheckInv ==
  ASSUME IInv, check
  PROVE  IInv'
<1> USE DEF IInv
<1>1. ASSUME NEW i \in Event, StopsAt(i), NEW k \in Mark, flags' = Without(i, k), sendEvent' = i
      PROVE  /\ flags' \in [Event -> SUBSET Mark]
             /\ sendEvent' \in 0 .. N
             /\ NothingSkipped'
  <2>1. flags' \in [Event -> SUBSET Mark] /\ \A j \in Event : flags'[j] \subseteq flags[j]
    BY <1>1 DEF Without, TypeOK
  <2>2. \A j \in Event : Due(flags', j) => Due(flags, j)
    BY <2>1 DEF Due, Identifies
  <2>3. \A j \in Event : Due(flags, j) => i <= j
    BY <1>1, StopStep
  <2> QED
    BY <1>1, <2>1, <2>2, <2>3, EventIndexAssumption DEF NothingSkipped, Event, Due, Identifies
<1>2. ASSUME NEW i \in Event, sendIdentified(i)
      PROVE  IInv'
  <2>1. flags' \in [Event -> SUBSET Mark] /\ sendEvent' \in 0 .. N /\ NothingSkipped'
    BY <1>1, <1>2 DEF sendIdentified, Mark
  <2>2. said' \in Reply
    BY <1>2, SaysType DEF sendIdentified
  <2> QED
    BY <1>2, <2>1, <2>2 DEF sendIdentified, Told, Deaf, TypeOK, TableOK
<1>3. ASSUME NEW i \in Event, sendPCEventReport(i)
      PROVE  IInv'
  <2>1. flags' \in [Event -> SUBSET Mark] /\ sendEvent' \in 0 .. N /\ NothingSkipped'
    BY <1>1, <1>3 DEF sendPCEventReport, Mark
  <2>2. said' \in Reply
    BY <1>3, SaysType DEF sendPCEventReport
  <2>3. eventids[i] \in EventID
    BY DEF TypeOK
  <2>4. heard' \in EventID /\ called' \in SUBSET Event
    BY <1>3, <2>3, HearingType DEF sendPCEventReport
  <2> QED
    BY <1>3, <2>1, <2>2, <2>4 DEF sendPCEventReport, TypeOK, TableOK
<1>4. ASSUME NEW i \in Event, sendLearnEvent(i)
      PROVE  IInv'
  <2> DEFINE f == Without(i, "TEACH")
  <2>1. f \in [Event -> SUBSET Mark] /\ \A j \in Event : f[j] \subseteq flags[j]
    BY DEF Without, TypeOK
  <2>2. eventids[i] \in EventID /\ i \in 0 .. N
    BY EventIndexAssumption DEF TypeOK, Event
  <2>3. handleLearnEvent(eventids[i], f, i)
    BY <1>4 DEF sendLearnEvent
  <2>4. /\ eeprom' \in [Event -> EventID]
        /\ eventids' \in [Event -> EventID]
        /\ learnt' \in [Event -> EventID \cup {Nothing}]
        /\ flags' \in [Event -> SUBSET Mark]
        /\ sendEvent' \in 0 .. N
        /\ sendEvent' <= i
        /\ \A j \in Event : flags'[j] = f[j] \/ sendEvent' <= j
    BY <2>1, <2>2, <2>3, LearnStep
  <2>5. \A j \in Event : Due(flags', j) => Due(flags, j) \/ sendEvent' <= j
    BY <2>1, <2>4 DEF Due, Identifies
  <2>6. \A j \in Event : Due(flags, j) => i <= j
    BY <1>4, StopStep DEF sendLearnEvent
  <2>7. \A j \in Event : Due(flags', j) => sendEvent' <= j
    <3> HIDE DEF f
    <3> QED
      BY <2>2, <2>4, <2>5, <2>6, EventIndexAssumption DEF Event
  <2>8. said' \in Reply
    BY <1>4, SaysType DEF sendLearnEvent
  <2>9. NothingSkipped'
    BY <2>7 DEF NothingSkipped, Due, Identifies
  <2> QED
    BY <1>4, <2>4, <2>8, <2>9 DEF sendLearnEvent, Deaf, TypeOK, TableOK
<1>5. CASE nothingToSend
  <2>1. NothingSkipped'
    BY <1>5, EventIndexAssumption DEF nothingToSend, NothingSkipped, TypeOK, Due, Identifies
  <2> QED
    BY <1>5, <2>1, EventIndexAssumption DEF nothingToSend, Deaf, TypeOK, TableOK
<1> QED
  BY <1>2, <1>3, <1>4, <1>5 DEF check

LEMMA AskForInv ==
  ASSUME IInv, NEW e \in EventID, NEW type, AskFor(e, type)
  PROVE  IInv'
<1> USE DEF IInv
<1>1. PICK places \in MayFind(e) :
        LET asked == {p \in places : type \in Types[p]}
        IN  /\ flags' = [i \in Event |->
                           IF i \in asked THEN flags[i] \cup {"IDENT"} ELSE flags[i]]
            /\ CursorTo(asked, sendEvent)
  BY DEF AskFor
<1> DEFINE asked == {p \in places : type \in Types[p]}
<1>2. asked \in SUBSET Event
  BY <1>1 DEF MayFind, FoundIn
<1>3. flags' \in [Event -> SUBSET Mark]
  BY <1>1 DEF TypeOK, Mark
<1>4. /\ sendEvent' \in 0 .. N
      /\ sendEvent' <= sendEvent
      /\ \A i \in asked : sendEvent' <= i
  BY <1>1, <1>2, CursorBound DEF TypeOK
<1>5. \A i \in Event : Due(flags', i) => Due(flags, i) \/ sendEvent' <= i
  BY <1>1, <1>4 DEF Due, Identifies
<1>6. NothingSkipped'
  BY <1>3, <1>4, <1>5, SkipStep
<1> QED
  BY <1>3, <1>4, <1>6, SilentType DEF AskFor, TypeOK, TableOK

LEMMA ReceiveInv ==
  ASSUME IInv, receivedFrame
  PROVE  IInv'
<1> USE DEF IInv
<1>1. CASE IdentifyEvents
  <2>1. flags' \in [Event -> SUBSET Mark] /\ sendEvent' \in 0 .. N
    BY <1>1, EventIndexAssumption DEF IdentifyEvents, TypeOK, Mark
  <2>2. NothingSkipped'
    BY <1>1, EventIndexAssumption DEF IdentifyEvents, NothingSkipped, Event
  <2> QED
    BY <1>1, <2>1, <2>2, SilentType DEF IdentifyEvents, TypeOK, TableOK
<1>2. ASSUME NEW e \in EventID, IdentifyConsumers(e) \/ IdentifyProducers(e)
      PROVE  IInv'
  BY <1>2, AskForInv DEF IdentifyConsumers, IdentifyProducers
<1>3. ASSUME NEW e \in EventID, PCEventReport(e)
      PROVE  IInv'
  <2>1. heard' \in EventID /\ called' \in SUBSET Event
    BY <1>3, HearingType DEF PCEventReport
  <2> QED
    BY <1>3, <2>1 DEF PCEventReport, TypeOK, TableOK, NothingSkipped, Due, Identifies
<1>4. ASSUME NEW e \in EventID, LearnEvent(e)
      PROVE  IInv'
  <2>1. handleLearnEvent(e, flags, sendEvent)
    BY <1>4 DEF LearnEvent
  <2>2. /\ eeprom' \in [Event -> EventID]
        /\ eventids' \in [Event -> EventID]
        /\ learnt' \in [Event -> EventID \cup {Nothing}]
        /\ flags' \in [Event -> SUBSET Mark]
        /\ sendEvent' \in 0 .. N
        /\ sendEvent' <= sendEvent
        /\ \A i \in Event : flags'[i] = flags[i] \/ sendEvent' <= i
    BY <2>1, LearnStep DEF TypeOK
  <2>3. \A i \in Event : Due(flags', i) => Due(flags, i) \/ sendEvent' <= i
    BY <2>2 DEF Due, Identifies
  <2>4. NothingSkipped'
    BY <2>2, <2>3, SkipStep
  <2> QED
    BY <1>4, <2>2, <2>4, SilentType DEF LearnEvent, TypeOK, TableOK
<1> QED
  BY <1>1, <1>2, <1>3, <1>4 DEF receivedFrame

LEMMA ApplicationInv ==
  ASSUME IInv, Application
  PROVE  IInv'
<1> USE DEF IInv
<1>1. PICK i \in Event :
        \/ produce(i)
        \/ sendTeach(i)
        \/ \E mark \in BOOLEAN : markToLearn(i, mark)
        \/ \E e \in EventID : configWrite(i, e)
  BY DEF Application
<1>2. CASE produce(i) \/ sendTeach(i)
  <2>1. PICK k \in {"PRODUCE", "TEACH"} : flags' = With(i, k)
    BY <1>2 DEF produce, sendTeach
  <2>2. flags' \in [Event -> SUBSET Mark]
    BY <2>1 DEF With, TypeOK, Mark
  <2>3. CursorTo({i}, sendEvent)
    BY <1>2 DEF produce, sendTeach
  <2>4. sendEvent' \in 0 .. N /\ sendEvent' <= sendEvent /\ sendEvent' <= i
    BY <2>3, CursorBound DEF TypeOK
  <2>5. \A j \in Event : Due(flags', j) => Due(flags, j) \/ sendEvent' <= j
    BY <2>1, <2>4 DEF With, Due, Identifies, TypeOK
  <2>6. NothingSkipped'
    BY <2>2, <2>4, <2>5, SkipStep
  <2> QED
    BY <1>2, <2>2, <2>4, <2>6, SilentType DEF produce, sendTeach, TypeOK, TableOK
<1>3. ASSUME NEW mark \in BOOLEAN, markToLearn(i, mark)
      PROVE  IInv'
  <2>1. flags' \in [Event -> SUBSET Mark]
    BY <1>3 DEF markToLearn, With, Without, TypeOK, Mark
  <2>2. \A j \in Event : Due(flags', j) => Due(flags, j)
    BY <1>3 DEF markToLearn, With, Without, Due, Identifies, TypeOK
  <2>3. NothingSkipped'
    BY <1>3, <2>2 DEF markToLearn, NothingSkipped, Due, Identifies
  <2> QED
    BY <1>3, <2>1, <2>3, SilentType DEF markToLearn, TypeOK, TableOK
<1>4. ASSUME NEW e \in EventID, configWrite(i, e)
      PROVE  IInv'
  BY <1>4, SilentType DEF configWrite, Told, TypeOK, TableOK, NothingSkipped, Due, Identifies
<1> QED
  BY <1>1, <1>2, <1>3, <1>4

LEMMA StepInv == IInv /\ [Next]_vars => IInv'
<1> SUFFICES ASSUME IInv, [Next]_vars PROVE IInv'
  OBVIOUS
<1>1. CASE UNCHANGED vars
  BY <1>1 DEF vars, IInv, TypeOK, TableOK, NothingSkipped, Due, Identifies
<1> QED
  BY <1>1, RestartInv, CheckInv, ReceiveInv, ApplicationInv DEF Next

LEMMA Invariant == Spec => []IInv
BY InitInv, StepInv, PTL DEF Spec

\* Every variable of the event handler keeps its type, for any number of
\* events: the cursor never leaves the table.
THEOREM TypeCorrect == Spec => []TypeOK
BY Invariant, PTL DEF IInv

\* The cursor never passes an event that has something to say.
THEOREM NeverSkips == Spec => []NothingSkipped
BY Invariant, PTL DEF IInv

-----------------------------------------------------------------------------
(* Callbacks                                                               *)

\* Hearing a report, with the tables as they are, calls the right events.
LEMMA HearingRight ==
  ASSUME TypeOK, TableOK, NEW e \in EventID, handlePCEventReport(e)
  PROVE  /\ heard' = e
         /\ \A i \in called' : "CAN_CONSUME" \in Types[i] /\ eventids[i] = e
         /\ Indexed(e) /\ ~board.wide =>
              \A i \in Event : "CAN_CONSUME" \in Types[i] /\ eventids[i] = e => i \in called'
<1>1. PICK places \in MayFind(e) : called' = CalledFor(places)
  BY DEF handlePCEventReport
<1>2. places = FoundIn(eventsIndex, eventids, e) \/ places = {}
  BY <1>1 DEF MayFind
<1>3. ASSUME NEW p \in places
      PROVE  eventids[eventsIndex[p].index] = e
  <2>1. /\ p \in Event
        /\ eventsIndex[p].hash = Hash[e]
        /\ \A q \in Event : q <= p /\ eventsIndex[q].hash = Hash[e] =>
             eventids[eventsIndex[q].index] = e
    BY <1>2, <1>3 DEF FoundIn
  <2> QED
    BY <2>1, EventIndexAssumption DEF Event
<1>4. \A i \in called' : "CAN_CONSUME" \in Types[i] /\ eventids[i] = e
  BY <1>1, <1>3 DEF CalledFor
<1>5. ASSUME Indexed(e), ~board.wide, NEW i \in Event,
             "CAN_CONSUME" \in Types[i], eventids[i] = e
      PROVE  i \in called'
  <2>1. PICK p \in Event : eventsIndex[p].index = i
    BY DEF TableOK
  <2>2. places = FoundIn(eventsIndex, eventids, e)
    BY <1>1, <1>5 DEF MayFind
  <2>3. eventsIndex[p].hash = Hash[e]
    BY <1>5, <2>1 DEF Indexed
  <2>4. p \in places
    BY <1>5, <2>2, <2>3 DEF FoundIn, Indexed
  <2> QED
    BY <1>1, <1>5, <2>1, <2>4 DEF CalledFor
<1> QED
  BY <1>4, <1>5 DEF handlePCEventReport

LEMMA CallbackStep == IInv /\ CallbacksRight /\ [Next]_vars => CallbacksRight'
<1> SUFFICES ASSUME IInv, CallbacksRight, [Next]_vars PROVE CallbacksRight'
  OBVIOUS
<1>1. CASE heard' = Nothing
  BY <1>1 DEF CallbacksRight
<1>2. ASSUME NEW e \in EventID, handlePCEventReport(e), UNCHANGED <<board, eventids, eventsIndex>>
      PROVE  CallbacksRight'
  BY <1>2, HearingRight DEF IInv, CallbacksRight, Indexed
<1>3. ASSUME NEW i \in Event, sendPCEventReport(i)
      PROVE  CallbacksRight'
  <2>1. eventids[i] \in EventID
    BY DEF IInv, TypeOK
  <2> QED
    BY <1>2, <1>3, <2>1 DEF sendPCEventReport
<1>4. ASSUME NEW e \in EventID, PCEventReport(e)
      PROVE  CallbacksRight'
  BY <1>2, <1>4 DEF PCEventReport
<1>5. CASE UNCHANGED vars
  BY <1>5 DEF vars, CallbacksRight, Indexed
<1>6. CASE check
  BY <1>1, <1>3, <1>6
     DEF check, sendIdentified, sendLearnEvent, nothingToSend, Deaf
<1>7. CASE receivedFrame
  BY <1>1, <1>4, <1>7
     DEF receivedFrame, IdentifyConsumers, IdentifyProducers, AskFor, IdentifyEvents,
         LearnEvent, Silent, Deaf
<1>8. CASE Restart \/ Application
  BY <1>1, <1>8
     DEF Restart, Application, produce, sendTeach, markToLearn, configWrite, Silent, Deaf
<1> QED
  BY <1>5, <1>6, <1>7, <1>8 DEF Next

\* Whatever the hashes, a report calls back consumers of its EventID alone,
\* and all of them where the index is right about the EventID.
THEOREM RightCallbacks == Spec => []CallbacksRight
<1>1. Init => CallbacksRight
  BY DEF Init, CallbacksRight
<1> QED
  BY <1>1, CallbackStep, Invariant, PTL DEF Spec

-----------------------------------------------------------------------------
(* Learning                                                                *)

\* What an event has learnt is in the EEPROM, from where a restart and
\* restore() fetch it.
LearntOK ==
  \A i \in Event : learnt[i] # Nothing =>
    /\ eeprom[i] = learnt[i]
    /\ "IDENT" \in flags[i]
    /\ board.memory # "MEDIUM" => eventids[i] = learnt[i]

LEMMA LearningKeeps ==
  ASSUME TypeOK, LearntOK, NEW e \in EventID, NEW f \in [Event -> SUBSET Mark], NEW c,
         \A i \in Event : "IDENT" \in flags[i] => "IDENT" \in f[i],
         handleLearnEvent(e, f, c), UNCHANGED board
  PROVE  LearntOK'
<1> SUFFICES ASSUME NEW i \in Event, learnt'[i] # Nothing
             PROVE  /\ eeprom'[i] = learnt'[i]
                    /\ "IDENT" \in flags'[i]
                    /\ board.memory # "MEDIUM" => eventids'[i] = learnt'[i]
  BY DEF LearntOK
<1> DEFINE learners == Marked("LEARN")
<1>1. /\ eeprom'[i] = IF i \in learners THEN e ELSE eeprom[i]
      /\ learnt'[i] = IF i \in learners THEN e ELSE learnt[i]
      /\ flags'[i] = IF i \in learners THEN (f[i] \ {"LEARN"}) \cup {"IDENT"} ELSE f[i]
      /\ eventids' = IF \/ board.memory = "SMALL"
                        \/ board.memory = "LARGE" /\ learners # {}
                     THEN eeprom' ELSE eventids
  BY DEF handleLearnEvent, Learns
<1>2. board.memory \in {"SMALL", "MEDIUM", "LARGE"}
  BY DEF TypeOK, Board
<1>3. ASSUME i \notin learners
      PROVE  /\ eeprom[i] = learnt[i]
             /\ "IDENT" \in f[i]
             /\ board.memory # "MEDIUM" => eventids[i] = learnt[i]
  BY <1>1, <1>3 DEF LearntOK
<1> HIDE DEF learners
<1>4. eeprom'[i] = learnt'[i] /\ "IDENT" \in flags'[i]
  <2>1. CASE i \in learners
    BY <1>1, <2>1
  <2>2. CASE i \notin learners
    <3>1. eeprom'[i] = eeprom[i] /\ learnt'[i] = learnt[i] /\ flags'[i] = f[i]
      BY <1>1, <2>2
    <3> QED
      BY <1>3, <2>2, <3>1
  <2> QED
    BY <2>1, <2>2
<1>5. ASSUME board.memory # "MEDIUM"
      PROVE  eventids'[i] = learnt'[i]
  <2>1. CASE eventids' = eeprom'
    BY <1>4, <2>1
  <2>2. CASE eventids' = eventids /\ i \notin learners
    <3>1. learnt'[i] = learnt[i]
      BY <1>1, <2>2
    <3> QED
      BY <1>3, <1>5, <2>2, <3>1
  <2> QED
    BY <1>1, <1>2, <1>5, <2>1, <2>2
<1> QED
  BY <1>4, <1>5

LEMMA LearntStep ==
  ASSUME TypeOK, LearntOK, [Next]_vars
  PROVE  LearntOK'
<1>1. ASSUME UNCHANGED <<board, eeprom, eventids, learnt>>,
             \A i \in Event : "IDENT" \in flags[i] => "IDENT" \in flags'[i]
      PROVE  LearntOK'
  BY <1>1 DEF LearntOK
<1>2. ASSUME NEW i \in Event, NEW k \in Mark, k # "IDENT", NEW j \in Event, "IDENT" \in flags[j]
      PROVE  "IDENT" \in Without(i, k)[j]
  <2>1. Without(i, k)[j] = IF j = i THEN flags[j] \ {k} ELSE flags[j]
    BY DEF Without, TypeOK
  <2> QED
    BY <1>2, <2>1
<1>3. ASSUME NEW i \in Event, NEW k \in Mark, NEW j \in Event, "IDENT" \in flags[j]
      PROVE  "IDENT" \in With(i, k)[j]
  <2>1. With(i, k)[j] = IF j = i THEN flags[j] \cup {k} ELSE flags[j]
    BY DEF With, TypeOK
  <2> QED
    BY <1>3, <2>1
<1>4. CASE UNCHANGED vars
  BY <1>1, <1>4 DEF vars
<1>5. CASE Restart
  BY <1>5 DEF Restart, StartTables, LearntOK, TypeOK
<1>6. ASSUME NEW i \in Event, sendIdentified(i)
      PROVE  LearntOK'
  <2>1. \A j \in Event : j # i => flags'[j] = flags[j] /\ learnt'[j] = learnt[j]
    BY <1>6 DEF sendIdentified, Without, Told, TypeOK
  <2>2. learnt'[i] = Nothing
    BY <1>6 DEF sendIdentified, Told, TypeOK
  <2> QED
    BY <1>6, <2>1, <2>2 DEF sendIdentified, LearntOK
<1>7. ASSUME NEW i \in Event, sendPCEventReport(i)
      PROVE  LearntOK'
  BY <1>1, <1>2, <1>7 DEF sendPCEventReport, Mark
<1>8. ASSUME NEW i \in Event, sendLearnEvent(i)
      PROVE  LearntOK'
  <2>1. /\ Without(i, "TEACH") \in [Event -> SUBSET Mark]
        /\ eventids[i] \in EventID
    BY DEF TypeOK, Without
  <2> QED
    BY <1>2, <1>8, <2>1, LearningKeeps DEF sendLearnEvent, Mark
<1>9. CASE nothingToSend
  BY <1>1, <1>9 DEF nothingToSend
<1>10. ASSUME NEW e \in EventID, NEW type, AskFor(e, type)
       PROVE  LearntOK'
  <2>1. \A i \in Event : "IDENT" \in flags[i] => "IDENT" \in flags'[i]
    BY <1>10 DEF AskFor
  <2> QED
    BY <1>1, <1>10, <2>1 DEF AskFor
<1>11. CASE IdentifyEvents
  BY <1>1, <1>11 DEF IdentifyEvents
<1>12. ASSUME NEW e \in EventID, PCEventReport(e)
       PROVE  LearntOK'
  BY <1>1, <1>12 DEF PCEventReport
<1>13. ASSUME NEW e \in EventID, LearnEvent(e)
       PROVE  LearntOK'
  <2>1. flags \in [Event -> SUBSET Mark]
    BY DEF TypeOK
  <2> QED
    BY <1>13, <2>1, LearningKeeps DEF LearnEvent
<1>14. ASSUME NEW i \in Event, produce(i) \/ sendTeach(i)
       PROVE  LearntOK'
  BY <1>1, <1>3, <1>14 DEF produce, sendTeach, Mark
<1>15. ASSUME NEW i \in Event, NEW mark \in BOOLEAN, markToLearn(i, mark)
       PROVE  LearntOK'
  BY <1>1, <1>2, <1>3, <1>15 DEF markToLearn, Mark
<1>16. ASSUME NEW i \in Event, NEW e \in EventID, configWrite(i, e)
       PROVE  LearntOK'
  <2>1. \A j \in Event : j # i => eeprom'[j] = eeprom[j] /\ learnt'[j] = learnt[j]
    BY <1>16 DEF configWrite, Told, TypeOK
  <2>2. learnt'[i] = Nothing
    BY <1>16 DEF configWrite, Told, TypeOK
  <2>3. eventids' = eeprom' \/ eventids' = eventids
    BY <1>16 DEF configWrite
  <2> QED
    BY <1>16, <2>1, <2>2, <2>3 DEF configWrite, LearntOK
<1> QED
  BY <1>4, <1>5, <1>6, <1>7, <1>8, <1>9, <1>10, <1>11, <1>12, <1>13, <1>14, <1>15, <1>16
     DEF Next, check, receivedFrame, IdentifyConsumers, IdentifyProducers, Application

\* An event that has learnt an EventID stays in line to be announced until it
\* is, and, but for memory model MEDIUM, under that EventID.
THEOREM LearntIsTold == Spec => []LearntTold
<1>1. Init => LearntOK
  BY DEF Init, LearntOK
<1>2. IInv /\ LearntOK => LearntTold
  BY DEF IInv, NothingSkipped, Due, Identifies, LearntOK, LearntTold
<1> QED
  BY <1>1, <1>2, LearntStep, Invariant, PTL DEF Spec, IInv

-----------------------------------------------------------------------------
(* Refinement of the set of requests                                       *)

\* What waits, kind by kind.
LEMMA PendingIs ==
  /\ pending \in SUBSET (Event \X Kind)
  /\ \A i \in Event : /\ <<i, "identify">> \in pending <=> Identifies(flags, i)
                      /\ <<i, "report">> \in pending <=> "PRODUCE" \in flags[i]
                      /\ <<i, "teach">> \in pending <=> "TEACH" \in flags[i]
BY DEF pending, Kind

LEMMA PendingIsPrimed ==
  /\ pending' \in SUBSET (Event \X Kind)
  /\ \A i \in Event : /\ <<i, "identify">> \in pending' <=> Identifies(flags', i)
                      /\ <<i, "report">> \in pending' <=> "PRODUCE" \in flags'[i]
                      /\ <<i, "teach">> \in pending' <=> "TEACH" \in flags'[i]
BY DEF pending, Kind, Identifies

\* Every request is of one of the kinds.
LEMMA RequestKinds ==
  ASSUME NEW r \in Event \X Kind
  PROVE  /\ r[1] \in Event
         /\ \/ r = <<r[1], "identify">>
            \/ r = <<r[1], "report">>
            \/ r = <<r[1], "teach">>
BY DEF Kind

\* A step that says nothing and forgets nothing.
LEMMA AskStep ==
  ASSUME said' = Nothing,
         \A i \in Event : /\ Identifies(flags, i) => Identifies(flags', i)
                          /\ "PRODUCE" \in flags[i] => "PRODUCE" \in flags'[i]
                          /\ "TEACH" \in flags[i] => "TEACH" \in flags'[i]
  PROVE  Requests!Ask
<1>1. pending \subseteq pending'
  <2> SUFFICES ASSUME NEW r \in pending PROVE r \in pending'
    OBVIOUS
  <2>1. r \in Event \X Kind
    BY PendingIs
  <2> QED
    BY <2>1, RequestKinds, PendingIs, PendingIsPrimed
<1>2. answer' = Nothing
  BY DEF answer
<1> QED
  BY <1>1, <1>2, PendingIsPrimed DEF Requests!Ask, Requests!Request

\* A pass that stops at i and answers r, which is of i: no other request is
\* forgotten.
LEMMA AnswerStep ==
  ASSUME TypeOK, NothingSkipped, NEW i \in Event, StopsAt(i),
         NEW k \in Kind, <<i, k>> \in pending, <<i, k>> \notin pending',
         said' \in Reply, said'.event = i, KindOf(said'.says) = k,
         \A j \in Event : /\ Identifies(flags, j) => Identifies(flags', j) \/ <<j, "identify">> = <<i, k>>
                          /\ "PRODUCE" \in flags[j] => "PRODUCE" \in flags'[j] \/ <<j, "report">> = <<i, k>>
                          /\ "TEACH" \in flags[j] => "TEACH" \in flags'[j] \/ <<j, "teach">> = <<i, k>>
  PROVE  Requests!Answer(<<i, k>>)
<1>1. \A r \in pending : i <= r[1]
  <2> SUFFICES ASSUME NEW r \in pending PROVE i <= r[1]
    OBVIOUS
  <2>1. r \in Event \X Kind
    BY PendingIs
  <2>2. r[1] \in Event /\ Due(flags, r[1])
    BY <2>1, RequestKinds, PendingIs DEF Due
  <2> QED
    BY <2>2, StopStep
<1>2. pending \ {<<i, k>>} \subseteq pending'
  <2> SUFFICES ASSUME NEW r \in pending, r # <<i, k>> PROVE r \in pending'
    OBVIOUS
  <2>1. r \in Event \X Kind
    BY PendingIs
  <2> QED
    BY <2>1, RequestKinds, PendingIs, PendingIsPrimed
<1>3. answer' = <<i, k>>
  BY PCEAssumption DEF answer
<1> QED
  BY <1>1, <1>2, <1>3, PendingIsPrimed DEF Requests!Answer, Requests!Request

LEMMA CheckAnswers ==
  ASSUME IInv, check
  PROVE  Requests!Next
<1> USE DEF IInv
<1>1. ASSUME NEW i \in Event, NEW k \in Kind, Requests!Answer(<<i, k>>)
      PROVE  Requests!Next
  BY <1>1, PendingIs DEF Requests!Next, Requests!Answer
<1>2. ASSUME NEW i \in Event, sendIdentified(i)
      PROVE  Requests!Next
  <2>1. /\ flags'[i] = flags[i] \ {"IDENT"}
        /\ \A j \in Event : j # i => flags'[j] = flags[j]
    BY <1>2 DEF sendIdentified, Without, TypeOK
  <2>2. said' \in Reply /\ said'.event = i /\ KindOf(said'.says) = "identify"
    BY <1>2, SaysType DEF sendIdentified, Says, KindOf
  <2>3. <<i, "identify">> \in pending /\ <<i, "identify">> \notin pending'
    BY <1>2, <2>1, PendingIs, PendingIsPrimed DEF sendIdentified, Identifies
  <2>4. Requests!Answer(<<i, "identify">>)
    BY <1>2, <2>1, <2>2, <2>3, AnswerStep DEF sendIdentified, Identifies, Kind
  <2> QED
    BY <1>1, <2>4 DEF Kind
<1>3. ASSUME NEW i \in Event, sendPCEventReport(i)
      PROVE  Requests!Next
  <2>1. /\ flags'[i] = flags[i] \ {"PRODUCE"}
        /\ \A j \in Event : j # i => flags'[j] = flags[j]
    BY <1>3 DEF sendPCEventReport, Without, TypeOK
  <2>2. said' \in Reply /\ said'.event = i /\ KindOf(said'.says) = "report"
    BY <1>3, SaysType DEF sendPCEventReport, Says, KindOf
  <2>3. <<i, "report">> \in pending /\ <<i, "report">> \notin pending'
    BY <1>3, <2>1, PendingIs, PendingIsPrimed DEF sendPCEventReport
  <2>4. Requests!Answer(<<i, "report">>)
    BY <1>3, <2>1, <2>2, <2>3, AnswerStep DEF sendPCEventReport, Identifies, Kind
  <2> QED
    BY <1>1, <2>4 DEF Kind
<1>4. ASSUME NEW i \in Event, sendLearnEvent(i)
      PROVE  Requests!Next
  <2> DEFINE f == Without(i, "TEACH")
  <2>1. /\ f \in [Event -> SUBSET Mark]
        /\ f[i] = flags[i] \ {"TEACH"}
        /\ \A j \in Event : j # i => f[j] = flags[j]
    BY DEF Without, TypeOK
  <2>2. \A j \in Event : flags'[j] = f[j] \/ flags'[j] = (f[j] \ {"LEARN"}) \cup {"IDENT"}
    BY <1>4 DEF sendLearnEvent, handleLearnEvent
  <2>3. said' \in Reply /\ said'.event = i /\ KindOf(said'.says) = "teach"
    BY <1>4, SaysType DEF sendLearnEvent, Says, KindOf
  <2>4. Due(flags, i)
    BY <1>4 DEF sendLearnEvent, StopsAt
  <2>5. "TEACH" \in flags[i]
    BY <1>4, <2>4 DEF sendLearnEvent, Due
  <2>6. <<i, "teach">> \in pending /\ <<i, "teach">> \notin pending'
    BY <2>1, <2>2, <2>5, PendingIs, PendingIsPrimed
  <2>7. \A j \in Event : /\ Identifies(flags, j) => Identifies(flags', j)
                         /\ "PRODUCE" \in flags[j] => "PRODUCE" \in flags'[j]
                         /\ j # i /\ "TEACH" \in flags[j] => "TEACH" \in flags'[j]
    BY <2>1, <2>2 DEF Identifies
  <2>8. Requests!Answer(<<i, "teach">>)
    BY <1>4, <2>3, <2>6, <2>7, AnswerStep DEF sendLearnEvent, Kind
  <2> QED
    BY <1>1, <2>8 DEF Kind
<1>5. CASE nothingToSend
  <2>1. \A i \in Event : ~Due(flags, i)
    BY <1>5 DEF nothingToSend, NothingSkipped
  <2>2. pending = {}
    <3> SUFFICES ASSUME NEW r \in pending PROVE FALSE
      OBVIOUS
    <3>1. r \in Event \X Kind
      BY PendingIs
    <3> QED
      BY <2>1, <3>1, RequestKinds, PendingIs DEF Due
  <2>3. pending' = pending
    BY <1>5 DEF nothingToSend, pending, Identifies
  <2>4. answer' = Idle
    BY <1>5 DEF nothingToSend, answer
  <2> QED
    BY <2>2, <2>3, <2>4 DEF Requests!Next, Requests!Rest
<1> QED
  BY <1>2, <1>3, <1>4, <1>5 DEF check

LEMMA ReceiveAsks ==
  ASSUME IInv, receivedFrame \/ Application
  PROVE  Requests!Ask
<1> USE DEF IInv
<1> DEFINE Grows(i) == /\ Identifies(flags, i) => Identifies(flags', i)
                       /\ "PRODUCE" \in flags[i] => "PRODUCE" \in flags'[i]
                       /\ "TEACH" \in flags[i] => "TEACH" \in flags'[i]
<1>1. ASSUME NEW e \in EventID, NEW type, AskFor(e, type)
      PROVE  said' = Nothing /\ \A i \in Event : Grows(i)
  <2>1. \A i \in Event : flags'[i] = flags[i] \/ flags'[i] = flags[i] \cup {"IDENT"}
    BY <1>1 DEF AskFor
  <2> QED
    BY <1>1, <2>1 DEF AskFor, Silent, Identifies
<1>2. ASSUME NEW e \in EventID, LearnEvent(e)
      PROVE  said' = Nothing /\ \A i \in Event : Grows(i)
  <2>1. \A i \in Event : \/ flags'[i] = flags[i]
                         \/ flags'[i] = (flags[i] \ {"LEARN"}) \cup {"IDENT"}
    BY <1>2 DEF LearnEvent, handleLearnEvent
  <2> QED
    BY <1>2, <2>1 DEF LearnEvent, Silent, Identifies
<1>3. CASE IdentifyEvents
  BY <1>3, AskStep DEF IdentifyEvents, Silent, Identifies
<1>4. ASSUME NEW e \in EventID, PCEventReport(e)
      PROVE  said' = Nothing /\ \A i \in Event : Grows(i)
  BY <1>4 DEF PCEventReport, Identifies
<1>5. CASE receivedFrame
  BY <1>1, <1>2, <1>3, <1>4, <1>5, AskStep
     DEF receivedFrame, IdentifyConsumers, IdentifyProducers
<1>6. CASE Application
  <2>1. PICK i \in Event :
          \/ produce(i)
          \/ sendTeach(i)
          \/ \E mark \in BOOLEAN : markToLearn(i, mark)
          \/ \E e \in EventID : configWrite(i, e)
    BY <1>6 DEF Application
  <2>2. said' = Nothing
    BY <2>1 DEF produce, sendTeach, markToLearn, configWrite, Silent
  <2>3. \A j \in Event : \E K \in SUBSET Mark :
          flags'[j] = flags[j] \cup K \/ flags'[j] = flags[j] \ {"LEARN"}
    <3>1. ASSUME NEW k \in Mark, NEW j \in Event, flags' = With(i, k)
          PROVE  flags'[j] = flags[j] \cup {k} \/ flags'[j] = flags[j] \cup {}
      BY <3>1 DEF With, TypeOK
    <3>2. ASSUME NEW j \in Event, flags' = Without(i, "LEARN")
          PROVE  flags'[j] = flags[j] \ {"LEARN"} \/ flags'[j] = flags[j] \cup {}
      BY <3>2 DEF Without, TypeOK
    <3>3. \/ \E k \in Mark : flags' = With(i, k)
          \/ flags' = Without(i, "LEARN")
          \/ flags' = flags
      BY <2>1 DEF produce, sendTeach, markToLearn, configWrite, Mark
    <3>4. ASSUME NEW j \in Event, flags' = flags
          PROVE  flags'[j] = flags[j] \cup {}
      BY <3>4
    <3>5. {} \in SUBSET Mark /\ \A k \in Mark : {k} \in SUBSET Mark
      OBVIOUS
    <3> QED
      BY <3>1, <3>2, <3>3, <3>4, <3>5
  <2>4. \A j \in Event : Grows(j)
    BY <2>3 DEF Identifies
  <2> QED
    BY <2>2, <2>4, AskStep
<1> QED
  BY <1>5, <1>6

\* The event handler implements the set of requests: what is asked of the
\* node is answered once, by the first event first, and no pass of check is
\* idle while something waits.
THEOREM PCEImplementsRequests == Spec => ImplementsRequests
<1>1. ASSUME flags = [i \in Event |-> {"IDENT"}]
      PROVE  pending = AtStart
  BY <1>1 DEF pending, AtStart, Kind, Identifies
<1>2. ASSUME flags' = [i \in Event |-> {"IDENT"}]
      PROVE  pending' = AtStart
  BY <1>2 DEF pending, AtStart, Kind, Identifies
<1>3. Init => Requests!Init
  BY <1>1 DEF Init, Requests!Init, answer
<1>4. IInv /\ [Next]_vars => [Requests!Next]_<<pending, answer>>
  <2> SUFFICES ASSUME IInv, [Next]_vars
               PROVE  [Requests!Next]_<<pending, answer>>
    OBVIOUS
  <2>1. CASE Restart
    BY <1>2, <2>1 DEF Restart, StartTables, Silent, Requests!Next, Requests!Restart, answer
  <2>2. CASE UNCHANGED vars
    BY <2>2 DEF vars, pending, answer, Identifies
  <2> QED
    BY <2>1, <2>2, CheckAnswers, ReceiveAsks DEF Next, Requests!Next
<1> QED
  BY <1>3, <1>4, Invariant, PTL DEF Spec, ImplementsRequests, Requests!Spec, Requests!req
=============================================================================
