---------------------------- MODULE NodeMemory ----------------------------
(***************************************************************************)
(* The non-volatile memory of a node: NodeMemory.cpp, as called by setup() *)
(* of the sketches, by the Blue/Gold factory reset and by the teach/learn  *)
(* handler.  EEPROM holds a tag, a count of EventIDs handed out, the node  *)
(* ID, and one EventID for each event.                                     *)
(*                                                                         *)
(* EEPROM is written byte by byte, and the power may fail between any two  *)
(* writes.  Every operation is straight-line code once it has looked at    *)
(* the tag, so a call fixes the writes still to come.                      *)
(***************************************************************************)
EXTENDS Naturals, Sequences, FiniteSets, SequencesExt

CONSTANTS
  NumEvents,    \* number of events
  Base,         \* values of a byte
  Own,          \* the node ID EEPROM was prepared with, as a pair of parts
  Default,      \* the node ID compiled into the sketch
  Erased,       \* what erased bytes of a node ID read as
  Foreign,      \* the EventIDs other nodes teach
  CallsLibrary, \* whether the application calls reset() and store() itself
  FailsWriting  \* whether the power may fail between two writes of a call

Event == 1 .. NumEvents
Byte == 0 .. Base - 1

\* A node ID is kept in two parts, which stand for its six bytes.
Part == {Own[1], Own[2], Default[1], Default[2], Erased}
NodeID == Part \X Part

\* sizeof(NodeID) bytes of node ID, then the two bytes of the count.
EventID == Part \X Part \X Byte \X Byte

Tag(i) == <<"tag", i>>
Count(i) == <<"count", i>>
Nid(i) == <<"nid", i>>
Slot(e, i) == <<"event", e, i>>

Cell ==
  {Tag(i) : i \in 1 .. 4} \cup {Count(i) : i \in 1 .. 2} \cup {Nid(i) : i \in 1 .. 2}
    \cup {Slot(e, i) : e \in Event, i \in 1 .. 4}

AllOKTag == <<"EE", "55", "5E", "E5">>
NidOKTag == <<"EE", "55", "33", "CC">>
TagByte == ToSet(AllOKTag) \cup ToSet(NidOKTag) \cup {"FF"}

ASSUME NodeMemoryAssumption ==
  /\ NumEvents \in Nat \ {0}
  /\ Base \in Nat /\ Base * Base > NumEvents
  /\ Own \in Seq({Own[1], Own[2]}) /\ Len(Own) = 2
  /\ Default \in Seq({Default[1], Default[2]}) /\ Len(Default) = 2
  /\ Foreign \cap EventID = {}
  /\ \A id \in Foreign : id = [i \in 1 .. 4 |-> id[i]]
  /\ {CallsLibrary, FailsWriting} \subseteq BOOLEAN

VARIABLES
  eeprom,   \* contents of each cell
  todo,     \* the writes the present call has still to make
  phase,    \* "off", "setup", "run", or "restart" on the way to address 0
  count,    \* NodeMemory::count
  nid,      \* the node ID in RAM
  issued,   \* history: the EventIDs handed out since the power came on
  ever      \* history: the EventIDs ever handed out

vars == <<eeprom, todo, phase, count, nid, issued, ever>>

NoID == <<>>

\* EEPROM.update of one cell; mints is the EventID this write completes.
Write(cell, value) == [cell |-> cell, value |-> value, mints |-> NoID]

StoredTag == [i \in 1 .. 4 |-> eeprom[Tag(i)]]
StoredNid == <<eeprom[Nid(1)], eeprom[Nid(2)]>>
StoredCount == eeprom[Count(1)] * Base + eeprom[Count(2)]
StoredEvent(e) == [i \in 1 .. 4 |-> eeprom[Slot(e, i)]]

checkAllOK == StoredTag = AllOKTag
checkNidOK == StoredTag = NidOKTag

-----------------------------------------------------------------------------
(* What the calls write                                                    *)

storeWrites(n, c) ==
  [i \in 1 .. 4 |-> Write(Tag(i), AllOKTag[i])]
    \o << Write(Count(1), c \div Base), Write(Count(2), c % Base) >>
    \o [i \in 1 .. 2 |-> Write(Nid(i), n[i])]

\* The EventID made of node ID n and count c (uint16_t).
NewEventID(n, c) == <<n[1], n[2], (c % (Base * Base)) \div Base, c % Base>>

EventWrites(e, id) == [i \in 1 .. 4 |-> Write(Slot(e, i), id[i])]

\* count is incremented before it is used.
setToNewEventID(n, e, c) ==
  LET id == NewEventID(n, c + 1)
  IN  [EventWrites(e, id) EXCEPT ![4].mints = id]

\* Four writes for each event, of which write k is one.
EventOf(k) == (k - 1) \div 4 + 1
PlaceOf(k) == ((k - 1) % 4) + 1

\* Mutant: the events of one reset all get the same count.
resetSameCount(n, c) ==
  storeWrites(n, c)
    \o [k \in 1 .. 4 * NumEvents |-> setToNewEventID(n, EventOf(k), c)[PlaceOf(k)]]

reset(n, c) ==
  storeWrites(n, c)
    \o [k \in 1 .. 4 * NumEvents |->
          setToNewEventID(n, EventOf(k), c + EventOf(k) - 1)[PlaceOf(k)]]

\* Mutant: count without its width.
resetCountNoWrap(c) == c + NumEvents

\* count after reset.
resetCount(c) == (c + NumEvents) % (Base * Base)

-----------------------------------------------------------------------------
(* The steps of the program                                                *)

\* Mutant: the node ID is not read before it is written back.
SetupEventsDefault ==
  /\ phase = "off"
  /\ checkNidOK
  /\ phase' = "setup"
  /\ nid' = Default
  /\ count' = resetCount(StoredCount)
  /\ todo' = reset(Default, StoredCount)
  /\ UNCHANGED <<eeprom, issued, ever>>

\* setup() with the node ID valid: only the node ID and the count are kept.
SetupEvents ==
  /\ phase = "off"
  /\ checkNidOK
  /\ phase' = "setup"
  /\ nid' = StoredNid
  /\ count' = resetCount(StoredCount)
  /\ todo' = reset(StoredNid, StoredCount)
  /\ UNCHANGED <<eeprom, issued, ever>>

\* setup() with nothing valid: a factory reset.
SetupAll ==
  /\ phase = "off"
  /\ ~checkNidOK
  /\ ~checkAllOK
  /\ phase' = "setup"
  /\ nid' = Default
  /\ count' = resetCount(0)
  /\ todo' = reset(Default, 0)
  /\ UNCHANGED <<eeprom, issued, ever>>

\* setup() with everything valid; count keeps its initial value.
SetupAsIs ==
  /\ phase = "off"
  /\ checkAllOK
  /\ phase' = "setup"
  /\ nid' = Default
  /\ count' = 0
  /\ UNCHANGED <<eeprom, todo, issued, ever>>

WriteNext ==
  /\ todo # <<>>
  /\ eeprom' = [eeprom EXCEPT ![Head(todo).cell] = Head(todo).value]
  /\ todo' = Tail(todo)
  /\ issued' = issued \cup ({Head(todo).mints} \ {NoID})
  /\ ever' = ever \cup ({Head(todo).mints} \ {NoID})
  /\ UNCHANGED <<phase, count, nid>>

\* The end of setup(): the node ID is read from EEPROM.
SetupDone ==
  /\ phase = "setup"
  /\ todo = <<>>
  /\ phase' = "run"
  /\ nid' = StoredNid
  /\ UNCHANGED <<eeprom, todo, count, issued, ever>>

Idle == phase = "run" /\ todo = <<>>

\* Bound: reset() is called while the power-on has not used up the counts.
\* The count itself may wrap around.
CallReset ==
  /\ CallsLibrary
  /\ Idle
  /\ Cardinality(issued) + NumEvents <= Base * Base
  /\ todo' = reset(nid, count)
  /\ count' = resetCount(count)
  /\ UNCHANGED <<eeprom, phase, nid, issued, ever>>

CallStore ==
  /\ CallsLibrary
  /\ Idle
  /\ todo' = storeWrites(nid, count)
  /\ UNCHANGED <<eeprom, phase, count, nid, issued, ever>>

\* A taught EventID is written to the slot of an event marked to learn.
writeEID(e, id) ==
  /\ Idle
  /\ todo' = EventWrites(e, id)
  /\ UNCHANGED <<eeprom, phase, count, nid, issued, ever>>

\* forceInitEvents, and a jump to address 0.
factoryReset ==
  /\ Idle
  /\ todo' = << Write(Tag(3), "33"), Write(Tag(4), "CC") >>
  /\ phase' = "restart"
  /\ UNCHANGED <<eeprom, count, nid, issued, ever>>

\* RAM is lost; what was being written stays as it is.
Forget ==
  /\ phase' = "off"
  /\ todo' = <<>>
  /\ count' = 0
  /\ nid' = Default
  /\ issued' = {}
  /\ UNCHANGED <<eeprom, ever>>

Restart == phase = "restart" /\ todo = <<>> /\ Forget

PowerFail == phase # "off" /\ (FailsWriting \/ todo = <<>>) /\ Forget

-----------------------------------------------------------------------------

\* EEPROM as it leaves the factory, or prepared with a tag and a node ID.
ErasedCell(cell) ==
  CASE cell[1] = "tag" -> "FF"
    [] cell[1] = "count" -> Base - 1
    [] cell[1] = "nid" -> Erased
    [] cell[1] = "event" -> IF cell[3] <= 2 THEN Erased ELSE Base - 1

PreparedCell(cell) ==
  CASE cell[1] = "tag" -> NidOKTag[cell[2]]
    [] cell[1] = "count" -> 0
    [] cell[1] = "nid" -> Own[cell[2]]
    [] cell[1] = "event" -> ErasedCell(cell)

Init ==
  /\ eeprom \in {[c \in Cell |-> ErasedCell(c)], [c \in Cell |-> PreparedCell(c)]}
  /\ todo = <<>>
  /\ phase = "off"
  /\ count = 0
  /\ nid = Default
  /\ issued = {}
  /\ ever = {}

Next ==
  \/ SetupEvents
  \/ SetupAll
  \/ SetupAsIs
  \/ WriteNext
  \/ SetupDone
  \/ CallReset
  \/ CallStore
  \/ \E e \in Event, id \in Foreign : writeEID(e, id)
  \/ factoryReset
  \/ Restart
  \/ PowerFail

Spec == Init /\ [][Next]_vars

-----------------------------------------------------------------------------
(* Properties                                                              *)

\* The type of every variable.
TypeOK ==
  /\ DOMAIN eeprom = Cell
  /\ \A i \in 1 .. 4 : eeprom[Tag(i)] \in TagByte
  /\ \A i \in 1 .. 2 : eeprom[Count(i)] \in Byte /\ eeprom[Nid(i)] \in Part
  /\ \A i \in DOMAIN todo : todo[i].cell \in Cell
  /\ phase \in {"off", "setup", "run", "restart"}
  /\ count \in 0 .. Base * Base - 1
  /\ nid \in NodeID
  /\ issued \subseteq ever
  /\ ever \subseteq EventID

\* NodeMemory.h:23: under the tag "all memory valid" there is a node ID, and
\* every event has an EventID of this node's own, no two alike, or one that
\* it was taught: whatever calls and power failures led there.
MemoryValid ==
  checkAllOK /\ todo = <<>> =>
    /\ StoredNid \in {Own, Default}
    /\ \A e \in Event :
         \/ StoredEvent(e) \in Foreign
         \/ /\ StoredEvent(e) \in EventID
            /\ <<StoredEvent(e)[1], StoredEvent(e)[2]>> = StoredNid
            /\ \A f \in Event \ {e} : StoredEvent(f) # StoredEvent(e)

\* NodeMemory.h:75: the node ID is not changed by a reset, nor by anything
\* that may interrupt one.
NodeIDKept == [][StoredNid = Own => StoredNid' = Own]_vars

\* The EventIDs handed out since the power came on are all different, though
\* the power-on begins at the count left in EEPROM and the count wraps around.
SessionIDsUnique ==
  [][todo # <<>> /\ todo' = Tail(todo) => Head(todo).mints \notin issued]_vars

\* NodeMemory.h:103: an EventID handed out is "forever unique": no EventID
\* is handed out twice, restarts and factory resets included.
ForeverUnique ==
  [][todo # <<>> /\ todo' = Tail(todo) => Head(todo).mints \notin ever]_vars

=============================================================================
