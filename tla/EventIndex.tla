----------------------------- MODULE EventIndex -----------------------------
(***************************************************************************)
(* The table by which a node finds the events of an EventID: its entries   *)
(* are sorted by a 16-bit sum of the EventID's bytes, and the entries of   *)
(* one sum are told apart by the EventIDs themselves.                      *)
(***************************************************************************)
EXTENDS Integers

CONSTANTS
  N,         \* the number of events
  EventID,
  Hash       \* Hash[e]: EventID::hash, the sum of the bytes of e

ASSUME EventIndexAssumption == N \in Nat \ {0} /\ Hash \in [EventID -> Nat]

\* Both the events and the places of the table.
Event == 0 .. N - 1

Entry == [hash : Nat, index : Event]

\* What initTables may leave when the events have the EventIDs ids: one
\* entry for each event, in an order qsort may choose.
Tables(ids) ==
  {[p \in Event |-> [hash |-> Hash[ids[order[p]]], index |-> order[p]]] :
     order \in {o \in [Event -> Event] :
       /\ \A p, q \in Event : p < q => o[p] # o[q]
       /\ \A p, q \in Event : p < q => Hash[ids[o[p]]] <= Hash[ids[o[q]]]}}

\* Mutant: the hash decides.
FoundByHash(table, ids, e) == {p \in Event : table[p].hash = Hash[e]}

\* The places findIndexInArray returns one after another. The first call goes
\* to the first entry of the hash, whichever of them bsearch hits; each
\* further call tries the place behind the last; the search ends at an entry
\* of another hash or of another EventID.
FoundIn(table, ids, e) ==
  {p \in Event :
     /\ table[p].hash = Hash[e]
     /\ \A q \in Event : q <= p /\ table[q].hash = Hash[e] => ids[table[q].index] = e}
=============================================================================
