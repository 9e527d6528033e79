----------------------------- MODULE RequestSet -----------------------------
(***************************************************************************)
(* What the event handler promises, without flags and without a cursor: a  *)
(* set of requests, answered one at a time, those of the first event       *)
(* first, and no pass that answers nothing while a request waits.          *)
(***************************************************************************)
EXTENDS Naturals

CONSTANTS
  Event,    \* the events, as indices
  Kind,     \* what may be asked of an event
  AtStart,  \* the requests a restart leaves
  NoAnswer, \* this step was no pass
  Idle      \* a pass that answered nothing

VARIABLES
  pending,   \* the requests that wait: pairs of event and kind
  answer     \* what the last step answered

req == <<pending, answer>>

Request == Event \X Kind

Init == pending = AtStart /\ answer = NoAnswer

Restart == answer' = NoAnswer /\ pending' = AtStart

\* Requests come in, and none is forgotten.
Ask == answer' = NoAnswer /\ pending \subseteq pending' /\ pending' \in SUBSET Request

\* A request of the first event that has any; its answer may bring others.
Answer(r) ==
  /\ answer' = r
  /\ r \in pending
  /\ \A s \in pending : r[1] <= s[1]
  /\ r \notin pending'
  /\ pending \ {r} \subseteq pending'
  /\ pending' \in SUBSET Request

Rest == answer' = Idle /\ pending = {} /\ UNCHANGED pending

Next == Ask \/ Restart \/ Rest \/ \E r \in pending : Answer(r)

Spec == Init /\ [][Next]_req
=============================================================================
