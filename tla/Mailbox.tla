------------------------------ MODULE Mailbox ------------------------------
(***************************************************************************)
(* What the datagram protocol promises: a node posts one letter at a time, *)
(* the addressee takes it whole, at most once, and the sender is free to   *)
(* post the next one when it was taken, or when the addressee does not     *)
(* want letters of its kind.                                               *)
(***************************************************************************)
CONSTANTS
  Node,      \* the nodes
  Letter,    \* what may be posted: records with the addressee "to"
  None,      \* "no letter"
  Wanted(_)  \* whether its addressee takes a letter

VARIABLES
  up,      \* up[n]: n has power
  letter,  \* letter[n]: what n has posted, or None
  taken    \* taken[n]: it has been taken

mail == <<up, letter, taken>>

Init ==
  /\ up = [n \in Node |-> TRUE]
  /\ letter = [n \in Node |-> None]
  /\ taken = [n \in Node |-> FALSE]

Post(n) ==
  /\ up[n]
  /\ letter[n] = None
  /\ letter'[n] \in Letter
  /\ letter' = [letter EXCEPT ![n] = letter'[n]]
  /\ UNCHANGED <<up, taken>>

Take(n) ==
  /\ ~taken[n]
  /\ letter[n] # None
  /\ Wanted(letter[n])
  /\ up[letter[n].to]
  /\ taken' = [taken EXCEPT ![n] = TRUE]
  /\ UNCHANGED <<up, letter>>

Release(n) ==
  /\ up[n]
  /\ letter[n] # None
  /\ taken[n] \/ ~Wanted(letter[n])
  /\ letter' = [letter EXCEPT ![n] = None]
  /\ taken' = [taken EXCEPT ![n] = FALSE]
  /\ UNCHANGED up

Fail(n) == up[n] /\ up' = [up EXCEPT ![n] = FALSE] /\ UNCHANGED <<letter, taken>>

\* A node that lost power comes back and knows of no letter.
Return(n) ==
  /\ ~up[n]
  /\ up' = [up EXCEPT ![n] = TRUE]
  /\ letter' = [letter EXCEPT ![n] = None]
  /\ taken' = [taken EXCEPT ![n] = FALSE]

Next ==
  \E n \in Node :
    \/ Post(n)
    \/ Take(n)
    \/ Release(n)
    \/ Fail(n)
    \/ Return(n)

Spec == Init /\ [][Next]_mail
=============================================================================
