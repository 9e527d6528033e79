--------------------------- MODULE AliasRegistry ---------------------------
(***************************************************************************)
(* What the link layer promises: an alias stands for one node at a time.   *)
(* A node takes an alias nobody holds, keeps it unchanged, and gives it    *)
(* back before it takes another.                                           *)
(***************************************************************************)
CONSTANTS
  Node,    \* the nodes
  Alias,   \* the aliases
  None     \* "holds no alias"

VARIABLE holds   \* holds[n]: the alias n holds, or None

Init == holds = [n \in Node |-> None]

Take(n, a) ==
  /\ holds[n] = None
  /\ \A m \in Node : holds[m] # a
  /\ holds' = [holds EXCEPT ![n] = a]

GiveBack(n) ==
  /\ holds[n] # None
  /\ holds' = [holds EXCEPT ![n] = None]

Next == \E n \in Node : GiveBack(n) \/ \E a \in Alias : Take(n, a)

Spec == Init /\ [][Next]_holds
=============================================================================
