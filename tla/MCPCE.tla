------------------------------- MODULE MCPCE -------------------------------
(* A consumer, and an event both produced and consumed, in builds of the  *)
(* three memory models; a and b have the same hash.                        *)
EXTENDS PCE, TLC

CONSTANTS a, b, c

MCHash == (a :> 5) @@ (b :> 5) @@ (c :> 7)

MCTypes == (0 :> {"CAN_CONSUME"}) @@ (1 :> {"CAN_PRODUCE", "CAN_CONSUME"})

MCBoards ==
  {[memory |-> "SMALL", wide |-> FALSE],
   [memory |-> "MEDIUM", wide |-> FALSE],
   [memory |-> "LARGE", wide |-> TRUE]}
=============================================================================
