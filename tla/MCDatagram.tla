---------------------------- MODULE MCDatagram ----------------------------
(* n1 and n2 send to n3: n1 datagrams of three segments, n2 datagrams of   *)
(* one segment, and of two that n3 does not want. n1 may change its alias  *)
(* and is sent enquiries, the alias of n2 is contested, n3 may lose power. *)
EXTENDS Datagram, TLC

CONSTANTS n1, n2, n3, short, long, odd

MCSize == (short :> 1) @@ (long :> 3) @@ (odd :> 2)

MCPosts == {<<n1, n3, long>>, <<n2, n3, short>>, <<n2, n3, odd>>}

MCAccepts == {<<n3, long>>, <<n3, short>>}

\* n3 is other equipment, which adds two bytes to its rejections.
MCRejectLength == [n \in {n1, n2, n3} |-> IF n = n3 THEN 6 ELSE 4]

\* All nodes run this code.
OwnRejectLength == [n \in {n1, n2, n3} |-> 4]

\* n1 changes its alias once, or no node does.
OneChange == [n \in {n1, n2, n3} |-> IF n = n1 THEN 1 ELSE 0]
NoChange == [n \in {n1, n2, n3} |-> 0]
===========================================================================
