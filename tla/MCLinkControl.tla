--------------------------- MODULE MCLinkControl ---------------------------
(* Two nodes whose alias generators start on the same alias, as those of   *)
(* the four node IDs in test/PrngTest.cpp do.                              *)
EXTENDS LinkControl, TLC

CONSTANTS n1, n2, a1, a2, a3

\* Both generators run through the same two aliases, without end.
CollidingAliases == [n \in {n1, n2} |-> (0 :> a1 @@ 1 :> a2)]

\* The generators part after the first alias.
PartingAliases == (n1 :> (0 :> a1 @@ 1 :> a2)) @@ (n2 :> (0 :> a1 @@ 1 :> a3))

MCEnquiries == {<<"AME", n1>>, <<"AME", n2>>, <<"VerifyNID", a1>>, <<"VerifyNID", Anyone>>}

\* Under CollidingAliases and MCEnquiries the nodes are alike.
Symmetry == Permutations({n1, n2})
=============================================================================
