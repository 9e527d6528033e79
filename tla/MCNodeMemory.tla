--------------------------- MODULE MCNodeMemory ---------------------------
(* Bytes of four values, one EventID taught by another node.               *)
EXTENDS NodeMemory

MCOwn == <<"own1", "own2">>
MCDefault == <<"default1", "default2">>
MCForeign == { <<"other1", "other2", 1, 1>> }
=============================================================================
