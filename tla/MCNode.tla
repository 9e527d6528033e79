------------------------------- MODULE MCNode -------------------------------
(* Two clients; builds that can be configured over the bus, one that can   *)
(* not, one that has inputs and one with a blue and a gold button.         *)
EXTENDS Node

CONSTANTS c1, c2

\* A name and a comment that end where they should, and a name that runs on.
MCTexts == {{1, 3}, {3}}

\* Two that read, while one writes and one wants the identification; two
\* identifications, torn by a write; the rest; a board with inputs; one with
\* a blue and a gold button.
MCSettings ==
  {[parts |-> {"Datagram"},
    asks |-> {c1, c2} \X {"Read"} \cup {<<c1, "Write">>, <<c2, "Snii">>},
    texts |-> MCTexts],
   [parts |-> {"Datagram"},
    asks |-> {c1, c2} \X {"Snii"} \cup {c2} \X {"Write", "Update"},
    texts |-> MCTexts],
   [parts |-> {},
    asks |-> {c1, c2} \X {"Pip"} \cup {<<c1, "Snii">>, <<c2, "Odd">>},
    texts |-> MCTexts],
   [parts |-> {"Inputs"}, asks |-> {}, texts |-> {{1, 3}}],
   [parts |-> {"BlueGold"}, asks |-> {}, texts |-> {{1, 3}}]}
=============================================================================
