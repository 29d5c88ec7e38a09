--------------------------- MODULE MCDocumentFlow --------------------------
(* One window on a small instance, with one command at a time or two.       *)
EXTENDS DocumentFlow, TLC

Symmetry == Permutations(Docs) \cup Permutations(Tasks)
\* Any two commands, saves and new documents only, or one command after the other
Anything == {{g, h} : g, h \in Goals}
SaveAndNew == {{"save", "new"}, {"save"}}
OneAtATime == {}
=============================================================================
