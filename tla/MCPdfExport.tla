---------------------------- MODULE MCPdfExport ----------------------------
(* PDF exports of a few windows on a small instance.                        *)
EXTENDS PdfExport, TLC

CONSTANTS x, y
\* One document state has two pages, the other has one.
TwoAndOne == [b \in Bodies |-> IF b = x THEN 2 ELSE 1]
Symmetry == Permutations(Windows) \cup Permutations(Targets) \cup Permutations(Snapshots)
            \cup Permutations(JobIds)
=============================================================================
