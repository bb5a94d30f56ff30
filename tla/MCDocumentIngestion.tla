------------------------ MODULE MCDocumentIngestion ------------------------
(* Small instances of DocumentIngestion for TLC.                           *)
EXTENDS DocumentIngestion

\* The second content shares a passage with the first.
TwoContents == [v \in Versions |-> IF v = 1 THEN {1, 2} ELSE {2, 3}]
=============================================================================
