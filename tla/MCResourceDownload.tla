------------------------- MODULE MCResourceDownload -------------------------
(* Instances of ResourceDownload: resource a depends on resource b.        *)
EXTENDS ResourceDownload, TLC

CONSTANTS a, b

MCDeps == [r \in {a, b} |-> IF r = a THEN {b} ELSE {}]

MCCatalog == [r \in {a, b} |-> IF r = a THEN 2 ELSE 1]

MCBefore == <<a>>

WorkerSymmetry == Permutations(Workers)
=============================================================================
