------------------------ MODULE MCConversationTurns ------------------------
(* Small instances of ConversationTurns for TLC.                           *)
EXTENDS ConversationTurns, TLC

Symmetry == Permutations(Turns) \cup Permutations(Convs)
=============================================================================
