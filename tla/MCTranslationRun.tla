-------------------------- MODULE MCTranslationRun --------------------------
(* Small instances of TranslationRun for TLC.                              *)
EXTENDS TranslationRun, TLC

Symmetry == Permutations(Translations) \cup Permutations(Clients) \cup Permutations(Segments)
=============================================================================
