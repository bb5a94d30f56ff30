--------------------------- MODULE MCLearningLoop ---------------------------
EXTENDS LearningLoop, TLC

Symmetry ==
    Permutations(Candidates) \cup Permutations(Learned)
        \cup Permutations(Messages) \cup Permutations(Requests)
=============================================================================
