------------------------- MODULE MCOpenDestination -------------------------
EXTENDS TopicRefinement, TLC

Symmetry == Permutations(Clients) \cup Permutations(Messages)
=============================================================================
