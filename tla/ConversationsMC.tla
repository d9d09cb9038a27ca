--------------------------- MODULE ConversationsMC ---------------------------
EXTENDS Conversations, TLC

CONSTANTS d1, r1, v1, v2

MCRank == r1 :> 1 @@ d1 :> 2 @@ v1 :> 3 @@ v2 :> 4

Symmetry == Permutations(Openers) \cup Permutations(Convs)
=============================================================================
