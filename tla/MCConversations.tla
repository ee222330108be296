--------------------------- MODULE MCConversations ---------------------------
EXTENDS Conversations, TLC

CONSTANTS w1, w2, m1, t1, t2

MCWorkers  == {w1, w2}
MCMessages == {m1}
MCTaps     == {t1, t2}
MCMatches  == [m \in MCMessages |-> {1}]
MCTapOf    == [t \in MCTaps |-> 1]
MCPayloads == {{i} : i \in {m1, t1, t2}}
Symmetry   == Permutations(MCWorkers) \cup Permutations(MCTaps)

=============================================================================
