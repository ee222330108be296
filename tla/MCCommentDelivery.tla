-------------------------- MODULE MCCommentDelivery --------------------------
EXTENDS CommentDelivery, TLC

CONSTANTS w1, w2

MCWorkers == {w1, w2}
MCOneWorker == {w1}
MCFirst   == {1}
MCNone    == {}
Symmetry  == Permutations(MCWorkers)

=============================================================================
