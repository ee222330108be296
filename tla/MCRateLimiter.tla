---------------------------- MODULE MCRateLimiter ----------------------------
EXTENDS RateLimiter, TLC

CONSTANTS j1, j2, j3, j4, j5

MCJobs5  == {j1, j2, j3, j4, j5}
Symmetry == Permutations(MCJobs5)

=============================================================================
