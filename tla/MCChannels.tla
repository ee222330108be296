----------------------------- MODULE MCChannels -----------------------------
(***************************************************************************)
(* What a workspace is connected to, the daily requests that look after it *)
(* and the phone that is signed in to it, checked in one run.  The modules *)
(* share no variable: the part that moves is chosen in the initial state   *)
(* and the others keep theirs.                                             *)
(***************************************************************************)
EXTENDS Connections, TokenRefresh, FollowerHistory, MobileSession, TLC

CONSTANTS x1, x2, y1, y2,         \* requests and people, and workspaces
          f1, f2, i1, i2, b1,     \* Connections: flows, Instagram accounts, a bot
          w1, w2                  \* MobileSession: a primary workspace and another

VARIABLE part

Xs == {x1, x2}
Ys == {y1, y2}
Itself == [y \in Ys |-> y]        \* TokenRefresh: each account in a workspace of its own

Symmetry == Permutations(Xs) \cup Permutations(Ys)

ChannelsInit ==
    /\ part \in {"connections", "refresh", "history", "session"}
    /\ ConnectInit /\ RefreshInit /\ HistoryInit /\ SessionInit
    /\ verified = {}

ChannelsNext ==
    /\ UNCHANGED part
    /\ \/ part = "connections" /\ ConnectNext
          /\ UNCHANGED <<refreshVars, historyVars, sessionVars>>
       \/ part = "refresh" /\ RefreshNext
          /\ UNCHANGED <<connectVars, historyVars, sessionVars>>
       \/ part = "history" /\ HistoryNext
          /\ UNCHANGED <<connectVars, refreshVars, sessionVars>>
       \/ part = "session" /\ SessionNext
          /\ UNCHANGED <<connectVars, refreshVars, historyVars>>

ChannelsSpec ==
    ChannelsInit
    /\ [][ChannelsNext]_<<part, connectVars, refreshVars, historyVars, sessionVars>>

=============================================================================
