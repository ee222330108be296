-------------------------- MODULE MCWorkspaceUsage --------------------------
(***************************************************************************)
(* What a workspace may send and what it pays for, checked in one run.     *)
(* The modules share no variable: the part that moves is chosen in the     *)
(* initial state and the other keeps its own.                              *)
(***************************************************************************)
EXTENDS WorkspaceUsage, Billing, TLC

CONSTANTS x1, x2, x3,     \* attempts to send; the first two are handlers, too
          y1, y2          \* checkouts

VARIABLE part

MCAttempts == {x1, x2, x3}
MCLimits   == {0, 1, 2}
Xs         == {x1, x2}
Ys         == {y1, y2}
Symmetry   == Permutations(Xs) \cup Permutations(Ys)

PlanInit ==
    /\ part \in {"usage", "billing"}
    /\ Init /\ BillInit
    /\ part # "usage" => limit = 0 /\ month = 1

PlanNext ==
    /\ UNCHANGED part
    /\ \/ part = "usage" /\ Next /\ UNCHANGED billVars
       \/ part = "billing" /\ BillNext /\ UNCHANGED vars

PlanSpec == PlanInit /\ [][PlanNext]_<<part, vars, billVars>>

=============================================================================
