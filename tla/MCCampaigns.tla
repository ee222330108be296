---------------------------- MODULE MCCampaigns -----------------------------
(***************************************************************************)
(* The life of a campaign, and the screens of the phone app that manage    *)
(* campaigns, checked in one run.  The modules share no variable: the     *)
(* part that moves is chosen in the initial state and the others keep      *)
(* theirs, from one fixed state.                                           *)
(***************************************************************************)
EXTENDS Campaigns, CampaignList, CampaignCopies, Wizard, TLC

CONSTANTS x1, x2,           \* phones, requests, people, accounts that are alike
          a1, a2, p1, p2,   \* CampaignCopies: two accounts with a post each
          c1, c2            \* CampaignList: a campaign of each account

VARIABLE part

Xs       == {x1, x2}
Symmetry == Permutations(Xs)

MCPostOwner == (p1 :> a1) @@ (p2 :> a2)
MCOwnerOf   == (c1 :> a1) @@ (c2 :> a2)

\* One draft waits for the next post and gates its link, one listens to every
\* post and has two links.
MCDraft(scope, gate, second) ==
    [scope |-> scope, dmAlso |-> FALSE, anyWord |-> FALSE, words |-> TRUE, gate |-> gate,
     prompt |-> TRUE, url |-> "first url", second |-> second,
     title |-> IF second = NoUrl THEN "default" ELSE "own", active |-> TRUE]
MCDrafts == {MCDraft("next", TRUE, NoUrl), MCDraft("any", FALSE, "second url")}

MCInit ==
    /\ part \in {"campaigns", "list", "copies", "wizard"}
    /\ CampaignsInit /\ ListInit /\ CopiesInit /\ WizardInit
    /\ part # "list" => stored = [c \in Listed |-> "on"]
    /\ part # "copies" => rows[1] = Campaign(a1, p1, FALSE, FALSE, FALSE, 1)

MCNext ==
    /\ UNCHANGED part
    /\ \/ part = "campaigns" /\ CampaignsNext /\ UNCHANGED <<listVars, copiesVars, wizardVars>>
       \/ part = "list" /\ ListNext /\ UNCHANGED <<campaignVars, copiesVars, wizardVars>>
       \/ part = "copies" /\ CopiesNext /\ UNCHANGED <<campaignVars, listVars, wizardVars>>
       \/ part = "wizard" /\ WizardNext /\ UNCHANGED <<campaignVars, listVars, copiesVars>>

MCSpec == MCInit /\ [][MCNext]_<<part, campaignVars, listVars, copiesVars, wizardVars>>

=============================================================================
