-------------------------------- MODULE Wizard --------------------------------
(***************************************************************************)
(* The five steps that create a campaign on the phone: the draft that      *)
(* outlives the screens, the checks of each step, and the create request   *)
(* whose answer empties the draft and closes the wizard, whatever the user *)
(* has done since.                                                         *)
(*                                                                         *)
(* Of the draft the model keeps one field per check: the account, the      *)
(* scope and its post, the keywords, the message, the link and the name.   *)
(* A post is represented by the account that published it.                 *)
(***************************************************************************)
EXTENDS Integers

CONSTANTS WizAccounts,   \* the workspace's Instagram accounts
          Nothing,       \* a field that is not filled in
          MaxEdits,      \* bound: changes of the draft
          MaxCreates,    \* bound: create requests
          MaxLeaves      \* bound: times the user signs out

ASSUME WizardAssumption ==
    /\ Nothing \notin WizAccounts
    /\ {MaxEdits, MaxCreates, MaxLeaves} \subseteq Nat

VARIABLES draft,      \* the draft in the phone's storage
          step,       \* the step on the screen; 0 when the wizard is closed
          picking,    \* the post picker is open over step 1
          known,      \* the accounts the phone has loaded
          linked,     \* the accounts that are connected
          create,     \* create[n]: the n-th create request
          pending,    \* the request that locks the button of step 5, or 0
          lineage,    \* how often the draft was emptied
          edits       \* changes so far

wizardVars == <<draft, step, picking, known, linked, create, pending, lineage, edits>>

\* Any post, the next post and direct messages only are one: no check tells them apart.
Scopes == {"specific", "other"}

Draft == [account : WizAccounts \cup {Nothing}, scope : Scopes, post : WizAccounts \cup {Nothing},
          words : BOOLEAN, text : BOOLEAN, link : {"none", "web", "other"}, named : BOOLEAN]

initialDraft == [account |-> Nothing, scope |-> "other", post |-> Nothing, words |-> FALSE,
                 text |-> FALSE, link |-> "none", named |-> FALSE]

NoCreate == [at |-> "none"]
Creates  == 1 .. MaxCreates

WizardInit ==
    /\ draft = initialDraft
    /\ step = 0
    /\ picking = FALSE
    /\ known = WizAccounts
    /\ linked = WizAccounts
    /\ create = [n \in Creates |-> NoCreate]
    /\ pending = 0
    /\ lineage = 0
    /\ edits = 0

-----------------------------------------------------------------------------
(* The checks.  Step 3 asks for texts only, like step 4. *)

validateStep1(d) == d.account # Nothing /\ (d.scope = "specific" => d.post # Nothing)
validateStep2(d) == d.words
validateStep4(d) == d.text
validateStep5(d) == d.named

Passes(n, d) ==
    CASE n = 1 -> validateStep1(d)
      [] n = 2 -> validateStep2(d)
      [] n = 4 -> validateStep4(d)
      [] n = 5 -> validateStep5(d)
      [] OTHER -> TRUE

\* What the server asks of a new campaign: what the steps ask, and that the link
\* is one of the web; the phone takes any kind of URL.
createAutomationSchema(d) ==
    /\ validateStep1(d) /\ validateStep2(d) /\ validateStep4(d) /\ validateStep5(d)
    /\ d.link # "other"

-----------------------------------------------------------------------------
(* The steps *)

\* Without an account the draft takes the first one that is known.
Defaults(d, accounts) ==
    IF d.account = Nothing /\ accounts # {}
    THEN {[d EXCEPT !.account = a] : a \in accounts}
    ELSE {d}

Open ==
    /\ step = 0 /\ known # {}
    /\ step' = 1
    /\ draft' \in Defaults(draft, known)
    /\ UNCHANGED <<picking, known, linked, create, pending, lineage, edits>>

\* The accounts are loaded again.
Reload ==
    /\ known # linked
    /\ known' = linked
    /\ draft' \in IF step = 0 THEN {draft} ELSE Defaults(draft, linked)
    /\ UNCHANGED <<step, picking, linked, create, pending, lineage, edits>>

\* Step 1: Cancel only closes the wizard.  The other steps: back by one; a step 5
\* that is opened again knows nothing of the request of the last one.
Back ==
    /\ step > 0 /\ ~picking
    /\ step' = step - 1
    /\ pending' = IF step = 5 THEN 0 ELSE pending
    /\ UNCHANGED <<draft, picking, known, linked, create, lineage, edits>>

Forward ==
    /\ step \in 1 .. 4 /\ ~picking
    /\ Passes(step, draft)
    /\ step' = step + 1
    /\ UNCHANGED <<draft, picking, known, linked, create, pending, lineage, edits>>

Edit(d) ==
    /\ edits < MaxEdits
    /\ edits' = edits + 1
    /\ draft' = d /\ d # draft
    /\ UNCHANGED <<step, known, linked, create, pending, lineage>>

\* Mutant: the chosen post is kept.
PickAccountOnly(a) ==
    /\ step = 1 /\ ~picking
    /\ \E b \in known : b # a
    /\ a \in known
    /\ Edit([draft EXCEPT !.account = a])
    /\ UNCHANGED picking

\* The chips are shown when there is more than one account.
PickAccount(a) ==
    /\ step = 1 /\ ~picking
    /\ \E b \in known : b # a
    /\ a \in known
    /\ Edit([draft EXCEPT !.account = a, !.post = Nothing])
    /\ UNCHANGED picking

PickScope(s) ==
    /\ step = 1 /\ ~picking
    /\ Edit([draft EXCEPT !.scope = s])
    /\ UNCHANGED picking

UseTemplate ==
    /\ step = 1 /\ ~picking
    /\ Edit([draft EXCEPT !.words = TRUE, !.text = TRUE, !.named = TRUE])
    /\ UNCHANGED picking

OpenPicker ==
    /\ step = 1 /\ ~picking /\ draft.scope = "specific"
    /\ picking' = TRUE
    /\ UNCHANGED <<draft, step, known, linked, create, pending, lineage, edits>>

\* The posts of the draft's account; they do not load when it is gone.
handleSelect ==
    /\ picking /\ draft.account \in linked
    /\ Edit([draft EXCEPT !.post = draft.account])
    /\ picking' = FALSE

LeavePicker ==
    /\ picking
    /\ picking' = FALSE
    /\ UNCHANGED <<draft, step, known, linked, create, pending, lineage, edits>>

EditWords ==
    /\ step = 2
    /\ Edit([draft EXCEPT !.words = ~@])
    /\ UNCHANGED picking

EditMessage ==
    /\ step = 4
    /\ \/ Edit([draft EXCEPT !.text = ~@])
       \/ \E u \in {"none", "web", "other"} : Edit([draft EXCEPT !.link = u])
    /\ UNCHANGED picking

EditName ==
    /\ step = 5
    /\ Edit([draft EXCEPT !.named = ~@])
    /\ UNCHANGED picking

-----------------------------------------------------------------------------
(* The create request *)

handleSubmit ==
    /\ step = 5 /\ pending = 0
    /\ validateStep5(draft)
    /\ \E n \in Creates :
          /\ create[n] = NoCreate /\ \A m \in 1 .. n - 1 : create[m] # NoCreate
          /\ create' = [create EXCEPT ![n] = [at |-> "sent", body |-> draft, stored |-> FALSE,
                                              of |-> lineage,
                                              heard |-> {m \in Creates : create[m].at = "created"}]]
          /\ pending' = n
    /\ UNCHANGED <<draft, step, picking, known, linked, lineage, edits>>

\* The server stores the campaign or refuses it; the phone may have given up.
StoreCampaign(n) ==
    /\ create[n].at \in {"sent", "late"}
    /\ LET fits == createAutomationSchema(create[n].body) /\ create[n].body.account \in linked IN
       create' = [create EXCEPT ![n].stored = fits,
                                ![n].at = CASE create[n].at = "late" -> "over"
                                            [] create[n].at = "sent" /\ fits -> "stored"
                                            [] OTHER -> "refused"]
    /\ UNCHANGED <<draft, step, picking, known, linked, pending, lineage, edits>>

\* Success: the draft is emptied and the wizard closed, wherever the user is.
\* Step 1 may give the empty draft its account before it is gone.
Created(n) ==
    /\ create[n].at = "stored"
    /\ create' = [create EXCEPT ![n].at = "created"]
    /\ draft' \in {initialDraft} \cup (IF step > 0 THEN Defaults(initialDraft, known) ELSE {})
    /\ lineage' = lineage + 1
    /\ step' = 0 /\ picking' = FALSE
    /\ pending' = 0
    /\ UNCHANGED <<known, linked, edits>>

\* An error, or no answer in time: the draft stays.
CreateFails(n) ==
    /\ create[n].at \in {"sent", "stored", "refused"}
    /\ create' = [create EXCEPT ![n].at = IF @ = "sent" THEN "late" ELSE "over"]
    /\ pending' = IF pending = n THEN 0 ELSE pending
    /\ UNCHANGED <<draft, step, picking, known, linked, lineage, edits>>

-----------------------------------------------------------------------------
(* Around the wizard *)

Unheard == [n \in Creates |-> CASE create[n].at = "sent" -> [create[n] EXCEPT !.at = "late"]
                                [] create[n].at \in {"stored", "refused"} -> [create[n] EXCEPT !.at = "over"]
                                [] OTHER -> create[n]]

\* The app is killed and started: the draft is read back.
Restart ==
    /\ step > 0 \/ \E n \in Creates : create[n].at \in {"sent", "stored", "refused"}
    /\ create' = Unheard
    /\ step' = 0 /\ picking' = FALSE /\ pending' = 0
    /\ UNCHANGED <<draft, known, linked, lineage, edits>>

\* Signing out, or switching workspaces and back: the draft is emptied, the
\* screens are gone, and answers to earlier requests are not taken.
Leave ==
    /\ lineage < MaxLeaves
    /\ draft # initialDraft
    /\ draft' = initialDraft
    /\ lineage' = lineage + 1
    /\ create' = Unheard
    /\ step' = 0 /\ picking' = FALSE /\ pending' = 0
    /\ known' = linked
    /\ UNCHANGED <<linked, edits>>

\* An account is disconnected elsewhere.
Unlink(a) ==
    /\ a \in linked
    /\ linked' = linked \ {a}
    /\ UNCHANGED <<draft, step, picking, known, create, pending, lineage, edits>>

WizardNext ==
    \/ Open \/ Reload \/ Back \/ Forward
    \/ \E a \in WizAccounts : PickAccount(a) \/ Unlink(a)
    \/ \E s \in Scopes : PickScope(s)
    \/ UseTemplate \/ OpenPicker \/ handleSelect \/ LeavePicker
    \/ EditWords \/ EditMessage \/ EditName
    \/ handleSubmit
    \/ \E n \in Creates : StoreCampaign(n) \/ Created(n) \/ CreateFails(n)
    \/ Restart \/ Leave

WizardSpec == WizardInit /\ [][WizardNext]_wizardVars

-----------------------------------------------------------------------------
(* Properties *)

\* The type invariant.  The picker is a screen of step 1, and the button of step
\* 5 is locked by a request that is under way.
WizardTypeOK ==
    /\ draft \in Draft
    /\ step \in 0 .. 5
    /\ picking \in BOOLEAN /\ (picking => step = 1)
    /\ known \subseteq WizAccounts /\ linked \subseteq WizAccounts
    /\ \A n \in Creates : create[n].at \in {"none", "sent", "stored", "refused", "late", "over", "created"}
    /\ pending \in {0} \cup {n \in Creates : step = 5 /\ create[n].at \in {"sent", "stored", "refused"}}
    /\ lineage \in Nat /\ edits \in 0 .. MaxEdits

\* Whoever is at a step has passed the ones before with the draft as it is: the
\* button of step 5, which only checks the name, submits what every step accepts.
EarlierStepsPassed == \A n \in 1 .. 5 : n < step => Passes(n, draft)

\* A campaign on a specific post is on a post of its own account.
ChosenPostsFit ==
    \A n \in Creates : (create[n] # NoCreate /\ create[n].body.scope = "specific") =>
                           create[n].body.post = create[n].body.account

\* One draft makes two campaigns only when the phone has not heard of the first
\* one by the time it submits again: step 5 was left and entered once more, or
\* the answer was lost.
OneDraftOneCampaign ==
    \A n \in Creates : create[n] # NoCreate =>
        \A m \in create[n].heard : create[m].of # create[n].of

\* A draft, left and taken up at any step while accounts come and go: what was
\* validated stays valid, the post is the account's, and a draft makes one
\* campaign.
DraftIsSound ==
    /\ WizardTypeOK
    /\ EarlierStepsPassed
    /\ ChosenPostsFit
    /\ OneDraftOneCampaign

=============================================================================
