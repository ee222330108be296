------------------------------ MODULE Campaigns ------------------------------
(***************************************************************************)
(* One campaign, from the wizard's create request to its deletion: the     *)
(* edit screens of the workspace's phones, the PATCH handler they call     *)
(* (one action per database round trip; there is no transaction), and the  *)
(* sweeps that bind a campaign waiting for "the next post" to one.         *)
(*                                                                         *)
(* Texts are abstracted to whether they are there; the follow requirement  *)
(* and its prompt stand for the three optional messages, which have the    *)
(* same shape.  A tracked link keeps what the handlers tell apart: its     *)
(* age, its destination and the title of its button.                       *)
(***************************************************************************)
EXTENDS Integers, SequencesExt

CONSTANTS Editors,       \* phones with the edit screen
          Sweepers,      \* the worker's interval and the cron route
          Drafts,        \* the wizard drafts that may be submitted
          MaxPosts,      \* bound: posts published after the creation
          PageSize,      \* the page of media a sweep fetches; 25 in the code
          MaxChanges,    \* bound: fields changed in all
          MaxVisits,     \* bound: visits of the edit screen and uses of the toggle
          MaxLinks       \* bound: tracked links ever created

ASSUME CampaignsAssumption ==
    /\ PageSize \in Nat \ {0}
    /\ {MaxPosts, MaxChanges, MaxVisits, MaxLinks} \subseteq Nat

VARIABLES status,     \* "none", "live" or "deleted"
          row,        \* the automation row
          links,      \* its tracked links
          linkNo,     \* links created so far
          posts,      \* posts published since the row was created
          sweep,      \* sweep[s]: what the sweep s has read
          editor,     \* editor[e]: the edit screen of a phone and its request
          visits,     \* visits of the edit screen so far
          changes,    \* fields changed so far
          contested,  \* contested[e]: somebody else wrote since e's form was loaded
          halfDone    \* halfDone[e]: a save of this form failed on the way

campaignVars == <<status, row, links, linkNo, posts, sweep, editor, visits, changes, contested, halfDone>>

NoPost   == 0
NoUrl    == "none"
Urls     == {"first url", "second url", "other url"}
Titles   == {"primary", "own", "default"}
Fields   == {"dm", "anyWord", "words", "gate", "prompt", "url", "second", "title", "active"}

Row == [any : BOOLEAN, next : BOOLEAN, post : 0 .. MaxPosts, dm : BOOLEAN, anyWord : BOOLEAN,
        words : BOOLEAN, gate : BOOLEAN, prompt : BOOLEAN, active : BOOLEAN]

Link == [id : 1 .. MaxLinks, born : 1 .. MaxLinks, url : Urls, title : Titles]

Form == [scope : {"any", "next", "specific", "dm"}, dmAlso : BOOLEAN, anyWord : BOOLEAN,
         words : BOOLEAN, gate : BOOLEAN, prompt : BOOLEAN, url : Urls \cup {NoUrl},
         second : Urls \cup {NoUrl}, title : Titles, active : BOOLEAN]

Closed  == [at |-> "closed"]
NoSweep == [at |-> "idle"]

-----------------------------------------------------------------------------
(* The forms of the app *)

\* What the wizard and the edit screen check before they send anything.
Valid(f) ==
    /\ f.anyWord \/ f.words
    /\ f.gate => f.prompt

\* The request body of a form.  The edit screen has no control for the scope:
\* of the four trigger fields only dmTriggerEnabled can differ.
Body(f) ==
    [dm      |-> f.scope = "dm" \/ f.dmAlso,
     anyWord |-> f.anyWord,
     words   |-> f.words /\ ~f.anyWord,
     gate    |-> f.gate,
     prompt  |-> f.prompt /\ f.gate,
     url     |-> f.url,
     second  |-> f.second,
     title   |-> f.title,
     active  |-> f.active]

\* Only what differs from the loaded form is sent; a title changed alone takes
\* the second url along, because the handler looks at the url first.
Changed(e) ==
    LET b == Body(editor[e].form)
        i == Body(editor[e].seen)
        d == {k \in Fields : b[k] # i[k]}
    IN  [k \in d \cup (IF "title" \in d THEN {"second"} ELSE {}) |-> b[k]]

\* The links in the order the queries ask for.  The links of one create request
\* have one createdAt, and the order of equal keys is not defined.
Orders(ls) == {s \in SetToSeqs(ls) : \A i, j \in DOMAIN s : i < j => s[i].born <= s[j].born}

\* Two links that tie are read in an order nobody fixed.
Tied == \E l, m \in links : l # m /\ l.born = m.born

\* The form as the edit screen fills it from the row.
Hydrated(s) ==
    [scope   |-> CASE row.any -> "any"
                   [] ~row.any /\ row.next -> "next"
                   [] ~row.any /\ ~row.next /\ row.post # NoPost -> "specific"
                   [] OTHER -> "dm",
     dmAlso  |-> row.dm /\ (row.any \/ row.next \/ row.post # NoPost),
     anyWord |-> row.anyWord,
     words   |-> row.words,
     gate    |-> row.gate,
     prompt  |-> row.prompt,
     url     |-> IF Len(s) >= 1 THEN s[1].url ELSE NoUrl,
     second  |-> IF Len(s) >= 2 THEN s[2].url ELSE NoUrl,
     title   |-> IF Len(s) >= 2 THEN s[2].title ELSE "default",
     active  |-> row.active]

-----------------------------------------------------------------------------
(* The wizard's create request *)

CampaignsInit ==
    /\ status = "none"
    /\ row = [any |-> FALSE, next |-> FALSE, post |-> NoPost, dm |-> FALSE, anyWord |-> FALSE,
              words |-> FALSE, gate |-> FALSE, prompt |-> FALSE, active |-> FALSE]
    /\ links = {}
    /\ linkNo = 0
    /\ posts = 0
    /\ sweep = [s \in Sweepers |-> NoSweep]
    /\ editor = [e \in Editors |-> Closed]
    /\ visits = 0
    /\ changes = 0
    /\ contested = [e \in Editors |-> FALSE]
    /\ halfDone = [e \in Editors |-> FALSE]

\* The links of a draft: both have the time of the request.
DraftLinks(f) ==
    {[id |-> 1, born |-> 1, url |-> f.url, title |-> "primary"] : x \in {f.url} \ {NoUrl}}
    \cup {[id |-> 2, born |-> 1, url |-> f.second, title |-> f.title] : x \in {f.second} \ {NoUrl}}

\* A specific post is one published before; it is numbered MaxPosts here, so
\* that no sweep can mean it.
CreateCampaign(f) ==
    LET b == Body(f)
    IN  /\ status = "none"
        /\ Valid(f)
        /\ status' = "live"
        /\ row' = [any |-> f.scope = "any", next |-> f.scope = "next",
                   post |-> IF f.scope = "specific" THEN MaxPosts ELSE NoPost, dm |-> b.dm,
                   anyWord |-> b.anyWord, words |-> b.words, gate |-> b.gate,
                   prompt |-> b.prompt, active |-> b.active]
        /\ links' = DraftLinks(f)
        /\ linkNo' = 2
        /\ UNCHANGED <<changes, posts, sweep, editor, visits, contested, halfDone>>

-----------------------------------------------------------------------------
(* The edit screen *)

\* The screen fills its form once, from the list it has; loading that list
\* earlier than opening the screen is opening it earlier.
OpenEditor(e) ==
    /\ editor[e].at = "closed" /\ status = "live" /\ visits < MaxVisits
    /\ \E s \in Orders(links) :
         editor' = [editor EXCEPT ![e] =
                      [at |-> "form", seen |-> Hydrated(s), form |-> Hydrated(s), tied |-> Tied,
                       diff |-> <<>>, first |-> 0, next |-> 0]]
    /\ visits' = visits + 1
    /\ contested' = [contested EXCEPT ![e] = FALSE]
    /\ halfDone' = [halfDone EXCEPT ![e] = FALSE]
    /\ UNCHANGED <<changes, status, row, links, linkNo, posts, sweep>>

\* The controls of the form, some of them shown only with others.
EditedTrigger(f) ==
    {[f EXCEPT !.anyWord = ~@]}
    \cup (IF f.anyWord THEN {} ELSE {[f EXCEPT !.words = ~@]})
    \cup (IF f.scope = "dm" THEN {} ELSE {[f EXCEPT !.dmAlso = ~@]})

EditedMessages(f) ==
    {[f EXCEPT !.gate = ~@]}
    \cup (IF f.gate THEN {[f EXCEPT !.prompt = ~@]} ELSE {})

EditedLinks(f) ==
    {[f EXCEPT !.url = u] : u \in {NoUrl, "first url"}}
    \cup {[f EXCEPT !.second = u] : u \in {NoUrl, "second url", "other url"}}
    \cup {[f EXCEPT !.title = "own"]}

Edited(f) ==
    EditedTrigger(f) \cup EditedMessages(f) \cup EditedLinks(f) \cup {[f EXCEPT !.active = ~@]}

ChangeField(e) ==
    /\ editor[e].at = "form" /\ changes < MaxChanges
    /\ \E f \in Edited(editor[e].form) \ {editor[e].form} :
         editor' = [editor EXCEPT ![e].form = f]
    /\ changes' = changes + 1
    /\ UNCHANGED <<status, row, links, linkNo, posts, sweep, visits, contested, halfDone>>

\* "Save changes": an invalid form stays, an unchanged one leaves the screen.
SubmitForm(e) ==
    /\ editor[e].at = "form"
    /\ Valid(editor[e].form)
    /\ editor' = [editor EXCEPT ![e] =
                    IF DOMAIN Changed(e) = {} THEN Closed
                    ELSE [@ EXCEPT !.at = "sent", !.diff = Changed(e)]]
    /\ UNCHANGED <<changes, status, row, links, linkNo, posts, sweep, visits, contested, halfDone>>

CloseEditor(e) ==
    /\ editor[e].at \in {"form", "saved"}
    /\ editor' = [editor EXCEPT ![e] = Closed]
    /\ UNCHANGED <<changes, status, row, links, linkNo, posts, sweep, visits, contested, halfDone>>

\* The phone shows an error and keeps the form: the user may save again.
BackToForm(e) ==
    editor' = [editor EXCEPT ![e].at = "form", ![e].diff = <<>>, ![e].first = 0, ![e].next = 0]

\* Everybody else's form is now older than the row.
Contest(e) == contested' = [x \in Editors |-> contested[x] \/ x # e]

-----------------------------------------------------------------------------
(* The PATCH handler *)

\* The dependent fields are kept consistent before the checks.
Patched(r, d) ==
    LET set == [k \in DOMAIN r |-> IF k \in DOMAIN d THEN d[k] ELSE r[k]]
    IN  [set EXCEPT !.words  = @ /\ ~("anyWord" \in DOMAIN d /\ d.anyWord),
                    !.prompt = @ /\ ~("gate" \in DOMAIN d /\ ~d.gate)]

Acceptable(r) ==
    /\ r.any \/ r.next \/ r.dm \/ r.post # NoPost
    /\ r.anyWord \/ r.words
    /\ r.gate => r.prompt

ReadExisting(e) ==
    /\ editor[e].at = "sent"
    /\ IF status = "live" /\ Acceptable(Patched(row, editor[e].diff))
       THEN editor' = [editor EXCEPT ![e].at = "checked"]
       ELSE BackToForm(e)
    /\ UNCHANGED <<changes, status, row, links, linkNo, posts, sweep, visits, contested, halfDone>>

ReadLinks(e) ==
    /\ editor[e].at = "checked"
    /\ \E s \in Orders(links) :
         editor' = [editor EXCEPT ![e].at = "row",
                                  ![e].first = IF Len(s) >= 1 THEN s[1].id ELSE 0,
                                  ![e].next  = IF Len(s) >= 2 THEN s[2].id ELSE 0]
    /\ UNCHANGED <<changes, status, row, links, linkNo, posts, sweep, visits, contested, halfDone>>

UpdateRow(e) ==
    /\ editor[e].at = "row"
    /\ IF status = "live"
       THEN /\ row' = Patched(row, editor[e].diff)
            /\ editor' = [editor EXCEPT ![e].at = "primary"]
            /\ Contest(e)
       ELSE BackToForm(e) /\ UNCHANGED <<row, contested>>
    /\ UNCHANGED <<changes, status, links, linkNo, posts, sweep, visits, halfDone>>

\* What one link's part of the request does: a destination changes the link that
\* was read or creates one, the empty one deletes it.  A link another request
\* deleted meanwhile fails the handler after the row was written.
WriteLink(e, id, key, title, then) ==
    LET asked == key \in DOMAIN editor[e].diff
        url   == editor[e].diff[key]
        found == {l \in links : l.id = id}
    IN  \/ /\ asked => url = NoUrl /\ id = 0
           /\ editor' = [editor EXCEPT ![e].at = then]
           /\ UNCHANGED <<links, linkNo, contested, halfDone>>
        \/ /\ asked /\ id # 0 /\ found # {}
           /\ links' = (links \ found) \cup
                         {[l EXCEPT !.url = url, !.title = IF key = "second" THEN title ELSE @] :
                            l \in {x \in found : url # NoUrl}}
           /\ editor' = [editor EXCEPT ![e].at = then]
           /\ Contest(e)
           /\ UNCHANGED <<linkNo, halfDone>>
        \/ /\ asked /\ id = 0 /\ url # NoUrl /\ linkNo < MaxLinks
           /\ status = "live"
           /\ linkNo' = linkNo + 1
           /\ links' = links \cup {[id |-> linkNo + 1, born |-> linkNo + 1, url |-> url,
                                    title |-> title]}
           /\ editor' = [editor EXCEPT ![e].at = then]
           /\ Contest(e)
           /\ UNCHANGED halfDone
        \/ /\ asked
           /\ (id # 0 /\ found = {}) \/ (id = 0 /\ url # NoUrl /\ status # "live")
           /\ BackToForm(e)
           /\ halfDone' = [halfDone EXCEPT ![e] = TRUE]
           /\ UNCHANGED <<links, linkNo, contested>>

PatchPrimary(e) ==
    /\ editor[e].at = "primary"
    /\ WriteLink(e, editor[e].first, "url", "primary", "second")
    /\ UNCHANGED <<changes, status, row, posts, sweep, visits>>

\* A request without a title names the button "Open link".
PatchSecond(e) ==
    /\ editor[e].at = "second"
    /\ WriteLink(e, editor[e].next, "second",
                 IF "title" \in DOMAIN editor[e].diff THEN editor[e].diff.title ELSE "default",
                 "saved")
    /\ UNCHANGED <<changes, status, row, posts, sweep, visits>>

\* The handler dies or its answer is late (the app gives up after 20 seconds):
\* what was written stays, and the app shows an error over the same form.
SaveFails(e) ==
    /\ editor[e].at \in {"row", "primary", "second", "saved"}
    /\ BackToForm(e)
    /\ halfDone' = [halfDone EXCEPT ![e] = @ \/ editor[e].at # "row"]
    /\ UNCHANGED <<changes, status, row, links, linkNo, posts, sweep, visits, contested>>

-----------------------------------------------------------------------------
(* The list screen's toggle and delete, and the sweeps *)

\* PATCH with isActive alone: one write, from a screen without a form.
ToggleActive ==
    /\ status = "live" /\ visits < MaxVisits
    /\ row' = [row EXCEPT !.active = ~@]
    /\ visits' = visits + 1
    /\ contested' = [e \in Editors |-> TRUE]
    /\ UNCHANGED <<changes, status, links, linkNo, posts, sweep, editor, halfDone>>

DeleteCampaign ==
    /\ status = "live"
    /\ status' = "deleted"
    /\ links' = {}
    /\ contested' = [e \in Editors |-> TRUE]
    /\ UNCHANGED <<changes, row, linkNo, posts, sweep, editor, visits, halfDone>>

\* Posts are counted while the campaign waits; MaxPosts stands for the older ones.
Publish ==
    /\ status = "live" /\ row.next /\ posts + 1 < MaxPosts
    /\ posts' = posts + 1
    /\ UNCHANGED <<changes, status, row, links, linkNo, sweep, editor, visits, contested, halfDone>>

FindPending(s) ==
    /\ sweep[s].at = "idle"
    /\ status = "live" /\ row.next /\ row.active
    /\ sweep' = [sweep EXCEPT ![s] = [at |-> "media"]]
    /\ UNCHANGED <<changes, status, row, links, linkNo, posts, editor, visits, contested, halfDone>>

\* The oldest post of the page that is younger than the campaign; the sweep ends
\* when there is none, or when the fetch fails.
FetchMedia(s) ==
    /\ sweep[s].at = "media"
    /\ \/ posts > 0
          /\ sweep' = [sweep EXCEPT ![s] =
                         [at |-> "bind", post |-> IF posts > PageSize THEN posts - PageSize + 1 ELSE 1]]
       \/ sweep' = [sweep EXCEPT ![s] = NoSweep]
    /\ UNCHANGED <<changes, status, row, links, linkNo, posts, editor, visits, contested, halfDone>>

\* Mutant: the write trusts the list the sweep read.
BindAsListed(s) ==
    /\ sweep[s].at = "bind"
    /\ IF status = "live"
       THEN /\ row' = [row EXCEPT !.post = sweep[s].post, !.next = FALSE]
            /\ contested' = [e \in Editors |-> TRUE]
       ELSE UNCHANGED <<row, contested>>
    /\ sweep' = [sweep EXCEPT ![s] = NoSweep]
    /\ UNCHANGED <<changes, status, links, linkNo, posts, editor, visits, halfDone>>

BindPost(s) ==
    /\ sweep[s].at = "bind"
    /\ IF status = "live" /\ row.next /\ row.active
       THEN /\ row' = [row EXCEPT !.post = sweep[s].post, !.next = FALSE]
            /\ contested' = [e \in Editors |-> TRUE]
       ELSE UNCHANGED <<row, contested>>
    /\ sweep' = [sweep EXCEPT ![s] = NoSweep]
    /\ UNCHANGED <<changes, status, links, linkNo, posts, editor, visits, halfDone>>

-----------------------------------------------------------------------------
CampaignsNext ==
    \/ \E f \in Drafts : CreateCampaign(f)
    \/ \E e \in Editors :
         \/ OpenEditor(e) \/ ChangeField(e) \/ SubmitForm(e) \/ CloseEditor(e)
         \/ ReadExisting(e) \/ ReadLinks(e) \/ UpdateRow(e) \/ PatchPrimary(e) \/ PatchSecond(e)
         \/ SaveFails(e)
    \/ ToggleActive \/ DeleteCampaign \/ Publish
    \/ \E s \in Sweepers : FindPending(s) \/ FetchMedia(s) \/ BindPost(s)

CampaignsSpec == CampaignsInit /\ [][CampaignsNext]_campaignVars

-----------------------------------------------------------------------------
(* Properties *)

EditorAt == {"form", "sent", "checked", "row", "primary", "second", "saved"}

\* Every variable keeps its type; nothing outlives the campaign it belongs to.
CampaignsTypeOK ==
    /\ status \in {"none", "live", "deleted"}
    /\ row \in Row
    /\ links \subseteq Link
    /\ status # "live" => links = {}
    /\ linkNo \in 0 .. MaxLinks
    /\ posts \in 0 .. MaxPosts
    /\ \A s \in Sweepers : sweep[s].at \in {"idle", "media", "bind"}
    /\ \A e \in Editors : editor[e] = Closed \/ (/\ editor[e].at \in EditorAt
                                                 /\ {editor[e].seen, editor[e].form} \subseteq Form)
    /\ visits \in 0 .. MaxVisits
    /\ changes \in 0 .. MaxChanges
    /\ contested \in [Editors -> BOOLEAN]
    /\ halfDone \in [Editors -> BOOLEAN]

\* A live campaign can always fire and answer: it has a trigger, words to match
\* and, with a follow requirement, a prompt.  The handler checks that against a
\* row it read before other requests wrote theirs; it is the request body,
\* which never turns any-word off or the requirement on without the words or the
\* prompt, that keeps interleaved saves from adding up to a campaign no check
\* would have let through.
CampaignsCanFire ==
    status = "live" =>
        /\ row.any \/ row.next \/ row.dm \/ row.post # NoPost
        /\ row.anyWord \/ row.words
        /\ row.gate => row.prompt

\* What was saved is what the form showed, for the fields that are sent and for
\* the set of destinations, when the app reports success.  The exceptions: somebody
\* else wrote since the form was loaded; both links were created by one request,
\* so that "the first" may be another one at each read; or an earlier save of the
\* form failed half-way, and the repeated request deletes the link that has moved
\* up to the place of the one it deleted before.
SavesAreExact ==
    \A e \in Editors :
        editor[e].at = "saved" /\ ~contested[e] =>
            /\ \A k \in {"dm", "anyWord", "words", "gate", "prompt", "active"} :
                 row[k] = Body(editor[e].form)[k]
            /\ \/ {l.url : l \in links} = {editor[e].form.url, editor[e].form.second} \ {NoUrl}
               \/ editor[e].tied \/ halfDone[e]

\* A DM has at most the two buttons the form can edit.  Only a save that somebody
\* else's write came before can add a third, which no form shows any more: two
\* requests that both found no link both create one.
ThirdLinksAreRaces ==
    [][\A e \in Editors :
         Cardinality(links') > Cardinality(links) /\ Cardinality(links') > 2
           /\ editor'[e] # editor[e] => contested[e]]_campaignVars

\* A sweep binds the first post after the campaign's creation, or the oldest of
\* the page when more than a page of posts came before the sweep did.
NextMeansFirst ==
    row.post \in 1 .. (MaxPosts - 1) =>
        row.post = 1 \/ row.post <= posts - PageSize + 1

\* Only a campaign that waits and runs is bound, and only once, whatever another
\* sweep, a pause or a deletion did after the sweep's list was read: an operator
\* who pauses a campaign while a sweep fetches the media keeps it unbound.
OnlyWaitingCampaignsAreBound ==
    [][row'.post # row.post =>
         \/ status = "none"
         \/ row.next /\ row.active /\ row.post = NoPost /\ ~row'.next]_campaignVars

\* Edits on two phones and the sweep at once: a campaign can fire, fires for the
\* first post after it was made to wait and for no other, is bound only while it
\* waits, and is saved as sent; a third link takes two saves that raced.
CampaignsAreSound ==
    /\ [](CampaignsTypeOK /\ CampaignsCanFire /\ SavesAreExact /\ NextMeansFirst)
    /\ OnlyWaitingCampaignsAreBound
    /\ ThirdLinksAreRaces

=============================================================================
