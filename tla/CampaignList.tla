----------------------------- MODULE CampaignList -----------------------------
(***************************************************************************)
(* The list of campaigns of one phone: one cached list per account filter, *)
(* the loads that fill them, the toggle that is shown before it is saved,  *)
(* and the delete button.  The rows are changed by this phone only; what   *)
(* other people change is found by the next load.                          *)
(***************************************************************************)
EXTENDS Integers

CONSTANTS Listed,       \* the workspace's campaigns
          OwnerOf,      \* OwnerOf[c]: the Instagram account of campaign c
          MaxPresses,   \* bound: toggles and delete buttons pressed
          MaxLoads      \* bound: loads begun

ASSUME ListAssumption ==
    /\ DOMAIN OwnerOf = Listed
    /\ {MaxPresses, MaxLoads} \subseteq Nat

VARIABLES stored,     \* stored[c]: "on", "off" or "deleted" in the database
          filter,     \* the chip that is chosen
          shown,      \* shown[f]: the cached list of filter f
          fresh,      \* fresh[f]: the list is not marked for a reload
          load,       \* load[f]: the load of f that is under way
          press,      \* the toggle that is being saved
          removal,    \* the delete that is under way
          late,       \* toggles the phone gave up on and the server has not seen
          unaware,    \* filters whose list misses a write the phone never heard of
          presses,
          loads

listVars == <<stored, filter, shown, fresh, load, press, removal, late, unaware, presses, loads>>

All     == "all"
Filters == {OwnerOf[c] : c \in Listed} \cup {All}
NoRows  == [c \in Listed |-> "not loaded"]
NoLoad  == [at |-> "none"]
NoPress == [at |-> "none"]
Lists   == [Listed -> {"on", "off", "absent"}]

Flip(v) == IF v = "on" THEN "off" ELSE "on"

\* What the list request answers for a filter.
View(f) ==
    [c \in Listed |-> IF stored[c] # "deleted" /\ f \in {All, OwnerOf[c]} THEN stored[c] ELSE "absent"]

ListInit ==
    /\ stored \in [Listed -> {"on", "off"}]
    /\ filter = All
    /\ shown = [f \in Filters |-> NoRows]
    /\ fresh = [f \in Filters |-> FALSE]
    /\ load = [f \in Filters |-> IF f = All THEN [at |-> "asked"] ELSE NoLoad]
    /\ press = NoPress
    /\ removal = NoPress
    /\ late = {}
    /\ unaware = {}
    /\ presses = 0
    /\ loads = 1

-----------------------------------------------------------------------------
(* Loads *)

\* A load of f begins.  One that is under way is dropped, unless there is
\* nothing to show yet: then it is waited for.
Begun(l, f) ==
    IF l[f] # NoLoad /\ shown[f] = NoRows THEN l ELSE [l EXCEPT ![f] = [at |-> "asked"]]

\* A pressed toggle of the list that is loaded may be overwritten from here on.
Reloading(f) == IF press # NoPress /\ press.key = f THEN [press EXCEPT !.reloaded = TRUE] ELSE press

\* Another chip: its list is loaded when it is not there or marked, and when it
\* is older than half a minute.  A load under way is joined.
PickFilter(f) ==
    /\ f # filter
    /\ filter' = f
    /\ \E old \in BOOLEAN :
          LET begin == load[f] = NoLoad /\ (shown[f] = NoRows \/ ~fresh[f] \/ old) IN
          /\ begin => loads < MaxLoads
          /\ load' = IF begin THEN Begun(load, f) ELSE load
          /\ loads' = IF begin THEN loads + 1 ELSE loads
          /\ press' = IF begin THEN Reloading(f) ELSE press
    /\ UNCHANGED <<stored, shown, fresh, removal, late, unaware, presses>>

\* The list is pulled down.
Pull ==
    /\ loads < MaxLoads
    /\ load' = Begun(load, filter)
    /\ loads' = loads + 1
    /\ press' = Reloading(filter)
    /\ UNCHANGED <<stored, filter, shown, fresh, removal, late, unaware, presses>>

LoadReads(f) ==
    /\ load[f].at = "asked"
    /\ load' = [load EXCEPT ![f] = [at |-> "read", rows |-> View(f), old |-> FALSE]]
    /\ UNCHANGED <<stored, filter, shown, fresh, press, removal, late, unaware, presses, loads>>

LoadAnswers(f) ==
    /\ load[f].at = "read"
    /\ shown' = [shown EXCEPT ![f] = load[f].rows]
    /\ fresh' = [fresh EXCEPT ![f] = TRUE]
    /\ unaware' = IF load[f].old THEN unaware \cup {f} ELSE unaware \ {f}
    /\ load' = [load EXCEPT ![f] = NoLoad]
    /\ UNCHANGED <<stored, filter, press, removal, late, presses, loads>>

LoadFails(f) ==
    /\ load[f] # NoLoad
    /\ load' = [load EXCEPT ![f] = NoLoad]
    /\ UNCHANGED <<stored, filter, shown, fresh, press, removal, late, unaware, presses, loads>>

\* A write is missed by what is shown, and by the loads that have been read.
Missed(l) == [f \in Filters |-> IF l[f].at = "read" THEN [l[f] EXCEPT !.old = TRUE] ELSE l[f]]

-----------------------------------------------------------------------------
(* The toggle *)

\* Every list is marked; the one on the screen is loaded anew.  A load of another
\* list goes on, and what it answers will count as fresh.
Invalidate ==
    /\ fresh' = [f \in Filters |-> FALSE]
    /\ load' = Begun(Missed(load), filter)

OnScreen(c) == shown[filter][c] \in {"on", "off"}

\* The toggles are locked while one is being saved.
Unlocked(c) == OnScreen(c) /\ press = NoPress

\* Mutant: a load under way is not cancelled.
PressKeepsLoad(c) ==
    /\ Unlocked(c)
    /\ presses < MaxPresses
    /\ presses' = presses + 1
    /\ press' = [at |-> "sent", of |-> c, to |-> Flip(shown[filter][c]), key |-> filter,
                 previous |-> shown[filter], reloaded |-> FALSE]
    /\ shown' = [shown EXCEPT ![filter][c] = Flip(@)]
    /\ fresh' = [fresh EXCEPT ![filter] = TRUE]
    /\ UNCHANGED <<stored, filter, load, removal, late, unaware, loads>>

\* The load of the list on the screen is cancelled, the list is remembered and
\* changed, and the request leaves.
Press(c) ==
    /\ Unlocked(c)
    /\ presses < MaxPresses
    /\ presses' = presses + 1
    /\ load' = [load EXCEPT ![filter] = NoLoad]
    /\ press' = [at |-> "sent", of |-> c, to |-> Flip(shown[filter][c]), key |-> filter,
                 previous |-> shown[filter], reloaded |-> FALSE]
    /\ shown' = [shown EXCEPT ![filter][c] = Flip(@)]
    /\ fresh' = [fresh EXCEPT ![filter] = TRUE]
    /\ UNCHANGED <<stored, filter, removal, late, unaware, loads>>

\* The server saves the switch, or finds no such campaign.
PressReaches ==
    /\ press.at = "sent"
    /\ IF stored[press.of] = "deleted"
       THEN press' = [press EXCEPT !.at = "refused"] /\ UNCHANGED stored
       ELSE /\ press' = [press EXCEPT !.at = "saved"]
            /\ stored' = [stored EXCEPT ![press.of] = press.to]
    /\ UNCHANGED <<filter, shown, fresh, load, removal, late, unaware, presses, loads>>

PressAnswered ==
    /\ press.at = "saved"
    /\ press' = NoPress
    /\ Invalidate
    /\ UNCHANGED <<stored, filter, shown, removal, late, unaware, presses, loads>>

\* The request fails, before or after the server has seen it, or after a while
\* that it has not: it may still arrive.  The handler is the one of the latest
\* render, so the remembered list goes to the filter that is chosen now.
PressFails ==
    /\ press.at \in {"sent", "saved", "refused"}
    /\ late' = IF press.at = "sent" THEN late \cup {<<press.of, press.to>>} ELSE late
    /\ shown' = [shown EXCEPT ![filter] = press.previous]
    /\ press' = NoPress
    /\ fresh' = [f \in Filters |-> FALSE]
    /\ load' = [Missed(load) EXCEPT ![filter] = [at |-> "asked"]]
    /\ UNCHANGED <<stored, filter, removal, unaware, presses, loads>>

\* A toggle the phone gave up on is saved, or lost.
LateArrives ==
    \E p \in late :
        /\ late' = late \ {p}
        /\ \/ /\ stored[p[1]] # "deleted"
              /\ stored' = [stored EXCEPT ![p[1]] = p[2]]
              /\ unaware' = Filters
              /\ load' = Missed(load)
           \/ UNCHANGED <<stored, unaware, load>>
        /\ UNCHANGED <<filter, shown, fresh, press, removal, presses, loads>>

-----------------------------------------------------------------------------
(* The delete button *)

Delete(c) ==
    /\ removal = NoPress
    /\ OnScreen(c)
    /\ presses < MaxPresses
    /\ presses' = presses + 1
    /\ removal' = [at |-> "sent", of |-> c]
    /\ UNCHANGED <<stored, filter, shown, fresh, load, press, late, unaware, loads>>

DeleteReaches ==
    /\ removal.at = "sent"
    /\ IF stored[removal.of] = "deleted"
       THEN removal' = [removal EXCEPT !.at = "refused"] /\ UNCHANGED stored
       ELSE /\ removal' = [removal EXCEPT !.at = "deleted"]
            /\ stored' = [stored EXCEPT ![removal.of] = "deleted"]
    /\ UNCHANGED <<filter, shown, fresh, load, press, late, unaware, presses, loads>>

DeleteAnswered ==
    /\ removal.at = "deleted"
    /\ removal' = NoPress
    /\ Invalidate
    /\ press' = Reloading(filter)
    /\ UNCHANGED <<stored, filter, shown, late, unaware, presses, loads>>

\* An alert, and nothing else: a campaign that is gone stays on the screen.
DeleteFails ==
    /\ removal.at \in {"sent", "deleted", "refused"}
    /\ removal' = NoPress
    /\ IF removal.at = "deleted"
       THEN unaware' = Filters /\ load' = Missed(load)
       ELSE UNCHANGED <<unaware, load>>
    /\ UNCHANGED <<stored, filter, shown, fresh, press, late, presses, loads>>

-----------------------------------------------------------------------------

ListNext ==
    \/ \E f \in Filters : PickFilter(f) \/ LoadReads(f) \/ LoadAnswers(f) \/ LoadFails(f)
    \/ Pull
    \/ \E c \in Listed : Press(c) \/ Delete(c)
    \/ PressReaches \/ PressAnswered \/ PressFails \/ LateArrives
    \/ DeleteReaches \/ DeleteAnswered \/ DeleteFails

ListSpec == ListInit /\ [][ListNext]_listVars

-----------------------------------------------------------------------------
(* Properties *)

\* The type invariant of the list screen.
ListTypeOK ==
    /\ stored \in [Listed -> {"on", "off", "deleted"}]
    /\ filter \in Filters
    /\ shown \in [Filters -> Lists \cup {NoRows}]
    /\ fresh \in [Filters -> BOOLEAN]
    /\ \A f \in Filters : load[f].at \in {"none", "asked", "read"}
    /\ press.at \in {"none", "sent", "saved", "refused"}
    /\ removal.at \in {"none", "sent", "deleted", "refused"}
    /\ late \subseteq Listed \X {"on", "off"}
    /\ unaware \subseteq Filters
    /\ presses \in 0 .. MaxPresses
    /\ loads \in Nat

\* A list that will not be reloaded, while nothing is being saved, is what the
\* database holds.  The exceptions are writes the phone was never told of, and a
\* load of another filter that was read before a write and answered after the
\* lists were marked: it takes the mark away.
FreshListsAreTrue ==
    (press = NoPress /\ removal = NoPress) =>
        \A f \in Filters \ unaware : fresh[f] => shown[f] = View(f)

\* A failed toggle may put one account's list under another account's chip (the
\* filter was changed meanwhile).  Such a list is always marked for a reload, or
\* is the subject of a toggle that will mark it.
ForeignRowsAreReloaded ==
    press = NoPress =>
        \A f \in Filters \ {All} :
            fresh[f] => \A c \in Listed : shown[f][c] \in {"on", "off"} => OwnerOf[c] = f

\* A pressed toggle stays as pressed while it is being saved, unless its list
\* was loaded again meanwhile: a load from before the press cannot undo it.
PressesHold ==
    press # NoPress =>
        press.reloaded \/ shown[press.key][press.of] = press.to

\* The list on the phone against presses, reloads and answers in any order: fresh
\* rows are true, a press stands until it is answered, rows changed under another
\* filter are loaded again.
ListIsSound ==
    /\ ListTypeOK
    /\ FreshListsAreTrue
    /\ ForeignRowsAreReloaded
    /\ PressesHold

=============================================================================
