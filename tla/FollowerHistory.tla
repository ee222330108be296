--------------------------- MODULE FollowerHistory ---------------------------
(***************************************************************************)
(* One account's follower history (lib/reports/follower-history.ts): the   *)
(* daily request (app/api/cron/snapshot-followers) and everybody who opens *)
(* the overview record the day's total; whoever finds no other row fills   *)
(* in the days before from Instagram's daily changes.  Two requests do so  *)
(* at once, and midnight falls between any two of their steps.             *)
(*                                                                         *)
(* A row is seen, when its total is Instagram's own of that day, or        *)
(* guessed, when it was computed back from a later one.                    *)
(***************************************************************************)
EXTENDS Integers, FiniteSets

CONSTANTS Readers,                    \* requests that run at the same time
          FOLLOWER_INSIGHT_MAX_DAYS,
          LastDate                    \* bound on the calendar

ASSUME HistoryAssumption ==
    IsFiniteSet(Readers) /\ FOLLOWER_INSIGHT_MAX_DAYS \in Nat \ {0} /\ LastDate \in Nat

VARIABLES
    date,       \* today, UTC
    snapshot,   \* FollowerSnapshot rows
    reader,     \* the requests
    cutShort,   \* observer: a request died, or Instagram had no days before today to tell
    overnight   \* observer: midnight fell between a request's first row and its last

historyVars == <<date, snapshot, reader, cutShort, overnight>>

Dates    == (1 - FOLLOWER_INSIGHT_MAX_DAYS) .. LastDate
NoReader == [at |-> "idle", on |-> 0, days |-> {}]

HistoryTypeOK ==
    /\ date \in 0 .. LastDate
    /\ snapshot \in [Dates -> {"none", "seen", "guessed"}]
    /\ \A d \in Dates : snapshot[d] # "none" => d <= date
    /\ reader \in [Readers -> [at : {"idle", "info", "record", "count", "series", "look", "write"},
                               on : 0 .. LastDate, days : SUBSET Dates]]
    /\ cutShort \in BOOLEAN /\ overnight \in BOOLEAN

HistoryInit ==
    /\ date = 0
    /\ snapshot = [d \in Dates |-> "none"]
    /\ reader = [r \in Readers |-> NoReader]
    /\ cutShort = FALSE /\ overnight = FALSE

ReaderAt(r, step) == reader[r].at = step
ReaderGoes(r, step) == reader' = [reader EXCEPT ![r].at = step]
ReaderEnds(r) == reader' = [reader EXCEPT ![r] = NoReader]

-----------------------------------------------------------------------------
(* The cron's loop body, and ensureFollowerHistory                         *)

BeginReading(r) ==
    /\ ReaderAt(r, "idle")
    /\ ReaderGoes(r, "info")
    /\ UNCHANGED <<date, snapshot, cutShort, overnight>>

\* getUserInfo: the total, unless Instagram fails or leaves it out.
ReadTotal(r, answered) ==
    /\ ReaderAt(r, "info")
    /\ IF answered THEN ReaderGoes(r, "record") ELSE ReaderEnds(r)
    /\ UNCHANGED <<date, snapshot, cutShort, overnight>>

\* recordFollowerSnapshot: today's row, whatever it held.
RecordTotal(r) ==
    /\ ReaderAt(r, "record")
    /\ snapshot' = [snapshot EXCEPT ![date] = "seen"]
    /\ reader' = [reader EXCEPT ![r] = [at |-> "count", on |-> date, days |-> @.days]]
    /\ UNCHANGED <<date, cutShort, overnight>>

\* The first time this account is seen, its history is looked for.
CountRows(r) ==
    /\ ReaderAt(r, "count")
    /\ IF Cardinality({d \in Dates : snapshot[d] # "none"}) <= 1
       THEN ReaderGoes(r, "series") ELSE ReaderEnds(r)
    /\ UNCHANGED <<date, snapshot, cutShort, overnight>>

\* getFollowerCountSeries and reconstructFollowerTotals: the totals of the last n
\* days, fewer than asked for when the changes would take one below zero; none
\* when Instagram has no changes to tell or does not allow it.
FetchSeries(r, n) ==
    /\ ReaderAt(r, "series")
    /\ IF n = 0 THEN ReaderEnds(r)
       ELSE reader' = [reader EXCEPT ![r] =
                [at |-> "look", on |-> @.on, days |-> (date - n + 1) .. date]]
    /\ cutShort' = (cutShort \/ n <= 1)
    /\ UNCHANGED <<date, snapshot, overnight>>

\* Seeded bug: what was seen is not looked for.
LookForNothing(r) ==
    /\ ReaderAt(r, "look")
    /\ ReaderGoes(r, "write")
    /\ UNCHANGED <<date, snapshot, cutShort, overnight>>

\* The days that have been seen are left out.
LookForSeen(r) ==
    LET unseen == {d \in reader[r].days : snapshot[d] # "seen"} IN
    /\ ReaderAt(r, "look")
    /\ IF unseen = {} THEN ReaderEnds(r)
       ELSE reader' = [reader EXCEPT ![r] = [at |-> "write", on |-> @.on, days |-> unseen]]
    /\ UNCHANGED <<date, snapshot, cutShort, overnight>>

\* One transaction of upserts, whatever the rows hold by now.
WriteGuesses(r) ==
    /\ ReaderAt(r, "write")
    /\ snapshot' = [d \in Dates |-> IF d \in reader[r].days THEN "guessed" ELSE snapshot[d]]
    /\ ReaderEnds(r)
    /\ UNCHANGED <<date, cutShort, overnight>>

\* The database fails, or the request is cut off.
ReaderDies(r) ==
    /\ ~ReaderAt(r, "idle")
    /\ cutShort' = (cutShort \/ reader[r].at \notin {"info", "record"})
    /\ ReaderEnds(r)
    /\ UNCHANGED <<date, snapshot, overnight>>

Midnight ==
    /\ date < LastDate
    /\ date' = date + 1
    /\ overnight' = (overnight \/ \E r \in Readers : reader[r].at \notin {"idle", "info", "record"})
    /\ UNCHANGED <<snapshot, reader, cutShort>>

HistoryNext ==
    \/ \E r \in Readers :
          \/ BeginReading(r) \/ RecordTotal(r) \/ CountRows(r) \/ LookForSeen(r) \/ WriteGuesses(r)
          \/ \E answered \in BOOLEAN : ReadTotal(r, answered)
          \/ \E n \in 0 .. FOLLOWER_INSIGHT_MAX_DAYS : FetchSeries(r, n)
          \/ ReaderDies(r)
    \/ Midnight

HistorySpec == HistoryInit /\ [][HistoryNext]_historyVars

-----------------------------------------------------------------------------
(* Properties                                                              *)

\* "never overwrite a directly observed snapshot": a guess takes the place of
\* what was seen only if midnight fell on the way, on a day that began after the
\* request had recorded its own.
SeenStaysSeen ==
    [][\A d \in Dates : snapshot[d] = "seen" /\ snapshot'[d] # "seen" =>
          \E r \in Readers : reader[r].at = "write" /\ reader[r].on < d]_historyVars

\* Only the first request of all fills in the days before.  An account without
\* them has lost them to a request that died or had nothing to fill them with,
\* or to a midnight before the count, after which there seemed to be a history.
MissingHistoryIsExplained ==
    /\ \A r \in Readers : ReaderAt(r, "idle")
    /\ \E d \in Dates : snapshot[d] = "seen"
    /\ \A d \in Dates : snapshot[d] # "guessed"
    => cutShort \/ overnight

\* The chart of an account: it has the days before it was connected, and what
\* was seen is not guessed, unless a fault or midnight came between.
HistoryIsSound == [](HistoryTypeOK /\ MissingHistoryIsExplained) /\ SeenStaysSeen

=============================================================================
