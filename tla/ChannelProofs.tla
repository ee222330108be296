---------------------------- MODULE ChannelProofs ----------------------------
(***************************************************************************)
(* What stands between one account and the platforms it talks to, for      *)
(* every number of requests, jobs, updates and days, and every cap and     *)
(* window: the follower history that is observed is not guessed over, no   *)
(* token about to expire is passed over, the hourly counter is exactly     *)
(* what its window granted and only a spent burst budget drops a job, a    *)
(* Telegram update that is delivered again is answered once, and accounts  *)
(* and bots are connected once, by whom and where they should be, but for  *)
(* the named races.  The five modules share no variable.                   *)
(***************************************************************************)
EXTENDS Connections, FollowerHistory, TokenRefresh, RateLimiter, TelegramReplies, SumTheorems

-----------------------------------------------------------------------------
(* The history: the invariant                                              *)

Recorded == {"count", "series", "look", "write"}
Guessing == {"series", "look", "write"}

\* A request that has recorded a total has left a row, on a day that has come.
RecordsAreRows ==
    \A r \in Readers : reader[r].at \in Recorded =>
        reader[r].on <= date /\ snapshot[reader[r].on] # "none"

\* The requests that fill in the days before have all recorded the same day, which
\* is not for them to guess.
GuessersAgree ==
    \A r \in Readers : reader[r].at \in Guessing =>
        /\ snapshot[reader[r].on] = "seen"
        /\ \A q \in Readers : reader[q].at \in Guessing => reader[q].on = reader[r].on

\* What is about to be guessed is not seen, unless its day came after the request's.
GuessesAreUnseen ==
    \A r \in Readers : reader[r].at = "write" =>
        /\ reader[r].days # {} /\ reader[r].on \notin reader[r].days
        /\ \A d \in reader[r].days : snapshot[d] = "seen" => reader[r].on < d

\* Guesses start from a day that was seen, and reach no further than today.
GuessesHaveAnOrigin ==
    /\ (\E d \in Dates : snapshot[d] = "guessed") => \E e \in Dates : snapshot[e] = "seen"
    /\ \A r \in Readers : \A d \in reader[r].days : d <= date

\* Before the first midnight that mattered, every request is at its own day and
\* the guesses are older.
OneDay ==
    ~overnight =>
        /\ \A r \in Readers : reader[r].at \in Recorded => reader[r].on = date
        /\ \A d \in Dates : snapshot[d] = "guessed" => d < date

\* A history without its days before, that nothing explains yet.
Missing ==
    /\ ~cutShort /\ ~overnight
    /\ \E d \in Dates : snapshot[d] = "seen"
    /\ \A d \in Dates : snapshot[d] # "guessed"

\* There is a request on its way to fill them in, and nothing stops it.
MissingIsOnItsWay ==
    Missing =>
        /\ \A d \in Dates : snapshot[d] # "none" => d = date
        /\ \E r \in Readers :
              /\ reader[r].at \in Recorded
              /\ reader[r].at = "look" => \E d \in reader[r].days : d < date

HistoryInv ==
    /\ HistoryTypeOK /\ RecordsAreRows /\ GuessersAgree /\ GuessesAreUnseen
    /\ GuessesHaveAnOrigin /\ OneDay /\ MissingIsOnItsWay

-----------------------------------------------------------------------------
(* The history: the steps                                                  *)

ReaderStates == [at : {"idle", "info", "record", "count", "series", "look", "write"},
                 on : 0 .. LastDate, days : SUBSET Dates]

\* What is known of a request and of the calendar.
LEMMA ReaderFacts ==
    ASSUME HistoryTypeOK
    PROVE  /\ reader \in [Readers -> ReaderStates]
           /\ \A r \in Readers : /\ reader[r] \in ReaderStates
                                 /\ reader[r].on \in 0 .. LastDate /\ reader[r].on \in Dates
                                /\ reader[r].days \in SUBSET Dates
           /\ date \in Nat /\ date \in 0 .. LastDate /\ date \in Dates
           /\ \A d \in Dates : d \in Int
           /\ NoReader \in ReaderStates /\ NoReader.at = "idle" /\ NoReader.days = {}
  <1>1. reader \in [Readers -> ReaderStates] /\ date \in 0 .. LastDate
    BY DEF HistoryTypeOK, ReaderStates
  <1>2. 0 .. LastDate \subseteq Dates /\ \A d \in Dates : d \in Int
    BY HistoryAssumption DEF Dates
  <1>3. \A r \in Readers : /\ reader[r] \in ReaderStates
                           /\ reader[r].on \in 0 .. LastDate
                           /\ reader[r].days \in SUBSET Dates
    BY <1>1 DEF ReaderStates
  <1>4. date \in Nat
    BY <1>1, HistoryAssumption
  <1>5. NoReader \in ReaderStates /\ NoReader.at = "idle" /\ NoReader.days = {}
    BY HistoryAssumption DEF NoReader, ReaderStates
  <1>6. QED BY <1>1, <1>2, <1>3, <1>4, <1>5

\* One field of a request changes.
LEMMA ReaderChanged ==
    ASSUME HistoryTypeOK, NEW r \in Readers, NEW at
    PROVE  [reader EXCEPT ![r].at = at] =
              [reader EXCEPT ![r] = [at |-> at, on |-> reader[r].on, days |-> reader[r].days]]
  <1>1. PICK x \in ReaderStates : x = reader[r]
    BY ReaderFacts
  <1>2. x = [at |-> x.at, on |-> x.on, days |-> x.days]
    BY DEF ReaderStates
  <1>3. [x EXCEPT !.at = at] = [at |-> at, on |-> x.on, days |-> x.days]
    BY <1>2
  <1>4. [reader EXCEPT ![r].at = at] = [reader EXCEPT ![r] = [reader[r] EXCEPT !.at = at]]
    OBVIOUS
  <1>5. QED BY <1>1, <1>3, <1>4

\* A request that moves without a row being written keeps the invariant, if it
\* keeps its day, starts to guess only of the day all others guess from, is to
\* write only what is not seen, and does not leave a missing history alone.
LEMMA ReaderMovesKeeps ==
    ASSUME HistoryInv, NEW r \in Readers, NEW y \in ReaderStates,
           reader' = [reader EXCEPT ![r] = y],
           UNCHANGED <<date, snapshot, overnight>>,
           cutShort' \in BOOLEAN, cutShort => cutShort',
           y.at \in Recorded => reader[r].at \in Recorded /\ y.on = reader[r].on,
           y.at \in Guessing =>
              /\ snapshot[y.on] = "seen"
              /\ \A q \in Readers : reader[q].at \in Guessing => reader[q].on = y.on,
           y.at = "write" => y.days # {} /\ \A d \in y.days : snapshot[d] # "seen",
           \A d \in y.days : d <= date,
           /\ Missing /\ ~cutShort' /\ reader[r].at \in Recorded
           /\ reader[r].at = "look" => \E d \in reader[r].days : d < date
           => y.at \in Recorded /\ (y.at = "look" => \E d \in y.days : d < date)
    PROVE  HistoryInv'
  <1>1. /\ reader' \in [Readers -> ReaderStates] /\ reader'[r] = y
        /\ \A q \in Readers \ {r} : reader'[q] = reader[q]
        /\ date' = date /\ snapshot' = snapshot /\ overnight' = overnight
    BY ReaderFacts DEF HistoryInv
  <1>2. HistoryTypeOK'
    BY <1>1 DEF HistoryInv, HistoryTypeOK, ReaderStates
  <1>3. RecordsAreRows'
    BY <1>1 DEF HistoryInv, RecordsAreRows
  <1>4. GuessersAgree'
    <2>1. ASSUME NEW q \in Readers, reader'[q].at \in Guessing
          PROVE  /\ snapshot[reader'[q].on] = "seen"
                 /\ reader[q].at \in Guessing \/ q = r
                 /\ q # r => reader'[q] = reader[q]
      BY <1>1, <2>1 DEF HistoryInv, GuessersAgree
    <2>2. ASSUME NEW q \in Readers, reader'[q].at \in Guessing,
                 NEW e \in Readers, reader'[e].at \in Guessing
          PROVE  reader'[e].on = reader'[q].on
      <3>1. CASE q = r
        BY <1>1, <2>1, <2>2, <3>1
      <3>2. CASE e = r
        BY <1>1, <2>1, <2>2, <3>2
      <3>3. CASE q # r /\ e # r
        BY <1>1, <2>2, <3>3 DEF HistoryInv, GuessersAgree
      <3> QED BY <3>1, <3>2, <3>3
    <2> QED BY <1>1, <2>1, <2>2 DEF GuessersAgree
  <1>5. GuessesAreUnseen'
    <2> SUFFICES ASSUME NEW q \in Readers, reader'[q].at = "write"
                 PROVE  /\ reader'[q].days # {} /\ reader'[q].on \notin reader'[q].days
                        /\ \A d \in reader'[q].days : snapshot[d] = "seen" => reader'[q].on < d
      BY <1>1 DEF GuessesAreUnseen
    <2>1. CASE q = r
      <3>1. y.at \in Guessing
        BY <1>1, <2>1 DEF Guessing
      <3> QED BY <1>1, <2>1, <3>1
    <2>2. CASE q # r
      BY <1>1, <2>2 DEF HistoryInv, GuessesAreUnseen
    <2> QED BY <2>1, <2>2
  <1>6. GuessesHaveAnOrigin'
    BY <1>1 DEF HistoryInv, GuessesHaveAnOrigin
  <1>7. OneDay'
    BY <1>1 DEF HistoryInv, OneDay
  <1>8. MissingIsOnItsWay'
    <2> SUFFICES ASSUME Missing'
                 PROVE  /\ \A d \in Dates : snapshot[d] # "none" => d = date
                        /\ \E q \in Readers :
                              /\ reader'[q].at \in Recorded
                              /\ reader'[q].at = "look" => \E d \in reader'[q].days : d < date
      BY <1>1 DEF MissingIsOnItsWay
    <2>1. Missing /\ ~cutShort'
      BY <1>1 DEF Missing
    <2>2. PICK q \in Readers : /\ reader[q].at \in Recorded
                               /\ reader[q].at = "look" => \E d \in reader[q].days : d < date
      BY <2>1 DEF HistoryInv, MissingIsOnItsWay
    <2>3. \A d \in Dates : snapshot[d] # "none" => d = date
      BY <2>1 DEF HistoryInv, MissingIsOnItsWay
    <2>4. CASE q = r
      BY <1>1, <2>1, <2>2, <2>3, <2>4
    <2>5. CASE q # r
      BY <1>1, <2>2, <2>3, <2>5
    <2> QED BY <2>4, <2>5
  <1>9. QED BY <1>2, <1>3, <1>4, <1>5, <1>6, <1>7, <1>8 DEF HistoryInv

\* A request that ends for good reasons was not on its way to fill anything in.
LEMMA ReaderEndsKeeps ==
    ASSUME HistoryInv, NEW r \in Readers, ReaderEnds(r),
           UNCHANGED <<date, snapshot, overnight>>,
           cutShort' \in BOOLEAN, cutShort => cutShort',
           ~(/\ Missing /\ ~cutShort' /\ reader[r].at \in Recorded
             /\ reader[r].at = "look" => \E d \in reader[r].days : d < date)
    PROVE  HistoryInv'
  <1>1. NoReader \in ReaderStates /\ NoReader.at = "idle" /\ NoReader.days = {}
    BY ReaderFacts DEF HistoryInv
  <1>2. reader' = [reader EXCEPT ![r] = NoReader]
    BY DEF ReaderEnds
  <1>3. NoReader.at \notin Recorded /\ NoReader.at \notin Guessing /\ NoReader.at # "write"
    BY <1>1 DEF Recorded, Guessing
  <1> HIDE DEF NoReader
  <1>4. QED BY <1>1, <1>2, <1>3, ReaderMovesKeeps

\* Nothing is recorded yet.
LEMMA BeginReadingKeeps ==
    ASSUME HistoryInv, NEW r \in Readers, BeginReading(r) PROVE HistoryInv'
  <1> DEFINE y == [at |-> "info", on |-> reader[r].on, days |-> reader[r].days]
  <1>1. reader' = [reader EXCEPT ![r] = y] /\ reader[r].at = "idle"
    BY ReaderChanged DEF HistoryInv, BeginReading, ReaderGoes, ReaderAt
  <1>2. y \in ReaderStates /\ \A d \in y.days : d <= date
    BY ReaderFacts DEF HistoryInv, GuessesHaveAnOrigin, ReaderStates
  <1>3. y.at = "info" /\ y.at \notin Recorded /\ y.at \notin Guessing /\ reader[r].at \notin Recorded
    BY <1>1 DEF Recorded, Guessing
  <1>4. cutShort' \in BOOLEAN /\ cutShort' = cutShort /\ UNCHANGED <<date, snapshot, overnight>>
    BY DEF BeginReading, HistoryInv, HistoryTypeOK
  <1> HIDE DEF y
  <1>5. QED BY <1>1, <1>2, <1>3, <1>4, ReaderMovesKeeps

\* Nothing is recorded yet: a request may end here.
LEMMA ReadTotalKeeps ==
    ASSUME HistoryInv, NEW r \in Readers, NEW answered \in BOOLEAN, ReadTotal(r, answered)
    PROVE  HistoryInv'
  <1> DEFINE y == [at |-> "record", on |-> reader[r].on, days |-> reader[r].days]
  <1>1. /\ cutShort' \in BOOLEAN /\ cutShort' = cutShort /\ UNCHANGED <<date, snapshot, overnight>>
        /\ reader[r].at = "info"
    BY DEF ReadTotal, ReaderAt, HistoryInv, HistoryTypeOK
  <1>2. reader[r].at \notin Recorded
    BY <1>1 DEF Recorded
  <1>3. CASE answered
    <2>1. reader' = [reader EXCEPT ![r] = y]
      BY <1>3, ReaderChanged DEF HistoryInv, ReadTotal, ReaderGoes
    <2>2. y \in ReaderStates /\ \A d \in y.days : d <= date
      BY ReaderFacts DEF HistoryInv, GuessesHaveAnOrigin, ReaderStates
    <2>3. y.at = "record" /\ y.at \notin Recorded /\ y.at \notin Guessing
      BY DEF Recorded, Guessing
    <2> HIDE DEF y
    <2> QED BY <1>1, <1>2, <2>1, <2>2, <2>3, ReaderMovesKeeps
  <1>4. CASE ~answered
    <2>1. ReaderEnds(r)
      BY <1>4 DEF ReadTotal
    <2> QED BY <1>1, <1>2, <2>1, ReaderEndsKeeps
  <1>5. QED BY <1>3, <1>4

\* A request that dies after its first row is what cuts the history short.
LEMMA ReaderDiesKeeps ==
    ASSUME HistoryInv, NEW r \in Readers, ReaderDies(r) PROVE HistoryInv'
  <1>1. /\ ReaderEnds(r) /\ UNCHANGED <<date, snapshot, overnight>>
        /\ cutShort' = (cutShort \/ reader[r].at \notin {"info", "record"})
    BY DEF ReaderDies
  <1>2. cutShort' \in BOOLEAN /\ (cutShort => cutShort')
    BY <1>1 DEF HistoryInv, HistoryTypeOK
  <1>3. reader[r].at \in Recorded => cutShort'
    BY <1>1 DEF Recorded
  <1>4. QED BY <1>1, <1>2, <1>3, ReaderEndsKeeps

\* The rows there are, counted.
LEMMA RowsCounted ==
    ASSUME HistoryTypeOK, NEW S, S = {d \in Dates : snapshot[d] # "none"}
    PROVE  /\ IsFiniteSet(S) /\ Cardinality(S) \in Nat
           /\ Cardinality(S) <= 1 => \A d, e \in S : d = e
           /\ (\A d \in S : d = date) => Cardinality(S) <= 1
  <1>1. IsFiniteSet(Dates)
    BY HistoryAssumption, FS_Interval DEF Dates
  <1>2. IsFiniteSet(S) /\ Cardinality(S) \in Nat
    BY <1>1, FS_Subset, FS_CardinalityType
  <1>3. ASSUME Cardinality(S) <= 1, NEW d \in S, NEW e \in S, d # e PROVE FALSE
    <2>1. {d, e} \subseteq S
      OBVIOUS
    <2>2. Cardinality({d, e}) = 2
      <3>1. IsFiniteSet({d}) /\ Cardinality({d}) = 1
        BY FS_Singleton
      <3>2. {d, e} = {d} \cup {e} /\ e \notin {d}
        BY <1>3
      <3>3. Cardinality({d} \cup {e}) = Cardinality({d}) + 1
        BY <3>1, <3>2, FS_AddElement
      <3> QED BY <3>1, <3>2, <3>3
    <2>3. Cardinality({d, e}) <= Cardinality(S)
      BY <1>2, <2>1, FS_Subset
    <2> QED BY <1>2, <1>3, <2>2, <2>3
  <1>4. ASSUME \A d \in S : d = date PROVE Cardinality(S) <= 1
    <2>1. S \subseteq {date}
      BY <1>4
    <2>2. IsFiniteSet({date}) /\ Cardinality({date}) = 1
      BY FS_Singleton
    <2>3. Cardinality(S) <= Cardinality({date})
      BY <2>1, <2>2, FS_Subset
    <2> QED BY <2>2, <2>3
  <1>5. QED BY <1>2, <1>3, <1>4

\* Who finds no row but its own has seen it, and nobody guesses from another.
LEMMA CountRowsKeeps ==
    ASSUME HistoryInv, NEW r \in Readers, CountRows(r) PROVE HistoryInv'
  <1>1. PICK S : S = {d \in Dates : snapshot[d] # "none"}
    OBVIOUS
  <1>2. /\ reader[r].at = "count" /\ UNCHANGED <<date, snapshot, overnight>>
        /\ cutShort' = cutShort /\ cutShort' \in BOOLEAN
    BY DEF CountRows, ReaderAt, HistoryInv, HistoryTypeOK
  <1>3. reader[r].at \in Recorded
    BY <1>2 DEF Recorded
  <1>4. /\ IsFiniteSet(S) /\ Cardinality(S) \in Nat
        /\ Cardinality(S) <= 1 => \A d, e \in S : d = e
        /\ (\A d \in S : d = date) => Cardinality(S) <= 1
    BY <1>1, RowsCounted DEF HistoryInv
  <1>5. \A q \in Readers : reader[q].at \in Recorded => reader[q].on \in S
    BY <1>1, ReaderFacts DEF HistoryInv, RecordsAreRows
  <1>6. CASE Cardinality(S) <= 1
    <2> DEFINE y == [at |-> "series", on |-> reader[r].on, days |-> reader[r].days]
    <2>1. reader' = [reader EXCEPT ![r] = y]
      BY <1>1, <1>6, ReaderChanged DEF HistoryInv, CountRows, ReaderGoes
    <2>2. y \in ReaderStates /\ \A d \in y.days : d <= date
      BY ReaderFacts DEF HistoryInv, GuessesHaveAnOrigin, ReaderStates
    <2>3. y.at = "series" /\ y.at \in Recorded /\ y.on = reader[r].on
      BY DEF Recorded
    <2>4. snapshot[y.on] = "seen"
      <3>1. y.on \in S /\ y.on \in Dates /\ snapshot[y.on] # "none"
        BY <1>1, <1>3, <1>5, <2>3
      <3>2. snapshot[y.on] \in {"none", "seen", "guessed"}
        BY <3>1 DEF HistoryInv, HistoryTypeOK
      <3>3. ASSUME snapshot[y.on] = "guessed" PROVE FALSE
        <4>1. PICK e \in Dates : snapshot[e] = "seen"
          BY <3>1, <3>3 DEF HistoryInv, GuessesHaveAnOrigin
        <4>2. e \in S /\ e # y.on
          BY <1>1, <3>3, <4>1
        <4> QED BY <1>4, <1>6, <3>1, <4>2
      <3> QED BY <3>1, <3>2, <3>3
    <2>5. \A q \in Readers : reader[q].at \in Guessing => reader[q].on = y.on
      <3>1. Guessing \subseteq Recorded
        BY DEF Guessing, Recorded
      <3> QED BY <1>3, <1>4, <1>5, <1>6, <2>3, <3>1
    <2> HIDE DEF y
    <2> QED BY <1>2, <1>3, <2>1, <2>2, <2>3, <2>4, <2>5, ReaderMovesKeeps
  <1>7. CASE ~(Cardinality(S) <= 1)
    <2>1. ReaderEnds(r)
      BY <1>1, <1>7 DEF CountRows
    <2>2. ~Missing
      BY <1>1, <1>4, <1>7 DEF HistoryInv, MissingIsOnItsWay
    <2> QED BY <1>2, <2>1, <2>2, ReaderEndsKeeps
  <1>8. QED BY <1>6, <1>7

\* Two days or more reach back before today.
LEMMA FetchSeriesKeeps ==
    ASSUME HistoryInv, NEW r \in Readers, NEW n \in 0 .. FOLLOWER_INSIGHT_MAX_DAYS, FetchSeries(r, n)
    PROVE  HistoryInv'
  <1>1. /\ reader[r].at = "series" /\ UNCHANGED <<date, snapshot, overnight>>
        /\ cutShort' = (cutShort \/ n <= 1)
    BY DEF FetchSeries, ReaderAt
  <1>2. cutShort' \in BOOLEAN /\ (cutShort => cutShort')
    BY <1>1 DEF HistoryInv, HistoryTypeOK
  <1>3. reader[r].at \in Recorded /\ reader[r].at \in Guessing
    BY <1>1 DEF Recorded, Guessing
  <1>4. CASE n = 0
    <2>1. ReaderEnds(r)
      BY <1>4 DEF FetchSeries
    <2>2. cutShort'
      <3>1. n <= 1
        BY <1>4
      <3> QED BY <1>1, <3>1, Zenon
    <2> QED BY <1>1, <1>2, <2>1, <2>2, ReaderEndsKeeps
  <1>5. CASE n # 0
    <2> DEFINE y == [at |-> "look", on |-> reader[r].on, days |-> (date - n + 1) .. date]
    <2>1. reader' = [reader EXCEPT ![r] = y]
      BY <1>5 DEF FetchSeries
    <2>2. (date - n + 1) .. date \in SUBSET Dates
      BY ReaderFacts, HistoryAssumption DEF HistoryInv, Dates
    <2>3. y \in ReaderStates
      BY <2>2, ReaderFacts DEF HistoryInv, ReaderStates
    <2>4. /\ y.at = "look" /\ y.at \in Recorded /\ y.at \in Guessing /\ y.on = reader[r].on
          /\ y.days = (date - n + 1) .. date
      BY DEF Recorded, Guessing
    <2>5. \A d \in y.days : d <= date
      BY <2>4, ReaderFacts DEF HistoryInv
    <2>6. ~cutShort' => \E d \in y.days : d < date
      <3>1. ASSUME n > 1 PROVE date - 1 \in y.days /\ date - 1 < date
        BY <2>4, <3>1, ReaderFacts DEF HistoryInv
      <3>2. n \in Nat
        BY HistoryAssumption
      <3>3. ~(n <= 1) => n > 1
        BY <3>2
      <3> QED BY <1>1, <3>1, <3>3, Zenon
    <2>7. /\ snapshot[y.on] = "seen"
          /\ \A q \in Readers : reader[q].at \in Guessing => reader[q].on = y.on
      BY <1>3, <2>4 DEF HistoryInv, GuessersAgree
    <2> HIDE DEF y
    <2> QED BY <1>1, <1>2, <1>3, <2>1, <2>3, <2>4, <2>5, <2>6, <2>7, ReaderMovesKeeps
  <1>6. QED BY <1>4, <1>5

\* The days seen are left out; the others are there while the history is missing.
LEMMA LookForSeenKeeps ==
    ASSUME HistoryInv, NEW r \in Readers, LookForSeen(r) PROVE HistoryInv'
  <1>1. /\ reader[r].at = "look" /\ UNCHANGED <<date, snapshot, overnight>>
        /\ cutShort' = cutShort /\ cutShort' \in BOOLEAN
    BY DEF LookForSeen, ReaderAt, HistoryInv, HistoryTypeOK
  <1>2. PICK unseen : unseen = {d \in reader[r].days : snapshot[d] # "seen"}
    OBVIOUS
  <1>3. reader[r].at \in Recorded /\ reader[r].at \in Guessing
    BY <1>1 DEF Recorded, Guessing
  <1>4. CASE unseen # {}
    <2> DEFINE y == [at |-> "write", on |-> reader[r].on, days |-> unseen]
    <2>1. reader' = [reader EXCEPT ![r] = y]
      BY <1>2, <1>4 DEF LookForSeen
    <2>2. y \in ReaderStates
      BY <1>2, ReaderFacts DEF HistoryInv, ReaderStates
    <2>3. /\ y.at = "write" /\ y.at \in Recorded /\ y.at \in Guessing /\ y.on = reader[r].on
          /\ y.days = unseen
      BY DEF Recorded, Guessing
    <2>4. /\ \A d \in y.days : d <= date /\ snapshot[d] # "seen"
          /\ y.days # {}
      BY <1>2, <1>4, <2>3 DEF HistoryInv, GuessesHaveAnOrigin
    <2>5. /\ snapshot[y.on] = "seen"
          /\ \A q \in Readers : reader[q].at \in Guessing => reader[q].on = y.on
      BY <1>3, <2>3 DEF HistoryInv, GuessersAgree
    <2> HIDE DEF y
    <2> QED BY <1>1, <1>3, <2>1, <2>2, <2>3, <2>4, <2>5, ReaderMovesKeeps
  <1>5. CASE unseen = {}
    <2>1. ReaderEnds(r)
      BY <1>2, <1>5 DEF LookForSeen
    <2>2. ASSUME Missing, NEW d \in reader[r].days, d < date PROVE FALSE
      <3>1. d \in Dates /\ d # date
        BY <2>2, ReaderFacts DEF HistoryInv
      <3>2. snapshot[d] = "none"
        BY <2>2, <3>1 DEF HistoryInv, MissingIsOnItsWay
      <3> QED BY <1>2, <1>5, <3>2
    <2> QED BY <1>1, <2>1, <2>2, ReaderEndsKeeps
  <1>6. QED BY <1>4, <1>5

\* Today is seen from now on; whatever is guessed started from a seen day before.
LEMMA RecordTotalKeeps ==
    ASSUME HistoryInv, NEW r \in Readers, RecordTotal(r) PROVE HistoryInv'
  <1> DEFINE y == [at |-> "count", on |-> date, days |-> reader[r].days]
  <1>1. /\ snapshot' = [snapshot EXCEPT ![date] = "seen"] /\ reader' = [reader EXCEPT ![r] = y]
        /\ date' = date /\ overnight' = overnight /\ cutShort' = cutShort
        /\ reader[r].at = "record"
    BY DEF RecordTotal, ReaderAt
  <1>2. /\ y \in ReaderStates /\ date \in Dates /\ snapshot \in [Dates -> {"none", "seen", "guessed"}]
        /\ reader \in [Readers -> ReaderStates] /\ date \in Nat
    BY ReaderFacts DEF HistoryInv, HistoryTypeOK, ReaderStates
  <1>3. /\ y.at = "count" /\ y.at \in Recorded /\ y.at \notin Guessing /\ y.on = date
        /\ y.days = reader[r].days /\ reader[r].at \notin Recorded /\ reader[r].at \notin Guessing
    BY <1>1 DEF Recorded, Guessing
  <1> HIDE DEF y
  <1>4. /\ snapshot' \in [Dates -> {"none", "seen", "guessed"}] /\ snapshot'[date] = "seen"
        /\ \A d \in Dates \ {date} : snapshot'[d] = snapshot[d]
        /\ reader' \in [Readers -> ReaderStates] /\ reader'[r] = y
        /\ \A q \in Readers \ {r} : reader'[q] = reader[q]
    BY <1>1, <1>2
  <1>5. HistoryTypeOK'
    BY <1>1, <1>2, <1>4 DEF HistoryInv, HistoryTypeOK, ReaderStates
  <1>6. \A d \in Dates : snapshot[d] # "none" => snapshot'[d] # "none"
    BY <1>4
  <1>7. \A d \in Dates : snapshot[d] = "seen" => snapshot'[d] = "seen"
    BY <1>4
  <1>8. RecordsAreRows'
    <2> SUFFICES ASSUME NEW q \in Readers, reader'[q].at \in Recorded
                 PROVE  reader'[q].on <= date /\ snapshot'[reader'[q].on] # "none"
      BY <1>1 DEF RecordsAreRows
    <2>1. CASE q = r
      BY <1>2, <1>3, <1>4, <2>1
    <2>2. CASE q # r
      BY <1>4, <1>6, <2>2, ReaderFacts DEF HistoryInv, RecordsAreRows
    <2> QED BY <2>1, <2>2
  <1>9. GuessersAgree'
    <2>1. \A q \in Readers : reader'[q].at \in Guessing =>
             q # r /\ reader[q].at \in Guessing /\ reader'[q] = reader[q]
      BY <1>3, <1>4
    <2> QED BY <1>7, <2>1, ReaderFacts DEF HistoryInv, GuessersAgree
  <1>10. GuessesAreUnseen'
    <2> SUFFICES ASSUME NEW q \in Readers, reader'[q].at = "write"
                 PROVE  /\ reader'[q].days # {} /\ reader'[q].on \notin reader'[q].days
                        /\ \A d \in reader'[q].days : snapshot'[d] = "seen" => reader'[q].on < d
      BY DEF GuessesAreUnseen
    <2>1. q # r /\ reader'[q] = reader[q] /\ reader[q].at = "write"
      BY <1>3, <1>4
    <2>2. /\ reader[q].days # {} /\ reader[q].on \notin reader[q].days
          /\ \A d \in reader[q].days : snapshot[d] = "seen" => reader[q].on < d
      BY <2>1 DEF HistoryInv, GuessesAreUnseen
    <2>3. reader[q].on <= date /\ reader[q].on \in Nat
      <3>1. reader[q].at \in Recorded
        BY <2>1 DEF Recorded
      <3> QED BY <3>1, ReaderFacts, HistoryAssumption DEF HistoryInv, RecordsAreRows
    <2>4. ASSUME date \in reader[q].days PROVE reader[q].on < date
      BY <1>2, <2>2, <2>3, <2>4
    <2> QED BY <1>4, <2>1, <2>2, <2>4, ReaderFacts DEF HistoryInv
  <1>11. GuessesHaveAnOrigin'
    <2>1. \E e \in Dates : snapshot'[e] = "seen"
      BY <1>2, <1>4
    <2>2. \A q \in Readers : reader'[q].days = reader[q].days
      BY <1>3, <1>4
    <2> QED BY <1>1, <2>1, <2>2 DEF HistoryInv, GuessesHaveAnOrigin
  <1>12. OneDay'
    <2>1. \A d \in Dates : snapshot'[d] = "guessed" => snapshot[d] = "guessed"
      BY <1>4
    <2>2. \A q \in Readers : reader'[q].at \in Recorded =>
             reader'[q].on = date \/ reader'[q] = reader[q]
      BY <1>3, <1>4
    <2> QED BY <1>1, <2>1, <2>2 DEF HistoryInv, OneDay
  <1>13. MissingIsOnItsWay'
    <2> SUFFICES ASSUME Missing'
                 PROVE  /\ \A d \in Dates : snapshot'[d] # "none" => d = date
                        /\ \E q \in Readers :
                              /\ reader'[q].at \in Recorded
                              /\ reader'[q].at = "look" => \E d \in reader'[q].days : d < date
      BY <1>1 DEF MissingIsOnItsWay
    <2>1. ASSUME NEW d \in Dates, snapshot'[d] # "none", d # date PROVE FALSE
      <3>1. snapshot[d] = "seen"
        BY <1>2, <1>4, <2>1 DEF Missing
      <3>2. \A e \in Dates : snapshot[e] # "guessed"
        <4>1. \A e \in Dates \ {date} : snapshot[e] # "guessed"
          BY <1>4 DEF Missing
        <4>2. ASSUME snapshot[date] = "guessed" PROVE FALSE
          BY <1>1, <1>2, <4>2 DEF HistoryInv, OneDay, Missing
        <4> QED BY <4>1, <4>2
      <3>3. Missing
        BY <1>1, <3>1, <3>2 DEF Missing
      <3> QED BY <2>1, <3>1, <3>3 DEF HistoryInv, MissingIsOnItsWay
    <2>2. reader'[r].at \in Recorded /\ reader'[r].at # "look"
      BY <1>3, <1>4
    <2> QED BY <2>1, <2>2
  <1>14. QED BY <1>5, <1>8, <1>9, <1>10, <1>11, <1>12, <1>13 DEF HistoryInv

\* The guesses leave their own day alone, and with them no history is missing.
LEMMA WriteGuessesKeeps ==
    ASSUME HistoryInv, NEW r \in Readers, WriteGuesses(r) PROVE HistoryInv'
  <1>1. /\ snapshot' = [d \in Dates |-> IF d \in reader[r].days THEN "guessed" ELSE snapshot[d]]
        /\ reader' = [reader EXCEPT ![r] = NoReader]
        /\ date' = date /\ overnight' = overnight /\ cutShort' = cutShort
        /\ reader[r].at = "write"
    BY DEF WriteGuesses, ReaderAt, ReaderEnds
  <1>2. /\ reader \in [Readers -> ReaderStates] /\ NoReader \in ReaderStates
        /\ snapshot \in [Dates -> {"none", "seen", "guessed"}]
        /\ NoReader.at \notin Recorded /\ NoReader.at \notin Guessing /\ NoReader.at # "write"
        /\ NoReader.days = {} /\ reader[r].days \in SUBSET Dates
    BY ReaderFacts DEF HistoryInv, HistoryTypeOK, Recorded, Guessing
  <1>3. /\ reader' \in [Readers -> ReaderStates] /\ reader'[r] = NoReader
        /\ \A q \in Readers \ {r} : reader'[q] = reader[q]
        /\ snapshot' \in [Dates -> {"none", "seen", "guessed"}]
        /\ \A d \in Dates : d \in reader[r].days => snapshot'[d] = "guessed"
        /\ \A d \in Dates : d \notin reader[r].days => snapshot'[d] = snapshot[d]
    BY <1>1, <1>2
  <1>4. /\ reader[r].at \in Guessing /\ reader[r].at \in Recorded
        /\ reader[r].days # {} /\ reader[r].on \notin reader[r].days /\ reader[r].on \in Dates
        /\ snapshot[reader[r].on] = "seen"
        /\ \A d \in reader[r].days : d <= date
    BY <1>1, ReaderFacts DEF HistoryInv, GuessesAreUnseen, GuessersAgree, GuessesHaveAnOrigin,
                             Guessing, Recorded
  <1>5. HistoryTypeOK'
    BY <1>1, <1>2, <1>3, <1>4 DEF HistoryInv, HistoryTypeOK, ReaderStates
  <1>6. RecordsAreRows'
    BY <1>1, <1>2, <1>3, ReaderFacts DEF HistoryInv, RecordsAreRows
  <1>7. GuessersAgree'
    <2>1. \A q \in Readers : reader'[q].at \in Guessing =>
             q # r /\ reader[q].at \in Guessing /\ reader'[q] = reader[q]
      BY <1>2, <1>3
    <2>2. \A q \in Readers : reader[q].at \in Guessing => reader[q].on = reader[r].on
      BY <1>4 DEF HistoryInv, GuessersAgree
    <2>3. snapshot'[reader[r].on] = "seen"
      BY <1>3, <1>4
    <2> QED BY <2>1, <2>2, <2>3 DEF GuessersAgree
  <1>8. GuessesAreUnseen'
    <2>1. \A q \in Readers : reader'[q].at = "write" => q # r /\ reader'[q] = reader[q]
      BY <1>2, <1>3
    <2>2. \A d \in Dates : snapshot'[d] = "seen" => snapshot[d] = "seen"
      BY <1>3
    <2>3. \A q \in Readers : reader[q].days \in SUBSET Dates
      BY ReaderFacts DEF HistoryInv
    <2> QED BY <2>1, <2>2, <2>3 DEF HistoryInv, GuessesAreUnseen
  <1>9. GuessesHaveAnOrigin'
    <2>1. snapshot'[reader[r].on] = "seen"
      BY <1>3, <1>4
    <2>2. \A q \in Readers : \A d \in reader'[q].days : d <= date
      BY <1>2, <1>3 DEF HistoryInv, GuessesHaveAnOrigin
    <2> QED BY <1>1, <1>4, <2>1, <2>2 DEF GuessesHaveAnOrigin
  <1>10. OneDay'
    <2> SUFFICES ASSUME ~overnight
                 PROVE  /\ \A q \in Readers : reader'[q].at \in Recorded => reader'[q].on = date
                        /\ \A d \in Dates : snapshot'[d] = "guessed" => d < date
      BY <1>1 DEF OneDay
    <2>1. /\ \A q \in Readers : reader[q].at \in Recorded => reader[q].on = date
          /\ \A d \in Dates : snapshot[d] = "guessed" => d < date
      BY DEF HistoryInv, OneDay
    <2>2. \A d \in reader[r].days : d < date
      <3>1. reader[r].on = date
        BY <1>4, <2>1
      <3> QED BY <1>2, <1>4, <3>1, ReaderFacts DEF HistoryInv
    <2> QED BY <1>2, <1>3, <2>1, <2>2
  <1>11. ~Missing'
    BY <1>2, <1>3, <1>4 DEF Missing
  <1>12. MissingIsOnItsWay'
    BY <1>11 DEF MissingIsOnItsWay
  <1>13. QED BY <1>5, <1>6, <1>7, <1>8, <1>9, <1>10, <1>12 DEF HistoryInv

\* A midnight nobody saw finds no request that has recorded its day.
LEMMA MidnightKeeps == ASSUME HistoryInv, Midnight PROVE HistoryInv'
  <1>1. /\ date < LastDate /\ date' = date + 1 /\ snapshot' = snapshot /\ reader' = reader
        /\ cutShort' = cutShort
        /\ overnight' = (overnight \/ \E r \in Readers : reader[r].at \notin {"idle", "info", "record"})
    BY DEF Midnight
  <1>2. /\ date \in Nat /\ date \in 0 .. LastDate /\ date < date'
        /\ \A d \in Dates : d \in Int
        /\ \A r \in Readers : reader[r].on \in Dates /\ reader[r].days \subseteq Dates
    BY <1>1, ReaderFacts DEF HistoryInv
  <1>3. \A d \in Dates : d <= date => d <= date' /\ d < date'
    BY <1>1, <1>2
  <1>4. overnight' \in BOOLEAN /\ (overnight => overnight')
    BY <1>1 DEF HistoryInv, HistoryTypeOK
  <1>5. ~overnight' => \A r \in Readers : reader[r].at \notin Recorded
    BY <1>1 DEF Recorded
  <1>6. HistoryTypeOK'
    <2>1. date' \in 0 .. LastDate
      BY <1>1, <1>2, HistoryAssumption
    <2> QED BY <1>1, <1>3, <1>4, <2>1 DEF HistoryInv, HistoryTypeOK
  <1>7. RecordsAreRows' /\ GuessersAgree' /\ GuessesAreUnseen'
    BY <1>1, <1>2, <1>3 DEF HistoryInv, RecordsAreRows, GuessersAgree, GuessesAreUnseen
  <1>8. GuessesHaveAnOrigin'
    BY <1>1, <1>2, <1>3 DEF HistoryInv, GuessesHaveAnOrigin
  <1>9. OneDay'
    <2>1. \A d \in Dates : snapshot[d] # "none" => d < date'
      BY <1>3 DEF HistoryInv, HistoryTypeOK
    <2> QED BY <1>1, <1>5, <2>1 DEF OneDay
  <1>10. MissingIsOnItsWay'
    <2>1. ASSUME Missing' PROVE FALSE
      <3>1. Missing /\ ~overnight'
        BY <1>1, <1>4, <2>1 DEF Missing
      <3> QED BY <1>5, <3>1 DEF HistoryInv, MissingIsOnItsWay
    <2> QED BY <2>1 DEF MissingIsOnItsWay
  <1>11. QED BY <1>6, <1>7, <1>8, <1>9, <1>10 DEF HistoryInv

\* At the beginning there is no row and no request.
LEMMA HistoryBegins == ASSUME HistoryInit PROVE HistoryInv
  <1>1. /\ date = 0 /\ \A d \in Dates : snapshot[d] = "none"
        /\ \A r \in Readers : reader[r] = NoReader
    BY DEF HistoryInit
  <1>2. \A r \in Readers : /\ reader[r].at = "idle" /\ reader[r].days = {}
                           /\ reader[r].at \notin Recorded /\ reader[r].at \notin Guessing
    BY <1>1 DEF NoReader, Recorded, Guessing
  <1>3. HistoryTypeOK
    <2>1. 0 \in 0 .. LastDate /\ NoReader \in ReaderStates
      BY HistoryAssumption DEF NoReader, ReaderStates
    <2>2. reader \in [Readers -> ReaderStates]
      BY <2>1 DEF HistoryInit
    <2>3. snapshot \in [Dates -> {"none", "seen", "guessed"}]
      BY DEF HistoryInit
    <2> QED BY <1>1, <2>1, <2>2, <2>3 DEF HistoryInit, HistoryTypeOK, ReaderStates
  <1>4. RecordsAreRows /\ GuessersAgree /\ GuessesAreUnseen
    BY <1>2 DEF RecordsAreRows, GuessersAgree, GuessesAreUnseen
  <1>5. GuessesHaveAnOrigin /\ OneDay /\ MissingIsOnItsWay
    BY <1>1, <1>2 DEF GuessesHaveAnOrigin, OneDay, MissingIsOnItsWay, Missing
  <1>6. QED BY <1>3, <1>4, <1>5 DEF HistoryInv

\* Only a write of guesses makes a seen day unseen, and only one that came later.
LEMMA SeenStays ==
    ASSUME HistoryInv, [HistoryNext]_historyVars,
           NEW d \in Dates, snapshot[d] = "seen", snapshot'[d] # "seen"
    PROVE  \E r \in Readers : reader[r].at = "write" /\ reader[r].on < d
  <1>1. snapshot \in [Dates -> {"none", "seen", "guessed"}] /\ date \in Dates
    BY ReaderFacts DEF HistoryInv, HistoryTypeOK
  <1>2. CASE UNCHANGED snapshot
    BY <1>2
  <1>3. ASSUME NEW r \in Readers, RecordTotal(r) PROVE FALSE
    BY <1>1, <1>3 DEF RecordTotal
  <1>4. ASSUME NEW r \in Readers, WriteGuesses(r)
        PROVE  \E q \in Readers : reader[q].at = "write" /\ reader[q].on < d
    <2>1. d \in reader[r].days /\ reader[r].at = "write"
      BY <1>4 DEF WriteGuesses, ReaderAt
    <2> QED BY <2>1 DEF HistoryInv, GuessesAreUnseen
  <1>5. UNCHANGED snapshot \/ \E r \in Readers : RecordTotal(r) \/ WriteGuesses(r)
    BY DEF HistoryNext, historyVars, BeginReading, CountRows, LookForSeen, ReadTotal,
           FetchSeries, ReaderDies, Midnight
  <1>6. QED BY <1>2, <1>3, <1>4, <1>5

\* The invariant holds in every reachable state.
LEMMA HistoryInvHolds == HistorySpec => []HistoryInv
  <1>1. ASSUME HistoryInv, [HistoryNext]_historyVars PROVE HistoryInv'
    <2>1. CASE UNCHANGED historyVars
      BY <1>1, <2>1 DEF historyVars, HistoryInv, HistoryTypeOK, RecordsAreRows, GuessersAgree,
             GuessesAreUnseen, GuessesHaveAnOrigin, OneDay, MissingIsOnItsWay, Missing
    <2>2. CASE Midnight
      BY <1>1, <2>2, MidnightKeeps
    <2>3. ASSUME NEW r \in Readers,
                 \/ BeginReading(r) \/ RecordTotal(r) \/ CountRows(r) \/ LookForSeen(r)
                 \/ WriteGuesses(r) \/ ReaderDies(r)
          PROVE  HistoryInv'
      BY <1>1, <2>3, BeginReadingKeeps, RecordTotalKeeps, CountRowsKeeps, LookForSeenKeeps,
         WriteGuessesKeeps, ReaderDiesKeeps
    <2>4. ASSUME NEW r \in Readers, NEW answered \in BOOLEAN, ReadTotal(r, answered)
          PROVE  HistoryInv'
      BY <1>1, <2>4, ReadTotalKeeps
    <2>5. ASSUME NEW r \in Readers, NEW n \in 0 .. FOLLOWER_INSIGHT_MAX_DAYS, FetchSeries(r, n)
          PROVE  HistoryInv'
      BY <1>1, <2>5, FetchSeriesKeeps
    <2> QED BY <1>1, <2>1, <2>2, <2>3, <2>4, <2>5 DEF HistoryNext
  <1>2. QED BY <1>1, HistoryBegins, PTL DEF HistorySpec

\* Whoever finds no other row fills in the days before, or a fault or a midnight
\* explains why not; and no guess takes the place of a day that was seen, except
\* one that began after the request which writes it had recorded its own.
THEOREM HistoryHolds == HistorySpec => HistoryIsSound
  <1>1. ASSUME HistoryInv PROVE HistoryTypeOK /\ MissingHistoryIsExplained
    <2>1. (\A r \in Readers : ReaderAt(r, "idle")) => ~Missing
      BY <1>1 DEF HistoryInv, MissingIsOnItsWay, ReaderAt, Recorded
    <2> QED BY <1>1, <2>1 DEF HistoryInv, MissingHistoryIsExplained, Missing
  <1> DEFINE Stays == \A d \in Dates : snapshot[d] = "seen" /\ snapshot'[d] # "seen" =>
                        \E r \in Readers : reader[r].at = "write" /\ reader[r].on < d
  <1>2. ASSUME HistoryInv, [HistoryNext]_historyVars PROVE [Stays]_historyVars
    BY <1>2, SeenStays
  <1>3. HistorySpec => [](HistoryTypeOK /\ MissingHistoryIsExplained)
    BY <1>1, HistoryInvHolds, PTL
  <1>4. HistorySpec => [][Stays]_historyVars
    BY <1>2, HistoryInvHolds, PTL DEF HistorySpec
  <1>5. QED BY <1>3, <1>4 DEF HistoryIsSound, SeenStaysSeen

-----------------------------------------------------------------------------
(* The refresh: the invariant                                              *)

SweepStates == [at : {"idle", "list", "next", "refresh", "write", "record"},
                todo : SUBSET Listed, item : SUBSET Listed]

\* A request outside its list has none, and has one account in hand at most.
OneInHand(s) ==
    /\ sweep[s].at \in {"idle", "list"} => sweep[s].todo = {}
    /\ \A x, y \in sweep[s].item : x = y

\* An account that was listed had a workspace, which may be gone since.
ListedHaveHomes(s) ==
    \A x \in sweep[s].todo \cup sweep[s].item : WorkspaceOf[x.of] \in homes \/ bereft

\* Whoever is due has been told, or is on the list of a request that has one.
DueAreListed(s) ==
    sweep[s].at \notin {"idle", "list"} =>
        \A a \in Accounts : Due(a) =>
            a \in told \/ \E x \in sweep[s].todo \cup sweep[s].item : x.of = a

ListIsSound(s) == OneInHand(s) /\ ListedHaveHomes(s) /\ DueAreListed(s)

RefreshInv ==
    /\ RefreshTypeOK /\ sweep \in [Sweeps -> SweepStates]
    /\ \A s \in Sweeps : ListIsSound(s)
    /\ OneFailureIsOnesOwn

-----------------------------------------------------------------------------
(* The refresh: the steps                                                  *)

\* The part of the types that is not about the requests.
RowsTypeOK ==
    /\ today \in 0 .. LastDay /\ homes \subseteq Homes /\ rows \in 0 .. MaxRows
    /\ igRow \in [Accounts -> [id : 0 .. MaxRows, expires : 0 .. LastDay + Lifetime]]
    /\ \A a \in Accounts : igRow[a].id # 0 => WorkspaceOf[a] \in homes /\ igRow[a].id <= rows
    /\ \A a, b \in Accounts : igRow[a].id = igRow[b].id /\ a # b => igRow[a].id = 0

\* What is known of the rows.
LEMMA RowFacts ==
    ASSUME RefreshInv
    PROVE  /\ RowsTypeOK
           /\ today \in Nat /\ rows \in Nat /\ Lifetime \in Nat /\ LastDay \in Nat
           /\ MaxRows \in Nat /\ DAYS_BEFORE_EXPIRY \in Nat /\ Lifetime > DAYS_BEFORE_EXPIRY
           /\ \A a \in Accounts : igRow[a].id \in Nat /\ igRow[a].expires \in Nat
           /\ told \subseteq Accounts /\ stopped \in BOOLEAN /\ bereft \in BOOLEAN
  <1>1. Lifetime \in Nat /\ LastDay \in Nat /\ MaxRows \in Nat /\ DAYS_BEFORE_EXPIRY \in Nat
        /\ Lifetime > DAYS_BEFORE_EXPIRY
    BY RefreshAssumption
  <1>2. RowsTypeOK
    BY DEF RefreshInv, RefreshTypeOK, RowsTypeOK
  <1>3. today \in Nat /\ rows \in Nat
    BY <1>1, <1>2 DEF RowsTypeOK
  <1>4. \A a \in Accounts : igRow[a].id \in Nat /\ igRow[a].expires \in Nat
    BY <1>1, <1>2 DEF RowsTypeOK
  <1>5. QED BY <1>1, <1>2, <1>3, <1>4 DEF RefreshInv, RefreshTypeOK

\* What is known of a request that has an account in hand.
LEMMA ItemFacts ==
    ASSUME RefreshInv, NEW s \in Sweeps, sweep[s].at \in {"refresh", "write", "record"}
    PROVE  /\ Item(s) \in Listed /\ sweep[s].item = {Item(s)} /\ Item(s).of \in Accounts
           /\ WorkspaceOf[Item(s).of] \in homes \/ bereft
           /\ sweep[s].todo \in SUBSET Listed
  <1>1. sweep[s].item # {} /\ sweep[s].item \subseteq Listed /\ sweep[s].todo \in SUBSET Listed
    BY DEF RefreshInv, RefreshTypeOK
  <1>2. Item(s) \in sweep[s].item
    BY <1>1 DEF Item
  <1>3. \A x, y \in sweep[s].item : x = y
    BY DEF RefreshInv, ListIsSound, OneInHand
  <1>4. sweep[s].item = {Item(s)}
    BY <1>2, <1>3
  <1>5. WorkspaceOf[Item(s).of] \in homes \/ bereft
    BY <1>2 DEF RefreshInv, ListIsSound, ListedHaveHomes
  <1>6. QED BY <1>1, <1>2, <1>4, <1>5 DEF Listed

\* A list stays sound while nobody becomes due and nothing is forgotten.
LEMMA ListStays ==
    ASSUME NEW s \in Sweeps, ListIsSound(s), sweep'[s] = sweep[s],
           \A a \in Accounts : Due(a)' => Due(a),
           told \subseteq told', homes' = homes \/ bereft', bereft => bereft'
    PROVE  ListIsSound(s)'
  <1>1. OneInHand(s)' /\ ListedHaveHomes(s)'
    BY DEF ListIsSound, OneInHand, ListedHaveHomes
  <1>2. DueAreListed(s)'
    BY DEF ListIsSound, DueAreListed
  <1>3. QED BY <1>1, <1>2 DEF ListIsSound

\* What one request does leaves the others' lists sound.
LEMMA SweepMovesKeeps ==
    ASSUME RefreshInv, NEW s \in Sweeps, NEW y \in SweepStates,
           sweep' = [sweep EXCEPT ![s] = y], RowsTypeOK', homes' = homes,
           \A a \in Accounts : Due(a)' => Due(a),
           told \subseteq told', told' \subseteq Accounts,
           bereft' \in BOOLEAN, stopped' \in BOOLEAN, bereft => bereft', stopped' => bereft',
           (y.item # {}) <=> y.at \in {"refresh", "write", "record"},
           ListIsSound(s)'
    PROVE  RefreshInv'
  <1>1. /\ sweep' \in [Sweeps -> SweepStates] /\ sweep'[s] = y
        /\ \A t \in Sweeps \ {s} : sweep'[t] = sweep[t]
    BY DEF RefreshInv
  <1>2. RefreshTypeOK'
    <2>1. ASSUME NEW t \in Sweeps
          PROVE  /\ sweep'[t].at \in {"idle", "list", "next", "refresh", "write", "record"}
                 /\ sweep'[t].todo \cup sweep'[t].item \subseteq Listed
                 /\ (sweep'[t].item # {}) <=> sweep'[t].at \in {"refresh", "write", "record"}
      <3>1. CASE t = s
        BY <1>1, <3>1 DEF SweepStates
      <3>2. CASE t # s
        BY <1>1, <3>2 DEF RefreshInv, RefreshTypeOK
      <3> QED BY <3>1, <3>2
    <2> QED BY <2>1 DEF RefreshTypeOK, RowsTypeOK
  <1>3. \A t \in Sweeps \ {s} : ListIsSound(t)'
    BY <1>1, ListStays DEF RefreshInv
  <1>4. QED BY <1>1, <1>2, <1>3 DEF RefreshInv, OneFailureIsOnesOwn

\* What is left alone.
LEMMA RowsStay ==
    ASSUME RefreshInv, UNCHANGED <<today, homes, rows, igRow>>
    PROVE  /\ RowsTypeOK' /\ homes' = homes
           /\ \A a \in Accounts : Due(a)' <=> Due(a)
  <1>1. RowsTypeOK
    BY RowFacts
  <1>2. QED BY <1>1 DEF RowsTypeOK, Due

\* A request that ends has no list.
LEMMA SweepEndsKeeps ==
    ASSUME RefreshInv, NEW s \in Sweeps, SweepEnds(s), UNCHANGED <<today, homes, rows, igRow, told>>,
           bereft' \in BOOLEAN, stopped' \in BOOLEAN, bereft => bereft', stopped' => bereft'
    PROVE  RefreshInv'
  <1>1. NoSweep \in SweepStates /\ NoSweep.at = "idle" /\ NoSweep.item = {} /\ NoSweep.todo = {}
    BY DEF NoSweep, SweepStates
  <1>2. sweep' = [sweep EXCEPT ![s] = NoSweep] /\ told' = told
    BY DEF SweepEnds
  <1> HIDE DEF NoSweep
  <1>3. sweep'[s] = NoSweep
    BY <1>2 DEF RefreshInv
  <1>4. ListIsSound(s)'
    BY <1>1, <1>3 DEF ListIsSound, OneInHand, ListedHaveHomes, DueAreListed
  <1>5. told' \subseteq Accounts
    BY <1>2, RowFacts
  <1>6. QED BY <1>1, <1>2, <1>4, <1>5, RowsStay, SweepMovesKeeps

\* A request on its way whose list holds whoever the list and the hand held, but
\* for those told or no longer due, keeps the invariant.
LEMMA SweepGoesOn ==
    ASSUME RefreshInv, NEW s \in Sweeps, NEW y \in SweepStates,
           sweep' = [sweep EXCEPT ![s] = y], RowsTypeOK', homes' = homes,
           \A a \in Accounts : Due(a)' => Due(a),
           told \subseteq told', told' \subseteq Accounts, UNCHANGED <<bereft, stopped>>,
           y.at \in {"next", "refresh", "write", "record"},
           (y.item # {}) <=> y.at \in {"refresh", "write", "record"},
           \A x, z \in y.item : x = z,
           sweep[s].at \notin {"idle", "list"},
           y.todo \cup y.item \subseteq sweep[s].todo \cup sweep[s].item,
           \A x \in (sweep[s].todo \cup sweep[s].item) \ (y.todo \cup y.item) :
              x.of \in told' \/ ~Due(x.of)'
    PROVE  RefreshInv'
  <1>1. sweep'[s] = y
    BY DEF RefreshInv
  <1>2. ListIsSound(s)
    BY DEF RefreshInv
  <1>3. OneInHand(s)'
    BY <1>1 DEF OneInHand
  <1>4. ListedHaveHomes(s)'
    BY <1>1, <1>2 DEF ListIsSound, ListedHaveHomes
  <1>5. DueAreListed(s)'
    <2> SUFFICES ASSUME NEW a \in Accounts, Due(a)'
                 PROVE  a \in told' \/ \E x \in y.todo \cup y.item : x.of = a
      BY <1>1 DEF DueAreListed
    <2>1. a \in told \/ \E x \in sweep[s].todo \cup sweep[s].item : x.of = a
      BY <1>2 DEF ListIsSound, DueAreListed
    <2> QED BY <2>1
  <1>6. ListIsSound(s)'
    BY <1>3, <1>4, <1>5 DEF ListIsSound
  <1>7. bereft' \in BOOLEAN /\ stopped' \in BOOLEAN /\ (bereft => bereft') /\ (stopped' => bereft')
    BY DEF RefreshInv, RefreshTypeOK, OneFailureIsOnesOwn
  <1>8. QED BY <1>6, <1>7, SweepMovesKeeps

\* No list yet.
LEMMA BeginSweepKeeps ==
    ASSUME RefreshInv, NEW s \in Sweeps, BeginSweep(s) PROVE RefreshInv'
  <1> DEFINE y == [at |-> "list", todo |-> {}, item |-> {}]
  <1>1. /\ sweep[s].at = "idle" /\ sweep' = [sweep EXCEPT ![s].at = "list"]
        /\ UNCHANGED <<today, homes, rows, igRow, told, stopped, bereft>>
    BY DEF BeginSweep, Elsewhere
  <1>2. sweep[s] \in SweepStates /\ sweep[s].todo = {} /\ sweep[s].item = {}
    BY <1>1 DEF RefreshInv, RefreshTypeOK, ListIsSound, OneInHand
  <1>3. sweep' = [sweep EXCEPT ![s] = y]
    <2>1. [sweep EXCEPT ![s].at = "list"] = [sweep EXCEPT ![s] = [sweep[s] EXCEPT !.at = "list"]]
      OBVIOUS
    <2>2. [sweep[s] EXCEPT !.at = "list"] = y
      BY <1>2 DEF SweepStates
    <2> QED BY <1>1, <2>1, <2>2
  <1>4. /\ y \in SweepStates /\ y.at = "list" /\ y.todo = {} /\ y.item = {}
    BY DEF SweepStates
  <1> HIDE DEF y
  <1>5. sweep'[s] = y
    BY <1>3 DEF RefreshInv
  <1>6. ListIsSound(s)'
    BY <1>4, <1>5 DEF ListIsSound, OneInHand, ListedHaveHomes, DueAreListed
  <1>7. /\ told' \subseteq Accounts /\ told \subseteq told' /\ bereft' \in BOOLEAN
        /\ stopped' \in BOOLEAN /\ (bereft => bereft') /\ (stopped' => bereft')
    BY <1>1, RowFacts DEF RefreshInv, OneFailureIsOnesOwn
  <1>8. QED BY <1>1, <1>3, <1>4, <1>6, <1>7, RowsStay, SweepMovesKeeps

\* Everybody who is due is listed, and has a workspace.
LEMMA ListKeeps ==
    ASSUME RefreshInv, NEW s \in Sweeps, List(s) PROVE RefreshInv'
  <1> DEFINE row(a) == [of |-> a, id |-> igRow[a].id, expires |-> igRow[a].expires]
             due == {row(a) : a \in {b \in Accounts : Due(b)}}
             y == [at |-> "next", item |-> {}, todo |-> due]
  <1>1. /\ sweep[s].at = "list" /\ sweep' = [sweep EXCEPT ![s] = y]
        /\ UNCHANGED <<today, homes, rows, igRow, told, stopped, bereft>>
    BY DEF List, Elsewhere
  <1>2. ASSUME NEW a \in Accounts, Due(a)
        PROVE  row(a) \in Listed /\ row(a).of = a /\ WorkspaceOf[a] \in homes
    <2>1. /\ igRow[a] \in [id : 0 .. MaxRows, expires : 0 .. LastDay + Lifetime]
          /\ igRow[a].id # 0 /\ WorkspaceOf[a] \in homes
      BY <1>2, RowFacts DEF RowsTypeOK, Due
    <2>2. igRow[a].id \in 1 .. MaxRows /\ igRow[a].expires \in 0 .. LastDay + Lifetime
      BY <2>1, RowFacts
    <2> QED BY <2>1, <2>2 DEF Listed
  <1> HIDE DEF row
  <1>3. due \in SUBSET Listed
    BY <1>2
  <1>4. \A x \in due : WorkspaceOf[x.of] \in homes
    BY <1>2
  <1>5. \A a \in Accounts : Due(a) => \E x \in due : x.of = a
    BY <1>2
  <1> HIDE DEF due
  <1>6. y \in SweepStates /\ y.at = "next" /\ y.todo = due /\ y.item = {}
    BY <1>3 DEF SweepStates
  <1> HIDE DEF y
  <1>7. sweep'[s] = y
    BY <1>1 DEF RefreshInv
  <1>8. RowsTypeOK' /\ homes' = homes /\ \A a \in Accounts : Due(a)' <=> Due(a)
    BY <1>1, RowsStay
  <1>9. OneInHand(s)' /\ ListedHaveHomes(s)' /\ DueAreListed(s)'
    BY <1>4, <1>5, <1>6, <1>7, <1>8 DEF OneInHand, ListedHaveHomes, DueAreListed
  <1>10. ListIsSound(s)'
    BY <1>9 DEF ListIsSound
  <1>11. /\ told' \subseteq Accounts /\ told \subseteq told' /\ bereft' \in BOOLEAN
         /\ stopped' \in BOOLEAN /\ (bereft => bereft') /\ (stopped' => bereft')
    BY <1>1, RowFacts DEF RefreshInv, OneFailureIsOnesOwn
  <1>12. QED BY <1>1, <1>6, <1>8, <1>10, <1>11, SweepMovesKeeps

\* From the list into the hand.
LEMMA NextAccountKeeps ==
    ASSUME RefreshInv, NEW s \in Sweeps, NextAccount(s) PROVE RefreshInv'
  <1>1. /\ sweep[s].at = "next" /\ UNCHANGED <<today, homes, rows, igRow, told, stopped, bereft>>
        /\ sweep[s] \in SweepStates /\ sweep[s].item = {}
    BY DEF NextAccount, Elsewhere, RefreshInv, RefreshTypeOK
  <1>2. /\ told' \subseteq Accounts /\ told \subseteq told' /\ bereft' \in BOOLEAN
        /\ stopped' \in BOOLEAN /\ (bereft => bereft') /\ (stopped' => bereft')
    BY <1>1, RowFacts DEF RefreshInv, OneFailureIsOnesOwn
  <1>3. CASE sweep[s].todo = {}
    <2>1. SweepEnds(s)
      BY <1>3 DEF NextAccount
    <2> QED BY <1>1, <1>2, <2>1, SweepEndsKeeps
  <1>4. CASE sweep[s].todo # {}
    <2>1. PICK x \in sweep[s].todo :
             sweep' = [sweep EXCEPT ![s] =
                           [at |-> "refresh", todo |-> sweep[s].todo \ {x}, item |-> {x}]]
      BY <1>4 DEF NextAccount
    <2> DEFINE y == [at |-> "refresh", todo |-> sweep[s].todo \ {x}, item |-> {x}]
    <2>2. /\ y \in SweepStates /\ y.at = "refresh" /\ y.item = {x}
          /\ y.todo = sweep[s].todo \ {x}
      BY <1>1 DEF SweepStates
    <2>3. sweep' = [sweep EXCEPT ![s] = y]
      BY <2>1
    <2> HIDE DEF y
    <2>4. y.todo \cup y.item = sweep[s].todo \cup sweep[s].item
      BY <1>1, <2>1, <2>2
    <2>5. sweep[s].at \notin {"idle", "list"}
      BY <1>1
    <2> QED BY <1>1, <1>2, <2>2, <2>3, <2>4, <2>5, RowsStay, SweepGoesOn
  <1>5. QED BY <1>3, <1>4

\* The account stays in hand.
LEMMA HandKeeps ==
    ASSUME RefreshInv, NEW s \in Sweeps, sweep[s].at \in {"refresh", "write"},
           NEW at \in {"write", "record"}, sweep' = [sweep EXCEPT ![s].at = at],
           UNCHANGED <<today, homes, rows, igRow, told, stopped, bereft>>
    PROVE  RefreshInv'
  <1> DEFINE y == [at |-> at, todo |-> sweep[s].todo, item |-> sweep[s].item]
  <1>1. /\ sweep[s] \in SweepStates /\ sweep[s].item # {} /\ \A x, z \in sweep[s].item : x = z
    BY DEF RefreshInv, RefreshTypeOK, ListIsSound, OneInHand
  <1>2. sweep' = [sweep EXCEPT ![s] = y]
    <2>1. [sweep EXCEPT ![s].at = at] = [sweep EXCEPT ![s] = [sweep[s] EXCEPT !.at = at]]
      OBVIOUS
    <2>2. [sweep[s] EXCEPT !.at = at] = y
      BY <1>1 DEF SweepStates
    <2> QED BY <2>1, <2>2
  <1>3. /\ y \in SweepStates /\ y.at \in {"write", "record"} /\ y.todo = sweep[s].todo
        /\ y.item = sweep[s].item
    BY <1>1 DEF SweepStates
  <1>4. told' \subseteq Accounts /\ told \subseteq told'
    BY RowFacts
  <1> HIDE DEF y
  <1>5. /\ y.at \in {"next", "refresh", "write", "record"}
        /\ (y.item # {}) <=> y.at \in {"refresh", "write", "record"}
        /\ sweep[s].at \notin {"idle", "list"}
    BY <1>1, <1>3
  <1>6. /\ y.todo \cup y.item = sweep[s].todo \cup sweep[s].item
        /\ \A x, z \in y.item : x = z
    BY <1>1, <1>3
  <1>7. RowsTypeOK' /\ homes' = homes /\ \A a \in Accounts : Due(a)' => Due(a)
    BY RowsStay
  <1>8. QED BY <1>2, <1>3, <1>4, <1>5, <1>6, <1>7, SweepGoesOn

\* The account leaves the hand, because it has been told or is no longer due.
LEMMA HandEmpties ==
    ASSUME RefreshInv, NEW s \in Sweeps, sweep[s].at \in {"refresh", "write", "record"},
           TakesTheNext(s), RowsTypeOK', homes' = homes,
           \A b \in Accounts : Due(b)' => Due(b),
           told \subseteq told', told' \subseteq Accounts, UNCHANGED <<bereft, stopped>>,
           NEW a \in Accounts, a = Item(s).of, a \in told' \/ ~Due(a)'
    PROVE  RefreshInv'
  <1> DEFINE y == [at |-> "next", todo |-> sweep[s].todo, item |-> {}]
  <1>1. sweep' = [sweep EXCEPT ![s] = y]
    BY DEF TakesTheNext
  <1>2. sweep[s].item = {Item(s)} /\ sweep[s].todo \in SUBSET Listed
    BY ItemFacts
  <1>3. y \in SweepStates /\ y.at = "next" /\ y.todo = sweep[s].todo /\ y.item = {}
    BY <1>2 DEF SweepStates
  <1> HIDE DEF y
  <1>4. /\ y.at \in {"next", "refresh", "write", "record"} /\ sweep[s].at \notin {"idle", "list"}
        /\ (y.item # {}) <=> y.at \in {"refresh", "write", "record"}
        /\ \A x, z \in y.item : x = z
        /\ y.todo \cup y.item \subseteq sweep[s].todo \cup sweep[s].item
    BY <1>3
  <1>5. \A x \in (sweep[s].todo \cup sweep[s].item) \ (y.todo \cup y.item) : x.of = a
    BY <1>2, <1>3
  <1>6. \A x \in (sweep[s].todo \cup sweep[s].item) \ (y.todo \cup y.item) :
           x.of \in told' \/ ~Due(x.of)'
    BY <1>5
  <1>7. QED BY <1>1, <1>3, <1>4, <1>6, SweepGoesOn

\* A token that is new is not about to expire.
LEMMA NewToken ==
    ASSUME RefreshInv, NEW a \in Accounts, NEW id \in 0 .. MaxRows,
           igRow' = [igRow EXCEPT ![a] = [id |-> id, expires |-> today + Lifetime]],
           today' = today, homes' = homes, rows' \in 0 .. MaxRows, rows <= rows', id <= rows',
           WorkspaceOf[a] \in homes, \A b \in Accounts \ {a} : igRow[b].id = id => id = 0
    PROVE  RowsTypeOK' /\ ~Due(a)' /\ \A b \in Accounts : Due(b)' => Due(b)
  <1> DEFINE new == [id |-> id, expires |-> today + Lifetime]
  <1>1. /\ RowsTypeOK /\ today \in Nat /\ rows \in Nat /\ rows' \in Nat /\ Lifetime \in Nat
        /\ LastDay \in Nat /\ MaxRows \in Nat /\ DAYS_BEFORE_EXPIRY \in Nat
        /\ Lifetime > DAYS_BEFORE_EXPIRY
        /\ \A b \in Accounts : igRow[b].id \in Nat
    BY RowFacts
  <1>2. today + Lifetime \in 0 .. LastDay + Lifetime
    BY <1>1 DEF RowsTypeOK
  <1>3. /\ new \in [id : 0 .. MaxRows, expires : 0 .. LastDay + Lifetime]
        /\ new.id = id /\ new.expires = today + Lifetime
    BY <1>2
  <1> HIDE DEF new
  <1>4. /\ igRow' \in [Accounts -> [id : 0 .. MaxRows, expires : 0 .. LastDay + Lifetime]]
        /\ igRow'[a] = new /\ \A b \in Accounts \ {a} : igRow'[b] = igRow[b]
    BY <1>1, <1>3 DEF RowsTypeOK, new
  <1>5. \A b \in Accounts : igRow'[b].id # 0 => WorkspaceOf[b] \in homes' /\ igRow'[b].id <= rows'
    <2>1. \A b \in Accounts : igRow[b].id # 0 => WorkspaceOf[b] \in homes /\ igRow[b].id <= rows'
      BY <1>1 DEF RowsTypeOK
    <2> QED BY <1>3, <1>4, <2>1
  <1>6. \A b, c \in Accounts : igRow'[b].id = igRow'[c].id /\ b # c => igRow'[b].id = 0
    <2> SUFFICES ASSUME NEW b \in Accounts, NEW c \in Accounts,
                        igRow'[b].id = igRow'[c].id, b # c
                 PROVE  igRow'[b].id = 0
      OBVIOUS
    <2>1. CASE b = a
      BY <1>3, <1>4, <2>1
    <2>2. CASE c = a
      BY <1>3, <1>4, <2>2
    <2>3. CASE b # a /\ c # a
      BY <1>1, <1>4, <2>3 DEF RowsTypeOK
    <2> QED BY <2>1, <2>2, <2>3
  <1>7. RowsTypeOK'
    BY <1>1, <1>4, <1>5, <1>6 DEF RowsTypeOK
  <1>8. ~Due(a)'
    BY <1>1, <1>3, <1>4 DEF Due
  <1>9. \A b \in Accounts \ {a} : Due(b)' <=> Due(b)
    BY <1>4 DEF Due
  <1>10. QED BY <1>7, <1>8, <1>9

\* One field of a row changes.
LEMMA TokenChanged ==
    ASSUME RefreshInv, NEW a \in Accounts, NEW day
    PROVE  [igRow EXCEPT ![a].expires = day] =
              [igRow EXCEPT ![a] = [id |-> igRow[a].id, expires |-> day]]
  <1>1. igRow[a] \in [id : 0 .. MaxRows, expires : 0 .. LastDay + Lifetime]
    BY RowFacts DEF RowsTypeOK
  <1>2. [igRow EXCEPT ![a].expires = day] = [igRow EXCEPT ![a] = [igRow[a] EXCEPT !.expires = day]]
    OBVIOUS
  <1>3. [igRow[a] EXCEPT !.expires = day] = [id |-> igRow[a].id, expires |-> day]
    BY <1>1
  <1>4. QED BY <1>2, <1>3

\* Another token for a row there is.
LEMMA SameRowNewToken ==
    ASSUME RefreshInv, NEW a \in Accounts, igRow[a].id # 0,
           igRow' = [igRow EXCEPT ![a].expires = today + Lifetime],
           UNCHANGED <<today, homes, rows>>
    PROVE  RowsTypeOK' /\ ~Due(a)' /\ \A b \in Accounts : Due(b)' => Due(b)
  <1>1. /\ RowsTypeOK /\ igRow[a].id \in 0 .. MaxRows /\ igRow[a].id <= rows
        /\ WorkspaceOf[a] \in homes /\ rows' \in 0 .. MaxRows /\ rows <= rows'
        /\ \A b \in Accounts \ {a} : igRow[b].id = igRow[a].id => igRow[a].id = 0
    BY RowFacts DEF RowsTypeOK
  <1>2. igRow' = [igRow EXCEPT ![a] = [id |-> igRow[a].id, expires |-> today + Lifetime]]
    BY TokenChanged
  <1>3. PICK id \in 0 .. MaxRows : id = igRow[a].id
    BY <1>1
  <1>4. /\ igRow' = [igRow EXCEPT ![a] = [id |-> id, expires |-> today + Lifetime]]
        /\ id <= rows' /\ \A b \in Accounts \ {a} : igRow[b].id = id => id = 0
    BY <1>1, <1>2, <1>3
  <1>5. QED BY <1>1, <1>4, NewToken

\* What is written is a new token; what cannot be written is about to be recorded.
LEMMA WriteTokenKeeps ==
    ASSUME RefreshInv, NEW s \in Sweeps, NEW fails \in BOOLEAN, WriteToken(s, fails)
    PROVE  RefreshInv'
  <1>1. /\ sweep[s].at = "write" /\ UNCHANGED <<today, homes, rows, told, stopped, bereft>>
    BY DEF WriteToken, Elsewhere
  <1>2. Item(s) \in Listed /\ Item(s).of \in Accounts /\ Item(s).id # 0
    <2>1. Item(s) \in Listed
      BY <1>1, ItemFacts
    <2>2. \A x \in Listed : x.of \in Accounts /\ x.id # 0
      BY DEF Listed
    <2> QED BY <2>1, <2>2
  <1>3. told' \subseteq Accounts /\ told \subseteq told'
    BY <1>1, RowFacts
  <1>4. CASE igRow[Item(s).of].id = Item(s).id /\ ~fails
    <2>1. /\ igRow' = [igRow EXCEPT ![Item(s).of].expires = today + Lifetime]
          /\ TakesTheNext(s)
      BY <1>4 DEF WriteToken
    <2>2. PICK a \in Accounts : a = Item(s).of
      BY <1>2
    <2>3. igRow[a].id # 0 /\ igRow' = [igRow EXCEPT ![a].expires = today + Lifetime]
      BY <1>2, <1>4, <2>1, <2>2
    <2>4. RowsTypeOK' /\ ~Due(a)' /\ \A b \in Accounts : Due(b)' => Due(b)
      BY <1>1, <2>3, SameRowNewToken
    <2> QED BY <1>1, <1>3, <2>1, <2>2, <2>4, HandEmpties
  <1>5. CASE ~(igRow[Item(s).of].id = Item(s).id /\ ~fails)
    <2>1. sweep' = [sweep EXCEPT ![s].at = "record"] /\ igRow' = igRow
      BY <1>5 DEF WriteToken
    <2> QED BY <1>1, <2>1, HandKeeps
  <1>6. QED BY <1>4, <1>5

\* A record that fails ends the request: the workspace had gone, or the database fails.
LEMMA RecordKeeps ==
    ASSUME RefreshInv, NEW s \in Sweeps, NEW fails \in BOOLEAN, Record(s, fails)
    PROVE  RefreshInv'
  <1>1. sweep[s].at = "record" /\ UNCHANGED <<today, homes, rows, igRow>>
    BY DEF Record, Elsewhere
  <1>2. /\ Item(s).of \in Accounts /\ (WorkspaceOf[Item(s).of] \in homes \/ bereft)
    BY <1>1, ItemFacts
  <1>3. told \subseteq Accounts /\ stopped \in BOOLEAN /\ bereft \in BOOLEAN
    BY RowFacts
  <1>4. RowsTypeOK' /\ homes' = homes /\ \A a \in Accounts : Due(a)' <=> Due(a)
    BY <1>1, RowsStay
  <1>5. CASE WorkspaceOf[Item(s).of] \in homes /\ ~fails
    <2>1. told' = told \cup {Item(s).of} /\ TakesTheNext(s) /\ UNCHANGED <<stopped, bereft>>
      BY <1>5 DEF Record
    <2>2. PICK a \in Accounts : a = Item(s).of
      BY <1>2
    <2>3. told \subseteq told' /\ told' \subseteq Accounts /\ a \in told'
      BY <1>3, <2>1, <2>2
    <2> QED BY <1>1, <1>4, <2>1, <2>2, <2>3, HandEmpties
  <1>6. CASE ~(WorkspaceOf[Item(s).of] \in homes /\ ~fails)
    <2>1. SweepEnds(s) /\ stopped' = TRUE /\ bereft' = (bereft \/ fails) /\ told' = told
      BY <1>6 DEF Record
    <2>2. bereft' \in BOOLEAN /\ bereft' = TRUE
      BY <1>2, <1>3, <1>6, <2>1
    <2> QED BY <1>1, <2>1, <2>2, SweepEndsKeeps
  <1>7. QED BY <1>5, <1>6

\* The rows change and nobody becomes due.
LEMMA RowsMoveKeeps ==
    ASSUME RefreshInv, RowsTypeOK', \A a \in Accounts : Due(a)' => Due(a),
           UNCHANGED <<sweep, told, stopped>>, homes' = homes \/ bereft',
           bereft' \in BOOLEAN, bereft => bereft'
    PROVE  RefreshInv'
  <1>1. RefreshTypeOK'
    BY DEF RefreshInv, RefreshTypeOK, RowsTypeOK
  <1>2. \A s \in Sweeps : ListIsSound(s)'
    BY ListStays DEF RefreshInv
  <1>3. QED BY <1>1, <1>2 DEF RefreshInv, OneFailureIsOnesOwn

\* Whoever connects gets a new token.
LEMMA ConnectKeeps ==
    ASSUME RefreshInv, NEW a \in Accounts, Connect(a) PROVE RefreshInv'
  <1>1. /\ WorkspaceOf[a] \in homes /\ UNCHANGED <<today, homes, sweep, told, stopped, bereft>>
        /\ bereft' \in BOOLEAN
    BY RowFacts DEF Connect
  <1>2. CASE igRow[a].id = 0
    <2>1. /\ rows < MaxRows /\ rows' = rows + 1
          /\ igRow' = [igRow EXCEPT ![a] = [id |-> rows', expires |-> today + Lifetime]]
      BY <1>2 DEF Connect
    <2>2. PICK id : id = rows + 1
      OBVIOUS
    <2>3. id \in 0 .. MaxRows /\ rows' \in 0 .. MaxRows /\ rows <= rows' /\ id <= rows'
      BY <2>1, <2>2, RowFacts
    <2>4. \A b \in Accounts \ {a} : igRow[b].id = id => id = 0
      BY <2>2, RowFacts DEF RowsTypeOK
    <2>5. igRow' = [igRow EXCEPT ![a] = [id |-> id, expires |-> today + Lifetime]]
      BY <2>1, <2>2
    <2>6. RowsTypeOK' /\ \A b \in Accounts : Due(b)' => Due(b)
      BY <1>1, <2>3, <2>4, <2>5, NewToken
    <2> QED BY <1>1, <2>6, RowsMoveKeeps
  <1>3. CASE igRow[a].id # 0
    <2>1. igRow' = [igRow EXCEPT ![a].expires = today + Lifetime] /\ rows' = rows
      BY <1>3 DEF Connect
    <2>2. RowsTypeOK' /\ \A b \in Accounts : Due(b)' => Due(b)
      BY <1>1, <1>3, <2>1, SameRowNewToken
    <2> QED BY <1>1, <2>2, RowsMoveKeeps
  <1>4. QED BY <1>2, <1>3

\* Rows that go are due no more.
LEMMA RowsGo ==
    ASSUME RefreshInv, NEW G, igRow' = [a \in Accounts |-> IF a \in G THEN NoAccount ELSE igRow[a]],
           today' = today, rows' = rows, homes' \subseteq homes,
           \A a \in Accounts \ G : WorkspaceOf[a] \in homes => WorkspaceOf[a] \in homes'
    PROVE  RowsTypeOK' /\ \A a \in Accounts : Due(a)' => Due(a)
  <1>1. RowsTypeOK /\ \A n \in {Lifetime, LastDay, MaxRows} : n \in Nat
    BY RowFacts
  <1>2. NoAccount \in [id : 0 .. MaxRows, expires : 0 .. LastDay + Lifetime] /\ NoAccount.id = 0
    BY <1>1 DEF NoAccount
  <1> HIDE DEF NoAccount
  <1>3. /\ igRow' \in [Accounts -> [id : 0 .. MaxRows, expires : 0 .. LastDay + Lifetime]]
        /\ \A a \in Accounts : a \in G => igRow'[a] = NoAccount
        /\ \A a \in Accounts : a \notin G => igRow'[a] = igRow[a]
    BY <1>1, <1>2 DEF RowsTypeOK
  <1>4. \A a \in Accounts : igRow'[a].id # 0 => a \notin G /\ igRow'[a] = igRow[a]
    BY <1>2, <1>3
  <1>5. RowsTypeOK'
    BY <1>1, <1>3, <1>4 DEF RowsTypeOK
  <1>6. \A a \in Accounts : Due(a)' => Due(a)
    BY <1>4 DEF Due
  <1>7. QED BY <1>5, <1>6

\* One row goes.
LEMMA DisconnectKeeps ==
    ASSUME RefreshInv, NEW a \in Accounts, DisconnectAccount(a) PROVE RefreshInv'
  <1>1. /\ igRow' = [igRow EXCEPT ![a] = NoAccount]
        /\ UNCHANGED <<today, homes, rows, sweep, told, stopped, bereft>>
        /\ bereft' \in BOOLEAN
    BY RowFacts DEF DisconnectAccount
  <1>2. igRow' = [b \in Accounts |-> IF b \in {a} THEN NoAccount ELSE igRow[b]]
    BY <1>1, RowFacts DEF RowsTypeOK
  <1>3. RowsTypeOK' /\ \A b \in Accounts : Due(b)' => Due(b)
    BY <1>1, <1>2, RowsGo
  <1>4. QED BY <1>1, <1>3, RowsMoveKeeps

\* Its rows go with the workspace.
LEMMA DeleteWorkspaceKeeps ==
    ASSUME RefreshInv, NEW w \in Homes, DeleteWorkspace(w) PROVE RefreshInv'
  <1>1. /\ homes' = homes \ {w} /\ bereft' = TRUE /\ UNCHANGED <<today, rows, sweep, told, stopped>>
        /\ igRow' = [a \in Accounts |-> IF WorkspaceOf[a] = w THEN NoAccount ELSE igRow[a]]
    BY DEF DeleteWorkspace
  <1>2. PICK G : G = {a \in Accounts : WorkspaceOf[a] = w}
    OBVIOUS
  <1>3. igRow' = [a \in Accounts |-> IF a \in G THEN NoAccount ELSE igRow[a]]
    BY <1>1, <1>2
  <1>4. RowsTypeOK' /\ \A b \in Accounts : Due(b)' => Due(b)
    BY <1>1, <1>2, <1>3, RowsGo
  <1>5. QED BY <1>1, <1>4, RowsMoveKeeps

\* A day begins without requests, and with nothing told.
LEMMA NextDayKeeps == ASSUME RefreshInv, NextDay PROVE RefreshInv'
  <1>1. /\ today < LastDay /\ \A s \in Sweeps : sweep[s].at = "idle"
        /\ today' = today + 1 /\ told' = {} /\ stopped' = FALSE /\ bereft' = FALSE
        /\ UNCHANGED <<homes, igRow, rows, sweep>>
    BY DEF NextDay
  <1>2. today' \in 0 .. LastDay
    BY <1>1, RowFacts
  <1>3. RefreshTypeOK'
    BY <1>1, <1>2 DEF RefreshInv, RefreshTypeOK
  <1>4. ASSUME NEW s \in Sweeps PROVE ListIsSound(s)'
    <2>1. sweep'[s].at = "idle" /\ sweep'[s].todo = {} /\ sweep'[s].item = {}
      BY <1>1 DEF RefreshInv, RefreshTypeOK, ListIsSound, OneInHand
    <2> QED BY <2>1 DEF ListIsSound, OneInHand, ListedHaveHomes, DueAreListed
  <1>5. QED BY <1>1, <1>3, <1>4 DEF RefreshInv, OneFailureIsOnesOwn

\* At the beginning there is no row and no request.
LEMMA RefreshBegins == ASSUME RefreshInit PROVE RefreshInv
  <1>1. /\ today = 0 /\ homes = Homes /\ rows = 0 /\ told = {} /\ stopped = FALSE /\ bereft = FALSE
        /\ igRow = [a \in Accounts |-> NoAccount] /\ sweep = [s \in Sweeps |-> NoSweep]
    BY DEF RefreshInit
  <1>2. /\ NoAccount \in [id : 0 .. MaxRows, expires : 0 .. LastDay + Lifetime] /\ NoAccount.id = 0
        /\ 0 \in 0 .. LastDay /\ 0 \in 0 .. MaxRows
    BY RefreshAssumption DEF NoAccount
  <1>3. /\ NoSweep \in SweepStates /\ NoSweep.at = "idle" /\ NoSweep.todo = {} /\ NoSweep.item = {}
    BY DEF NoSweep, SweepStates
  <1> HIDE DEF NoSweep, NoAccount
  <1>4. /\ sweep \in [Sweeps -> SweepStates] /\ \A s \in Sweeps : sweep[s] = NoSweep
        /\ igRow \in [Accounts -> [id : 0 .. MaxRows, expires : 0 .. LastDay + Lifetime]]
        /\ \A a \in Accounts : igRow[a].id = 0
    BY <1>1, <1>2, <1>3
  <1>5. RefreshTypeOK
    BY <1>1, <1>2, <1>3, <1>4 DEF RefreshTypeOK
  <1>6. \A s \in Sweeps : ListIsSound(s)
    BY <1>3, <1>4 DEF ListIsSound, OneInHand, ListedHaveHomes, DueAreListed
  <1>7. QED BY <1>1, <1>4, <1>5, <1>6 DEF RefreshInv, OneFailureIsOnesOwn

\* The invariant holds in every reachable state.
LEMMA RefreshInvHolds == RefreshSpec => []RefreshInv
  <1>1. ASSUME RefreshInv, [RefreshNext]_refreshVars PROVE RefreshInv'
    <2>1. CASE UNCHANGED refreshVars
      BY <1>1, <2>1 DEF refreshVars, RefreshInv, RefreshTypeOK, OneFailureIsOnesOwn, ListIsSound,
             OneInHand, ListedHaveHomes, DueAreListed, Due
    <2>2. ASSUME NEW s \in Sweeps, BeginSweep(s) \/ List(s) \/ NextAccount(s) PROVE RefreshInv'
      BY <1>1, <2>2, BeginSweepKeeps, ListKeeps, NextAccountKeeps
    <2>3. ASSUME NEW s \in Sweeps, NEW granted \in BOOLEAN, AskMeta(s, granted) PROVE RefreshInv'
      <3>1. /\ sweep[s].at = "refresh"
            /\ UNCHANGED <<today, homes, rows, igRow, told, stopped, bereft>>
            /\ sweep' = [sweep EXCEPT ![s].at = IF granted THEN "write" ELSE "record"]
        BY <2>3 DEF AskMeta, Elsewhere
      <3>2. PICK at \in {"write", "record"} : at = IF granted THEN "write" ELSE "record"
        OBVIOUS
      <3>3. sweep' = [sweep EXCEPT ![s].at = at]
        BY <3>1, <3>2
      <3> QED BY <1>1, <3>1, <3>3, HandKeeps
    <2>4. ASSUME NEW s \in Sweeps, NEW fails \in BOOLEAN, WriteToken(s, fails) \/ Record(s, fails)
          PROVE  RefreshInv'
      BY <1>1, <2>4, WriteTokenKeeps, RecordKeeps
    <2>5. ASSUME NEW s \in Sweeps, SweepDies(s) PROVE RefreshInv'
      <3>1. SweepEnds(s) /\ UNCHANGED <<today, homes, rows, igRow, told, stopped, bereft>>
        BY <2>5 DEF SweepDies, Elsewhere
      <3>2. bereft' \in BOOLEAN /\ stopped' \in BOOLEAN /\ (bereft => bereft') /\ (stopped' => bereft')
        BY <1>1, <3>1, RowFacts DEF RefreshInv, OneFailureIsOnesOwn
      <3> QED BY <1>1, <3>1, <3>2, SweepEndsKeeps
    <2>6. ASSUME NEW a \in Accounts, Connect(a) \/ DisconnectAccount(a) PROVE RefreshInv'
      BY <1>1, <2>6, ConnectKeeps, DisconnectKeeps
    <2>7. ASSUME NEW w \in Homes, DeleteWorkspace(w) PROVE RefreshInv'
      BY <1>1, <2>7, DeleteWorkspaceKeeps
    <2>8. CASE NextDay
      BY <1>1, <2>8, NextDayKeeps
    <2> QED BY <1>1, <2>1, <2>2, <2>3, <2>4, <2>5, <2>6, <2>7, <2>8 DEF RefreshNext
  <1>2. QED BY <1>1, RefreshBegins, PTL DEF RefreshSpec

\* A request that went through its list leaves nobody about to expire untold, and a
\* record ends a request only after a workspace was deleted or the database failed.
THEOREM RefreshHolds == RefreshSpec => RefreshIsSound
  <1> DEFINE Passed ==
         \A s \in Sweeps : sweep[s].at = "next" /\ sweep[s].todo = {} /\ sweep'[s].at = "idle" =>
             \A a \in Accounts :
                 /\ igRow[a].id # 0 /\ igRow[a].expires <= today + DAYS_BEFORE_EXPIRY
                 => a \in told
  <1>1. ASSUME RefreshInv PROVE RefreshTypeOK /\ OneFailureIsOnesOwn
    BY <1>1 DEF RefreshInv
  <1>2. ASSUME RefreshInv PROVE [Passed]_refreshVars
    <2> SUFFICES ASSUME NEW s \in Sweeps, sweep[s].at = "next", sweep[s].todo = {},
                        NEW a \in Accounts, Due(a)
                 PROVE  a \in told
      BY DEF Due
    <2>1. sweep[s].item = {} /\ DueAreListed(s)
      BY <1>2 DEF RefreshInv, RefreshTypeOK, ListIsSound
    <2> QED BY <2>1 DEF DueAreListed
  <1>3. RefreshSpec => [](RefreshTypeOK /\ OneFailureIsOnesOwn)
    BY <1>1, RefreshInvHolds, PTL
  <1>4. RefreshSpec => [][Passed]_refreshVars
    BY <1>2, RefreshInvHolds, PTL DEF RefreshSpec
  <1>5. QED BY <1>3, <1>4 DEF RefreshIsSound, NobodyIsPassedOver

-----------------------------------------------------------------------------
(* The two caps of an account                                              *)

\* The ticks an interval as long as the hourly window goes back.
RecentHour == 0 .. (RATE_LIMIT_WINDOW - 1)

-----------------------------------------------------------------------------
(* The two caps: the invariant                                             *)

\* A key is there, with both its parts, or it is not; and the tick that drops
\* the hourly key granted nothing.
KeysAreWhole ==
    /\ burst.count = 0 <=> burst.ttl = 0
    /\ hourly.count = 0 <=> hourly.ttl = 0
    /\ hourly.ttl = 0 => recent[0] = 0

\* What the interval holds beside the window that is open is what is left of the
\* window before.
HourAndTheLast == GrantedWithin(DOMAIN recent) <= hourly.count + RATE_LIMIT_MAX

\* A job is requeued by the burst window only when that blocked it.
RequeuesAreBlocks == \A j \in Jobs : burstRequeueAttempt[j] <= burstBlocks[j]

LimitInv ==
    /\ TypeOK /\ KeysAreWhole
    /\ HourlyCountIsExact /\ HourAndTheLast
    /\ RequeuesAreBlocks /\ OnlyTheBurstBudgetDrops

-----------------------------------------------------------------------------
(* The two caps: the sums                                                  *)

\* The two counts, as sums over the interval.
ExactSum ==
    hourly.count = IF hourly.ttl = 0 THEN 0
                   ELSE SumOver(recent, 0 .. (RATE_LIMIT_WINDOW - hourly.ttl))
TotalSum == SumOver(recent, RecentHour) <= hourly.count + RATE_LIMIT_MAX

\* The parts of the interval the counter speaks of.
LEMMA WindowIsRecent ==
    ASSUME TypeOK
    PROVE  /\ DOMAIN recent = RecentHour /\ IsFiniteSet(RecentHour)
           /\ recent \in [RecentHour -> Nat] /\ 0 \in RecentHour
           /\ hourly.ttl \in Nat /\ hourly.ttl <= RATE_LIMIT_WINDOW
           /\ hourly.ttl # 0 => 0 .. (RATE_LIMIT_WINDOW - hourly.ttl) \in SUBSET RecentHour
  <1>1. /\ DOMAIN recent = RecentHour /\ recent \in [RecentHour -> Nat]
        /\ hourly.ttl \in Nat /\ hourly.ttl <= RATE_LIMIT_WINDOW
    BY LimiterAssumption DEF TypeOK, RecentHour
  <1>2. IsFiniteSet(RecentHour) /\ 0 \in RecentHour
    BY LimiterAssumption, FS_Interval DEF RecentHour
  <1>3. ASSUME hourly.ttl # 0
        PROVE  0 .. (RATE_LIMIT_WINDOW - hourly.ttl) \in SUBSET RecentHour
    BY <1>1, <1>3, LimiterAssumption DEF RecentHour
  <1>4. QED BY <1>1, <1>2, <1>3

\* What the properties count is such a sum.
LEMMA GrantedIsSum ==
    ASSUME TypeOK
    PROVE  (HourlyCountIsExact <=> ExactSum) /\ (HourAndTheLast <=> TotalSum)
  <1>1. ASSUME NEW S \in SUBSET RecentHour
        PROVE  GrantedWithin(S) = SumOver(recent, S)
    <2>1. S \cap DOMAIN recent = S
      BY WindowIsRecent
    <2>2. GrantedWithin(S) = SumOver(recent, S \cap DOMAIN recent)
      BY DEF GrantedWithin, SumOver, MapThenSumSet, MapThenFoldSet
    <2> QED BY <2>1, <2>2
  <1>2. GrantedWithin(DOMAIN recent) = SumOver(recent, RecentHour)
    BY <1>1, WindowIsRecent
  <1>3. hourly.ttl # 0 =>
           GrantedWithin(0 .. (RATE_LIMIT_WINDOW - hourly.ttl)) =
           SumOver(recent, 0 .. (RATE_LIMIT_WINDOW - hourly.ttl))
    BY <1>1, WindowIsRecent
  <1>4. HourlyCountIsExact <=> ExactSum
    BY <1>3 DEF HourlyCountIsExact, ExactSum
  <1>5. HourAndTheLast <=> TotalSum
    BY <1>2 DEF HourAndTheLast, TotalSum
  <1>6. QED BY <1>4, <1>5

\* The same after a step.
LEMMA GrantedIsSumNext ==
    ASSUME TypeOK'
    PROVE  /\ HourlyCountIsExact' <=>
              hourly'.count = IF hourly'.ttl = 0 THEN 0
                              ELSE SumOver(recent', 0 .. (RATE_LIMIT_WINDOW - hourly'.ttl))
           /\ HourAndTheLast' <=>
              SumOver(recent', RecentHour) <= hourly'.count + RATE_LIMIT_MAX
  <1>1. (HourlyCountIsExact' <=> ExactSum') /\ (HourAndTheLast' <=> TotalSum')
    BY GrantedIsSum, PTL
  <1>2. ExactSum' <=>
           hourly'.count = IF hourly'.ttl = 0 THEN 0
                           ELSE SumOver(recent', 0 .. (RATE_LIMIT_WINDOW - hourly'.ttl))
    BY DEF ExactSum, SumOver, MapThenSumSet, MapThenFoldSet
  <1>3. TotalSum' <=> SumOver(recent', RecentHour) <= hourly'.count + RATE_LIMIT_MAX
    BY DEF TotalSum, SumOver, MapThenSumSet, MapThenFoldSet, RecentHour
  <1>4. QED BY <1>1, <1>2, <1>3

-----------------------------------------------------------------------------
(* The two caps: types                                                     *)

\* A grant below the cap keeps a key within its cap and its window.
LEMMA IncrementedKey ==
    ASSUME NEW max \in Nat, NEW window \in Nat \ {0},
           NEW key \in [count : 0 .. max, ttl : 0 .. window], key.count < max
    PROVE  Incremented(key, window) \in [count : 0 .. max, ttl : 0 .. window]
  <1>1. /\ key.count \in 0 .. max /\ key.ttl \in 0 .. window
        /\ key.count + 1 \in 0 .. max /\ window \in 0 .. window
    OBVIOUS
  <1>2. QED BY <1>1 DEF Incremented

\* Time passes over a key within its cap and its window.
LEMMA AgedKey ==
    ASSUME NEW max \in Nat, NEW window \in Nat \ {0},
           NEW key \in [count : 0 .. max, ttl : 0 .. window],
           key.count = 0 <=> key.ttl = 0
    PROVE  /\ Aged(key) \in [count : 0 .. max, ttl : 0 .. window]
           /\ Aged(key).count = 0 <=> Aged(key).ttl = 0
           /\ key.ttl = 0 => Aged(key) = key
           /\ key.ttl = 1 => Aged(key) = NoKey
           /\ key.ttl > 1 => Aged(key).count = key.count /\ Aged(key).ttl = key.ttl - 1
  <1>1. /\ key.count \in 0 .. max /\ key.ttl \in 0 .. window
        /\ key = [count |-> key.count, ttl |-> key.ttl]
    OBVIOUS
  <1>2. CASE key.ttl = 0
    <2>1. Aged(key) = key
      BY <1>2 DEF Aged
    <2> QED BY <1>2, <2>1
  <1>3. CASE key.ttl = 1
    <2>1. Aged(key) = NoKey
      BY <1>3 DEF Aged
    <2>2. NoKey \in [count : 0 .. max, ttl : 0 .. window] /\ NoKey.count = 0 /\ NoKey.ttl = 0
      BY DEF NoKey
    <2> QED BY <1>3, <2>1, <2>2
  <1>4. CASE key.ttl > 1
    <2>1. Aged(key) = [key EXCEPT !.ttl = key.ttl - 1] /\ key.ttl - 1 \in 0 .. window
      BY <1>1, <1>4 DEF Aged
    <2>2. Aged(key) = [count |-> key.count, ttl |-> key.ttl - 1]
      BY <1>1, <2>1
    <2>3. Aged(key).count = key.count /\ Aged(key).ttl = key.ttl - 1
      BY <2>2
    <2>4. Aged(key) \in [count : 0 .. max, ttl : 0 .. window]
      BY <1>1, <2>1, <2>2
    <2> QED BY <1>1, <1>4, <2>3, <2>4
  <1>5. QED BY <1>1, <1>2, <1>3, <1>4

-----------------------------------------------------------------------------
(* The two caps: the steps                                                 *)

\* Nothing but the jobs' own state and the burst key changes.
LEMMA HourUntouched ==
    ASSUME LimitInv, TypeOK', UNCHANGED <<hourly, recent>>
    PROVE  HourlyCountIsExact' /\ HourAndTheLast'
  <1>1. ExactSum /\ TotalSum
    BY GrantedIsSum DEF LimitInv
  <1>2. QED BY <1>1, GrantedIsSumNext DEF ExactSum, TotalSum

\* Two absent keys and an empty interval.
LEMMA InitHolds ==
    ASSUME Init PROVE LimitInv
  <1>1. TypeOK
    BY LimiterAssumption DEF Init, TypeOK, NoKey
  <1>2. KeysAreWhole /\ RequeuesAreBlocks /\ OnlyTheBurstBudgetDrops
    BY LimiterAssumption DEF Init, NoKey, KeysAreWhole, RequeuesAreBlocks, OnlyTheBurstBudgetDrops
  <1>3. SumOver(recent, RecentHour) = 0
    <2>1. \A i \in RecentHour : recent[i] = 0
      BY DEF Init, RecentHour
    <2> QED BY <1>1, <2>1, WindowIsRecent, SumOfZeros
  <1>4. hourly.count = 0 /\ hourly.ttl = 0
    BY DEF Init, NoKey
  <1>5. ExactSum /\ TotalSum
    BY <1>3, <1>4, LimiterAssumption DEF ExactSum, TotalSum
  <1>6. QED BY <1>1, <1>2, <1>5, GrantedIsSum DEF LimitInv

\* The burst key grants.
LEMMA PassBurstKeeps ==
    ASSUME LimitInv, NEW j \in Jobs, PassBurst(j) PROVE LimitInv'
  <1>1. burst' \in [count : 0 .. BURST_LIMIT_MAX, ttl : 0 .. BURST_LIMIT_WINDOW]
    BY IncrementedKey, LimiterAssumption DEF PassBurst, LimitInv, TypeOK
  <1>2. burst'.count # 0 /\ burst'.ttl # 0
    BY LimiterAssumption DEF PassBurst, LimitInv, TypeOK, KeysAreWhole, Incremented
  <1>3. TypeOK'
    BY <1>1 DEF PassBurst, LimitInv, TypeOK
  <1>4. KeysAreWhole'
    BY <1>2 DEF PassBurst, LimitInv, KeysAreWhole
  <1>5. RequeuesAreBlocks' /\ OnlyTheBurstBudgetDrops'
    BY DEF PassBurst, LimitInv, TypeOK, RequeuesAreBlocks, OnlyTheBurstBudgetDrops
  <1>6. HourlyCountIsExact' /\ HourAndTheLast'
    BY <1>3, HourUntouched DEF PassBurst
  <1>7. QED BY <1>3, <1>4, <1>5, <1>6 DEF LimitInv

\* The burst key blocks: one block more, one requeue more.
LEMMA RequeueOnBurstKeeps ==
    ASSUME LimitInv, NEW j \in Jobs, RequeueOnBurst(j) PROVE LimitInv'
  <1>1. /\ burstRequeueAttempt[j] + 1 \in 0 .. MAX_BURST_REQUEUE_ATTEMPTS
        /\ burstBlocks[j] + 1 \in Nat
    BY LimiterAssumption DEF RequeueOnBurst, LimitInv, TypeOK
  <1>2. TypeOK'
    BY <1>1, LimiterAssumption DEF RequeueOnBurst, Requeue, LimitInv, TypeOK
  <1>3. KeysAreWhole'
    BY DEF RequeueOnBurst, LimitInv, KeysAreWhole
  <1>4. RequeuesAreBlocks' /\ OnlyTheBurstBudgetDrops'
    BY <1>1, LimiterAssumption
    DEF RequeueOnBurst, Requeue, LimitInv, TypeOK, RequeuesAreBlocks, OnlyTheBurstBudgetDrops
  <1>5. HourlyCountIsExact' /\ HourAndTheLast'
    BY <1>2, HourUntouched DEF RequeueOnBurst
  <1>6. QED BY <1>2, <1>3, <1>4, <1>5 DEF LimitInv

\* A job is dropped: its burst budget of requeues were blocks, and this is one more.
LEMMA SkipOnBurstKeeps ==
    ASSUME LimitInv, NEW j \in Jobs, SkipOnBurst(j) PROVE LimitInv'
  <1>1. burstBlocks[j] + 1 \in Nat
    BY DEF LimitInv, TypeOK
  <1>2. TypeOK'
    BY <1>1 DEF SkipOnBurst, LimitInv, TypeOK, Settled
  <1>3. KeysAreWhole'
    BY DEF SkipOnBurst, LimitInv, KeysAreWhole
  <1>4. RequeuesAreBlocks' /\ OnlyTheBurstBudgetDrops'
    <2>1. burstBlocks[j] >= MAX_BURST_REQUEUE_ATTEMPTS
      BY LimiterAssumption DEF SkipOnBurst, LimitInv, TypeOK, RequeuesAreBlocks
    <2> QED BY <1>1, <2>1, LimiterAssumption
            DEF SkipOnBurst, LimitInv, TypeOK, RequeuesAreBlocks, OnlyTheBurstBudgetDrops
  <1>5. HourlyCountIsExact' /\ HourAndTheLast'
    BY <1>2, HourUntouched DEF SkipOnBurst
  <1>6. QED BY <1>2, <1>3, <1>4, <1>5 DEF LimitInv

\* The grant counts once in the key and once in the interval, at its near end.
LEMMA PassHourlyKeeps ==
    ASSUME LimitInv, NEW j \in Jobs, PassHourly(j) PROVE LimitInv'
  <1>1. hourly' \in [count : 0 .. RATE_LIMIT_MAX, ttl : 0 .. RATE_LIMIT_WINDOW]
    BY IncrementedKey, LimiterAssumption DEF PassHourly, LimitInv, TypeOK
  <1>2. hourly'.count = hourly.count + 1 /\ hourly'.count # 0 /\ hourly'.ttl # 0
    BY LimiterAssumption DEF PassHourly, LimitInv, TypeOK, KeysAreWhole, Incremented
  <1>3. recent' = [recent EXCEPT ![0] = @ + 1] /\ recent' \in [RecentHour -> Nat]
    BY WindowIsRecent DEF PassHourly, LimitInv
  <1>4. TypeOK'
    BY <1>1, <1>3 DEF PassHourly, LimitInv, TypeOK, Settled, RecentHour
  <1>5. KeysAreWhole'
    BY <1>2 DEF PassHourly, LimitInv, KeysAreWhole
  <1>6. RequeuesAreBlocks' /\ OnlyTheBurstBudgetDrops'
    BY DEF PassHourly, LimitInv, TypeOK, RequeuesAreBlocks, OnlyTheBurstBudgetDrops
  <1>7. ExactSum /\ TotalSum
    BY GrantedIsSum DEF LimitInv
  <1>8. HourAndTheLast'
    <2>1. SumOver(recent', RecentHour) = SumOver(recent, RecentHour) + 1
      BY <1>3, WindowIsRecent, SumGrows DEF LimitInv
    <2>2. SumOver(recent, RecentHour) \in Nat
      BY WindowIsRecent, SumIsNat DEF LimitInv
    <2>3. hourly.count \in Nat
      BY DEF LimitInv, TypeOK
    <2> QED BY <1>2, <1>4, <1>7, <2>1, <2>2, <2>3, GrantedIsSumNext, LimiterAssumption DEF TotalSum
  <1>9. HourlyCountIsExact'
    <2>1. CASE hourly.ttl = 0
      <3>1. hourly'.ttl = RATE_LIMIT_WINDOW /\ hourly'.count = 1 /\ recent'[0] = 1
        <4>1. hourly.count = 0 /\ recent[0] = 0
          BY <2>1 DEF LimitInv, KeysAreWhole
        <4> QED BY <1>3, <4>1, WindowIsRecent DEF PassHourly, Incremented, LimitInv
      <3>2. 0 .. (RATE_LIMIT_WINDOW - hourly'.ttl) = {} \cup {0}
        BY <3>1, LimiterAssumption
      <3>3. SumOver(recent', {} \cup {0}) = SumOver(recent', {}) + recent'[0]
        <4>1. \A g \in [RecentHour -> Nat], T \in SUBSET RecentHour : \A x \in RecentHour \ T :
                 SumOver(g, T \cup {x}) = SumOver(g, T) + g[x]
          BY WindowIsRecent, SumOfOneMore DEF LimitInv
        <4>2. {} \in SUBSET RecentHour /\ 0 \in RecentHour \ {}
          BY WindowIsRecent DEF LimitInv
        <4> QED BY <1>3, <4>1, <4>2, Zenon
      <3>4. SumOver(recent', {}) = 0
        BY FS_EmptySet, SumOfZeros
      <3> QED BY <1>4, <3>1, <3>2, <3>3, <3>4, GrantedIsSumNext, LimiterAssumption
    <2>2. CASE hourly.ttl # 0
      <3> DEFINE S == 0 .. (RATE_LIMIT_WINDOW - hourly.ttl)
                 f == [i \in S |-> recent[i]]
      <3>1. S \in SUBSET RecentHour /\ 0 \in S
        BY <2>2, WindowIsRecent, LimiterAssumption DEF LimitInv
      <3>2. IsFiniteSet(S) /\ f \in [S -> Nat]
        BY <3>1, WindowIsRecent, FS_Subset DEF LimitInv
      <3>3. SumOver([f EXCEPT ![0] = @ + 1], S) = SumOver(f, S) + 1
        <4> HIDE DEF f, S
        <4> QED BY <3>1, <3>2, SumGrows
      <3>4. SumOver(f, S) = SumOver(recent, S)
        <4>1. \A i \in S : f[i] = recent[i]
          OBVIOUS
        <4> HIDE DEF f, S
        <4> QED BY <3>2, <4>1, SumAgrees
      <3>5. SumOver([f EXCEPT ![0] = @ + 1], S) = SumOver(recent', S)
        <4>1. \A i \in S : [f EXCEPT ![0] = @ + 1][i] = recent'[i]
          BY <1>3, <3>1, WindowIsRecent DEF LimitInv
        <4> HIDE DEF f, S
        <4> QED BY <3>2, <4>1, SumAgrees
      <3>6. hourly'.ttl = hourly.ttl /\ hourly.count = SumOver(recent, S)
        <4>1. hourly.count # 0
          BY <2>2 DEF LimitInv, KeysAreWhole
        <4> QED BY <1>7, <2>2, <4>1 DEF ExactSum, PassHourly, Incremented
      <3> QED BY <1>2, <1>4, <2>2, <3>3, <3>4, <3>5, <3>6, GrantedIsSumNext
    <2> QED BY <2>1, <2>2
  <1>10. QED BY <1>4, <1>5, <1>6, <1>8, <1>9 DEF LimitInv

\* The hourly key blocks, which changes neither key.
LEMMA RequeueOnHourlyKeeps ==
    ASSUME LimitInv, NEW j \in Jobs, RequeueOnHourly(j) PROVE LimitInv'
  <1>1. TypeOK'
    BY LimiterAssumption DEF RequeueOnHourly, Requeue, LimitInv, TypeOK
  <1>2. KeysAreWhole' /\ RequeuesAreBlocks' /\ OnlyTheBurstBudgetDrops'
    BY DEF RequeueOnHourly, Requeue, LimitInv, TypeOK, KeysAreWhole, RequeuesAreBlocks,
           OnlyTheBurstBudgetDrops
  <1>3. HourlyCountIsExact' /\ HourAndTheLast'
    BY <1>1, HourUntouched DEF RequeueOnHourly
  <1>4. QED BY <1>1, <1>2, <1>3 DEF LimitInv

\* Between the scripts a crash loses nothing but the burst slot.
LEMMA CrashKeeps ==
    ASSUME LimitInv, NEW j \in Jobs, CrashBetweenScripts(j) PROVE LimitInv'
  <1>1. TypeOK'
    BY LimiterAssumption DEF CrashBetweenScripts, LimitInv, TypeOK
  <1>2. KeysAreWhole' /\ RequeuesAreBlocks' /\ OnlyTheBurstBudgetDrops'
    BY DEF CrashBetweenScripts, LimitInv, TypeOK, KeysAreWhole, RequeuesAreBlocks,
           OnlyTheBurstBudgetDrops
  <1>3. HourlyCountIsExact' /\ HourAndTheLast'
    BY <1>1, HourUntouched DEF CrashBetweenScripts
  <1>4. QED BY <1>1, <1>2, <1>3 DEF LimitInv

\* A tick moves the interval up by one: what leaves it belongs to no open window,
\* or the window closes, and what is left of it is the window before the next.
LEMMA TickKeeps ==
    ASSUME LimitInv, Tick PROVE LimitInv'
  <1> DEFINE m == RATE_LIMIT_WINDOW - 1
  <1>1. m \in Nat /\ RecentHour = 0 .. m
    BY LimiterAssumption DEF RecentHour
  <1>2. /\ burst' = Aged(burst) /\ hourly' = Aged(hourly)
        /\ recent' = [i \in RecentHour |-> IF i = 0 THEN 0 ELSE recent[i - 1]]
    BY WindowIsRecent DEF Tick, LimitInv
  <1>3. recent \in [0 .. m -> Nat] /\ recent' \in [0 .. m -> Nat]
    <2>1. \A i \in 0 .. m : i # 0 => i - 1 \in 0 .. m
      BY <1>1
    <2> QED BY <1>1, <1>2, <2>1, WindowIsRecent DEF LimitInv
  <1>4. recent'[0] = 0 /\ \A i \in 1 .. m : recent'[i] = recent[i - 1]
    BY <1>1, <1>2
  <1>5. /\ burst' \in [count : 0 .. BURST_LIMIT_MAX, ttl : 0 .. BURST_LIMIT_WINDOW]
        /\ hourly' \in [count : 0 .. RATE_LIMIT_MAX, ttl : 0 .. RATE_LIMIT_WINDOW]
        /\ burst'.count = 0 <=> burst'.ttl = 0
        /\ hourly'.count = 0 <=> hourly'.ttl = 0
    <2>1. /\ burst \in [count : 0 .. BURST_LIMIT_MAX, ttl : 0 .. BURST_LIMIT_WINDOW]
          /\ hourly \in [count : 0 .. RATE_LIMIT_MAX, ttl : 0 .. RATE_LIMIT_WINDOW]
          /\ burst.count = 0 <=> burst.ttl = 0
          /\ hourly.count = 0 <=> hourly.ttl = 0
      BY DEF LimitInv, TypeOK, KeysAreWhole
    <2>2. /\ BURST_LIMIT_MAX \in Nat /\ BURST_LIMIT_WINDOW \in Nat \ {0}
          /\ RATE_LIMIT_MAX \in Nat /\ RATE_LIMIT_WINDOW \in Nat \ {0}
      BY LimiterAssumption
    <2>3. /\ burst' \in [count : 0 .. BURST_LIMIT_MAX, ttl : 0 .. BURST_LIMIT_WINDOW]
          /\ burst'.count = 0 <=> burst'.ttl = 0
      BY <1>2, <2>1, <2>2, AgedKey
    <2>4. /\ hourly' \in [count : 0 .. RATE_LIMIT_MAX, ttl : 0 .. RATE_LIMIT_WINDOW]
          /\ hourly'.count = 0 <=> hourly'.ttl = 0
      BY <1>2, <2>1, <2>2, AgedKey
    <2> QED BY <2>3, <2>4
  <1>6. /\ hourly.ttl = 0 => hourly' = hourly
        /\ hourly.ttl = 1 => hourly' = NoKey
        /\ hourly.ttl > 1 => hourly'.count = hourly.count /\ hourly'.ttl = hourly.ttl - 1
    BY <1>2, AgedKey, LimiterAssumption DEF LimitInv, TypeOK, KeysAreWhole
  <1>7. TypeOK'
    <2>1. delay' \in [Jobs -> Nat]
      BY DEF Tick, LimitInv, TypeOK
    <2>2. recent' \in [0 .. (RATE_LIMIT_WINDOW - 1) -> Nat]
      BY <1>3
    <2> HIDE DEF m
    <2> QED BY <1>5, <2>1, <2>2 DEF Tick, LimitInv, TypeOK
  <1>8. KeysAreWhole'
    BY <1>4, <1>5 DEF KeysAreWhole
  <1>9. RequeuesAreBlocks' /\ OnlyTheBurstBudgetDrops'
    BY DEF Tick, LimitInv, RequeuesAreBlocks, OnlyTheBurstBudgetDrops
  <1>10. \A k \in 0 .. m : SumOver(recent', 0 .. k) = SumOver(recent, 0 .. (k - 1))
    <2> HIDE DEF m
    <2> QED BY <1>1, <1>3, <1>4, SumMovesUp
  <1>11. ExactSum /\ TotalSum
    BY GrantedIsSum DEF LimitInv
  <1>12. /\ SumOver(recent, RecentHour) \in Nat /\ SumOver(recent', RecentHour) \in Nat
         /\ SumOver(recent', RecentHour) <= SumOver(recent, RecentHour)
    <2>1. 0 .. (m - 1) \in SUBSET (0 .. m) /\ m \in 0 .. m /\ IsFiniteSet(0 .. m)
      BY <1>1, FS_Interval
    <2>2. SumOver(recent', 0 .. m) = SumOver(recent, 0 .. (m - 1))
      BY <1>10, <2>1
    <2> HIDE DEF m
    <2>3. /\ SumOver(recent, 0 .. (m - 1)) \in Nat /\ SumOver(recent, 0 .. m) \in Nat
          /\ SumOver(recent, 0 .. (m - 1)) <= SumOver(recent, 0 .. m)
      BY <1>3, <2>1, SumOfPart
    <2> QED BY <1>1, <2>2, <2>3
  <1>13. HourAndTheLast'
    <2>1. hourly.count \in Nat /\ hourly'.count \in Nat /\ hourly.ttl \in Nat
      BY <1>5 DEF LimitInv, TypeOK
    <2>2. CASE hourly.ttl = 1
      <3>1. 0 .. (RATE_LIMIT_WINDOW - hourly.ttl) = RecentHour
        BY <2>2 DEF RecentHour
      <3>2. hourly.count = SumOver(recent, RecentHour)
        BY <1>11, <2>2, <3>1 DEF ExactSum
      <3>3. hourly.count <= RATE_LIMIT_MAX
        BY LimiterAssumption DEF LimitInv, TypeOK
      <3> QED BY <1>7, <1>12, <2>1, <3>2, <3>3, GrantedIsSumNext, LimiterAssumption
    <2>3. CASE hourly.ttl # 1
      <3>1. hourly'.count = hourly.count
        BY <1>6, <2>1, <2>3
      <3> QED BY <1>7, <1>11, <1>12, <2>1, <3>1, GrantedIsSumNext, LimiterAssumption DEF TotalSum
    <2> QED BY <2>2, <2>3
  <1>14. HourlyCountIsExact'
    <2>1. hourly.ttl \in Nat /\ hourly.ttl <= RATE_LIMIT_WINDOW
      BY WindowIsRecent DEF LimitInv
    <2>2. CASE hourly.ttl \in {0, 1}
      <3>1. hourly'.ttl = 0 /\ hourly'.count = 0
        BY <1>6, <2>2 DEF LimitInv, KeysAreWhole, NoKey
      <3> QED BY <1>7, <3>1, GrantedIsSumNext
    <2>3. CASE hourly.ttl > 1
      <3> DEFINE k == RATE_LIMIT_WINDOW - hourly'.ttl
      <3>1. /\ hourly'.ttl = hourly.ttl - 1 /\ hourly'.ttl # 0
            /\ hourly'.count = hourly.count /\ hourly.ttl # 0
        BY <1>6, <2>1, <2>3
      <3>2. k \in 0 .. m /\ k - 1 = RATE_LIMIT_WINDOW - hourly.ttl
        BY <2>1, <2>3, <3>1, LimiterAssumption
      <3>3. SumOver(recent', 0 .. k) = SumOver(recent, 0 .. (k - 1))
        <4> HIDE DEF k, m
        <4> QED BY <1>10, <3>2
      <3>4. hourly.count = SumOver(recent, 0 .. (RATE_LIMIT_WINDOW - hourly.ttl))
        BY <1>11, <3>1 DEF ExactSum
      <3> QED BY <1>7, <3>1, <3>2, <3>3, <3>4, GrantedIsSumNext
    <2> QED BY <2>1, <2>2, <2>3
  <1>15. QED BY <1>7, <1>8, <1>9, <1>13, <1>14 DEF LimitInv

-----------------------------------------------------------------------------
(* The two caps: the theorems                                              *)

\* The invariant holds in every reachable state.
LEMMA LimitInvHolds == Spec => []LimitInv
  <1>1. ASSUME LimitInv, [Next]_vars PROVE LimitInv'
    <2>1. CASE UNCHANGED vars
      <3>1. TypeOK' /\ KeysAreWhole' /\ RequeuesAreBlocks' /\ OnlyTheBurstBudgetDrops'
        BY <1>1, <2>1 DEF vars, jobVars, LimitInv, TypeOK, KeysAreWhole, RequeuesAreBlocks,
                          OnlyTheBurstBudgetDrops
      <3>2. HourlyCountIsExact' /\ HourAndTheLast'
        BY <1>1, <2>1, <3>1, HourUntouched DEF vars
      <3> QED BY <3>1, <3>2 DEF LimitInv
    <2>2. CASE Tick
      BY <1>1, <2>2, TickKeeps
    <2>3. ASSUME NEW j \in Jobs, ReserveDMSlot(j) \/ CrashBetweenScripts(j) PROVE LimitInv'
      BY <1>1, <2>3, PassBurstKeeps, RequeueOnBurstKeeps, SkipOnBurstKeeps, PassHourlyKeeps,
         RequeueOnHourlyKeeps, CrashKeeps DEF ReserveDMSlot
    <2> QED BY <1>1, <2>1, <2>2, <2>3 DEF Next
  <1>2. QED BY <1>1, InitHolds, PTL DEF Spec

\* Every send of an account passes two caps: the hourly key counts exactly the
\* sends of its window, no interval as long as the window holds more than two
\* caps of them, and only a job whose burst budget is spent is dropped.
THEOREM LimitsHold == Spec => []LimitsAreKept
  <1>1. ASSUME LimitInv PROVE LimitsAreKept
    <2>1. AtMostTwiceTheCap
      <3>1. hourly.count \in Nat /\ hourly.count <= RATE_LIMIT_MAX
        BY <1>1, LimiterAssumption DEF LimitInv, TypeOK
      <3>2. SumOver(recent, RecentHour) \in Nat
        BY <1>1, WindowIsRecent, SumIsNat DEF LimitInv
      <3>3. SumOver(recent, RecentHour) <= 2 * RATE_LIMIT_MAX
        BY <1>1, <3>1, <3>2, GrantedIsSum, LimiterAssumption DEF LimitInv, TotalSum
      <3>4. GrantedWithin(DOMAIN recent) = SumOver(recent, RecentHour)
        <4>1. DOMAIN recent = RecentHour /\ RecentHour \cap RecentHour = RecentHour
          BY <1>1, WindowIsRecent DEF LimitInv
        <4> QED BY <4>1 DEF GrantedWithin, SumOver, MapThenSumSet, MapThenFoldSet
      <3> QED BY <3>3, <3>4 DEF AtMostTwiceTheCap
    <2> QED BY <1>1, <2>1 DEF LimitInv, LimitsAreKept
  <1>2. QED BY <1>1, LimitInvHolds, PTL

-----------------------------------------------------------------------------
(* Telegram: the invariant                                                 *)

RequestStates == [at : {"idle", "claim", "match", "reserve", "skip", "log", "send", "record", "undo",
                        "failed"},
                  update : Updates \cup {"none"}, automation : 0 .. MaxAutomations, sent : BOOLEAN]
AutomationStates == [exists : BOOLEAN, active : BOOLEAN, words : SUBSET Words]
LogStates == {"none", "gone", "PENDING", "SENT", "FAILED", "SKIPPED_PLAN_LIMIT"}

\* Of a request: it is past the claim, holds a reservation, owes its update a reply
\* that is out.
Past(x)  == x.at \notin {"idle", "claim"}
Holds(x) == x.at \in {"log", "send", "undo"} /\ ~x.sent
Owes(x)  == x.at \in {"record", "undo"} /\ x.sent
Handles(r, u) == Update(r) = u /\ Past(request[r])
Holders       == {r \in Requests : request[r].at \in {"log", "send", "undo"} /\ ~request[r].sent}
Owed(u)       == {r \in Requests : Update(r) = u /\ Owes(request[r])}

\* A request knows its update, and whether the reply is out.
Knows(x) ==
    /\ x.at # "idle" => x.update \in Updates
    /\ x.at \in {"claim", "match", "reserve", "skip", "log", "send"} => ~x.sent
    /\ x.at = "record" => x.sent

\* An automation has words, and belongs to a bot that is connected.
AutomationsFit ==
    /\ automation \in [Automations -> AutomationStates]
    /\ \A a \in Automations : automation[a].exists => connected /\ automation[a].words # {}

RequestsKnow == \A r \in Requests : Knows(request[r])

\* An update that Redis has seen is in one hand; what became of it follows from
\* where that hand is.
OneHand ==
    \A u \in Updates \ blind :
        /\ \A q, r \in Requests : Handles(q, u) /\ Handles(r, u) => q = r
        /\ u \notin claimed => replies[u] = 0 /\ refunded[u] = 0 /\ log[u] = "none"
        /\ \A r \in Requests : Handles(r, u) =>
              /\ u \in claimed
              /\ log[u] \in {"none", "gone", "PENDING"}
              /\ replies[u] = IF request[r].sent THEN 1 ELSE 0
              /\ refunded[u] = IF request[r].at = "failed" THEN replies[u] ELSE 0

\* What became of an update that nobody handles any more.
HasEnded(u) ==
    \/ replies[u] > 0
    \/ u \in silent \cup interrupted
    \/ log[u] \in {"FAILED", "SKIPPED_PLAN_LIMIT", "gone"}

\* What was claimed or acknowledged is in some hand, or has come to its end.
EndsAreKnown ==
    \A u \in claimed \cup acked : HasEnded(u) \/ \E r \in Requests : Handles(r, u)

\* No more replies are taken for failed than were sent.
RefundsWereSent == \A u \in Updates : refunded[u] + Cardinality(Owed(u)) <= replies[u]

TgInv ==
    /\ TgTypeOK /\ AutomationsFit /\ RequestsKnow
    /\ OneHand /\ EndsAreKnown /\ RefundsWereSent
    /\ RepliesAreSentOnce /\ RepliesAreCounted /\ TheLogTellsTheTruth

-----------------------------------------------------------------------------
(* Telegram: sets and sums                                                 *)

\* The types, for the provers.
LEMMA TgTypes ==
    ASSUME TgInv
    PROVE  /\ request \in [Requests -> RequestStates] /\ log \in [Updates -> LogStates]
           /\ replies \in [Updates -> Nat] /\ refunded \in [Updates -> Nat]
           /\ used \in Nat /\ used <= ReplyLimit /\ ReplyLimit \in Nat /\ leaked \in Nat
           /\ IsFiniteSet(Requests) /\ IsFiniteSet(Updates)
           /\ \A r \in Requests : Knows(request[r])
  BY TelegramAssumption DEF TgInv, TgTypeOK, RequestStates, LogStates, RequestsKnow

\* What holds and what is owed when one request moves.
LEMMA RequestMoves ==
    ASSUME TgInv, NEW r \in Requests, NEW x \in RequestStates, request' = [request EXCEPT ![r] = x]
    PROVE  /\ request' \in [Requests -> RequestStates] /\ request'[r] = x
           /\ \A q \in Requests \ {r} : request'[q] = request[q]
           /\ Cardinality(Holders) \in Nat /\ Cardinality(Holders') \in Nat
           /\ Cardinality(Holders') + (IF Holds(request[r]) THEN 1 ELSE 0)
                = Cardinality(Holders) + (IF Holds(x) THEN 1 ELSE 0)
           /\ \A u \in Updates :
                 /\ Cardinality(Owed(u)) \in Nat /\ Cardinality(Owed(u)') \in Nat
                 /\ Cardinality(Owed(u)') + (IF Update(r) = u /\ Owes(request[r]) THEN 1 ELSE 0)
                      = Cardinality(Owed(u)) + (IF x.update = u /\ Owes(x) THEN 1 ELSE 0)
  <1>1. /\ request' \in [Requests -> RequestStates] /\ request'[r] = x
        /\ \A q \in Requests \ {r} : request'[q] = request[q]
    BY TgTypes
  <1>2. /\ Holders \in SUBSET Requests /\ Holders' \in SUBSET Requests
        /\ (r \in Holders <=> Holds(request[r])) /\ (r \in Holders' <=> Holds(x))
        /\ \A q \in Requests \ {r} : q \in Holders <=> q \in Holders'
    BY <1>1 DEF Holders, Holds
  <1>3. /\ Cardinality(Holders) \in Nat /\ Cardinality(Holders') \in Nat
        /\ Cardinality(Holders') + (IF Holds(request[r]) THEN 1 ELSE 0)
             = Cardinality(Holders) + (IF Holds(x) THEN 1 ELSE 0)
    BY <1>2, SetsButOne, TgTypes
  <1>4. ASSUME NEW u \in Updates
        PROVE  /\ Cardinality(Owed(u)) \in Nat /\ Cardinality(Owed(u)') \in Nat
               /\ Cardinality(Owed(u)') + (IF Update(r) = u /\ Owes(request[r]) THEN 1 ELSE 0)
                    = Cardinality(Owed(u)) + (IF x.update = u /\ Owes(x) THEN 1 ELSE 0)
    <2>1. /\ Owed(u) \in SUBSET Requests /\ Owed(u)' \in SUBSET Requests
          /\ (r \in Owed(u) <=> Update(r) = u /\ Owes(request[r]))
          /\ (r \in Owed(u)' <=> x.update = u /\ Owes(x))
          /\ \A q \in Requests \ {r} : q \in Owed(u) <=> q \in Owed(u)'
      BY <1>1 DEF Owed, Owes, Update
    <2> QED BY <2>1, SetsButOne, TgTypes
  <1> QED BY <1>1, <1>3, <1>4

\* The books, as sums.
BooksAgree ==
    used + SumOver(refunded, Updates) = SumOver(replies, Updates) + leaked + Cardinality(Holders)
\* The books read as sums, now and after a step.
LEMMA BooksAreSums == RepliesAreCounted <=> BooksAgree
  BY DEF RepliesAreCounted, BooksAgree, Holders, SumOver, MapThenSumSet, MapThenFoldSet
LEMMA BooksAreSumsNext == RepliesAreCounted' <=> BooksAgree'
  BY DEF RepliesAreCounted, BooksAgree, Holders, SumOver, MapThenSumSet, MapThenFoldSet

\* Whoever gives a reservation back, has one, or a reply of its own is counted.
LEMMA UndoIsCovered ==
    ASSUME TgInv, NEW r \in Requests, At(r, "undo") PROVE used >= 1
  <1> DEFINE u == Update(r)
             B == SumOver(refunded, Updates)
             A == SumOver(replies, Updates)
  <1>1. u \in Updates
    BY TgTypes DEF Knows, At, Update
  <1>2. \A v \in Updates : /\ Owed(v) \in SUBSET Requests /\ IsFiniteSet(Owed(v))
                           /\ Cardinality(Owed(v)) \in Nat
    <2>1. \A v \in Updates : Owed(v) \in SUBSET Requests
      BY DEF Owed
    <2> QED BY <2>1, TgTypes, FS_Subset, FS_CardinalityType
  <1>3. Holders \in SUBSET Requests /\ IsFiniteSet(Holders) /\ Cardinality(Holders) \in Nat
    <2>1. Holders \in SUBSET Requests
      BY DEF Holders
    <2> QED BY <2>1, TgTypes, FS_Subset, FS_CardinalityType
  <1>4. \A v \in Updates : /\ refunded[v] + Cardinality(Owed(v)) <= replies[v]
                           /\ refunded[v] \in Nat /\ replies[v] \in Nat
    BY TgTypes DEF TgInv, RefundsWereSent
  <1>5. \A v \in Updates : refunded[v] <= replies[v]
    BY <1>2, <1>4
  <1>6. A \in Nat /\ B \in Nat /\ B <= A
    BY <1>5, TgTypes, SumAtMost
  <1>7. used + B = A + leaked + Cardinality(Holders) /\ used \in Nat /\ leaked \in Nat
    BY BooksAreSums, TgTypes DEF TgInv, BooksAgree
  <1>8. CASE ~request[r].sent
    <2>1. r \in Holders
      BY <1>8 DEF Holders, At
    <2>2. Cardinality(Holders) # 0
      BY <1>3, <2>1, FS_EmptySet
    <2> HIDE DEF A, B
    <2> QED BY <1>3, <1>6, <1>7, <2>2
  <1>9. CASE request[r].sent
    <2>1. r \in Owed(u)
      BY <1>9 DEF Owed, Owes, At
    <2>2. Cardinality(Owed(u)) # 0
      BY <1>1, <1>2, <2>1, FS_EmptySet
    <2>3. refunded[u] + 1 <= replies[u]
      BY <1>1, <1>2, <1>4, <2>2
    <2>4. B + 1 <= A
      BY <1>1, <1>5, <2>3, TgTypes, SumLess
    <2> HIDE DEF A, B
    <2> QED BY <1>3, <1>6, <1>7, <2>4
  <1> QED BY <1>8, <1>9

-----------------------------------------------------------------------------
(* Telegram: a step of a request                                           *)

\* The request r, which handles u, becomes x; meanwhile the update gets sent
\* replies, taken of them are taken for failed, and its row becomes row.
HandMoves(r, u, x, sent, taken, row) ==
    /\ request' = [request EXCEPT ![r] = x]
    /\ replies' \in [Updates -> Nat] /\ refunded' \in [Updates -> Nat] /\ log' \in [Updates -> LogStates]
    /\ replies'[u] = replies[u] + sent /\ refunded'[u] = refunded[u] + taken /\ log'[u] = row
    /\ \A v \in Updates \ {u} :
          replies'[v] = replies[v] /\ refunded'[v] = refunded[v] /\ log'[v] = log[v]
    /\ UNCHANGED <<connected, verified, automation, delivered, edits, claimed, blind>>
    /\ acked \subseteq acked' /\ acked' \subseteq acked \cup {u}
    /\ silent \subseteq silent' /\ silent' \subseteq silent \cup {u}
    /\ interrupted \subseteq interrupted' /\ interrupted' \subseteq interrupted \cup {u}

\* What it leaves behind is in order: for an update that Redis knew, what is
\* known of a hand when it goes on, and of an end when it does not.
LeavesOrder(u, x, row) ==
    /\ x.at # "idle" /\ u \notin blind =>
          /\ row \in {"none", "gone", "PENDING"}
          /\ replies'[u] = IF x.sent THEN 1 ELSE 0
          /\ refunded'[u] = IF x.at = "failed" THEN replies'[u] ELSE 0
    /\ x.at = "idle" =>
          /\ \/ replies'[u] > 0
             \/ u \in silent' \cup interrupted'
             \/ row \in {"FAILED", "SKIPPED_PLAN_LIMIT", "gone"}
          /\ u \notin blind =>
                /\ replies'[u] <= 1
                /\ row = "SENT" => replies'[u] = 1
                /\ row = "FAILED" /\ replies'[u] = 1 => refunded'[u] = 1

\* The books of the step: of the allowance, and of what is owed to the update.
StepBooks(y, x, sent, taken) ==
    /\ used' \in Nat /\ used' <= ReplyLimit /\ leaked' \in Nat
    /\ used' + taken + leaked + (IF Holds(y) THEN 1 ELSE 0)
         = used + sent + leaked' + (IF Holds(x) THEN 1 ELSE 0)
    /\ taken + (IF Owes(x) THEN 1 ELSE 0) <= sent + (IF Owes(y) THEN 1 ELSE 0)

\* Both books stay in order.
LEMMA BooksKeep ==
    ASSUME TgInv, NEW r \in Requests, NEW u \in Updates, Handles(r, u), NEW x \in RequestStates,
           x.at = "idle" \/ x.update = u, NEW sent \in {0, 1}, NEW taken \in {0, 1}, NEW row,
           HandMoves(r, u, x, sent, taken, row), StepBooks(request[r], x, sent, taken)
    PROVE  RepliesAreCounted' /\ RefundsWereSent'
  <1>1. /\ request' = [request EXCEPT ![r] = x]
        /\ replies' \in [Updates -> Nat] /\ refunded' \in [Updates -> Nat]
        /\ replies'[u] = replies[u] + sent /\ refunded'[u] = refunded[u] + taken
        /\ \A v \in Updates \ {u} : replies'[v] = replies[v] /\ refunded'[v] = refunded[v]
    BY DEF HandMoves
  <1>2. /\ Cardinality(Holders) \in Nat /\ Cardinality(Holders') \in Nat
        /\ Cardinality(Holders') + (IF Holds(request[r]) THEN 1 ELSE 0)
             = Cardinality(Holders) + (IF Holds(x) THEN 1 ELSE 0)
    BY <1>1, RequestMoves
  <1>3. \A v \in Updates :
           /\ Cardinality(Owed(v)) \in Nat /\ Cardinality(Owed(v)') \in Nat
           /\ Cardinality(Owed(v)') + (IF Update(r) = v /\ Owes(request[r]) THEN 1 ELSE 0)
                = Cardinality(Owed(v)) + (IF x.update = v /\ Owes(x) THEN 1 ELSE 0)
    BY <1>1, RequestMoves
  <1>4. Update(r) = u /\ (Owes(x) => x.update = u)
    BY DEF Handles, Owes
  <1>5. RepliesAreCounted'
    <2> DEFINE A == SumOver(replies, Updates)
               B == SumOver(refunded, Updates)
               C == SumOver(replies', Updates)
               D == SumOver(refunded', Updates)
    <2>1. C + replies[u] = A + replies'[u] /\ D + refunded[u] = B + refunded'[u]
      BY <1>1, SumChange, TgTypes
    <2>2. A \in Nat /\ B \in Nat /\ C \in Nat /\ D \in Nat
      BY <1>1, SumIsNat, TgTypes
    <2>3. used + B = A + leaked + Cardinality(Holders)
      BY BooksAreSums DEF TgInv, BooksAgree
    <2>4. /\ replies[u] \in Nat /\ refunded[u] \in Nat /\ used \in Nat /\ leaked \in Nat
          /\ used' \in Nat /\ leaked' \in Nat
      BY TgTypes DEF StepBooks
    <2> HIDE DEF A, B, C, D
    <2>5. C = A + sent /\ D = B + taken
      BY <1>1, <2>1, <2>2, <2>4
    <2>6. used' + D = C + leaked' + Cardinality(Holders')
      <3>1. used' + taken + leaked + (IF Holds(request[r]) THEN 1 ELSE 0)
              = used + sent + leaked' + (IF Holds(x) THEN 1 ELSE 0)
        BY DEF StepBooks
      <3>2. PICK i \in {0, 1}, j \in {0, 1} : /\ i = (IF Holds(request[r]) THEN 1 ELSE 0)
                                             /\ j = (IF Holds(x) THEN 1 ELSE 0)
        OBVIOUS
      <3> QED BY <1>2, <2>2, <2>3, <2>4, <2>5, <3>1, <3>2
    <2> QED BY <2>6, BooksAreSumsNext DEF BooksAgree, C, D
  <1>6. RefundsWereSent'
    <2> SUFFICES ASSUME NEW v \in Updates
                 PROVE  refunded'[v] + Cardinality(Owed(v)') <= replies'[v]
      BY DEF RefundsWereSent
    <2>1. /\ refunded[v] + Cardinality(Owed(v)) <= replies[v]
          /\ refunded[v] \in Nat /\ replies[v] \in Nat
      BY TgTypes DEF TgInv, RefundsWereSent
    <2>2. CASE v = u
      <3>1. taken + (IF Owes(x) THEN 1 ELSE 0) <= sent + (IF Owes(request[r]) THEN 1 ELSE 0)
        BY DEF StepBooks
      <3>2. PICK i \in {0, 1}, j \in {0, 1} : /\ i = (IF Owes(request[r]) THEN 1 ELSE 0)
                                             /\ j = (IF Owes(x) THEN 1 ELSE 0)
        OBVIOUS
      <3>3. Cardinality(Owed(v)') + i = Cardinality(Owed(v)) + j
        BY <1>3, <1>4, <2>2, <3>2
      <3> QED BY <1>1, <1>3, <2>1, <2>2, <3>1, <3>2, <3>3
    <2>3. CASE v # u
      <3>1. Cardinality(Owed(v)') = Cardinality(Owed(v))
        BY <1>3, <1>4, <2>3
      <3> QED BY <1>1, <2>1, <2>3, <3>1
    <2> QED BY <2>2, <2>3
  <1> QED BY <1>5, <1>6

\* A step of the request that handles an update, which goes on or comes to an end,
\* keeps the invariant.
LEMMA HandOverKeeps ==
    ASSUME TgInv, NEW r \in Requests, NEW u \in Updates, Handles(r, u), NEW x \in RequestStates,
           Knows(x), x.at = "idle" \/ (x.update = u /\ Past(x)),
           NEW sent \in {0, 1}, NEW taken \in {0, 1}, NEW row \in LogStates,
           HandMoves(r, u, x, sent, taken, row), LeavesOrder(u, x, row),
           StepBooks(request[r], x, sent, taken)
    PROVE  TgInv'
  <1>1. /\ request' \in [Requests -> RequestStates] /\ request'[r] = x
        /\ \A q \in Requests \ {r} : request'[q] = request[q]
    BY RequestMoves DEF HandMoves
  <1>2. /\ \A v \in Updates \ {u} :
              replies'[v] = replies[v] /\ refunded'[v] = refunded[v] /\ log'[v] = log[v]
        /\ log'[u] = row /\ claimed' = claimed /\ blind' = blind
        /\ replies' \in [Updates -> Nat] /\ refunded' \in [Updates -> Nat]
    BY DEF HandMoves
  <1>3. TgTypeOK'
    <2>1. /\ used' \in 0 .. ReplyLimit /\ leaked' \in Nat
      BY TgTypes DEF StepBooks
    <2>2. /\ acked' \subseteq Updates /\ silent' \subseteq Updates /\ interrupted' \subseteq Updates
      BY DEF TgInv, TgTypeOK, HandMoves
    <2>3. log' \in [Updates -> LogStates]
      BY DEF HandMoves
    <2>4. /\ connected' = connected /\ verified' = verified /\ automation' = automation
          /\ delivered' = delivered /\ edits' = edits
      BY DEF HandMoves
    <2> QED BY <1>1, <1>2, <2>1, <2>2, <2>3, <2>4 DEF TgInv, TgTypeOK, RequestStates, LogStates
  <1>4. AutomationsFit'
    BY DEF TgInv, AutomationsFit, HandMoves
  <1>5. RequestsKnow'
    <2> SUFFICES ASSUME NEW q \in Requests PROVE Knows(request'[q])
      BY DEF RequestsKnow, Knows
    <2> QED BY <1>1, TgTypes
  <1>6. \A q \in Requests, v \in Updates : Handles(q, v)' <=> IF q = r THEN v = u /\ x.at # "idle"
                                                                      ELSE Handles(q, v)
    BY <1>1 DEF Handles, Update, Past
  <1>7. u \notin blind => u \in claimed /\ \A q \in Requests : Handles(q, u) => q = r
    BY DEF TgInv, OneHand
  <1>8. OneHand'
    <2> SUFFICES ASSUME NEW v \in Updates, v \notin blind
                 PROVE  /\ \A p, q \in Requests : Handles(p, v)' /\ Handles(q, v)' => p = q
                        /\ v \notin claimed => replies'[v] = 0 /\ refunded'[v] = 0 /\ log'[v] = "none"
                        /\ \A q \in Requests : Handles(q, v)' =>
                              /\ v \in claimed
                              /\ log'[v] \in {"none", "gone", "PENDING"}
                              /\ replies'[v] = IF request'[q].sent THEN 1 ELSE 0
                              /\ refunded'[v] = IF request'[q].at = "failed" THEN replies'[v] ELSE 0
      BY <1>2 DEF OneHand
    <2>1. CASE v = u
      <3>1. \A q \in Requests : Handles(q, v)' => q = r /\ x.at # "idle"
        BY <1>6, <1>7, <2>1
      <3>2. x.at # "idle" => /\ row \in {"none", "gone", "PENDING"}
                             /\ replies'[u] = IF x.sent THEN 1 ELSE 0
                             /\ refunded'[u] = IF x.at = "failed" THEN replies'[u] ELSE 0
        BY <2>1 DEF LeavesOrder
      <3> QED BY <1>1, <1>2, <1>7, <2>1, <3>1, <3>2
    <2>2. CASE v # u
      <3>1. /\ \A p, q \in Requests : Handles(p, v) /\ Handles(q, v) => p = q
            /\ v \notin claimed => replies[v] = 0 /\ refunded[v] = 0 /\ log[v] = "none"
            /\ \A q \in Requests : Handles(q, v) =>
                  /\ v \in claimed
                  /\ log[v] \in {"none", "gone", "PENDING"}
                  /\ replies[v] = IF request[q].sent THEN 1 ELSE 0
                  /\ refunded[v] = IF request[q].at = "failed" THEN replies[v] ELSE 0
        BY DEF TgInv, OneHand
      <3>2. \A q \in Requests : Handles(q, v)' => q # r /\ Handles(q, v)
        BY <1>6, <2>2
      <3> QED BY <1>1, <1>2, <2>2, <3>1, <3>2
    <2> QED BY <2>1, <2>2
  <1>9. EndsAreKnown'
    <2> SUFFICES ASSUME NEW v \in claimed' \cup acked'
                 PROVE  HasEnded(v)' \/ \E q \in Requests : Handles(q, v)'
      BY DEF EndsAreKnown
    <2>1. v \in Updates /\ (v = u \/ v \in claimed \cup acked)
      BY <1>2 DEF HandMoves, TgInv, TgTypeOK
    <2>2. CASE v = u
      <3>1. CASE x.at # "idle"
        BY <1>6, <2>2, <3>1
      <3>2. CASE x.at = "idle"
        BY <1>2, <2>2, <3>2 DEF LeavesOrder, HasEnded
      <3> QED BY <3>1, <3>2
    <2>3. CASE v # u
      <3>1. HasEnded(v) \/ \E q \in Requests : Handles(q, v)
        BY <2>1, <2>3 DEF TgInv, EndsAreKnown
      <3>2. HasEnded(v) => HasEnded(v)'
        BY <1>2, <2>1, <2>3 DEF HasEnded, HandMoves
      <3>3. \A q \in Requests : Handles(q, v) => Handles(q, v)'
        <4>1. ~Handles(r, v)
          BY <2>3 DEF Handles
        <4> QED BY <1>6, <2>1, <4>1
      <3> QED BY <3>1, <3>2, <3>3
    <2> QED BY <2>2, <2>3
  <1>10. RepliesAreSentOnce' /\ TheLogTellsTheTruth'
    <2> SUFFICES ASSUME NEW v \in Updates, v \notin blind
                 PROVE  /\ replies'[v] <= 1
                        /\ log'[v] = "SENT" => replies'[v] = 1
                        /\ log'[v] = "FAILED" /\ replies'[v] = 1 => refunded'[v] = 1
      BY <1>2 DEF RepliesAreSentOnce, TheLogTellsTheTruth
    <2>1. CASE v = u
      BY <1>2, <2>1 DEF LeavesOrder
    <2>2. CASE v # u
      BY <1>2, <2>2 DEF TgInv, RepliesAreSentOnce, TheLogTellsTheTruth
    <2> QED BY <2>1, <2>2
  <1>11. RepliesAreCounted' /\ RefundsWereSent'
    BY BooksKeep
  <1> QED BY <1>3, <1>4, <1>5, <1>8, <1>9, <1>10, <1>11 DEF TgInv

-----------------------------------------------------------------------------
(* Telegram: the steps                                                     *)

\* The request that moves on, and the one that is over.
LEMMA MovesOn ==
    ASSUME TgInv, NEW r \in Requests, NEW at \in {"match", "skip", "log", "send", "undo", "failed"}, To(r, at)
    PROVE  \E x \in RequestStates : /\ request' = [request EXCEPT ![r] = x]
                                    /\ x.at = at /\ x.update = Update(r) /\ x.sent = request[r].sent
  <1>1. PICK y \in RequestStates : y = request[r]
    BY TgTypes
  <1>2. request' = [request EXCEPT ![r] = [request[r] EXCEPT !.at = at]]
    BY DEF To
  <1>3. [y EXCEPT !.at = at] = [at |-> at, update |-> y.update, automation |-> y.automation, sent |-> y.sent]
    BY DEF RequestStates
  <1>4. [at |-> at, update |-> y.update, automation |-> y.automation, sent |-> y.sent] \in RequestStates
    BY DEF RequestStates
  <1> QED BY <1>1, <1>2, <1>3, <1>4 DEF Update

\* A request that is over holds nothing and owes nothing.
LEMMA NoRequestFacts ==
    /\ NoRequest \in RequestStates /\ NoRequest.at = "idle" /\ Knows(NoRequest)
    /\ ~Holds(NoRequest) /\ ~Owes(NoRequest)
  BY TelegramAssumption DEF NoRequest, RequestStates, Knows, Holds, Owes

\* What is known when a request acts on its update.
LEMMA HandFacts ==
    ASSUME TgInv, NEW r \in Requests, request[r].at \notin {"idle", "claim"}
    PROVE  /\ Update(r) \in Updates /\ Handles(r, Update(r)) /\ Knows(request[r])
           /\ log[Update(r)] \in LogStates /\ replies[Update(r)] \in Nat /\ refunded[Update(r)] \in Nat
           /\ Update(r) \notin blind =>
                /\ log[Update(r)] \in {"none", "gone", "PENDING"}
                /\ replies[Update(r)] = IF request[r].sent THEN 1 ELSE 0
                /\ refunded[Update(r)] = IF request[r].at = "failed" THEN replies[Update(r)] ELSE 0
  <1>1. Update(r) \in Updates /\ Handles(r, Update(r)) /\ Knows(request[r])
    BY TgTypes DEF Knows, Update, Handles, Past
  <1> QED BY <1>1, TgTypes DEF TgInv, OneHand

\* Nothing is sent and nothing taken back; the row may be written.
LEMMA RowMoves ==
    ASSUME TgInv, NEW r \in Requests, NEW u \in Updates, NEW x, NEW row \in LogStates,
           request' = [request EXCEPT ![r] = x],
           \/ log' = [log EXCEPT ![u] = row]
           \/ log' = log /\ row = log[u],
           UNCHANGED <<connected, verified, automation, delivered, edits, claimed, blind, replies, refunded>>,
           acked' = acked \/ acked' = acked \cup {u},
           silent' = silent \/ silent' = silent \cup {u},
           interrupted' = interrupted \/ interrupted' = interrupted \cup {u}
    PROVE  HandMoves(r, u, x, 0, 0, row)
  <1>1. /\ replies' \in [Updates -> Nat] /\ refunded' \in [Updates -> Nat]
        /\ replies'[u] = replies[u] + 0 /\ refunded'[u] = refunded[u] + 0
    BY TgTypes
  <1>2. log' \in [Updates -> LogStates] /\ log'[u] = row /\ \A v \in Updates \ {u} : log'[v] = log[v]
    BY TgTypes
  <1>3. /\ acked \subseteq acked' /\ acked' \subseteq acked \cup {u}
        /\ silent \subseteq silent' /\ silent' \subseteq silent \cup {u}
        /\ interrupted \subseteq interrupted' /\ interrupted' \subseteq interrupted \cup {u}
    OBVIOUS
  <1> QED BY <1>1, <1>2, <1>3 DEF HandMoves

\* The oldest of the automations that fit is one of them.
LEMMA OldestFits ==
    ASSUME NEW S \in SUBSET Automations, S # {} PROVE Min(S) \in 0 .. MaxAutomations
  <1>1. S \in SUBSET Nat
    BY TelegramAssumption DEF Automations
  <1>2. \E n \in S : \A m \in S : n <= m
    BY <1>1, LeastNatural
  <1>3. Min(S) \in S
    BY <1>2 DEF Min
  <1>4. Min(S) \in Automations
    BY <1>3
  <1>5. \A n \in Automations : n \in 0 .. MaxAutomations
    BY TelegramAssumption DEF Automations
  <1> QED BY <1>4, <1>5

\* A message that no keyword fits is acknowledged as calling for no answer.
LEMMA MatchKeeps == ASSUME TgInv, NEW r \in Requests, TgMatch(r) PROVE TgInv'
  <1> DEFINE u == Update(r)
             fits == Fitting(u)
  <1>1. /\ request[r].at = "match"
        /\ UNCHANGED <<claimed, used, log, replies, blind, interrupted, refunded, leaked>>
        /\ UNCHANGED <<connected, verified, automation, delivered, edits>>
    BY DEF TgMatch, At, Rows
  <1>2. /\ u \in Updates /\ Handles(r, u) /\ Knows(request[r]) /\ log[u] \in LogStates
        /\ u \notin blind => /\ log[u] \in {"none", "gone", "PENDING"}
                             /\ replies[u] = 0 /\ refunded[u] = 0
        /\ ~request[r].sent /\ used \in Nat /\ used <= ReplyLimit /\ leaked \in Nat
    BY <1>1, HandFacts, TgTypes DEF Knows
  <1>3. CASE fits = {}
    <2>1. request' = [request EXCEPT ![r] = NoRequest] /\ acked' = acked \cup {u} /\ silent' = silent \cup {u}
      BY <1>3 DEF TgMatch, Acks, Done
    <2> HIDE DEF u
    <2>2. HandMoves(r, u, NoRequest, 0, 0, log[u])
      BY <1>1, <1>2, <2>1, RowMoves
    <2>3. LeavesOrder(u, NoRequest, log[u])
      BY <1>1, <1>2, <2>1, NoRequestFacts DEF LeavesOrder
    <2>4. StepBooks(request[r], NoRequest, 0, 0)
      BY <1>1, <1>2, NoRequestFacts DEF StepBooks, Holds, Owes
    <2> QED BY <1>2, <2>2, <2>3, <2>4, NoRequestFacts, HandOverKeeps
  <1>4. CASE fits # {}
    <2>1. /\ request' = [request EXCEPT ![r].at = "reserve", ![r].automation = Min(fits)]
          /\ acked' = acked /\ silent' = silent
      BY <1>4 DEF TgMatch
    <2>2. PICK a \in 0 .. MaxAutomations : a = Min(fits)
      <3>1. fits \in SUBSET Automations
        BY DEF Fitting
      <3> HIDE DEF fits
      <3> QED BY <1>4, <3>1, OldestFits
    <2>3. PICK x \in RequestStates : /\ request' = [request EXCEPT ![r] = x]
                                     /\ x.at = "reserve" /\ x.update = u /\ x.sent = request[r].sent
      <3>1. PICK y \in RequestStates : y = request[r]
        BY TgTypes
      <3>2. request' = [request EXCEPT ![r] = [[y EXCEPT !.at = "reserve"] EXCEPT !.automation = a]]
        <4>1. request' = [request EXCEPT ![r].at = "reserve", ![r].automation = a]
          BY <2>1, <2>2
        <4> QED BY <3>1, <4>1, TgTypes
      <3>3. [y EXCEPT !.at = "reserve"]
              = [at |-> "reserve", update |-> y.update, automation |-> y.automation, sent |-> y.sent]
        BY DEF RequestStates
      <3>4. [[at |-> "reserve", update |-> y.update, automation |-> y.automation, sent |-> y.sent]
               EXCEPT !.automation = a]
              = [at |-> "reserve", update |-> y.update, automation |-> a, sent |-> y.sent]
        OBVIOUS
      <3>5. [at |-> "reserve", update |-> y.update, automation |-> a, sent |-> y.sent] \in RequestStates
        BY DEF RequestStates
      <3> QED BY <3>1, <3>2, <3>3, <3>4, <3>5 DEF Update
    <2> HIDE DEF u, fits
    <2>4. HandMoves(r, u, x, 0, 0, log[u])
      BY <1>1, <1>2, <2>1, <2>3, RowMoves
    <2>5. LeavesOrder(u, x, log[u])
      BY <1>1, <1>2, <2>3 DEF LeavesOrder
    <2>6. StepBooks(request[r], x, 0, 0)
      BY <1>1, <1>2, <2>3 DEF StepBooks, Holds, Owes
    <2>7. Knows(x) /\ Past(x)
      BY <1>2, <2>3 DEF Knows, Past
    <2> QED BY <1>2, <2>3, <2>4, <2>5, <2>6, <2>7, HandOverKeeps
  <1> QED BY <1>3, <1>4

\* A reservation is counted and held.
LEMMA ReserveKeeps == ASSUME TgInv, NEW r \in Requests, TgReserve(r) PROVE TgInv'
  <1> DEFINE u == Update(r)
  <1>1. /\ request[r].at = "reserve"
        /\ UNCHANGED <<claimed, log, acked, replies, blind, silent, interrupted, refunded, leaked>>
        /\ UNCHANGED <<connected, verified, automation, delivered, edits>>
    BY DEF TgReserve, At, Rows
  <1>2. /\ u \in Updates /\ Handles(r, u) /\ Knows(request[r]) /\ log[u] \in LogStates
        /\ u \notin blind => /\ log[u] \in {"none", "gone", "PENDING"}
                             /\ replies[u] = 0 /\ refunded[u] = 0
        /\ ~request[r].sent /\ used \in Nat /\ used <= ReplyLimit /\ ReplyLimit \in Nat /\ leaked \in Nat
    BY <1>1, HandFacts, TgTypes DEF Knows
  <1>3. PICK x \in RequestStates :
           /\ request' = [request EXCEPT ![r] = x] /\ x.update = u /\ x.sent = request[r].sent
           /\ \/ x.at = "log" /\ used < ReplyLimit /\ used' = used + 1
              \/ x.at = "skip" /\ used' = used
    <2>1. CASE used < ReplyLimit
      BY <2>1, MovesOn DEF TgReserve
    <2>2. CASE ~(used < ReplyLimit)
      BY <2>2, MovesOn DEF TgReserve
    <2> QED BY <2>1, <2>2
  <1> HIDE DEF u
  <1>4. HandMoves(r, u, x, 0, 0, log[u])
    BY <1>1, <1>2, <1>3, RowMoves
  <1>5. LeavesOrder(u, x, log[u])
    BY <1>1, <1>2, <1>3 DEF LeavesOrder
  <1>6. StepBooks(request[r], x, 0, 0)
    BY <1>1, <1>2, <1>3 DEF StepBooks, Holds, Owes
  <1>7. Knows(x) /\ Past(x)
    BY <1>2, <1>3 DEF Knows, Past
  <1> QED BY <1>2, <1>3, <1>4, <1>5, <1>6, <1>7, HandOverKeeps

\* A reply the allowance forbids ends in the log, or with the automation that went.
LEMMA LogSkipKeeps == ASSUME TgInv, NEW r \in Requests, LogSkip(r) PROVE TgInv'
  <1> DEFINE u == Update(r)
  <1>1. /\ request[r].at = "skip"
        /\ UNCHANGED <<claimed, used, replies, blind, silent, refunded>>
        /\ UNCHANGED <<connected, verified, automation, delivered, edits>>
    BY DEF LogSkip, At, Rows
  <1>2. /\ u \in Updates /\ Handles(r, u) /\ Knows(request[r]) /\ log[u] \in LogStates
        /\ u \notin blind => /\ log[u] \in {"none", "gone", "PENDING"}
                             /\ replies[u] = 0 /\ refunded[u] = 0
        /\ ~request[r].sent /\ used \in Nat /\ used <= ReplyLimit /\ leaked \in Nat
    BY <1>1, HandFacts, TgTypes DEF Knows
  <1>3. PICK row \in LogStates :
           /\ request' = [request EXCEPT ![r] = NoRequest] /\ leaked' = leaked
           /\ \/ /\ log' = [log EXCEPT ![u] = row] /\ row = "SKIPPED_PLAN_LIMIT"
                 /\ acked' = acked \cup {u} /\ interrupted' = interrupted
              \/ /\ log' = log /\ row = log[u] /\ acked' = acked /\ interrupted' = interrupted \cup {u}
    <2>1. CASE automation[request[r].automation].exists
      BY <2>1 DEF LogSkip, Acks, Done, LogStates
    <2>2. CASE ~automation[request[r].automation].exists
      <3>1. leaked' = leaked + 0
        BY <2>2 DEF LogSkip, Throws
      <3> QED BY <1>2, <2>2, <3>1 DEF LogSkip, Throws, Done
    <2> QED BY <2>1, <2>2
  <1> HIDE DEF u
  <1>4. HandMoves(r, u, NoRequest, 0, 0, row)
    BY <1>1, <1>2, <1>3, RowMoves
  <1>5. LeavesOrder(u, NoRequest, row)
    BY <1>1, <1>2, <1>3, NoRequestFacts DEF LeavesOrder
  <1>6. StepBooks(request[r], NoRequest, 0, 0)
    BY <1>1, <1>2, <1>3, NoRequestFacts DEF StepBooks, Holds, Owes
  <1> QED BY <1>2, <1>4, <1>5, <1>6, NoRequestFacts, HandOverKeeps

\* The row is written, or the exception leaves a reservation over.
LEMMA LogPendingKeeps == ASSUME TgInv, NEW r \in Requests, LogPending(r) PROVE TgInv'
  <1> DEFINE u == Update(r)
  <1>1. /\ request[r].at = "log"
        /\ UNCHANGED <<claimed, used, acked, replies, blind, silent, refunded>>
        /\ UNCHANGED <<connected, verified, automation, delivered, edits>>
    BY DEF LogPending, At, Rows
  <1>2. /\ u \in Updates /\ Handles(r, u) /\ Knows(request[r]) /\ log[u] \in LogStates
        /\ u \notin blind => /\ log[u] \in {"none", "gone", "PENDING"}
                             /\ replies[u] = 0 /\ refunded[u] = 0
        /\ ~request[r].sent /\ used \in Nat /\ used <= ReplyLimit /\ leaked \in Nat
    BY <1>1, HandFacts, TgTypes DEF Knows
  <1>3. CASE automation[request[r].automation].exists
    <2>1. /\ log' = [log EXCEPT ![u] = "PENDING"] /\ interrupted' = interrupted /\ leaked' = leaked
          /\ To(r, "send") /\ "PENDING" \in LogStates
      BY <1>3 DEF LogPending, LogStates
    <2>2. PICK x \in RequestStates : /\ request' = [request EXCEPT ![r] = x]
                                     /\ x.at = "send" /\ x.update = u /\ x.sent = request[r].sent
      BY <2>1, MovesOn
    <2> HIDE DEF u
    <2>3. HandMoves(r, u, x, 0, 0, "PENDING")
      BY <1>1, <1>2, <2>1, <2>2, RowMoves
    <2>4. LeavesOrder(u, x, "PENDING")
      BY <1>1, <1>2, <2>2 DEF LeavesOrder
    <2>5. StepBooks(request[r], x, 0, 0)
      BY <1>1, <1>2, <2>1, <2>2 DEF StepBooks, Holds, Owes
    <2>6. Knows(x) /\ Past(x)
      BY <1>2, <2>2 DEF Knows, Past
    <2> QED BY <1>2, <2>1, <2>2, <2>3, <2>4, <2>5, <2>6, HandOverKeeps
  <1>4. CASE ~automation[request[r].automation].exists
    <2>1. /\ request' = [request EXCEPT ![r] = NoRequest] /\ log' = log
          /\ interrupted' = interrupted \cup {u} /\ leaked' = leaked + 1
      BY <1>4 DEF LogPending, Throws, Done
    <2> HIDE DEF u
    <2>2. HandMoves(r, u, NoRequest, 0, 0, log[u])
      BY <1>1, <1>2, <2>1, RowMoves
    <2>3. LeavesOrder(u, NoRequest, log[u])
      BY <1>1, <1>2, <2>1, NoRequestFacts DEF LeavesOrder
    <2>4. StepBooks(request[r], NoRequest, 0, 0)
      BY <1>1, <1>2, <2>1, NoRequestFacts DEF StepBooks, Holds, Owes
    <2> QED BY <1>2, <2>2, <2>3, <2>4, NoRequestFacts, HandOverKeeps
  <1> QED BY <1>3, <1>4

\* The reply is out exactly when the request knows it to be.
LEMMA SendReplyKeeps ==
    ASSUME TgInv, NEW r \in Requests, NEW sent \in BOOLEAN, NEW answered \in BOOLEAN,
           SendReply(r, sent, answered)
    PROVE  TgInv'
  <1> DEFINE u == Update(r)
  <1>1. /\ request[r].at = "send" /\ (answered => sent)
        /\ UNCHANGED <<claimed, used, log, acked, blind, silent, interrupted, refunded, leaked>>
        /\ UNCHANGED <<connected, verified, automation, delivered, edits>>
    BY DEF SendReply, At, Rows
  <1>2. /\ u \in Updates /\ Handles(r, u) /\ Knows(request[r]) /\ log[u] \in LogStates
        /\ u \notin blind => /\ log[u] \in {"none", "gone", "PENDING"}
                             /\ replies[u] = 0 /\ refunded[u] = 0
        /\ ~request[r].sent /\ used \in Nat /\ used <= ReplyLimit /\ leaked \in Nat
    BY <1>1, HandFacts, TgTypes DEF Knows
  <1>3. PICK n \in {0, 1} : n = IF sent THEN 1 ELSE 0
    OBVIOUS
  <1>4. PICK at \in {"record", "undo"} : at = IF answered THEN "record" ELSE "undo"
    OBVIOUS
  <1>5. PICK x \in RequestStates : /\ request' = [request EXCEPT ![r] = x]
                                   /\ x.at = at /\ x.update = u /\ x.sent = sent
    <2>1. PICK y \in RequestStates : y = request[r]
      BY TgTypes
    <2>2. request' = [request EXCEPT ![r] = [[y EXCEPT !.at = at] EXCEPT !.sent = sent]]
      <3>1. request' = [request EXCEPT ![r].at = at, ![r].sent = sent]
        BY <1>4 DEF SendReply
      <3> QED BY <2>1, <3>1, TgTypes
    <2>3. [y EXCEPT !.at = at]
            = [at |-> at, update |-> y.update, automation |-> y.automation, sent |-> y.sent]
      BY DEF RequestStates
    <2>4. [[at |-> at, update |-> y.update, automation |-> y.automation, sent |-> y.sent]
             EXCEPT !.sent = sent]
            = [at |-> at, update |-> y.update, automation |-> y.automation, sent |-> sent]
      OBVIOUS
    <2>5. [at |-> at, update |-> y.update, automation |-> y.automation, sent |-> sent] \in RequestStates
      BY DEF RequestStates
    <2> QED BY <2>1, <2>2, <2>3, <2>4, <2>5 DEF Update
  <1>6. /\ replies' \in [Updates -> Nat] /\ replies'[u] = replies[u] + n
        /\ \A v \in Updates \ {u} : replies'[v] = replies[v]
    <2>1. replies' = IF sent THEN [replies EXCEPT ![u] = replies[u] + 1] ELSE replies
      BY DEF SendReply
    <2>2. CASE sent
      BY <1>2, <1>3, <2>1, <2>2, TgTypes
    <2>3. CASE ~sent
      BY <1>2, <1>3, <2>1, <2>3, TgTypes
    <2> QED BY <2>2, <2>3
  <1> HIDE DEF u
  <1>7. HandMoves(r, u, x, n, 0, log[u])
    <2>1. /\ refunded' \in [Updates -> Nat] /\ log' \in [Updates -> LogStates]
          /\ refunded'[u] = refunded[u] + 0 /\ log'[u] = log[u]
      BY <1>1, <1>2, TgTypes
    <2> QED BY <1>1, <1>5, <1>6, <2>1 DEF HandMoves
  <1>8. LeavesOrder(u, x, log[u])
    <2>1. u \notin blind => replies'[u] = IF x.sent THEN 1 ELSE 0
      BY <1>2, <1>3, <1>5, <1>6
    <2>2. x.at # "idle" /\ x.at # "failed" /\ refunded' = refunded
      BY <1>1, <1>5
    <2> QED BY <1>2, <2>1, <2>2 DEF LeavesOrder
  <1>9. StepBooks(request[r], x, n, 0)
    BY <1>1, <1>2, <1>3, <1>4, <1>5 DEF StepBooks, Holds, Owes
  <1>10. Knows(x) /\ Past(x)
    BY <1>1, <1>2, <1>4, <1>5 DEF Knows, Past
  <1> QED BY <1>2, <1>5, <1>7, <1>8, <1>9, <1>10, HandOverKeeps

\* An answer that arrived is recorded, or is taken for a failure.
LEMMA RecordReplyKeeps == ASSUME TgInv, NEW r \in Requests, NEW up \in BOOLEAN, RecordReply(r, up) PROVE TgInv'
  <1> DEFINE u == Update(r)
  <1>1. /\ request[r].at = "record"
        /\ UNCHANGED <<claimed, used, replies, blind, silent, interrupted, refunded, leaked>>
        /\ UNCHANGED <<connected, verified, automation, delivered, edits>>
    BY DEF RecordReply, At, Rows
  <1>2. /\ u \in Updates /\ Handles(r, u) /\ Knows(request[r]) /\ log[u] \in LogStates
        /\ u \notin blind => /\ log[u] \in {"none", "gone", "PENDING"}
                             /\ replies[u] = 1 /\ refunded[u] = 0
        /\ request[r].sent /\ used \in Nat /\ used <= ReplyLimit /\ leaked \in Nat
        /\ replies[u] \in Nat
    BY <1>1, HandFacts, TgTypes DEF Knows
  <1>3. CASE up /\ log[u] # "gone"
    <2>1. /\ request' = [request EXCEPT ![r] = NoRequest] /\ log' = [log EXCEPT ![u] = "SENT"]
          /\ acked' = acked \cup {u} /\ "SENT" \in LogStates
      BY <1>3 DEF RecordReply, Acks, Done, LogStates
    <2>2. replies[u] > 0
      <3>1. refunded[u] + Cardinality(Owed(u)) <= replies[u] /\ refunded[u] \in Nat
        BY <1>2, TgTypes DEF TgInv, RefundsWereSent
      <3>2. Owed(u) \in SUBSET Requests /\ r \in Owed(u)
        BY <1>1, <1>2 DEF Owed, Owes
      <3>3. Cardinality(Owed(u)) \in Nat /\ Cardinality(Owed(u)) # 0
        BY <3>2, TgTypes, FS_Subset, FS_CardinalityType, FS_EmptySet
      <3> QED BY <1>2, <3>1, <3>3
    <2> HIDE DEF u
    <2>3. HandMoves(r, u, NoRequest, 0, 0, "SENT")
      BY <1>1, <1>2, <2>1, RowMoves
    <2>4. LeavesOrder(u, NoRequest, "SENT")
      BY <1>1, <1>2, <2>2, NoRequestFacts DEF LeavesOrder
    <2>5. StepBooks(request[r], NoRequest, 0, 0)
      BY <1>1, <1>2, NoRequestFacts DEF StepBooks, Holds, Owes
    <2> QED BY <1>2, <2>1, <2>3, <2>4, <2>5, NoRequestFacts, HandOverKeeps
  <1>4. CASE ~(up /\ log[u] # "gone")
    <2>1. To(r, "undo") /\ log' = log /\ acked' = acked
      BY <1>4 DEF RecordReply
    <2>2. PICK x \in RequestStates : /\ request' = [request EXCEPT ![r] = x]
                                     /\ x.at = "undo" /\ x.update = u /\ x.sent = request[r].sent
      BY <2>1, MovesOn
    <2> HIDE DEF u
    <2>3. HandMoves(r, u, x, 0, 0, log[u])
      BY <1>1, <1>2, <2>1, <2>2, RowMoves
    <2>4. LeavesOrder(u, x, log[u])
      BY <1>1, <1>2, <2>2 DEF LeavesOrder
    <2>5. StepBooks(request[r], x, 0, 0)
      BY <1>1, <1>2, <2>2 DEF StepBooks, Holds, Owes
    <2>6. Knows(x) /\ Past(x)
      BY <1>2, <2>2 DEF Knows, Past
    <2> QED BY <1>2, <2>2, <2>3, <2>4, <2>5, <2>6, HandOverKeeps
  <1> QED BY <1>3, <1>4

\* The catch gives one reservation back, of its own or of a reply that is out.
LEMMA UndoKeeps == ASSUME TgInv, NEW r \in Requests, Undo(r) PROVE TgInv'
  <1> DEFINE u == Update(r)
  <1>1. /\ request[r].at = "undo" /\ used' = used - 1
        /\ UNCHANGED <<claimed, log, acked, replies, blind, silent, interrupted, leaked>>
        /\ UNCHANGED <<connected, verified, automation, delivered, edits>>
    BY DEF Undo, At, Rows
  <1>2. /\ u \in Updates /\ Handles(r, u) /\ Knows(request[r]) /\ log[u] \in LogStates
        /\ u \notin blind => /\ log[u] \in {"none", "gone", "PENDING"}
                             /\ replies[u] = (IF request[r].sent THEN 1 ELSE 0) /\ refunded[u] = 0
        /\ used \in Nat /\ used <= ReplyLimit /\ ReplyLimit \in Nat /\ leaked \in Nat
        /\ refunded[u] \in Nat
    BY <1>1, HandFacts, TgTypes
  <1>3. used >= 1
    BY <1>1, UndoIsCovered DEF At
  <1>4. PICK n \in {0, 1} : n = IF request[r].sent THEN 1 ELSE 0
    OBVIOUS
  <1>5. PICK x \in RequestStates : /\ request' = [request EXCEPT ![r] = x]
                                   /\ x.at = "failed" /\ x.update = u /\ x.sent = request[r].sent
    BY MovesOn DEF Undo
  <1>6. /\ refunded' \in [Updates -> Nat] /\ refunded'[u] = refunded[u] + n
        /\ \A v \in Updates \ {u} : refunded'[v] = refunded[v]
    <2>1. refunded' = IF request[r].sent THEN [refunded EXCEPT ![u] = refunded[u] + 1] ELSE refunded
      BY DEF Undo
    <2>2. CASE request[r].sent
      BY <1>2, <1>4, <2>1, <2>2, TgTypes
    <2>3. CASE ~request[r].sent
      BY <1>2, <1>4, <2>1, <2>3, TgTypes
    <2> QED BY <2>2, <2>3
  <1> HIDE DEF u
  <1>7. HandMoves(r, u, x, 0, n, log[u])
    <2>1. /\ replies' \in [Updates -> Nat] /\ log' \in [Updates -> LogStates]
          /\ replies'[u] = replies[u] + 0 /\ log'[u] = log[u]
      BY <1>1, <1>2, TgTypes
    <2> QED BY <1>1, <1>5, <1>6, <2>1 DEF HandMoves
  <1>8. LeavesOrder(u, x, log[u])
    <2>1. u \notin blind => /\ replies'[u] = IF x.sent THEN 1 ELSE 0
                            /\ refunded'[u] = replies'[u]
      BY <1>1, <1>2, <1>4, <1>5, <1>6
    <2> QED BY <1>2, <1>5, <2>1 DEF LeavesOrder
  <1>9. StepBooks(request[r], x, 0, n)
    <2>1. /\ Holds(request[r]) <=> ~request[r].sent
          /\ Owes(request[r]) <=> request[r].sent
          /\ ~Holds(x) /\ ~Owes(x)
      BY <1>1, <1>5 DEF Holds, Owes
    <2>2. used' \in Nat /\ used' <= ReplyLimit /\ used = used' + 1 /\ leaked' = leaked
      BY <1>1, <1>2, <1>3
    <2>3. n + (IF Holds(request[r]) THEN 1 ELSE 0) = 1 /\ n = (IF Owes(request[r]) THEN 1 ELSE 0)
      BY <1>4, <2>1
    <2>4. PICK i \in {0, 1} : i = (IF Holds(request[r]) THEN 1 ELSE 0)
      OBVIOUS
    <2> QED BY <1>2, <2>1, <2>2, <2>3, <2>4 DEF StepBooks
  <1>10. Knows(x) /\ Past(x)
    BY <1>2, <1>5 DEF Knows, Past
  <1> QED BY <1>2, <1>5, <1>7, <1>8, <1>9, <1>10, HandOverKeeps

\* The log says FAILED of what was refunded, or the row went with the bot.
LEMMA RecordFailedKeeps == ASSUME TgInv, NEW r \in Requests, RecordFailed(r) PROVE TgInv'
  <1> DEFINE u == Update(r)
  <1>1. /\ request[r].at = "failed"
        /\ UNCHANGED <<claimed, used, replies, blind, silent, refunded>>
        /\ UNCHANGED <<connected, verified, automation, delivered, edits>>
    BY DEF RecordFailed, At, Rows
  <1>2. /\ u \in Updates /\ Handles(r, u) /\ Knows(request[r]) /\ log[u] \in LogStates
        /\ u \notin blind => /\ log[u] \in {"none", "gone", "PENDING"}
                             /\ replies[u] = (IF request[r].sent THEN 1 ELSE 0)
                             /\ refunded[u] = replies[u]
        /\ used \in Nat /\ used <= ReplyLimit /\ leaked \in Nat
    BY <1>1, HandFacts, TgTypes
  <1>3. PICK row \in LogStates :
           /\ request' = [request EXCEPT ![r] = NoRequest] /\ leaked' = leaked
           /\ \/ /\ log' = [log EXCEPT ![u] = row] /\ row = "FAILED"
                 /\ acked' = acked \cup {u} /\ interrupted' = interrupted
              \/ /\ log' = log /\ row = log[u] /\ row = "gone"
                 /\ acked' = acked /\ interrupted' = interrupted \cup {u}
    <2>1. CASE log[u] # "gone"
      BY <2>1 DEF RecordFailed, Acks, Done, LogStates
    <2>2. CASE log[u] = "gone"
      <3>1. leaked' = leaked + 0
        BY <2>2 DEF RecordFailed, Throws
      <3> QED BY <1>2, <2>2, <3>1 DEF RecordFailed, Throws, Done
    <2> QED BY <2>1, <2>2
  <1> HIDE DEF u
  <1>4. HandMoves(r, u, NoRequest, 0, 0, row)
    BY <1>1, <1>2, <1>3, RowMoves
  <1>5. LeavesOrder(u, NoRequest, row)
    BY <1>1, <1>2, <1>3, NoRequestFacts DEF LeavesOrder
  <1>6. StepBooks(request[r], NoRequest, 0, 0)
    BY <1>1, <1>2, <1>3, NoRequestFacts DEF StepBooks, Holds, Owes
  <1> QED BY <1>2, <1>4, <1>5, <1>6, NoRequestFacts, HandOverKeeps

\* A request that has not passed the claim, and does not with this step: what it
\* acknowledges is known to Redis or called for no answer.
LEMMA OutsideKeeps ==
    ASSUME TgInv, NEW r \in Requests, request[r].at \in {"idle", "claim"},
           NEW x \in RequestStates, Knows(x), x.at \in {"idle", "claim"},
           request' = [request EXCEPT ![r] = x],
           UNCHANGED <<connected, verified, automation, edits, claimed, used, log, replies, blind,
                       refunded, leaked>>,
           delivered' \in [Updates -> 0 .. MaxDeliveries],
           acked \subseteq acked', acked' \subseteq Updates,
           silent \subseteq silent', silent' \subseteq Updates,
           interrupted \subseteq interrupted', interrupted' \subseteq Updates,
           \A u \in acked' : u \in acked \cup claimed \cup silent'
    PROVE  TgInv'
  <1>1. /\ request' \in [Requests -> RequestStates] /\ request'[r] = x
        /\ \A q \in Requests \ {r} : request'[q] = request[q]
    BY TgTypes
  <1>2. /\ \A q \in Requests, v \in Updates : Handles(q, v)' <=> Handles(q, v)
        /\ \A q \in Requests, v \in Updates : Handles(q, v) => request'[q] = request[q]
    BY <1>1 DEF Handles, Past, Update
  <1>3. Holders' = Holders /\ \A v : Owed(v)' = Owed(v)
    BY <1>1 DEF Holders, Owed, Owes, Update
  <1>4. TgTypeOK'
    BY <1>1 DEF TgInv, TgTypeOK, RequestStates
  <1>5. AutomationsFit'
    BY DEF TgInv, AutomationsFit
  <1>6. RequestsKnow'
    <2> SUFFICES ASSUME NEW q \in Requests PROVE Knows(request'[q])
      BY DEF RequestsKnow, Knows
    <2> QED BY <1>1, TgTypes
  <1>7. OneHand'
    BY <1>2 DEF TgInv, OneHand
  <1>8. EndsAreKnown'
    <2> SUFFICES ASSUME NEW v \in claimed' \cup acked'
                 PROVE  HasEnded(v)' \/ \E q \in Requests : Handles(q, v)'
      BY DEF EndsAreKnown
    <2>1. v \in Updates
      BY DEF TgInv, TgTypeOK
    <2>2. CASE v \in silent'
      BY <2>2 DEF HasEnded
    <2>3. CASE v \in claimed \cup acked
      <3>1. HasEnded(v) \/ \E q \in Requests : Handles(q, v)
        BY <2>3 DEF TgInv, EndsAreKnown
      <3> QED BY <1>2, <2>1, <3>1 DEF HasEnded
    <2> QED BY <2>2, <2>3
  <1>9. RefundsWereSent'
    BY <1>3 DEF TgInv, RefundsWereSent
  <1>10. RepliesAreCounted'
    <2>1. BooksAgree'
      BY <1>3, BooksAreSums DEF TgInv, BooksAgree
    <2> QED BY <2>1, BooksAreSumsNext
  <1>11. RepliesAreSentOnce' /\ TheLogTellsTheTruth'
    BY DEF TgInv, RepliesAreSentOnce, TheLogTellsTheTruth
  <1> QED BY <1>4, <1>5, <1>6, <1>7, <1>8, <1>9, <1>10, <1>11 DEF TgInv

\* A request that dies is known to have died, with the reservation it held.
LEMMA DiesKeeps == ASSUME TgInv, NEW r \in Requests, TgDies(r) PROVE TgInv'
  <1> DEFINE u == Update(r)
  <1>1. /\ request[r].at # "idle" /\ request' = [request EXCEPT ![r] = NoRequest]
        /\ interrupted' = interrupted \cup {u}
        /\ leaked' = leaked + (IF Holds(request[r]) THEN 1 ELSE 0)
        /\ UNCHANGED <<claimed, used, log, acked, replies, blind, silent, refunded>>
        /\ UNCHANGED <<connected, verified, automation, delivered, edits>>
    BY DEF TgDies, At, Rows, Throws, Done, Holds
  <1>2. u \in Updates /\ leaked \in Nat /\ used \in Nat /\ used <= ReplyLimit
    BY <1>1, TgTypes DEF Knows, Update
  <1>3. CASE request[r].at = "claim"
    <2>1. leaked' = leaked
      BY <1>1, <1>2, <1>3 DEF Holds
    <2>2. /\ delivered' \in [Updates -> 0 .. MaxDeliveries] /\ acked' \subseteq Updates
          /\ silent' \subseteq Updates /\ interrupted' \subseteq Updates
      BY <1>1, <1>2 DEF TgInv, TgTypeOK
    <2> HIDE DEF u
    <2> QED BY <1>1, <1>3, <2>1, <2>2, NoRequestFacts, OutsideKeeps
  <1>4. CASE request[r].at # "claim"
    <2>1. /\ Handles(r, u) /\ Knows(request[r]) /\ log[u] \in LogStates
          /\ u \notin blind => /\ log[u] \in {"none", "gone", "PENDING"}
                               /\ replies[u] = IF request[r].sent THEN 1 ELSE 0
      BY <1>1, <1>4, HandFacts
    <2> HIDE DEF u
    <2>2. HandMoves(r, u, NoRequest, 0, 0, log[u])
      BY <1>1, <1>2, <2>1, RowMoves
    <2>3. LeavesOrder(u, NoRequest, log[u])
      BY <1>1, <1>2, <2>1, NoRequestFacts DEF LeavesOrder
    <2>4. StepBooks(request[r], NoRequest, 0, 0)
      <3>1. PICK i \in {0, 1} : i = (IF Holds(request[r]) THEN 1 ELSE 0)
        OBVIOUS
      <3>2. leaked' = leaked + i /\ leaked' \in Nat /\ used' = used
        BY <1>1, <1>2, <3>1
      <3>3. used' + 0 + leaked + i = used + 0 + leaked' + 0
        BY <1>2, <3>2
      <3>4. 0 <= 0 + (IF Owes(request[r]) THEN 1 ELSE 0)
        OBVIOUS
      <3> QED BY <1>2, <3>1, <3>2, <3>3, <3>4, NoRequestFacts DEF StepBooks
    <2> QED BY <1>2, <2>1, <2>2, <2>3, <2>4, NoRequestFacts, HandOverKeeps
  <1> QED BY <1>3, <1>4

\* A delivery is acknowledged at once, or a request begins.
LEMMA ArriveKeeps == ASSUME TgInv, NEW r \in Requests, NEW u \in Updates, TgArrive(r, u) PROVE TgInv'
  <1>1. /\ request[r].at = "idle"
        /\ delivered[u] < MaxDeliveries /\ delivered' = [delivered EXCEPT ![u] = delivered[u] + 1]
        /\ UNCHANGED <<connected, verified, automation, claimed, used, log, replies, edits, blind,
                       interrupted, refunded, leaked>>
    BY DEF TgArrive, At
  <1>2. PICK y \in RequestStates : y = request[r]
    BY TgTypes
  <1>3. request = [request EXCEPT ![r] = y] /\ Knows(y)
    BY <1>2, TgTypes
  <1>4. PICK x \in RequestStates :
           /\ request' = [request EXCEPT ![r] = x] /\ Knows(x) /\ x.at \in {"idle", "claim"}
           /\ acked' = acked \/ (acked' = acked \cup {u} /\ u \in silent')
           /\ silent' = silent \/ silent' = silent \cup {u}
    <2>1. CASE connected /\ verified
      <3>1. /\ request' = [request EXCEPT ![r] = [NoRequest EXCEPT !.at = "claim", !.update = u]]
            /\ acked' = acked /\ silent' = silent
        BY <2>1 DEF TgArrive
      <3>2. [NoRequest EXCEPT !.at = "claim", !.update = u]
              = [at |-> "claim", update |-> u, automation |-> 0, sent |-> FALSE]
        <4>1. PICK z \in RequestStates : z = NoRequest
          BY NoRequestFacts
        <4>2. z.automation = 0 /\ z.sent = FALSE
          BY <4>1 DEF NoRequest
        <4>3. [z EXCEPT !.at = "claim"]
                = [at |-> "claim", update |-> z.update, automation |-> z.automation, sent |-> z.sent]
          BY DEF RequestStates
        <4>4. [[at |-> "claim", update |-> z.update, automation |-> z.automation, sent |-> z.sent]
                 EXCEPT !.update = u]
                = [at |-> "claim", update |-> u, automation |-> z.automation, sent |-> z.sent]
          OBVIOUS
        <4> QED BY <4>1, <4>2, <4>3, <4>4
      <3>3. [at |-> "claim", update |-> u, automation |-> 0, sent |-> FALSE] \in RequestStates
        BY TelegramAssumption DEF RequestStates
      <3> QED BY <3>1, <3>2, <3>3 DEF Knows
    <2>2. CASE ~(connected /\ verified)
      <3>1. /\ request' = request
            /\ acked' = acked \/ (acked' = acked \cup {u} /\ u \in silent')
            /\ silent' = silent \/ silent' = silent \cup {u}
        BY <2>2 DEF TgArrive
      <3> QED BY <1>1, <1>2, <1>3, <3>1
    <2> QED BY <2>1, <2>2
  <1>5. delivered' \in [Updates -> 0 .. MaxDeliveries]
    <2>1. delivered \in [Updates -> 0 .. MaxDeliveries] /\ MaxDeliveries \in Nat
      BY TelegramAssumption DEF TgInv, TgTypeOK
    <2>2. delivered[u] + 1 \in 0 .. MaxDeliveries
      BY <1>1, <2>1
    <2> QED BY <1>1, <2>1, <2>2
  <1>6. /\ acked \subseteq acked' /\ acked' \subseteq Updates
        /\ silent \subseteq silent' /\ silent' \subseteq Updates
        /\ interrupted \subseteq interrupted' /\ interrupted' \subseteq Updates
        /\ \A v \in acked' : v \in acked \cup claimed \cup silent'
    BY <1>1, <1>4 DEF TgInv, TgTypeOK
  <1> QED BY <1>1, <1>4, <1>5, <1>6, OutsideKeeps

\* The claim: whoever passes it for an update that Redis knew of is the first one.
LEMMA ClaimKeeps == ASSUME TgInv, NEW r \in Requests, NEW up \in BOOLEAN, TgClaim(r, up) PROVE TgInv'
  <1> DEFINE u == Update(r)
  <1>1. /\ request[r].at = "claim"
        /\ UNCHANGED <<used, log, replies, silent, interrupted, refunded, leaked>>
        /\ UNCHANGED <<connected, verified, automation, delivered, edits>>
        /\ claimed' = IF up THEN claimed \cup {u} ELSE claimed
        /\ blind' = IF up THEN blind ELSE blind \cup {u}
    BY DEF TgClaim, At, Rows
  <1>2. u \in Updates /\ Knows(request[r]) /\ ~request[r].sent
    BY <1>1, TgTypes DEF Knows, Update
  <1>3. CASE up /\ u \in claimed
    <2>1. /\ request' = [request EXCEPT ![r] = NoRequest] /\ acked' = acked \cup {u}
          /\ claimed' = claimed /\ blind' = blind
      BY <1>1, <1>3 DEF TgClaim, Acks, Done
    <2>2. /\ delivered' \in [Updates -> 0 .. MaxDeliveries] /\ acked' \subseteq Updates
          /\ silent' \subseteq Updates /\ interrupted' \subseteq Updates
          /\ \A v \in acked' : v \in acked \cup claimed \cup silent'
      BY <1>1, <1>2, <1>3, <2>1 DEF TgInv, TgTypeOK
    <2> HIDE DEF u
    <2> QED BY <1>1, <2>1, <2>2, NoRequestFacts, OutsideKeeps
  <1>4. CASE ~(up /\ u \in claimed)
    <2>1. To(r, "match") /\ acked' = acked
      BY <1>4 DEF TgClaim
    <2>2. PICK x \in RequestStates : /\ request' = [request EXCEPT ![r] = x]
                                     /\ x.at = "match" /\ x.update = u /\ x.sent = request[r].sent
      BY <2>1, MovesOn
    <2>3. \/ /\ u \notin claimed /\ claimed' = claimed \cup {u} /\ blind' = blind
          \/ /\ claimed' = claimed /\ blind' = blind \cup {u}
      BY <1>1, <1>4
    <2>4. Update(r) = u
      OBVIOUS
    <2> HIDE DEF u
    <2>5. /\ request' \in [Requests -> RequestStates] /\ request'[r] = x
          /\ \A q \in Requests \ {r} : request'[q] = request[q]
      BY <2>2, TgTypes
    <2>6. /\ \A q \in Requests \ {r}, v \in Updates : Handles(q, v)' <=> Handles(q, v)
          /\ \A v \in Updates : ~Handles(r, v) /\ (Handles(r, v)' <=> v = u)
      BY <1>1, <2>2, <2>4, <2>5 DEF Handles, Past, Update
    <2>7. Holders' = Holders /\ \A v : Owed(v)' = Owed(v)
      BY <1>1, <2>2, <2>5 DEF Holders, Owed, Owes, Update
    <2>8. TgTypeOK'
      BY <1>1, <1>2, <2>1, <2>3, <2>5 DEF TgInv, TgTypeOK, RequestStates
    <2>9. AutomationsFit'
      BY <1>1 DEF TgInv, AutomationsFit
    <2>10. RequestsKnow'
      <3>1. Knows(x)
        BY <1>2, <2>2 DEF Knows
      <3> SUFFICES ASSUME NEW q \in Requests PROVE Knows(request'[q])
        BY DEF RequestsKnow, Knows
      <3> QED BY <2>5, <3>1, TgTypes
    <2>11. OneHand'
      <3> SUFFICES ASSUME NEW v \in Updates, v \notin blind'
                   PROVE  /\ \A p, q \in Requests : Handles(p, v)' /\ Handles(q, v)' => p = q
                          /\ v \notin claimed' => replies'[v] = 0 /\ refunded'[v] = 0 /\ log'[v] = "none"
                          /\ \A q \in Requests : Handles(q, v)' =>
                                /\ v \in claimed'
                                /\ log'[v] \in {"none", "gone", "PENDING"}
                                /\ replies'[v] = IF request'[q].sent THEN 1 ELSE 0
                                /\ refunded'[v] = IF request'[q].at = "failed" THEN replies'[v] ELSE 0
        BY DEF OneHand
      <3>1. /\ v \notin blind
            /\ \A p, q \in Requests : Handles(p, v) /\ Handles(q, v) => p = q
            /\ v \notin claimed => replies[v] = 0 /\ refunded[v] = 0 /\ log[v] = "none"
            /\ \A q \in Requests : Handles(q, v) =>
                  /\ v \in claimed
                  /\ log[v] \in {"none", "gone", "PENDING"}
                  /\ replies[v] = IF request[q].sent THEN 1 ELSE 0
                  /\ refunded[v] = IF request[q].at = "failed" THEN replies[v] ELSE 0
        BY <2>3 DEF TgInv, OneHand
      <3>2. CASE v = u
        <4>1. u \notin claimed /\ u \in claimed'
          BY <2>3, <3>2
        <4>2. \A q \in Requests : Handles(q, v)' => q = r
          BY <2>6, <3>1, <3>2, <4>1
        <4> QED BY <1>1, <1>2, <2>2, <2>5, <3>1, <3>2, <4>1, <4>2
      <3>3. CASE v # u
        <4>1. \A q \in Requests : Handles(q, v)' => q # r /\ Handles(q, v)
          BY <2>6, <3>3
        <4> QED BY <1>1, <2>3, <2>5, <3>1, <3>3, <4>1
      <3> QED BY <3>2, <3>3
    <2>12. EndsAreKnown'
      <3> SUFFICES ASSUME NEW v \in claimed' \cup acked'
                   PROVE  HasEnded(v)' \/ \E q \in Requests : Handles(q, v)'
        BY DEF EndsAreKnown
      <3>1. v \in Updates
        BY <2>8 DEF TgTypeOK
      <3>2. CASE v = u
        BY <2>6, <3>1, <3>2
      <3>3. CASE v # u
        <4>1. v \in claimed \cup acked
          BY <2>1, <2>3, <3>3
        <4>2. HasEnded(v) \/ \E q \in Requests : Handles(q, v)
          BY <4>1 DEF TgInv, EndsAreKnown
        <4> QED BY <1>1, <2>6, <3>1, <4>2 DEF HasEnded
      <3> QED BY <3>2, <3>3
    <2>13. RefundsWereSent'
      BY <1>1, <2>7 DEF TgInv, RefundsWereSent
    <2>14. RepliesAreCounted'
      <3>1. BooksAgree'
        BY <1>1, <2>7, BooksAreSums DEF TgInv, BooksAgree
      <3> QED BY <3>1, BooksAreSumsNext
    <2>15. RepliesAreSentOnce' /\ TheLogTellsTheTruth'
      BY <1>1, <2>3 DEF TgInv, RepliesAreSentOnce, TheLogTellsTheTruth
    <2> QED BY <2>8, <2>9, <2>10, <2>11, <2>12, <2>13, <2>14, <2>15 DEF TgInv
  <1> QED BY <1>3, <1>4

-----------------------------------------------------------------------------
(* Telegram: the workspace's edits, and the theorem                        *)

\* Whatever the workspace does to its automations and its bot: rows that go leave
\* nothing unexplained.
LEMMA EditKeeps ==
    ASSUME TgInv, WebhookQuiet,
           connected' \in BOOLEAN, verified' \in BOOLEAN, edits' \in 0 .. MaxEdits,
           automation' \in [Automations -> AutomationStates],
           \A a \in Automations : automation'[a].exists => connected' /\ automation'[a].words # {},
           log' \in [Updates -> LogStates],
           \A u \in Updates : log'[u] = log[u] \/ (log[u] # "none" /\ log'[u] = "gone")
    PROVE  TgInv'
  <1>1. /\ UNCHANGED <<claimed, used, request, delivered, acked>>
        /\ UNCHANGED <<replies, blind, silent, interrupted, refunded, leaked>>
    BY DEF WebhookQuiet
  <1>2. /\ \A q \in Requests, v \in Updates : Handles(q, v)' <=> Handles(q, v)
        /\ claimed \cup acked \subseteq Updates
    BY <1>1 DEF Handles, Past, Update, TgInv, TgTypeOK
  <1>3. TgTypeOK'
    <2>1. \A a \in Automations : automation'[a].words \subseteq Words
      BY DEF AutomationStates
    <2>2. log' \in [Updates -> {"none", "gone", "PENDING", "SENT", "FAILED", "SKIPPED_PLAN_LIMIT"}]
      BY DEF LogStates
    <2> QED BY <1>1, <2>1, <2>2 DEF TgInv, TgTypeOK
  <1>4. AutomationsFit'
    BY DEF AutomationsFit
  <1>5. RequestsKnow'
    BY <1>1 DEF TgInv, RequestsKnow, Knows
  <1>6. OneHand'
    <2> SUFFICES ASSUME NEW u \in Updates, u \notin blind'
                 PROVE  /\ \A q, r \in Requests : Handles(q, u)' /\ Handles(r, u)' => q = r
                        /\ u \notin claimed' => replies'[u] = 0 /\ refunded'[u] = 0 /\ log'[u] = "none"
                        /\ \A r \in Requests : Handles(r, u)' =>
                              /\ u \in claimed'
                              /\ log'[u] \in {"none", "gone", "PENDING"}
                              /\ replies'[u] = IF request'[r].sent THEN 1 ELSE 0
                              /\ refunded'[u] = IF request'[r].at = "failed" THEN replies'[u] ELSE 0
      BY DEF OneHand
    <2>1. u \notin blind
      BY <1>1
    <2>2. \A q, r \in Requests : Handles(q, u)' /\ Handles(r, u)' => q = r
      BY <1>2, <2>1 DEF TgInv, OneHand
    <2>3. u \notin claimed' => replies'[u] = 0 /\ refunded'[u] = 0 /\ log'[u] = "none"
      BY <1>1, <2>1 DEF TgInv, OneHand
    <2>4. ASSUME NEW r \in Requests, Handles(r, u)'
          PROVE  /\ u \in claimed'
                 /\ log'[u] \in {"none", "gone", "PENDING"}
                 /\ replies'[u] = IF request'[r].sent THEN 1 ELSE 0
                 /\ refunded'[u] = IF request'[r].at = "failed" THEN replies'[u] ELSE 0
      BY <1>1, <1>2, <2>1, <2>4 DEF TgInv, OneHand
    <2> QED BY <2>2, <2>3, <2>4
  <1>7. EndsAreKnown'
    <2> SUFFICES ASSUME NEW v \in claimed' \cup acked'
                 PROVE  HasEnded(v)' \/ \E q \in Requests : Handles(q, v)'
      BY DEF EndsAreKnown
    <2>1. v \in Updates /\ (HasEnded(v) \/ \E q \in Requests : Handles(q, v))
      BY <1>1, <1>2 DEF TgInv, EndsAreKnown
    <2>2. HasEnded(v) => HasEnded(v)'
      BY <1>1, <2>1 DEF HasEnded
    <2> QED BY <1>2, <2>1, <2>2
  <1>8. RefundsWereSent'
    <2>1. \A v : Owed(v)' = Owed(v)
      BY <1>1 DEF Owed, Owes, Update
    <2> QED BY <1>1, <2>1 DEF TgInv, RefundsWereSent
  <1>9. RepliesAreSentOnce' /\ TheLogTellsTheTruth'
    BY <1>1 DEF TgInv, RepliesAreSentOnce, TheLogTellsTheTruth
  <1>10. RepliesAreCounted'
    <2>1. Holders' = Holders
      BY <1>1 DEF Holders
    <2>2. BooksAgree'
      BY <1>1, <2>1, BooksAreSums DEF TgInv, BooksAgree
    <2> QED BY <2>2, BooksAreSumsNext
  <1> QED BY <1>3, <1>4, <1>5, <1>6, <1>7, <1>8, <1>9, <1>10 DEF TgInv

\* What the edits have in common.
LEMMA EditTypes ==
    ASSUME TgInv, Edit
    PROVE  /\ edits' \in 0 .. MaxEdits /\ connected \in BOOLEAN /\ verified \in BOOLEAN
           /\ automation \in [Automations -> AutomationStates] /\ log \in [Updates -> LogStates]
           /\ \A a \in Automations : automation[a].exists => connected /\ automation[a].words # {}
  <1>1. edits \in 0 .. MaxEdits /\ MaxEdits \in Nat /\ edits < MaxEdits /\ edits' = edits + 1
    BY TelegramAssumption DEF TgInv, TgTypeOK, Edit
  <1>2. edits' \in 0 .. MaxEdits
    BY <1>1
  <1> QED BY <1>2, TgTypes DEF TgInv, TgTypeOK, AutomationsFit

\* A new automation has words, and its bot is connected.
LEMMA CreateKeeps ==
    ASSUME TgInv, NEW a \in Automations, NEW words \in SUBSET Words, CreateAutomation(a, words)
    PROVE  TgInv'
  <1>1. /\ Edit /\ WebhookQuiet /\ connected /\ words # {}
        /\ automation' = [automation EXCEPT ![a] = [exists |-> TRUE, active |-> TRUE, words |-> words]]
        /\ UNCHANGED <<connected, verified, log>>
    BY DEF CreateAutomation
  <1>2. [exists |-> TRUE, active |-> TRUE, words |-> words] \in AutomationStates
    BY DEF AutomationStates
  <1>3. /\ automation' \in [Automations -> AutomationStates]
        /\ \A b \in Automations : automation'[b].exists => connected' /\ automation'[b].words # {}
    BY <1>1, <1>2, EditTypes
  <1> QED BY <1>1, <1>3, EditTypes, EditKeeps

\* A changed automation keeps words.
LEMMA PatchKeeps ==
    ASSUME TgInv, NEW a \in Automations, NEW active \in BOOLEAN, NEW words \in SUBSET Words,
           PatchAutomation(a, active, words)
    PROVE  TgInv'
  <1>1. /\ Edit /\ WebhookQuiet /\ words # {} /\ automation[a].exists
        /\ automation' = [automation EXCEPT ![a].active = active, ![a].words = words]
        /\ UNCHANGED <<connected, verified, log>>
    BY DEF PatchAutomation
  <1>2. PICK y \in AutomationStates : y = automation[a]
    BY <1>1, EditTypes
  <1>3. PICK x \in AutomationStates : x = [exists |-> y.exists, active |-> active, words |-> words]
    BY DEF AutomationStates
  <1>4. automation' = [automation EXCEPT ![a] = x]
    <2>1. automation' = [automation EXCEPT ![a] = [[y EXCEPT !.active = active] EXCEPT !.words = words]]
      BY <1>1, <1>2, EditTypes
    <2>2. [y EXCEPT !.active = active] = [exists |-> y.exists, active |-> active, words |-> y.words]
      BY DEF AutomationStates
    <2>3. [[exists |-> y.exists, active |-> active, words |-> y.words] EXCEPT !.words = words]
            = [exists |-> y.exists, active |-> active, words |-> words]
      OBVIOUS
    <2> QED BY <1>3, <2>1, <2>2, <2>3
  <1>5. /\ automation' \in [Automations -> AutomationStates]
        /\ \A b \in Automations : automation'[b].exists => connected' /\ automation'[b].words # {}
    <2>1. x.exists => connected /\ x.words # {}
      BY <1>1, <1>3, EditTypes
    <2> QED BY <1>1, <1>4, <2>1, EditTypes
  <1> QED BY <1>1, <1>5, EditTypes, EditKeeps

\* An automation that goes leaves its rows.
LEMMA DeleteKeeps == ASSUME TgInv, NEW a \in Automations, DeleteAutomation(a) PROVE TgInv'
  <1>1. /\ Edit /\ WebhookQuiet /\ automation' = [automation EXCEPT ![a] = NoAutomation]
        /\ UNCHANGED <<connected, verified, log>>
    BY DEF DeleteAutomation
  <1>2. NoAutomation \in AutomationStates /\ ~NoAutomation.exists
    BY DEF AutomationStates, NoAutomation
  <1>3. /\ automation' \in [Automations -> AutomationStates]
        /\ \A b \in Automations : automation'[b].exists => connected' /\ automation'[b].words # {}
    BY <1>1, <1>2, EditTypes
  <1> QED BY <1>1, <1>3, EditTypes, EditKeeps

\* The rows that go with the bot were written before.
LEMMA DisconnectBotKeeps == ASSUME TgInv, DisconnectBot PROVE TgInv'
  <1>1. /\ Edit /\ WebhookQuiet /\ connected' = FALSE /\ verified' = verified
        /\ automation' = [a \in Automations |-> NoAutomation]
        /\ log' = [u \in Updates |-> IF log[u] = "none" THEN "none" ELSE "gone"]
    BY DEF DisconnectBot
  <1>2. NoAutomation \in AutomationStates /\ ~NoAutomation.exists
    BY DEF AutomationStates, NoAutomation
  <1>3. /\ automation' \in [Automations -> AutomationStates]
        /\ \A b \in Automations : automation'[b].exists => connected' /\ automation'[b].words # {}
    BY <1>1, <1>2
  <1>4. /\ log' \in [Updates -> LogStates]
        /\ \A u \in Updates : log'[u] = log[u] \/ (log[u] # "none" /\ log'[u] = "gone")
    BY <1>1 DEF LogStates
  <1> QED BY <1>1, <1>3, <1>4, EditTypes, EditKeeps

\* The verified phone changes only who is answered from here on.
LEMMA VerifyKeeps == ASSUME TgInv, VerifyOwner PROVE TgInv'
  <1>1. Edit /\ WebhookQuiet /\ verified' = TRUE /\ UNCHANGED <<connected, automation, log>>
    BY DEF VerifyOwner
  <1> QED BY <1>1, EditTypes, EditKeeps

\* A step of others.
LEMMA TgStaysPut == ASSUME TgInv, UNCHANGED tgVars PROVE TgInv'
  <1>1. /\ UNCHANGED <<connected, verified, automation, log, edits>> /\ WebhookQuiet
    BY DEF tgVars, WebhookQuiet
  <1>2. /\ edits \in 0 .. MaxEdits /\ connected \in BOOLEAN /\ verified \in BOOLEAN
        /\ automation \in [Automations -> AutomationStates] /\ log \in [Updates -> LogStates]
        /\ \A a \in Automations : automation[a].exists => connected /\ automation[a].words # {}
    BY TgTypes DEF TgInv, TgTypeOK, AutomationsFit
  <1> QED BY <1>1, <1>2, EditKeeps

\* At first nothing was claimed, sent or reserved.
LEMMA TgStarts == TgInit => TgInv
  <1> SUFFICES ASSUME TgInit PROVE TgInv
    OBVIOUS
  <1>1. /\ \A a \in Automations : automation[a] = NoAutomation
        /\ automation = [a \in Automations |-> NoAutomation]
        /\ request = [r \in Requests |-> NoRequest]
        /\ replies = [u \in Updates |-> 0] /\ refunded = [u \in Updates |-> 0]
        /\ log = [u \in Updates |-> "none"] /\ claimed = {} /\ acked = {}
        /\ used = 0 /\ leaked = 0 /\ edits = 0
    BY DEF TgInit
  <1>2. \A r \in Requests : request[r] = NoRequest
    BY <1>1
  <1>3. TgTypeOK
    <2>1. NoRequest \in RequestStates
      BY NoRequestFacts
    <2>2. request \in [Requests -> [at : {"idle", "claim", "match", "reserve", "skip", "log", "send",
                                          "record", "undo", "failed"},
                                    update : Updates \cup {"none"}, automation : 0..MaxAutomations,
                                    sent : BOOLEAN]]
      BY <1>1, <2>1 DEF RequestStates
    <2>3. \A a \in Automations : automation[a].words = {} /\ ~automation[a].exists
      BY <1>1 DEF NoAutomation
    <2>4. used \in 0 .. ReplyLimit /\ edits \in 0 .. MaxEdits /\ leaked \in Nat
      BY <1>1, TelegramAssumption
    <2>5. /\ delivered \in [Updates -> 0 .. MaxDeliveries]
          /\ replies \in [Updates -> Nat] /\ refunded \in [Updates -> Nat]
      BY <1>1, TelegramAssumption DEF TgInit
    <2> QED BY <1>1, <2>2, <2>3, <2>4, <2>5 DEF TgInit, TgTypeOK
  <1>4. AutomationsFit
    BY <1>1 DEF AutomationsFit, AutomationStates, NoAutomation
  <1>5. RequestsKnow
    BY <1>2 DEF RequestsKnow, Knows, NoRequest
  <1>6. \A r \in Requests, u \in Updates : ~Handles(r, u)
    BY <1>2 DEF Handles, Past, NoRequest
  <1>7. OneHand /\ EndsAreKnown
    BY <1>1, <1>6 DEF OneHand, EndsAreKnown
  <1>8. /\ Holders = {} /\ \A u : Owed(u) = {}
    BY <1>2 DEF Holders, Owed, Owes, NoRequest
  <1>9. RefundsWereSent
    <2>1. Cardinality({}) = 0
      BY FS_EmptySet
    <2> QED BY <1>1, <1>8, <2>1 DEF RefundsWereSent
  <1>10. RepliesAreCounted
    <2>1. Cardinality({}) = 0
      BY FS_EmptySet
    <2>2. SumOver(replies, Updates) = 0 /\ SumOver(refunded, Updates) = 0
      BY <1>1, SumOfZeros, TelegramAssumption
    <2>3. BooksAgree
      BY <1>1, <1>8, <2>1, <2>2 DEF BooksAgree
    <2> QED BY <2>3, BooksAreSums
  <1>11. RepliesAreSentOnce /\ TheLogTellsTheTruth
    BY <1>1 DEF RepliesAreSentOnce, TheLogTellsTheTruth
  <1> QED BY <1>3, <1>4, <1>5, <1>7, <1>9, <1>10, <1>11 DEF TgInv

\* The invariant is inductive.
LEMMA TgInvariant == TgSpec => []TgInv
  <1>1. ASSUME TgInv, [TgNext]_tgVars PROVE TgInv'
    <2>1. CASE UNCHANGED tgVars
      BY <1>1, <2>1, TgStaysPut
    <2>2. ASSUME NEW a \in Automations, NEW words \in SUBSET Words, CreateAutomation(a, words)
          PROVE  TgInv'
      BY <1>1, <2>2, CreateKeeps
    <2>3. ASSUME NEW a \in Automations, NEW words \in SUBSET Words, NEW active \in BOOLEAN,
                 PatchAutomation(a, active, words)
          PROVE  TgInv'
      BY <1>1, <2>3, PatchKeeps
    <2>4. ASSUME NEW a \in Automations, DeleteAutomation(a) PROVE TgInv'
      BY <1>1, <2>4, DeleteKeeps
    <2>5. CASE DisconnectBot \/ VerifyOwner
      BY <1>1, <2>5, DisconnectBotKeeps, VerifyKeeps
    <2>6. ASSUME NEW r \in Requests, NEW u \in Updates, TgArrive(r, u) PROVE TgInv'
      BY <1>1, <2>6, ArriveKeeps
    <2>7. ASSUME NEW r \in Requests, NEW up \in BOOLEAN, TgClaim(r, up) \/ RecordReply(r, up)
          PROVE  TgInv'
      BY <1>1, <2>7, ClaimKeeps, RecordReplyKeeps
    <2>8. ASSUME NEW r \in Requests, NEW sent \in BOOLEAN, NEW answered \in BOOLEAN,
                 SendReply(r, sent, answered)
          PROVE  TgInv'
      BY <1>1, <2>8, SendReplyKeeps
    <2>9. ASSUME NEW r \in Requests,
                 \/ TgMatch(r) \/ TgReserve(r) \/ LogSkip(r) \/ LogPending(r)
                 \/ Undo(r) \/ RecordFailed(r) \/ TgDies(r)
          PROVE  TgInv'
      BY <1>1, <2>9, MatchKeeps, ReserveKeeps, LogSkipKeeps, LogPendingKeeps, UndoKeeps,
         RecordFailedKeeps, DiesKeeps
    <2> QED BY <1>1, <2>1, <2>2, <2>3, <2>4, <2>5, <2>6, <2>7, <2>8, <2>9 DEF TgNext
  <1> QED BY <1>1, TgStarts, PTL DEF TgSpec

\* An update that Telegram was told is handled, and that no request holds, has
\* come to its end.
LEMMA SilenceFollows == TgInv => SilenceIsExplained
  <1> SUFFICES ASSUME TgInv, NEW u \in Updates, Handled(u), replies[u] = 0
               PROVE  \/ u \in silent \cup interrupted
                      \/ log[u] \in {"FAILED", "SKIPPED_PLAN_LIMIT", "gone"}
    BY DEF SilenceIsExplained
  <1>1. u \in acked /\ ~\E r \in Requests : Handles(r, u)
    BY DEF Handled, Handles
  <1>2. HasEnded(u)
    BY <1>1 DEF TgInv, EndsAreKnown
  <1> QED BY <1>2 DEF HasEnded

\* A bot's updates, delivered again and again by Telegram and handled by any
\* number of requests that may die at any step: one reply unless Redis was away,
\* silence only with a reason, the allowance and the log agreeing with what was
\* sent (api/webhook/telegram/[botId]).
THEOREM RepliesHold == TgSpec => []RepliesAreSound
  <1>1. TgInv => RepliesAreSound
    BY SilenceFollows DEF TgInv, RepliesAreSound
  <1> QED BY <1>1, TgInvariant, PTL

-----------------------------------------------------------------------------
(* Connections: the invariant                                              *)

FlowStates   == [at : {"none", "open", "gone"}, client : Clients, ws : Workspaces \cup {Nowhere}]
ResultStates == [at : {"none", "stored", "gone"}, ig : Instagrams \cup {"none"}]
BotRows      == [ws : Workspaces \cup {Nowhere}, secret : 0 .. MaxSecrets]
Places       == {"idle", "authorize", "check", "new", "count", "upsert", "look", "homeCount",
                 "homeCreate", "signup", "bot", "webhook", "create", "unhook", "drop"}
VisitStates  == [at : Places,
                 flow : Flows \cup {"none"}, ig : Instagrams \cup {"none"},
                 bot : Bots \cup {"none"}, ws : AllWorkspaces \cup {Nowhere},
                 secret : 0 .. MaxSecrets, overtaken : BOOLEAN]

ForWorkspace == {"check", "new", "count", "upsert"}
ForPerson    == {"look", "homeCount", "homeCreate", "signup"}
ForBot       == {"bot", "webhook", "create", "unhook", "drop"}

\* A request x is about an account or a bot, and a workspace that connects it; who is
\* signed in to their home has signed up.
VisitFits(x, acc, lnk) ==
    /\ x.at \in {"authorize"} \cup ForWorkspace \cup ForPerson => x.flow \in Flows
    /\ x.at \in {"idle"} \cup ForBot => x.flow = "none"
    /\ x.at \in {"idle", "authorize"} => x.ig = "none"
    /\ x.at \in ForWorkspace \cup ForPerson => x.ig \in Instagrams
    /\ x.at \in ForWorkspace \cup {"bot", "webhook", "create"} => x.ws \in Workspaces
    /\ x.at \in ForBot => x.bot \in Bots /\ x.ig = "none"
    /\ x.at \in {"homeCount", "homeCreate"} => x.ig \in lnk
    \* A request nobody has overtaken found the account free, or in its workspace, and
    \* so it still is.
    /\ x.at \in {"new", "count", "upsert"} /\ ~x.overtaken => acc[x.ig] \in {Nowhere, x.ws}

\* A flow is in Redis, or with one request, or its result is in Redis, or it has led to
\* something.
FlowsAreInOnePlace ==
    \A f \in Flows :
        /\ flow[f].at # "gone" => /\ \A v \in Visits : visit[v].flow # f
                                  /\ result[f].at # "stored" /\ completed[f] = 0
        /\ flow[f].at # "none" /\ flow[f].client # "mobile-signup" => flow[f].ws \in Workspaces
        /\ result[f].at = "stored" => /\ \A v \in Visits : visit[v].flow # f
                                      /\ completed[f] = 0 /\ result[f].ig \in Instagrams
        /\ \A v \in Visits : visit[v].flow = f =>
              completed[f] = 0 /\ \A u \in Visits : visit[u].flow = f => u = v
        /\ completed[f] <= 1

\* The accounts and bots of a workspace, with those a request has found room for.
IgsOf(w)  == {i \in Instagrams :
                 /\ <<i, w>> \notin slipped
                 /\ \/ account[i] = w
                    \/ \E v \in Visits : /\ visit[v].at = "upsert" /\ ~visit[v].overtaken
                                         /\ visit[v].ig = i /\ visit[v].ws = w}
BotsOf(w) == {b \in Bots :
                 \/ bot[b].ws = w
                 \/ \E v \in Visits : /\ visit[v].at \in {"bot", "webhook", "create"}
                                      /\ visit[v].bot = b /\ visit[v].ws = w}
PlansHaveRoom ==
    \A w \in Workspaces :
        Cardinality(IgsOf(w)) + Cardinality(BotsOf(w)) <= AccountLimit + Cardinality(Visits) - 1

\* A bot that nobody has crossed: who is about to write its row knows the secret that
\* Telegram has; if the row knows another, a request is about to write it, or to drop it.
BotsAreHeard ==
    \A b \in Bots \ cut :
        /\ \A v \in Visits : visit[v].at = "create" /\ visit[v].bot = b => hook[b] = visit[v].secret
        /\ bot[b].ws # Nowhere /\ hook[b] # bot[b].secret =>
              \E v \in Visits : /\ visit[v].bot = b
                                /\ \/ visit[v].at = "create"
                                   \/ visit[v].at = "drop" /\ visit[v].secret = bot[b].secret

ConnectInv ==
    /\ ConnectTypeOK
    /\ \A v \in Visits : VisitFits(visit[v], account, linked)
    /\ FlowsAreInOnePlace /\ PlansHaveRoom /\ BotsAreHeard
    /\ FlowsStayWithTheirStarter

-----------------------------------------------------------------------------
(* Connections: the proof                                                  *)

\* The types, for the provers.
LEMMA ConnectTypes ==
    ASSUME ConnectTypeOK
    PROVE  /\ flow \in [Flows -> FlowStates] /\ result \in [Flows -> ResultStates]
           /\ account \in [Instagrams -> AllWorkspaces \cup {Nowhere}] /\ linked \subseteq Instagrams
           /\ bot \in [Bots -> BotRows] /\ hook \in [Bots -> 0 .. MaxSecrets]
           /\ visit \in [Visits -> VisitStates] /\ NoVisit \in VisitStates
           /\ completed \in [Flows -> Nat] /\ cut \subseteq Bots
           /\ slipped \subseteq Instagrams \X AllWorkspaces
           /\ MaxSecrets \in Nat /\ 0 \in 0 .. MaxSecrets
           /\ \A i \in Instagrams : Home(i) \in AllWorkspaces /\ Home(i) \notin Workspaces \cup {Nowhere}
           /\ Workspaces \subseteq AllWorkspaces /\ Nowhere \notin AllWorkspaces
  <1> USE ConnectionsAssumption
  <1>1. 0 \in 0 .. MaxSecrets
    OBVIOUS
  <1>2. NoVisit \in VisitStates
    BY <1>1 DEF NoVisit, VisitStates, Places
  <1>3. /\ \A i \in Instagrams : Home(i) \in AllWorkspaces /\ Home(i) \notin Workspaces \cup {Nowhere}
        /\ Workspaces \subseteq AllWorkspaces /\ Nowhere \notin AllWorkspaces
    BY DEF AllWorkspaces, Home
  <1>4. visit \in [Visits -> VisitStates]
    BY DEF ConnectTypeOK, VisitStates, Places
  <1> QED BY <1>1, <1>2, <1>3, <1>4 DEF ConnectTypeOK, FlowStates, ResultStates, BotRows

\* The other way round.
LEMMA ConnectTyped ==
    ASSUME flow \in [Flows -> FlowStates], result \in [Flows -> ResultStates],
           account \in [Instagrams -> AllWorkspaces \cup {Nowhere}], linked \subseteq Instagrams,
           \A i \in Instagrams : account[i] \in {Home(j) : j \in Instagrams}
                                   => account[i] = Home(i) /\ i \in linked,
           bot \in [Bots -> BotRows], hook \in [Bots -> 0 .. MaxSecrets], secrets \in 0 .. MaxSecrets,
           visit \in [Visits -> VisitStates], slipped \subseteq Instagrams \X AllWorkspaces,
           completed \in [Flows -> Nat], astray \subseteq Flows, cut \subseteq Bots
    PROVE  ConnectTypeOK
  BY DEF ConnectTypeOK, FlowStates, ResultStates, BotRows, VisitStates, Places

\* Whoever takes part in a request, it fits while accounts stay where they are or
\* leave, and sign-ups are added.
LEMMA StaysFit ==
    ASSUME NEW x, NEW acc, NEW lnk, NEW acc2, NEW lnk2, VisitFits(x, acc, lnk), lnk \subseteq lnk2,
           x.overtaken \/ acc2[x.ig] \in {Nowhere, acc[x.ig]}
    PROVE  VisitFits(x, acc2, lnk2)
  BY DEF VisitFits

\* A request goes on to another place.
LEMMA GoesOn ==
    ASSUME visit \in [Visits -> VisitStates], NEW v \in Visits, NEW to \in Places, Goes(v, to)
    PROVE  \E x \in VisitStates :
              /\ visit' = [visit EXCEPT ![v] = x]
              /\ x.at = to /\ x.flow = visit[v].flow /\ x.ig = visit[v].ig /\ x.bot = visit[v].bot
              /\ x.ws = visit[v].ws /\ x.secret = visit[v].secret /\ x.overtaken = visit[v].overtaken
  <1> DEFINE x == [visit[v] EXCEPT !.at = to]
  <1>1. visit' = [visit EXCEPT ![v] = x]
    BY DEF Goes
  <1>2. /\ x \in VisitStates
        /\ x.at = to /\ x.flow = visit[v].flow /\ x.ig = visit[v].ig /\ x.bot = visit[v].bot
        /\ x.ws = visit[v].ws /\ x.secret = visit[v].secret /\ x.overtaken = visit[v].overtaken
    BY DEF VisitStates
  <1> QED BY <1>1, <1>2

\* Bots are heard while their rows and webhooks stay, and nobody leaves the half-way
\* house without a trace.
LEMMA BotsKeep ==
    ASSUME BotsAreHeard, UNCHANGED <<bot, hook>>, cut \subseteq cut',
           \A u \in Visits :
              \/ /\ visit'[u].at = visit[u].at /\ visit'[u].bot = visit[u].bot
                 /\ visit'[u].secret = visit[u].secret
              \/ /\ visit[u].at \in {"create", "drop"} => visit[u].bot \in cut'
                 /\ visit'[u].at # "create"
    PROVE  BotsAreHeard'
  <1> SUFFICES ASSUME NEW b \in Bots, b \notin cut'
               PROVE  /\ \A u \in Visits : visit'[u].at = "create" /\ visit'[u].bot = b => hook[b] = visit'[u].secret
                      /\ bot[b].ws # Nowhere /\ hook[b] # bot[b].secret =>
                            \E u \in Visits : /\ visit'[u].bot = b
                                              /\ \/ visit'[u].at = "create"
                                                 \/ visit'[u].at = "drop" /\ visit'[u].secret = bot[b].secret
    BY DEF BotsAreHeard
  <1>1. b \in Bots \ cut
    OBVIOUS
  <1>2. \A u \in Visits : visit'[u].at = "create" /\ visit'[u].bot = b => hook[b] = visit'[u].secret
    BY <1>1 DEF BotsAreHeard
  <1>3. ASSUME bot[b].ws # Nowhere, hook[b] # bot[b].secret
        PROVE  \E u \in Visits : /\ visit'[u].bot = b
                                 /\ \/ visit'[u].at = "create"
                                    \/ visit'[u].at = "drop" /\ visit'[u].secret = bot[b].secret
    <2>1. PICK u \in Visits : /\ visit[u].bot = b
                              /\ \/ visit[u].at = "create"
                                 \/ visit[u].at = "drop" /\ visit[u].secret = bot[b].secret
      BY <1>1, <1>3 DEF BotsAreHeard
    <2> QED BY <2>1
  <1> QED BY <1>2, <1>3

\* Flows stay where they are while requests keep theirs or let go of it.
LEMMA FlowsKeep ==
    ASSUME FlowsAreInOnePlace, UNCHANGED <<flow, result, completed>>, "none" \notin Flows,
           \A u \in Visits : visit'[u].flow \in {visit[u].flow, "none"}
    PROVE  FlowsAreInOnePlace'
  BY DEF FlowsAreInOnePlace

\* The room in a plan is kept while nothing and nobody is added.
LEMMA RoomKeeps ==
    ASSUME PlansHaveRoom, IsFiniteSet(Instagrams), IsFiniteSet(Bots),
           \A w \in Workspaces : IgsOf(w)' \subseteq IgsOf(w) /\ BotsOf(w)' \subseteq BotsOf(w)
    PROVE  PlansHaveRoom'
  <1> SUFFICES ASSUME NEW w \in Workspaces
               PROVE  Cardinality(IgsOf(w)') + Cardinality(BotsOf(w)')
                        <= AccountLimit + Cardinality(Visits) - 1
    BY DEF PlansHaveRoom
  <1>1. IgsOf(w) \in SUBSET Instagrams /\ BotsOf(w) \in SUBSET Bots
    BY DEF IgsOf, BotsOf
  <1>2. /\ Cardinality(IgsOf(w)') <= Cardinality(IgsOf(w)) /\ Cardinality(BotsOf(w)') <= Cardinality(BotsOf(w))
        /\ Cardinality(IgsOf(w)) \in Nat /\ Cardinality(BotsOf(w)) \in Nat
        /\ Cardinality(IgsOf(w)') \in Nat /\ Cardinality(BotsOf(w)') \in Nat
    <2>1. IsFiniteSet(IgsOf(w)) /\ IsFiniteSet(BotsOf(w))
      BY <1>1, FS_Subset
    <2>2. /\ Cardinality(IgsOf(w)') <= Cardinality(IgsOf(w)) /\ IsFiniteSet(IgsOf(w)')
          /\ Cardinality(BotsOf(w)') <= Cardinality(BotsOf(w)) /\ IsFiniteSet(BotsOf(w)')
      BY <2>1, FS_Subset
    <2> QED BY <2>1, <2>2, FS_CardinalityType
  <1>3. Cardinality(IgsOf(w)) + Cardinality(BotsOf(w)) <= AccountLimit + Cardinality(Visits) - 1
    BY DEF PlansHaveRoom
  <1>4. AccountLimit \in Nat /\ Cardinality(Visits) \in Nat
    BY ConnectionsAssumption, FS_CardinalityType
  <1> QED BY <1>2, <1>3, <1>4

\* No more values than there are arguments.
LEMMA NoMoreThanVisits ==
    ASSUME NEW P, IsFiniteSet(P), NEW f, NEW T, T = {f[p] : p \in P}
    PROVE  IsFiniteSet(T) /\ Cardinality(T) <= Cardinality(P)
  <1> DEFINE g == [p \in P |-> f[p]]
  <1>1. g \in Surjection(P, T)
    BY DEF Surjection
  <1> QED BY <1>1, FS_Surjection

\* Who has seen room in the plan finds at most the others before it: everything in the
\* workspace by then was there, or is a request's own.
LEMMA RoomForRaces ==
    ASSUME NEW A, NEW B, IsFiniteSet(A), IsFiniteSet(B), NEW PA, NEW PB, PA \in SUBSET Visits,
           PB \in SUBSET Visits, PA \cap PB = {},
           NEW FA, NEW GB, IsFiniteSet(FA), Cardinality(FA) <= Cardinality(PA),
           IsFiniteSet(GB), Cardinality(GB) <= Cardinality(PB),
           NEW X, NEW Y, X \subseteq A \cup FA, Y \subseteq B \cup GB,
           Cardinality(A) + Cardinality(B) < AccountLimit
    PROVE  Cardinality(X) + Cardinality(Y) <= AccountLimit + Cardinality(Visits) - 1
  <1> USE ConnectionsAssumption
  <1>1. IsFiniteSet(PA) /\ IsFiniteSet(PB) /\ PA \cup PB \in SUBSET Visits
    BY FS_Subset
  <1>2. /\ IsFiniteSet(FA) /\ Cardinality(FA) <= Cardinality(PA)
        /\ IsFiniteSet(GB) /\ Cardinality(GB) <= Cardinality(PB)
    OBVIOUS
  <1>3. /\ IsFiniteSet(A \cup FA) /\ Cardinality(A \cup FA) <= Cardinality(A) + Cardinality(FA)
        /\ IsFiniteSet(B \cup GB) /\ Cardinality(B \cup GB) <= Cardinality(B) + Cardinality(GB)
    <2>1. /\ Cardinality(A \cup FA) = Cardinality(A) + Cardinality(FA) - Cardinality(A \cap FA)
          /\ Cardinality(B \cup GB) = Cardinality(B) + Cardinality(GB) - Cardinality(B \cap GB)
          /\ IsFiniteSet(A \cup FA) /\ IsFiniteSet(B \cup GB)
      BY <1>2, FS_Union
    <2>2. IsFiniteSet(A \cap FA) /\ IsFiniteSet(B \cap GB)
      BY FS_Subset
    <2>3. Cardinality(A \cap FA) \in Nat /\ Cardinality(B \cap GB) \in Nat
          /\ Cardinality(A) \in Nat /\ Cardinality(FA) \in Nat /\ Cardinality(B) \in Nat /\ Cardinality(GB) \in Nat
      BY <1>2, <2>2, FS_CardinalityType
    <2> QED BY <2>1, <2>3
  <1>4. /\ Cardinality(X) <= Cardinality(A \cup FA) /\ IsFiniteSet(X)
        /\ Cardinality(Y) <= Cardinality(B \cup GB) /\ IsFiniteSet(Y)
    <2>1. X \in SUBSET (A \cup FA) /\ Y \in SUBSET (B \cup GB)
      OBVIOUS
    <2> QED BY <1>3, <2>1, FS_Subset
  <1>5. Cardinality(PA) + Cardinality(PB) <= Cardinality(Visits)
    <2>1. Cardinality(PA \cup PB) = Cardinality(PA) + Cardinality(PB) - Cardinality(PA \cap PB)
      BY <1>1, FS_Union
    <2>2. Cardinality(PA \cap PB) = 0
      BY FS_EmptySet
    <2>3. Cardinality(PA \cup PB) <= Cardinality(Visits)
      BY <1>1, FS_Subset
    <2>4. Cardinality(PA) \in Nat /\ Cardinality(PB) \in Nat
      BY <1>1, FS_CardinalityType
    <2> QED BY <2>1, <2>2, <2>3, <2>4
  <1>6. /\ Cardinality(A) \in Nat /\ Cardinality(B) \in Nat /\ Cardinality(FA) \in Nat /\ Cardinality(GB) \in Nat
        /\ Cardinality(PA) \in Nat /\ Cardinality(PB) \in Nat /\ Cardinality(X) \in Nat /\ Cardinality(Y) \in Nat
        /\ Cardinality(A \cup FA) \in Nat /\ Cardinality(B \cup GB) \in Nat
        /\ Cardinality(Visits) \in Nat /\ AccountLimit \in Nat
    BY <1>1, <1>2, <1>3, <1>4, FS_CardinalityType
  <1> QED BY <1>2, <1>3, <1>4, <1>5, <1>6

\* A step of one request that leaves accounts, bots and webhooks alone.
LEMMA LightStepKeeps ==
    ASSUME ConnectInv, NEW v \in Visits, NEW x \in VisitStates, visit' = [visit EXCEPT ![v] = x],
           VisitFits(x, account, linked),
           UNCHANGED <<account, linked, bot, hook, secrets, astray>>, slipped' \subseteq slipped,
           cut \subseteq cut', cut' \subseteq Bots,
           visit[v].at \in {"create", "drop"} => visit[v].bot \in cut',
           x.at # "create",
           \/ PlansHaveRoom'
           \/ /\ slipped' = slipped
              /\ x.at = "upsert" /\ ~x.overtaken => account[x.ig] = x.ws
              /\ x.at \in {"bot", "webhook"} =>
                    visit[v].at \in {"bot", "webhook"} /\ x.bot = visit[v].bot /\ x.ws = visit[v].ws,
           flow' \in [Flows -> FlowStates], result' \in [Flows -> ResultStates],
           completed' \in [Flows -> Nat], FlowsAreInOnePlace'
    PROVE  ConnectInv'
  <1> USE ConnectionsAssumption
  <1>0. ConnectTypeOK
    BY DEF ConnectInv
  <1>t. visit \in [Visits -> VisitStates]
    BY <1>0, ConnectTypes
  <1>1. /\ visit' \in [Visits -> VisitStates] /\ visit'[v] = x
        /\ \A u \in Visits \ {v} : visit'[u] = visit[u]
    BY <1>t
  <1>2. ConnectTypeOK'
    BY <1>0, <1>1 DEF ConnectTypeOK, FlowStates, ResultStates, VisitStates, Places
  <1>3. \A u \in Visits : VisitFits(visit'[u], account', linked')
    BY <1>1 DEF ConnectInv
  <1>4. PlansHaveRoom'
    <2> SUFFICES ASSUME slipped' = slipped,
                        x.at = "upsert" /\ ~x.overtaken => account[x.ig] = x.ws,
                        x.at \in {"bot", "webhook"} =>
                          visit[v].at \in {"bot", "webhook"} /\ x.bot = visit[v].bot /\ x.ws = visit[v].ws
                 PROVE  PlansHaveRoom'
      OBVIOUS
    <2>1. ASSUME NEW w \in Workspaces, NEW i \in IgsOf(w)' PROVE i \in IgsOf(w)
      <3>1. i \in Instagrams /\ <<i, w>> \notin slipped
        BY <2>1 DEF IgsOf
      <3>2. CASE account[i] = w
        BY <3>1, <3>2 DEF IgsOf
      <3>3. ASSUME NEW u \in Visits, visit'[u].at = "upsert", ~visit'[u].overtaken,
                   visit'[u].ig = i, visit'[u].ws = w
            PROVE  i \in IgsOf(w)
        BY <1>1, <3>1, <3>3 DEF IgsOf
      <3> QED BY <2>1, <3>2, <3>3 DEF IgsOf
    <2>2. ASSUME NEW w \in Workspaces, NEW b \in BotsOf(w)' PROVE b \in BotsOf(w)
      <3>1. CASE bot[b].ws = w
        BY <2>2, <3>1 DEF BotsOf
      <3>2. ASSUME NEW u \in Visits, visit'[u].at \in {"bot", "webhook", "create"},
                   visit'[u].bot = b, visit'[u].ws = w
            PROVE  b \in BotsOf(w)
        BY <1>1, <2>2, <3>2 DEF BotsOf
      <3> QED BY <2>2, <3>1, <3>2 DEF BotsOf
    <2>3. PlansHaveRoom
      BY DEF ConnectInv
    <2> QED BY <2>1, <2>2, <2>3, RoomKeeps
  <1>5. BotsAreHeard'
    BY <1>1, BotsKeep DEF ConnectInv
  <1> QED BY <1>2, <1>3, <1>4, <1>5 DEF ConnectInv, FlowsStayWithTheirStarter

\* Only flows change.
LEMMA FlowStepKeeps ==
    ASSUME ConnectInv, UNCHANGED <<account, linked, bot, hook, secrets, visit, slipped, astray, cut>>,
           flow' \in [Flows -> FlowStates], result' \in [Flows -> ResultStates],
           completed' \in [Flows -> Nat], FlowsAreInOnePlace'
    PROVE  ConnectInv'
  <1>1. ConnectTypeOK'
    BY DEF ConnectInv, ConnectTypeOK, FlowStates, ResultStates
  <1>2. PlansHaveRoom'
    BY DEF ConnectInv, PlansHaveRoom, IgsOf, BotsOf
  <1>3. BotsAreHeard'
    BY DEF ConnectInv, BotsAreHeard
  <1> QED BY <1>1, <1>2, <1>3 DEF ConnectInv, FlowsStayWithTheirStarter

\* The round trip of a flow: started, called back, authorized, redeemed or expired.
LEMMA RoundTripKeeps ==
    ASSUME ConnectInv, NEW f \in Flows, NEW v \in Visits,
           \/ \E client \in Clients, w \in Workspaces \cup {Nowhere} : Start(f, client, w)
           \/ \E starter \in BOOLEAN : Callback(v, f, starter) \/ Redeem(v, f, starter)
           \/ FlowExpires(f)
           \/ \E i \in Instagrams : Authorize(v, i)
    PROVE  ConnectInv' /\ UNCHANGED <<account, linked>>
  <1> USE ConnectionsAssumption
  <1>0. /\ ConnectTypeOK /\ VisitFits(visit[v], account, linked) /\ FlowsAreInOnePlace
        /\ cut \subseteq Bots
    BY DEF ConnectInv, ConnectTypeOK
  <1>t. /\ flow \in [Flows -> FlowStates] /\ result \in [Flows -> ResultStates]
        /\ completed \in [Flows -> Nat] /\ visit \in [Visits -> VisitStates] /\ NoVisit \in VisitStates
        /\ Workspaces \subseteq AllWorkspaces /\ Nowhere \notin AllWorkspaces
    BY <1>0, ConnectTypes
  <1>s. visit[v] \in VisitStates /\ flow[f] \in FlowStates /\ result[f] \in ResultStates
    BY <1>t
  <1>n. VisitFits(NoVisit, account, linked) /\ NoVisit.at = "idle" /\ NoVisit.flow = "none"
    BY DEF VisitFits, NoVisit, ForWorkspace, ForPerson, ForBot
  \* The request of a step like these, once the flows are in order.
  <1>1. ASSUME NEW x \in VisitStates, visit' = [visit EXCEPT ![v] = x], VisitFits(x, account, linked),
               x.at \in {"idle", "authorize", "check", "look"},
               visit[v].at \in {"idle", "authorize"},
               UNCHANGED <<account, linked, bot, hook, secrets, slipped, completed, astray, cut>>,
               flow' \in [Flows -> FlowStates], result' \in [Flows -> ResultStates], FlowsAreInOnePlace'
        PROVE  ConnectInv' /\ UNCHANGED <<account, linked>>
    BY <1>0, <1>1, <1>t, LightStepKeeps
  <1>2. ASSUME NEW client \in Clients, NEW w \in Workspaces \cup {Nowhere}, Start(f, client, w)
        PROVE  ConnectInv' /\ UNCHANGED <<account, linked>>
    <2> DEFINE y == [at |-> "open", client |-> client, ws |-> w]
    <2>1. /\ flow[f].at = "none" /\ flow' = [flow EXCEPT ![f] = y]
          /\ (client = "mobile-signup") <=> (w = Nowhere)
          /\ UNCHANGED <<result, account, linked, bot, hook, secrets, visit, slipped, completed, astray, cut>>
      BY <1>2 DEF Start
    <2>2. y \in FlowStates /\ y.at = "open" /\ y.client = client /\ y.ws = w
      BY DEF FlowStates
    <2> HIDE DEF y
    <2>3. flow' \in [Flows -> FlowStates] /\ flow'[f] = y /\ \A g \in Flows \ {f} : flow'[g] = flow[g]
      BY <1>t, <2>1, <2>2
    <2>4. FlowsAreInOnePlace'
      BY <1>0, <2>1, <2>2, <2>3 DEF FlowsAreInOnePlace
    <2> QED BY <1>t, <2>1, <2>3, <2>4, FlowStepKeeps
  <1>3. CASE FlowExpires(f)
    <2>1. /\ flow[f].at = "open" \/ result[f].at = "stored"
          /\ flow' = [flow EXCEPT ![f].at = "gone"]
          /\ result' = IF result[f].at = "stored" THEN [result EXCEPT ![f].at = "gone"] ELSE result
          /\ UNCHANGED <<account, linked, bot, hook, secrets, visit, slipped, completed, astray, cut>>
      BY <1>3 DEF FlowExpires
    <2>2. /\ flow' \in [Flows -> FlowStates] /\ \A g \in Flows \ {f} : flow'[g] = flow[g]
          /\ flow'[f].at = "gone" /\ flow'[f].client = flow[f].client /\ flow'[f].ws = flow[f].ws
      BY <1>t, <2>1 DEF FlowStates
    <2>3. /\ result' \in [Flows -> ResultStates] /\ \A g \in Flows \ {f} : result'[g] = result[g]
          /\ result'[f].at # "stored"
      BY <1>t, <2>1 DEF ResultStates
    <2>4. FlowsAreInOnePlace'
      BY <1>0, <2>1, <2>2, <2>3 DEF FlowsAreInOnePlace
    <2> QED BY <1>t, <2>1, <2>2, <2>3, <2>4, FlowStepKeeps
  <1>4. ASSUME NEW starter \in BOOLEAN, Callback(v, f, starter)
        PROVE  ConnectInv' /\ UNCHANGED <<account, linked>>
    <2> DEFINE x == [NoVisit EXCEPT !.at = "authorize", !.flow = f]
    <2>1. /\ visit[v].at = "idle" /\ flow[f].at = "open" /\ flow' = [flow EXCEPT ![f].at = "gone"]
          /\ visit' = visit \/ visit' = [visit EXCEPT ![v] = x]
          /\ UNCHANGED <<result, account, linked, bot, hook, secrets, slipped, completed, astray, cut>>
      BY <1>4 DEF Callback, VisitAt
    <2>2. /\ flow' \in [Flows -> FlowStates] /\ \A g \in Flows \ {f} : flow'[g] = flow[g]
          /\ flow'[f].at = "gone" /\ flow'[f].client = flow[f].client /\ flow'[f].ws = flow[f].ws
      BY <1>t, <2>1 DEF FlowStates
    <2>3. CASE visit' = visit
      <3>1. FlowsAreInOnePlace'
        BY <1>0, <2>1, <2>2, <2>3 DEF FlowsAreInOnePlace
      <3> QED BY <1>t, <2>1, <2>2, <2>3, <3>1, FlowStepKeeps
    <2>4. CASE visit' = [visit EXCEPT ![v] = x]
      <3>1. x \in VisitStates
        BY <1>t DEF VisitStates, Places, NoVisit
      <3>2. x.at = "authorize" /\ x.flow = f /\ x.ig = "none"
        BY DEF NoVisit
      <3> HIDE DEF x
      <3>3. VisitFits(x, account, linked)
        BY <3>2 DEF VisitFits, ForWorkspace, ForPerson, ForBot
      <3>4. visit'[v] = x /\ \A u \in Visits \ {v} : visit'[u] = visit[u]
        BY <1>t, <2>4
      <3>5. FlowsAreInOnePlace'
        BY <1>0, <2>1, <2>2, <3>2, <3>4 DEF FlowsAreInOnePlace
      <3> QED BY <1>1, <1>t, <2>1, <2>2, <2>4, <3>1, <3>2, <3>3, <3>5
    <2> QED BY <2>1, <2>3, <2>4
  <1>5. ASSUME NEW starter \in BOOLEAN, Redeem(v, f, starter)
        PROVE  ConnectInv' /\ UNCHANGED <<account, linked>>
    <2> DEFINE to == IF flow[f].client = "mobile" THEN "check" ELSE "look"
               x == [NoVisit EXCEPT !.flow = f, !.ig = result[f].ig, !.ws = flow[f].ws, !.at = to]
    <2>1. /\ visit[v].at = "idle" /\ result[f].at = "stored" /\ result' = [result EXCEPT ![f].at = "gone"]
          /\ visit' = visit \/ visit' = [visit EXCEPT ![v] = x]
          /\ UNCHANGED <<flow, account, linked, bot, hook, secrets, slipped, completed, astray, cut>>
      BY <1>5 DEF Redeem, VisitAt
    <2>2. /\ result' \in [Flows -> ResultStates] /\ \A g \in Flows \ {f} : result'[g] = result[g]
          /\ result'[f].at = "gone"
      BY <1>t, <2>1 DEF ResultStates
    <2>3. CASE visit' = visit
      <3>1. FlowsAreInOnePlace'
        BY <1>0, <2>1, <2>2, <2>3 DEF FlowsAreInOnePlace
      <3> QED BY <1>t, <2>1, <2>2, <2>3, <3>1, FlowStepKeeps
    <2>4. CASE visit' = [visit EXCEPT ![v] = x]
      <3>1. /\ flow[f].at = "gone" /\ result[f].ig \in Instagrams /\ completed[f] = 0
            /\ flow[f].client = "mobile" => flow[f].ws \in Workspaces
            /\ \A u \in Visits : visit[u].flow # f
        BY <1>0, <1>s, <2>1 DEF FlowsAreInOnePlace, FlowStates
      <3>2. x \in VisitStates
        <4>1. to \in Places /\ flow[f].ws \in AllWorkspaces \cup {Nowhere}
          BY <1>s, <1>t DEF Places, FlowStates
        <4> HIDE DEF to
        <4> QED BY <1>t, <3>1, <4>1 DEF VisitStates, NoVisit
      <3>3. /\ x.at = to /\ x.flow = f /\ x.ig = result[f].ig /\ x.ws = flow[f].ws
            /\ to \in {"check", "look"} /\ (to = "check" => flow[f].client = "mobile")
        BY DEF NoVisit
      <3> HIDE DEF x, to
      <3>4. VisitFits(x, account, linked)
        BY <3>1, <3>3 DEF VisitFits, ForWorkspace, ForPerson, ForBot
      <3>5. visit'[v] = x /\ \A u \in Visits \ {v} : visit'[u] = visit[u]
        BY <1>t, <2>4
      <3>6. FlowsAreInOnePlace'
        BY <1>0, <2>1, <2>2, <3>1, <3>3, <3>5 DEF FlowsAreInOnePlace
      <3> QED BY <1>1, <1>t, <2>1, <2>2, <2>4, <3>2, <3>3, <3>4, <3>6
    <2> QED BY <2>1, <2>3, <2>4
  <1>6. ASSUME NEW i \in Instagrams, Authorize(v, i)
        PROVE  ConnectInv' /\ UNCHANGED <<account, linked>>
    <2> DEFINE g == visit[v].flow
    <2>1. /\ visit[v].at = "authorize" /\ g \in Flows
          /\ UNCHANGED <<flow, account, linked, bot, hook, secrets, slipped, completed, astray, cut>>
      BY <1>0, <1>6 DEF Authorize, VisitAt, VisitFits
    <2>2. /\ flow[g].at = "gone"
          /\ flow[g].client # "mobile-signup" => flow[g].ws \in Workspaces
          /\ completed[g] = 0 /\ \A u \in Visits : visit[u].flow = g => u = v
      <3>1. flow[g] \in FlowStates
        BY <1>t, <2>1
      <3> QED BY <1>0, <2>1, <3>1 DEF FlowsAreInOnePlace, FlowStates
    <2>3. CASE flow[g].client = "web"
      <3> DEFINE x == [visit[v] EXCEPT !.at = "check", !.ig = i, !.ws = flow[g].ws]
      <3>1. visit' = [visit EXCEPT ![v] = x] /\ UNCHANGED result
        BY <1>6, <1>t, <2>3 DEF Authorize
      <3>2. flow[g].ws \in Workspaces
        BY <2>2, <2>3
      <3>3. x \in VisitStates /\ x.at = "check" /\ x.ig = i /\ x.ws = flow[g].ws /\ x.flow = g
        BY <1>s, <1>t, <3>2 DEF VisitStates, Places
      <3> HIDE DEF x
      <3>4. VisitFits(x, account, linked)
        BY <2>1, <3>2, <3>3 DEF VisitFits, ForWorkspace, ForPerson, ForBot
      <3>5. FlowsAreInOnePlace'
        <4>1. \A u \in Visits : visit'[u].flow \in {visit[u].flow, "none"}
          BY <1>t, <3>1, <3>3
        <4> QED BY <1>0, <2>1, <3>1, <4>1, FlowsKeep
      <3> QED BY <1>1, <1>t, <2>1, <3>1, <3>3, <3>4, <3>5
    <2>4. CASE flow[g].client # "web"
      <3> DEFINE y == [at |-> "stored", ig |-> i]
      <3>1. visit' = [visit EXCEPT ![v] = NoVisit] /\ result' = [result EXCEPT ![g] = y]
        BY <1>6, <2>4 DEF Authorize, Ends
      <3>2. y \in ResultStates /\ y.at = "stored" /\ y.ig = i
        BY DEF ResultStates
      <3> HIDE DEF y
      <3>3. /\ result' \in [Flows -> ResultStates] /\ result'[g] = y
            /\ \A h \in Flows \ {g} : result'[h] = result[h]
        BY <1>t, <2>1, <3>1, <3>2
      <3>4. visit'[v] = NoVisit /\ \A u \in Visits \ {v} : visit'[u] = visit[u]
        BY <1>t, <3>1
      <3> HIDE DEF g
      <3>5. FlowsAreInOnePlace'
        BY <1>0, <1>n, <2>1, <2>2, <3>2, <3>3, <3>4 DEF FlowsAreInOnePlace
      <3> QED BY <1>1, <1>n, <1>t, <2>1, <3>1, <3>3, <3>5
    <2> QED BY <2>3, <2>4
  <1> QED BY <1>2, <1>3, <1>4, <1>5, <1>6

\* The looks before an account is written, and the ones before a bot is.
LEMMA LooksKeep ==
    ASSUME ConnectInv, NEW v \in Visits,
           \/ Check(v) \/ LookIfNew(v) \/ LookForBot(v) \/ VisitFails(v)
           \/ \E b \in Bots : FindBot(v, b)
    PROVE  ConnectInv' /\ UNCHANGED <<account, linked>>
  <1> USE ConnectionsAssumption
  <1>0. /\ ConnectTypeOK /\ VisitFits(visit[v], account, linked) /\ FlowsAreInOnePlace /\ cut \subseteq Bots
    BY DEF ConnectInv, ConnectTypeOK
  <1>t. /\ flow \in [Flows -> FlowStates] /\ result \in [Flows -> ResultStates]
        /\ completed \in [Flows -> Nat] /\ visit \in [Visits -> VisitStates] /\ NoVisit \in VisitStates
        /\ account \in [Instagrams -> AllWorkspaces \cup {Nowhere}] /\ bot \in [Bots -> BotRows]
    BY <1>0, ConnectTypes
  <1>n. VisitFits(NoVisit, account, linked) /\ NoVisit.at = "idle" /\ NoVisit.flow = "none"
    BY DEF VisitFits, NoVisit, ForWorkspace, ForPerson, ForBot
  <1>1. ASSUME NEW x \in VisitStates, visit' = [visit EXCEPT ![v] = x], VisitFits(x, account, linked),
               x.flow \in {visit[v].flow, "none"}, x.at # "create",
               x.at = "upsert" /\ ~x.overtaken => account[x.ig] = x.ws,
               x.at \in {"bot", "webhook"} =>
                  visit[v].at \in {"bot", "webhook"} /\ x.bot = visit[v].bot /\ x.ws = visit[v].ws,
               visit[v].at \in {"create", "drop"} => visit[v].bot \in cut',
               cut \subseteq cut', cut' \subseteq Bots,
               UNCHANGED <<flow, result, account, linked, bot, hook, secrets, slipped, completed, astray>>
        PROVE  ConnectInv' /\ UNCHANGED <<account, linked>>
    <2>1. \A u \in Visits : visit'[u].flow \in {visit[u].flow, "none"}
      BY <1>1, <1>t
    <2>2. FlowsAreInOnePlace'
      BY <1>0, <1>1, <2>1, FlowsKeep
    <2> QED BY <1>1, <1>t, <2>2, LightStepKeeps
  <1>2. ASSUME visit' = [visit EXCEPT ![v] = NoVisit], visit[v].at \notin {"create", "drop"},
               UNCHANGED <<flow, result, account, linked, bot, hook, secrets, slipped, completed, astray, cut>>
        PROVE  ConnectInv' /\ UNCHANGED <<account, linked>>
    BY <1>0, <1>1, <1>2, <1>n, <1>t
  <1>3. CASE Check(v)
    <2>1. /\ visit[v].at = "check"
          /\ UNCHANGED <<flow, result, account, linked, bot, hook, secrets, slipped, completed, astray, cut>>
      BY <1>3 DEF Check, VisitAt
    <2>2. CASE Ends(v)
      BY <1>2, <2>1, <2>2 DEF Ends
    <2>3. CASE account[visit[v].ig] \in {Nowhere, visit[v].ws} /\ Goes(v, "new")
      <3>1. PICK x \in VisitStates :
              /\ visit' = [visit EXCEPT ![v] = x]
              /\ x.at = "new" /\ x.flow = visit[v].flow /\ x.ig = visit[v].ig /\ x.bot = visit[v].bot
              /\ x.ws = visit[v].ws /\ x.secret = visit[v].secret /\ x.overtaken = visit[v].overtaken
        BY <1>t, <2>3, GoesOn DEF Places
      <3>2. VisitFits(x, account, linked)
        BY <1>0, <2>1, <2>3, <3>1 DEF VisitFits, ForWorkspace, ForPerson, ForBot
      <3> QED BY <1>0, <1>1, <2>1, <3>1, <3>2
    <2> QED BY <1>3, <2>2, <2>3 DEF Check
  <1>4. CASE LookIfNew(v)
    <2> DEFINE to == IF account[visit[v].ig] = Nowhere THEN "count" ELSE "upsert"
    <2>1. /\ visit[v].at = "new" /\ Goes(v, to)
          /\ UNCHANGED <<flow, result, account, linked, bot, hook, secrets, slipped, completed, astray, cut>>
      BY <1>4 DEF LookIfNew, VisitAt
    <2>2. to \in {"count", "upsert"} /\ (to = "upsert" => account[visit[v].ig] # Nowhere)
      OBVIOUS
    <2> HIDE DEF to
    <2>3. PICK x \in VisitStates :
            /\ visit' = [visit EXCEPT ![v] = x]
            /\ x.at = to /\ x.flow = visit[v].flow /\ x.ig = visit[v].ig /\ x.bot = visit[v].bot
            /\ x.ws = visit[v].ws /\ x.secret = visit[v].secret /\ x.overtaken = visit[v].overtaken
      <3>1. to \in Places
        BY <2>2 DEF Places
      <3> QED BY <1>t, <2>1, <3>1, GoesOn
    <2>4. VisitFits(x, account, linked)
      BY <1>0, <2>1, <2>2, <2>3 DEF VisitFits, ForWorkspace, ForPerson, ForBot
    <2>5. x.at = "upsert" /\ ~x.overtaken => account[x.ig] = x.ws
      BY <1>0, <2>1, <2>2, <2>3 DEF VisitFits
    <2>6. x.at # "create" /\ x.at \notin {"bot", "webhook"}
      BY <2>2, <2>3
    <2> QED BY <1>0, <1>1, <2>1, <2>3, <2>4, <2>5, <2>6
  <1>5. CASE LookForBot(v)
    <2>1. /\ visit[v].at = "bot"
          /\ UNCHANGED <<flow, result, account, linked, bot, hook, secrets, slipped, completed, astray, cut>>
      BY <1>5 DEF LookForBot, VisitAt
    <2>2. CASE Ends(v)
      BY <1>2, <2>1, <2>2 DEF Ends
    <2>3. CASE Goes(v, "webhook")
      <3>1. PICK x \in VisitStates :
              /\ visit' = [visit EXCEPT ![v] = x]
              /\ x.at = "webhook" /\ x.flow = visit[v].flow /\ x.ig = visit[v].ig /\ x.bot = visit[v].bot
              /\ x.ws = visit[v].ws /\ x.secret = visit[v].secret /\ x.overtaken = visit[v].overtaken
        BY <1>t, <2>3, GoesOn DEF Places
      <3>2. VisitFits(x, account, linked)
        BY <1>0, <2>1, <3>1 DEF VisitFits, ForWorkspace, ForPerson, ForBot
      <3> QED BY <1>0, <1>1, <2>1, <3>1, <3>2
    <2> QED BY <1>5, <2>2, <2>3 DEF LookForBot
  <1>6. CASE VisitFails(v)
    <2>1. /\ visit' = [visit EXCEPT ![v] = NoVisit]
          /\ cut' = IF visit[v].at \in {"create", "drop"} THEN cut \cup {visit[v].bot} ELSE cut
          /\ UNCHANGED <<flow, result, account, linked, bot, hook, secrets, slipped, completed, astray>>
      BY <1>6 DEF VisitFails, VisitAt, Ends
    <2>2. visit[v].at \in {"create", "drop"} => visit[v].bot \in Bots
      BY <1>0 DEF VisitFits, ForBot
    <2>3. /\ cut \subseteq cut' /\ cut' \subseteq Bots
          /\ visit[v].at \in {"create", "drop"} => visit[v].bot \in cut'
      BY <1>0, <2>1, <2>2
    <2> QED BY <1>1, <1>n, <1>t, <2>1, <2>3
  <1>7. ASSUME NEW b \in Bots, FindBot(v, b) PROVE ConnectInv' /\ UNCHANGED <<account, linked>>
    <2> DEFINE x == [NoVisit EXCEPT !.at = "unhook", !.bot = b, !.secret = bot[b].secret]
    <2>1. /\ visit[v].at = "idle" /\ visit' = [visit EXCEPT ![v] = x]
          /\ UNCHANGED <<flow, result, account, linked, bot, hook, secrets, slipped, completed, astray, cut>>
      BY <1>7 DEF FindBot, VisitAt
    <2>2. x \in VisitStates
      BY <1>t DEF VisitStates, Places, NoVisit, BotRows
    <2>3. x.at = "unhook" /\ x.bot = b /\ x.flow = "none" /\ x.ig = "none"
      BY DEF NoVisit
    <2> HIDE DEF x
    <2>4. VisitFits(x, account, linked)
      BY <2>3 DEF VisitFits, ForWorkspace, ForPerson, ForBot
    <2> QED BY <1>0, <1>1, <2>1, <2>2, <2>3, <2>4
  <1> QED BY <1>3, <1>4, <1>5, <1>6, <1>7

\* Somebody counts, and finds room: for an account or a bot of workspace w.
LEMMA RoomIsFound ==
    ASSUME ConnectInv, NEW v \in Visits, NEW w \in Workspaces, NEW x \in VisitStates,
           visit' = [visit EXCEPT ![v] = x], Connected(w) < AccountLimit,
           UNCHANGED <<account, bot>>, slipped' \in {slipped, slipped \ {<<x.ig, w>>}},
           x.at \in {"upsert", "bot"}, x.ws = w
    PROVE  PlansHaveRoom'
  <1> USE ConnectionsAssumption
  <1>t. visit \in [Visits -> VisitStates] /\ bot \in [Bots -> BotRows]
    BY ConnectTypes DEF ConnectInv
  <1>1. visit'[v] = x /\ \A u \in Visits \ {v} : visit'[u] = visit[u]
    BY <1>t
  <1> SUFFICES ASSUME NEW y \in Workspaces
               PROVE  Cardinality(IgsOf(y)') + Cardinality(BotsOf(y)')
                        <= AccountLimit + Cardinality(Visits) - 1
    BY DEF PlansHaveRoom
  <1>2. CASE y = w
    <2> DEFINE A  == {i \in Instagrams : account[i] = w}
               B  == {b \in Bots : bot[b].ws = w}
               PA == {u \in Visits : visit'[u].at = "upsert"}
               PB == {u \in Visits : visit'[u].at \in {"bot", "webhook", "create"}}
               f  == [u \in Visits |-> visit'[u].ig]
               g  == [u \in Visits |-> visit'[u].bot]
               X  == IgsOf(w)'
               Y  == BotsOf(w)'
    <2>1. IsFiniteSet(A) /\ IsFiniteSet(B)
      BY FS_Subset
    <2>2. PA \in SUBSET Visits /\ PB \in SUBSET Visits /\ PA \cap PB = {}
      OBVIOUS
    <2> DEFINE FA == {f[u] : u \in PA}
               GB == {g[u] : u \in PB}
    <2>3. X \subseteq A \cup FA
      BY DEF IgsOf
    <2>4. Y \subseteq B \cup GB
      BY DEF BotsOf
    <2>5. Cardinality(A) + Cardinality(B) < AccountLimit
      BY DEF Connected
    <2> HIDE DEF A, B, PA, PB, f, g, X, Y
    <2>6. /\ IsFiniteSet(FA) /\ Cardinality(FA) <= Cardinality(PA)
          /\ IsFiniteSet(GB) /\ Cardinality(GB) <= Cardinality(PB)
      <3>1. IsFiniteSet(PA) /\ IsFiniteSet(PB)
        BY <2>2, FS_Subset
      <3> QED BY <3>1, NoMoreThanVisits
    <2> HIDE DEF FA, GB
    <2>7. Cardinality(X) + Cardinality(Y) <= AccountLimit + Cardinality(Visits) - 1
      BY <2>1, <2>2, <2>3, <2>4, <2>5, <2>6, RoomForRaces
    <2> QED BY <1>2, <2>7 DEF X, Y
  <1>3. CASE y # w
    <2>1. IgsOf(y)' \subseteq IgsOf(y) /\ BotsOf(y)' \subseteq BotsOf(y)
      BY <1>1, <1>3 DEF IgsOf, BotsOf
    <2>2. IgsOf(y) \in SUBSET Instagrams /\ BotsOf(y) \in SUBSET Bots
      BY DEF IgsOf, BotsOf
    <2>3. IsFiniteSet(IgsOf(y)) /\ IsFiniteSet(BotsOf(y))
      BY <2>2, FS_Subset
    <2>4. /\ Cardinality(IgsOf(y)') <= Cardinality(IgsOf(y)) /\ IsFiniteSet(IgsOf(y)')
          /\ Cardinality(BotsOf(y)') <= Cardinality(BotsOf(y)) /\ IsFiniteSet(BotsOf(y)')
      BY <2>1, <2>3, FS_Subset
    <2>5. Cardinality(IgsOf(y)) + Cardinality(BotsOf(y)) <= AccountLimit + Cardinality(Visits) - 1
      BY DEF ConnectInv, PlansHaveRoom
    <2>6. /\ Cardinality(IgsOf(y)) \in Nat /\ Cardinality(BotsOf(y)) \in Nat
          /\ Cardinality(IgsOf(y)') \in Nat /\ Cardinality(BotsOf(y)') \in Nat
          /\ Cardinality(Visits) \in Nat /\ AccountLimit \in Nat
      BY <2>3, <2>4, FS_CardinalityType
    <2> QED BY <2>4, <2>5, <2>6
  <1> QED BY <1>2, <1>3

\* The two counts, of an account to connect and of a bot.
LEMMA CountsKeep ==
    ASSUME ConnectInv, NEW v \in Visits,
           Count(v) \/ \E b \in Bots, w \in Workspaces : ConnectBot(v, b, w)
    PROVE  ConnectInv' /\ UNCHANGED <<account, linked>>
  <1> USE ConnectionsAssumption
  <1>0. /\ ConnectTypeOK /\ VisitFits(visit[v], account, linked) /\ FlowsAreInOnePlace /\ cut \subseteq Bots
    BY DEF ConnectInv, ConnectTypeOK
  <1>t. /\ flow \in [Flows -> FlowStates] /\ result \in [Flows -> ResultStates]
        /\ completed \in [Flows -> Nat] /\ visit \in [Visits -> VisitStates] /\ NoVisit \in VisitStates
        /\ Workspaces \subseteq AllWorkspaces
    BY <1>0, ConnectTypes
  <1>1. ASSUME NEW x \in VisitStates, visit' = [visit EXCEPT ![v] = x], VisitFits(x, account, linked),
               x.flow \in {visit[v].flow, "none"}, x.at # "create", visit[v].at \notin {"create", "drop"},
               PlansHaveRoom' \/ (x = NoVisit /\ slipped' = slipped), slipped' \subseteq slipped,
               UNCHANGED <<flow, result, account, linked, bot, hook, secrets, completed, astray, cut>>
        PROVE  ConnectInv' /\ UNCHANGED <<account, linked>>
    <2>1. \A u \in Visits : visit'[u].flow \in {visit[u].flow, "none"}
      BY <1>1, <1>t
    <2>2. FlowsAreInOnePlace'
      BY <1>0, <1>1, <2>1, FlowsKeep
    <2>3. x = NoVisit => x.at \notin {"upsert", "bot", "webhook"}
      BY DEF NoVisit
    <2> QED BY <1>0, <1>1, <1>t, <2>2, <2>3, LightStepKeeps
  <1>2. CASE Count(v)
    <2>1. /\ visit[v].at = "count"
          /\ UNCHANGED <<flow, result, account, linked, bot, hook, secrets, completed, astray, cut>>
      BY <1>2 DEF Count, VisitAt
    <2>2. CASE Ends(v) /\ UNCHANGED slipped
      <3>1. VisitFits(NoVisit, account, linked) /\ NoVisit.at = "idle" /\ NoVisit.flow = "none"
        BY DEF VisitFits, NoVisit, ForWorkspace, ForPerson, ForBot
      <3> QED BY <1>1, <1>t, <2>1, <2>2, <3>1 DEF Ends
    <2>3. CASE /\ Connected(visit[v].ws) < AccountLimit /\ Goes(v, "upsert")
               /\ slipped' = slipped \ {<<visit[v].ig, visit[v].ws>>}
      <3>1. PICK x \in VisitStates :
              /\ visit' = [visit EXCEPT ![v] = x]
              /\ x.at = "upsert" /\ x.flow = visit[v].flow /\ x.ig = visit[v].ig /\ x.bot = visit[v].bot
              /\ x.ws = visit[v].ws /\ x.secret = visit[v].secret /\ x.overtaken = visit[v].overtaken
        BY <1>t, <2>3, GoesOn DEF Places
      <3>2. VisitFits(x, account, linked)
        BY <1>0, <2>1, <3>1 DEF VisitFits, ForWorkspace, ForPerson, ForBot
      <3>3. x.ws \in Workspaces
        BY <3>1, <3>2 DEF VisitFits, ForWorkspace
      <3>4. PlansHaveRoom'
        BY <2>1, <2>3, <3>1, <3>3, RoomIsFound
      <3> QED BY <1>1, <2>1, <2>3, <3>1, <3>2, <3>4
    <2> QED BY <1>2, <2>2, <2>3 DEF Count
  <1>3. ASSUME NEW b \in Bots, NEW w \in Workspaces, ConnectBot(v, b, w)
        PROVE  ConnectInv' /\ UNCHANGED <<account, linked>>
    <2> DEFINE x == [NoVisit EXCEPT !.at = "bot", !.bot = b, !.ws = w]
    <2>1. /\ visit[v].at = "idle" /\ Connected(w) < AccountLimit /\ visit' = [visit EXCEPT ![v] = x]
          /\ UNCHANGED <<flow, result, account, linked, bot, hook, secrets, slipped, completed, astray, cut>>
      BY <1>3 DEF ConnectBot, VisitAt
    <2>2. x \in VisitStates
      BY <1>t DEF VisitStates, Places, NoVisit
    <2>3. x.at = "bot" /\ x.bot = b /\ x.ws = w /\ x.flow = "none" /\ x.ig = "none"
      BY DEF NoVisit
    <2> HIDE DEF x
    <2>4. VisitFits(x, account, linked)
      BY <2>3 DEF VisitFits, ForWorkspace, ForPerson, ForBot
    <2>5. PlansHaveRoom'
      BY <2>1, <2>2, <2>3, RoomIsFound
    <2> QED BY <1>1, <2>1, <2>2, <2>3, <2>4, <2>5
  <1> QED BY <1>2, <1>3

\* A flow that has led to something is over.
LEMMA FlowEnds ==
    ASSUME FlowsAreInOnePlace, UNCHANGED <<flow, result>>, "none" \notin Flows,
           NEW v \in Visits, visit[v].flow \in Flows, completed \in [Flows -> Nat],
           completed' = [completed EXCEPT ![visit[v].flow] = @ + 1],
           visit'[v].flow = "none", \A u \in Visits \ {v} : visit'[u].flow = visit[u].flow
    PROVE  FlowsAreInOnePlace' /\ completed' \in [Flows -> Nat]
  <1> DEFINE f == visit[v].flow
  <1>1. /\ completed' \in [Flows -> Nat] /\ completed'[f] = completed[f] + 1
        /\ \A g \in Flows \ {f} : completed'[g] = completed[g]
    OBVIOUS
  <1>2. /\ completed[f] = 0 /\ flow[f].at = "gone" /\ result[f].at # "stored"
        /\ \A u \in Visits : visit[u].flow = f => u = v
    BY DEF FlowsAreInOnePlace
  <1>3. completed'[f] = 1 /\ \A u \in Visits : visit'[u].flow # f
    BY <1>1, <1>2
  <1> HIDE DEF f
  <1>4. ASSUME NEW g \in Flows
        PROVE  /\ flow'[g].at # "gone" => /\ \A u \in Visits : visit'[u].flow # g
                                          /\ result'[g].at # "stored" /\ completed'[g] = 0
               /\ flow'[g].at # "none" /\ flow'[g].client # "mobile-signup" => flow'[g].ws \in Workspaces
               /\ result'[g].at = "stored" => /\ \A u \in Visits : visit'[u].flow # g
                                              /\ completed'[g] = 0 /\ result'[g].ig \in Instagrams
               /\ \A u \in Visits : visit'[u].flow = g =>
                     completed'[g] = 0 /\ \A q \in Visits : visit'[q].flow = g => q = u
               /\ completed'[g] <= 1
    <2>1. CASE g = f
      BY <1>2, <1>3, <2>1 DEF FlowsAreInOnePlace
    <2>2. CASE g # f
      BY <1>1, <2>2 DEF FlowsAreInOnePlace
    <2> QED BY <2>1, <2>2
  <1> QED BY <1>1, <1>4 DEF FlowsAreInOnePlace

\* An account arrives in a workspace that has found it free or its own, or in the home
\* of who signed up with it.
LEMMA ArrivalKeeps ==
    ASSUME ConnectInv, NEW v \in Visits, NEW i \in Instagrams, visit[v].ig = i,
           visit[v].flow \in Flows, visit[v].at \notin {"create", "drop"},
           NEW w \in AllWorkspaces, Arrives(v, i, w),
           UNCHANGED <<flow, result, bot, hook, secrets, astray, cut>>,
           linked \subseteq linked', linked' \subseteq Instagrams,
           \/ w \in Workspaces /\ visit[v].at = "upsert" /\ visit[v].ws = w
           \/ w = Home(i) /\ i \in linked'
    PROVE  /\ ConnectInv' /\ account' = [account EXCEPT ![i] = w]
           /\ visit'[v] = NoVisit
  <1> USE ConnectionsAssumption
  <1>0. /\ ConnectTypeOK /\ FlowsAreInOnePlace /\ PlansHaveRoom /\ BotsAreHeard
        /\ \A u \in Visits : VisitFits(visit[u], account, linked)
    BY DEF ConnectInv
  <1>t. /\ account \in [Instagrams -> AllWorkspaces \cup {Nowhere}]
        /\ visit \in [Visits -> VisitStates] /\ NoVisit \in VisitStates
        /\ completed \in [Flows -> Nat] /\ slipped \subseteq Instagrams \X AllWorkspaces
        /\ \A j \in Instagrams : Home(j) \in AllWorkspaces /\ Home(j) \notin Workspaces \cup {Nowhere}
        /\ Workspaces \subseteq AllWorkspaces /\ Nowhere \notin AllWorkspaces
    BY <1>0, ConnectTypes
  <1>1. /\ account' = [account EXCEPT ![i] = w]
        /\ slipped' = IF visit[v].overtaken THEN slipped \cup {<<i, w>>} ELSE slipped
        /\ completed' = [completed EXCEPT ![visit[v].flow] = @ + 1]
    BY DEF Arrives
  <1>2. /\ account' \in [Instagrams -> AllWorkspaces \cup {Nowhere}] /\ account'[i] = w
        /\ \A j \in Instagrams \ {i} : account'[j] = account[j]
    BY <1>1, <1>t
  <1>3. /\ visit' \in [Visits -> VisitStates] /\ visit'[v] = NoVisit
        /\ \A u \in Visits \ {v} :
              \/ /\ visit'[u] = visit[u]
                 /\ visit[u].at \notin {"new", "count", "upsert"} \/ visit[u].ig # i \/ visit[u].ws = w
              \/ /\ visit'[u].overtaken /\ visit'[u].at = visit[u].at /\ visit'[u].flow = visit[u].flow
                 /\ visit'[u].ig = visit[u].ig /\ visit'[u].bot = visit[u].bot
                 /\ visit'[u].ws = visit[u].ws /\ visit'[u].secret = visit[u].secret
    <2> DEFINE late(u) == [visit[u] EXCEPT !.overtaken = TRUE]
               new(u)  == IF u = v THEN NoVisit
                          ELSE IF /\ visit[u].at \in {"new", "count", "upsert"}
                                  /\ visit[u].ig = i /\ visit[u].ws # w
                          THEN late(u) ELSE visit[u]
    <2>1. \A u \in Visits :
             /\ late(u) \in VisitStates /\ late(u).overtaken /\ late(u).at = visit[u].at
             /\ late(u).flow = visit[u].flow /\ late(u).ig = visit[u].ig /\ late(u).bot = visit[u].bot
             /\ late(u).ws = visit[u].ws /\ late(u).secret = visit[u].secret
      BY <1>t DEF VisitStates
    <2>2. visit' = [u \in Visits |-> new(u)]
      BY DEF Arrives
    <2> HIDE DEF late
    <2>3. \A u \in Visits : new(u) \in VisitStates
      BY <1>t, <2>1
    <2> QED BY <2>1, <2>2, <2>3
  <1>4. visit'[v].flow = "none" /\ visit'[v].at = "idle" /\ visit'[v].ig = "none"
    BY <1>3 DEF NoVisit
  <1>5. FlowsAreInOnePlace' /\ completed' \in [Flows -> Nat]
    BY <1>0, <1>1, <1>3, <1>4, <1>t, FlowEnds
  <1>6. ConnectTypeOK'
    <2>1. slipped' \subseteq Instagrams \X AllWorkspaces
      BY <1>1, <1>t
    <2>2. \A j \in Instagrams : account'[j] \in {Home(k) : k \in Instagrams}
                                   => account'[j] = Home(j) /\ j \in linked'
      BY <1>0, <1>2, <1>t DEF ConnectTypeOK
    <2> QED BY <1>0, <1>2, <1>3, <1>5, <2>1, <2>2
         DEF ConnectTypeOK, VisitStates, Places
  <1>7. \A u \in Visits : VisitFits(visit'[u], account', linked')
    <2> SUFFICES ASSUME NEW u \in Visits PROVE VisitFits(visit'[u], account', linked')
      OBVIOUS
    <2>1. CASE u = v
      BY <1>3, <2>1 DEF VisitFits, NoVisit, ForWorkspace, ForPerson, ForBot
    <2>2. CASE /\ u # v /\ visit'[u] = visit[u]
               /\ visit[u].at \notin {"new", "count", "upsert"} \/ visit[u].ig # i \/ visit[u].ws = w
      <3>1. /\ visit[u].ig \in Instagrams \ {i} => account'[visit[u].ig] = account[visit[u].ig]
            /\ visit[u].ig = i => account'[visit[u].ig] = w
        BY <1>2, <2>2
      <3>2. VisitFits(visit[u], account, linked)
        BY <1>0
      <3> QED BY <2>2, <3>1, <3>2 DEF VisitFits, ForWorkspace, ForPerson, ForBot
    <2>3. CASE /\ u # v /\ visit'[u].overtaken /\ visit'[u].at = visit[u].at /\ visit'[u].flow = visit[u].flow
               /\ visit'[u].ig = visit[u].ig /\ visit'[u].bot = visit[u].bot /\ visit'[u].ws = visit[u].ws
      BY <1>0, <2>3 DEF VisitFits
    <2> QED BY <1>3, <2>1, <2>2, <2>3
  <1>8. BotsAreHeard'
    <2>1. \A u \in Visits :
             \/ /\ visit'[u].at = visit[u].at /\ visit'[u].bot = visit[u].bot
                /\ visit'[u].secret = visit[u].secret
             \/ /\ visit[u].at \in {"create", "drop"} => visit[u].bot \in cut'
                /\ visit'[u].at # "create"
      BY <1>3, <1>4
    <2> QED BY <1>0, <2>1, BotsKeep
  <1>9. PlansHaveRoom'
    <2>1. ASSUME NEW y \in Workspaces, NEW j \in IgsOf(y)' PROVE j \in IgsOf(y)
      <3>1. j \in Instagrams /\ <<j, y>> \notin slipped' /\ <<j, y>> \notin slipped
        BY <1>1, <2>1 DEF IgsOf
      <3>2. CASE account'[j] = y
        <4>1. CASE j # i
          BY <1>2, <3>1, <3>2, <4>1 DEF IgsOf
        <4>2. CASE j = i
          <5>1. y = w /\ ~visit[v].overtaken
            BY <1>1, <1>2, <3>1, <3>2, <4>2
          <5>2. visit[v].at = "upsert" /\ visit[v].ws = w
            BY <1>t, <2>1, <5>1
          <5> QED BY <3>1, <4>2, <5>1, <5>2 DEF IgsOf
        <4> QED BY <4>1, <4>2
      <3>3. ASSUME NEW u \in Visits, visit'[u].at = "upsert", ~visit'[u].overtaken,
                   visit'[u].ig = j, visit'[u].ws = y
            PROVE  j \in IgsOf(y)
        <4>1. visit'[u] = visit[u]
          BY <1>3, <1>4, <3>3
        <4> QED BY <3>1, <3>3, <4>1 DEF IgsOf
      <3> QED BY <2>1, <3>2, <3>3 DEF IgsOf
    <2>2. ASSUME NEW y \in Workspaces, NEW b \in BotsOf(y)' PROVE b \in BotsOf(y)
      <3>1. CASE bot[b].ws = y
        BY <2>2, <3>1 DEF BotsOf
      <3>2. ASSUME NEW u \in Visits, visit'[u].at \in {"bot", "webhook", "create"},
                   visit'[u].bot = b, visit'[u].ws = y
            PROVE  b \in BotsOf(y)
        BY <1>3, <1>4, <2>2, <3>2 DEF BotsOf
      <3> QED BY <2>2, <3>1, <3>2 DEF BotsOf
    <2> QED BY <1>0, <2>1, <2>2, RoomKeeps
  <1> QED BY <1>1, <1>3, <1>5, <1>6, <1>7, <1>8, <1>9 DEF ConnectInv, FlowsStayWithTheirStarter

\* What the properties say of a step.
MovesAreExplained ==
    \A i \in Instagrams : account[i] # Nowhere /\ account'[i] \notin {Nowhere, account[i]} =>
        \E v \in Visits : visit[v].ig = i /\ visit[v].overtaken /\ visit'[v] = NoVisit
SignUpIsWhole == \A i \in Instagrams : i \in linked' \ linked => account'[i] = Home(i)

\* An account is connected to a workspace: if that moves it, the request had been
\* overtaken.
LEMMA UpsertKeeps ==
    ASSUME ConnectInv, NEW v \in Visits, Upsert(v)
    PROVE  ConnectInv' /\ MovesAreExplained /\ SignUpIsWhole
  <1> DEFINE i == visit[v].ig
             w == visit[v].ws
  <1>0. ConnectTypeOK /\ VisitFits(visit[v], account, linked) /\ linked \subseteq Instagrams
    BY DEF ConnectInv, ConnectTypeOK
  <1>1. /\ visit[v].at = "upsert" /\ Arrives(v, i, w)
        /\ UNCHANGED <<flow, result, linked, bot, hook, secrets, astray, cut>>
    BY DEF Upsert, VisitAt
  <1>2. /\ i \in Instagrams /\ w \in Workspaces /\ visit[v].flow \in Flows /\ w \in AllWorkspaces
        /\ visit[v].overtaken \/ account[i] \in {Nowhere, w}
    BY <1>0, <1>1, ConnectTypes DEF VisitFits, ForWorkspace
  <1>3. ConnectInv' /\ account' = [account EXCEPT ![i] = w] /\ visit'[v] = NoVisit
    <2> HIDE DEF w
    <2>1. visit[v].ws = w
      BY DEF w
    <2> QED BY <1>0, <1>1, <1>2, <2>1, ArrivalKeeps
  <1>4. MovesAreExplained
    <2>1. account \in [Instagrams -> AllWorkspaces \cup {Nowhere}]
      BY <1>0, ConnectTypes
    <2> QED BY <1>2, <1>3, <2>1 DEF MovesAreExplained
  <1>5. SignUpIsWhole
    BY <1>1 DEF SignUpIsWhole
  <1> QED BY <1>3, <1>4, <1>5

\* Signing in with Instagram, to the account's home or to nobody's.
LEMMA SignInsKeep ==
    ASSUME ConnectInv, NEW v \in Visits,
           LookForSignIn(v) \/ HomeCount(v) \/ HomeCreate(v) \/ SignUp(v)
    PROVE  ConnectInv' /\ MovesAreExplained /\ SignUpIsWhole
  <1> USE ConnectionsAssumption
  <1> DEFINE i == visit[v].ig
  <1>0. /\ ConnectTypeOK /\ VisitFits(visit[v], account, linked) /\ FlowsAreInOnePlace
        /\ cut \subseteq Bots /\ linked \subseteq Instagrams
    BY DEF ConnectInv, ConnectTypeOK
  <1>t. /\ flow \in [Flows -> FlowStates] /\ result \in [Flows -> ResultStates]
        /\ completed \in [Flows -> Nat] /\ visit \in [Visits -> VisitStates] /\ NoVisit \in VisitStates
        /\ account \in [Instagrams -> AllWorkspaces \cup {Nowhere}]
        /\ \A j \in Instagrams : Home(j) \in AllWorkspaces
    BY <1>0, ConnectTypes
  <1>1. /\ visit[v].at \in ForPerson
        /\ UNCHANGED <<flow, result, bot, hook, secrets, astray, cut>>
    BY DEF LookForSignIn, HomeCount, HomeCreate, SignUp, VisitAt, ForPerson
  <1>2. i \in Instagrams /\ visit[v].flow \in Flows /\ visit[v].at \notin {"create", "drop"}
    BY <1>0, <1>1 DEF VisitFits, ForPerson
  <1>n. VisitFits(NoVisit, account, linked) /\ NoVisit.at = "idle" /\ NoVisit.flow = "none"
    BY DEF VisitFits, NoVisit, ForWorkspace, ForPerson, ForBot
  \* The sign-in is over, with or without somebody signed in.
  <1>3. ASSUME Ends(v), UNCHANGED <<account, linked, slipped>>,
               \/ UNCHANGED completed
               \/ completed' = [completed EXCEPT ![visit[v].flow] = @ + 1]
        PROVE  ConnectInv' /\ MovesAreExplained /\ SignUpIsWhole
    <2>1. visit' = [visit EXCEPT ![v] = NoVisit]
      BY <1>3 DEF Ends
    <2>2. visit'[v] = NoVisit /\ \A u \in Visits \ {v} : visit'[u] = visit[u]
      BY <1>t, <2>1
    <2>3. FlowsAreInOnePlace' /\ completed' \in [Flows -> Nat]
      <3>1. CASE UNCHANGED completed
        BY <1>0, <1>1, <1>n, <1>t, <2>2, <3>1, FlowsKeep
      <3>2. CASE completed' = [completed EXCEPT ![visit[v].flow] = @ + 1]
        BY <1>0, <1>1, <1>2, <1>n, <1>t, <2>2, <3>2, FlowEnds
      <3> QED BY <1>3, <3>1, <3>2
    <2>4. ConnectInv'
      BY <1>0, <1>1, <1>2, <1>3, <1>n, <1>t, <2>1, <2>3, LightStepKeeps
    <2> QED BY <1>3, <2>4 DEF MovesAreExplained, SignUpIsWhole
  \* It goes on.
  <1>4. ASSUME NEW to \in ForPerson, Goes(v, to), to \in {"homeCount", "homeCreate"} => i \in linked,
               UNCHANGED <<account, linked, slipped, completed>>
        PROVE  ConnectInv' /\ MovesAreExplained /\ SignUpIsWhole
    <2>1. PICK x \in VisitStates :
            /\ visit' = [visit EXCEPT ![v] = x]
            /\ x.at = to /\ x.flow = visit[v].flow /\ x.ig = visit[v].ig /\ x.bot = visit[v].bot
            /\ x.ws = visit[v].ws /\ x.secret = visit[v].secret /\ x.overtaken = visit[v].overtaken
      <3>1. to \in Places
        BY <1>4 DEF Places, ForPerson
      <3> QED BY <1>4, <1>t, <3>1, GoesOn
    <2>2. /\ x.at \notin {"create", "upsert", "bot", "webhook", "idle", "authorize", "new", "count"}
          /\ x.at \notin ForBot /\ x.at \notin ForWorkspace
      BY <1>4, <2>1 DEF ForPerson, ForBot, ForWorkspace
    <2>3. VisitFits(x, account, linked)
      BY <1>2, <1>4, <2>1, <2>2 DEF VisitFits
    <2>4. FlowsAreInOnePlace'
      <3>1. \A u \in Visits : visit'[u].flow \in {visit[u].flow, "none"}
        BY <1>t, <2>1
      <3> QED BY <1>0, <1>1, <1>4, <3>1, FlowsKeep
    <2>5. ConnectInv'
      BY <1>0, <1>1, <1>2, <1>4, <1>t, <2>1, <2>2, <2>3, <2>4, LightStepKeeps
    <2> QED BY <1>4, <2>5 DEF MovesAreExplained, SignUpIsWhole
  \* The account comes home.
  <1>5. ASSUME Arrives(v, i, Home(i)), account[i] = Nowhere, linked \subseteq linked',
               linked' \subseteq linked \cup {i}, i \in linked'
        PROVE  ConnectInv' /\ MovesAreExplained /\ SignUpIsWhole
    <2>1. linked' \subseteq Instagrams
      BY <1>0, <1>2, <1>5
    <2>2. ConnectInv' /\ account' = [account EXCEPT ![i] = Home(i)]
      BY <1>1, <1>2, <1>5, <1>t, <2>1, ArrivalKeeps
    <2>3. account'[i] = Home(i) /\ \A j \in Instagrams \ {i} : account'[j] = account[j]
      BY <1>2, <1>t, <2>2
    <2>4. MovesAreExplained
      BY <1>5, <2>3 DEF MovesAreExplained
    <2>5. SignUpIsWhole
      BY <1>5, <2>3 DEF SignUpIsWhole
    <2> QED BY <2>2, <2>4, <2>5
  <1>6. CASE LookForSignIn(v)
    <2>1. UNCHANGED <<account, linked, slipped>>
      BY <1>6 DEF LookForSignIn
    <2>2. CASE Ends(v)
      BY <1>3, <1>6, <2>1, <2>2 DEF LookForSignIn
    <2>3. CASE i \in linked /\ Goes(v, "homeCount") /\ UNCHANGED completed
      BY <1>4, <2>1, <2>3 DEF ForPerson
    <2>4. CASE Goes(v, "signup") /\ UNCHANGED completed
      BY <1>4, <2>1, <2>4 DEF ForPerson
    <2> QED BY <1>6, <2>2, <2>3, <2>4 DEF LookForSignIn
  <1>7. CASE HomeCount(v)
    <2>1. UNCHANGED <<account, linked, slipped>> /\ i \in linked
      BY <1>0, <1>7 DEF HomeCount, VisitAt, VisitFits
    <2>2. CASE Ends(v)
      BY <1>3, <1>7, <2>1, <2>2 DEF HomeCount
    <2>3. CASE Goes(v, "homeCreate") /\ UNCHANGED completed
      BY <1>4, <2>1, <2>3 DEF ForPerson
    <2> QED BY <1>7, <2>2, <2>3 DEF HomeCount
  <1>8. CASE HomeCreate(v)
    <2>1. UNCHANGED linked /\ i \in linked
      BY <1>0, <1>8 DEF HomeCreate, VisitAt, VisitFits
    <2>2. CASE account[i] = Nowhere
      BY <1>5, <1>8, <2>1, <2>2 DEF HomeCreate
    <2>3. CASE account[i] # Nowhere
      BY <1>3, <1>8, <2>1, <2>3 DEF HomeCreate
    <2> QED BY <2>2, <2>3
  <1>9. CASE SignUp(v)
    <2>1. CASE i \notin linked /\ account[i] = Nowhere
      BY <1>5, <1>9, <2>1 DEF SignUp
    <2>2. CASE ~(i \notin linked /\ account[i] = Nowhere)
      BY <1>3, <1>9, <2>2 DEF SignUp
    <2> QED BY <2>1, <2>2
  <1> QED BY <1>6, <1>7, <1>8, <1>9

\* An account goes.
LEMMA DepartureKeeps ==
    ASSUME ConnectInv, NEW i \in Instagrams, Disconnect(i)
    PROVE  ConnectInv' /\ MovesAreExplained /\ SignUpIsWhole
  <1> USE ConnectionsAssumption
  <1>0. /\ ConnectTypeOK /\ FlowsAreInOnePlace /\ PlansHaveRoom /\ BotsAreHeard
        /\ \A u \in Visits : VisitFits(visit[u], account, linked)
    BY DEF ConnectInv
  <1>t. /\ account \in [Instagrams -> AllWorkspaces \cup {Nowhere}]
        /\ \A j \in Instagrams : Home(j) \notin Workspaces \cup {Nowhere}
    BY <1>0, ConnectTypes
  <1>1. /\ account' = [account EXCEPT ![i] = Nowhere]
        /\ UNCHANGED <<flow, result, linked, bot, hook, secrets, visit, slipped, completed, astray, cut>>
    BY DEF Disconnect
  <1>2. /\ account' \in [Instagrams -> AllWorkspaces \cup {Nowhere}]
        /\ \A j \in Instagrams : account'[j] \in {Nowhere, account[j]}
    BY <1>1, <1>t
  <1>3. ConnectTypeOK'
    <2>1. \A j \in Instagrams : account'[j] \in {Home(k) : k \in Instagrams}
                                   => account'[j] = Home(j) /\ j \in linked'
      BY <1>0, <1>1, <1>2, <1>t DEF ConnectTypeOK
    <2> QED BY <1>0, <1>1, <1>2, <2>1 DEF ConnectTypeOK
  <1>4. \A u \in Visits : VisitFits(visit'[u], account', linked')
    <2> SUFFICES ASSUME NEW u \in Visits PROVE VisitFits(visit[u], account', linked)
      BY <1>1
    <2>1. VisitFits(visit[u], account, linked)
      BY <1>0
    <2>2. visit[u].ig \in Instagrams => account'[visit[u].ig] \in {Nowhere, account[visit[u].ig]}
      BY <1>2
    <2> QED BY <2>1, <2>2 DEF VisitFits, ForWorkspace, ForPerson
  <1>5. FlowsAreInOnePlace' /\ BotsAreHeard'
    BY <1>0, <1>1 DEF FlowsAreInOnePlace, BotsAreHeard
  <1>6. PlansHaveRoom'
    <2>1. ASSUME NEW w \in Workspaces PROVE IgsOf(w)' \subseteq IgsOf(w) /\ BotsOf(w)' \subseteq BotsOf(w)
      BY <1>1, <1>2 DEF IgsOf, BotsOf
    <2> QED BY <1>0, <2>1, RoomKeeps
  <1>7. MovesAreExplained /\ SignUpIsWhole
    BY <1>1, <1>2 DEF MovesAreExplained, SignUpIsWhole
  <1> QED BY <1>1, <1>3, <1>4, <1>5, <1>6, <1>7 DEF ConnectInv, FlowsStayWithTheirStarter

\* A bot's webhook or row is written, or goes: once the bot is still heard, the rest
\* follows.
LEMMA BotStepKeeps ==
    ASSUME ConnectInv, NEW v \in Visits, NEW x \in VisitStates, visit' = [visit EXCEPT ![v] = x],
           visit[v].at \in ForBot, x.at \in {"create", "drop", "idle"}, x.flow = "none", x.ig = "none",
           x.at # "idle" => x.bot = visit[v].bot /\ x.ws = visit[v].ws,
           x.at = "create" => visit[v].at = "webhook",
           UNCHANGED <<flow, result, account, linked, slipped, completed, astray>>,
           bot' \in [Bots -> BotRows], hook' \in [Bots -> 0 .. MaxSecrets], secrets' \in 0 .. MaxSecrets,
           cut' \subseteq Bots,
           \A b \in Bots : \/ bot'[b].ws \in {Nowhere, bot[b].ws}
                           \/ visit[v].at = "create" /\ visit[v].bot = b /\ visit[v].ws = bot'[b].ws,
           BotsAreHeard'
    PROVE  ConnectInv' /\ UNCHANGED <<account, linked>>
  <1> USE ConnectionsAssumption
  <1>0. /\ ConnectTypeOK /\ FlowsAreInOnePlace /\ PlansHaveRoom
        /\ \A u \in Visits : VisitFits(visit[u], account, linked)
    BY DEF ConnectInv
  <1>t. visit \in [Visits -> VisitStates]
    BY <1>0, ConnectTypes
  <1>1. /\ visit' \in [Visits -> VisitStates] /\ visit'[v] = x
        /\ \A u \in Visits \ {v} : visit'[u] = visit[u]
    BY <1>t
  <1>2. ConnectTypeOK'
    BY <1>0, <1>1 DEF ConnectTypeOK, BotRows, VisitStates, Places
  <1>3. \A u \in Visits : VisitFits(visit'[u], account', linked')
    <2>1. VisitFits(x, account, linked)
      <3>1. VisitFits(visit[v], account, linked)
        BY <1>0
      <3> QED BY <3>1 DEF VisitFits, ForWorkspace, ForPerson, ForBot
    <2> QED BY <1>0, <1>1, <2>1
  <1>4. FlowsAreInOnePlace'
    <2>1. \A u \in Visits : visit'[u].flow \in {visit[u].flow, "none"}
      BY <1>1
    <2> QED BY <1>0, <2>1, FlowsKeep
  <1>5. PlansHaveRoom'
    <2>1. ASSUME NEW w \in Workspaces, NEW i \in IgsOf(w)' PROVE i \in IgsOf(w)
      BY <1>1, <2>1 DEF IgsOf
    <2>2. ASSUME NEW w \in Workspaces, NEW b \in BotsOf(w)' PROVE b \in BotsOf(w)
      <3>1. CASE bot'[b].ws = w
        BY <2>2, <3>1 DEF BotsOf
      <3>2. ASSUME NEW u \in Visits, visit'[u].at \in {"bot", "webhook", "create"},
                   visit'[u].bot = b, visit'[u].ws = w
            PROVE  b \in BotsOf(w)
        BY <1>1, <2>2, <3>2 DEF BotsOf
      <3> QED BY <2>2, <3>1, <3>2 DEF BotsOf
    <2> QED BY <1>0, <2>1, <2>2, RoomKeeps
  <1> QED BY <1>2, <1>3, <1>4, <1>5 DEF ConnectInv, FlowsStayWithTheirStarter

\* The webhook and the row of a bot.
LEMMA BotStepsKeep ==
    ASSUME ConnectInv, NEW v \in Visits,
           \/ SetWebhook(v) \/ CreateBot(v) \/ DropBot(v)
           \/ \E removed \in BOOLEAN : RemoveWebhook(v, removed)
    PROVE  ConnectInv' /\ UNCHANGED <<account, linked>>
  <1> USE ConnectionsAssumption
  <1> DEFINE b == visit[v].bot
  <1>0. /\ ConnectTypeOK /\ VisitFits(visit[v], account, linked) /\ BotsAreHeard
        /\ cut \subseteq Bots /\ secrets \in 0 .. MaxSecrets
    BY DEF ConnectInv, ConnectTypeOK
  <1>t. /\ visit \in [Visits -> VisitStates] /\ NoVisit \in VisitStates
        /\ bot \in [Bots -> BotRows] /\ hook \in [Bots -> 0 .. MaxSecrets]
        /\ MaxSecrets \in Nat /\ 0 \in 0 .. MaxSecrets
    BY <1>0, ConnectTypes
  <1>s. visit[v] \in VisitStates
    BY <1>t
  <1>n. NoVisit.at = "idle" /\ NoVisit.flow = "none" /\ NoVisit.ig = "none" /\ NoVisit.bot = "none"
    BY DEF NoVisit
  <1>1. CASE SetWebhook(v)
    <2> DEFINE s == secrets + 1
               x == [visit[v] EXCEPT !.at = "create", !.secret = s]
    <2>1. /\ visit[v].at = "webhook" /\ secrets < MaxSecrets /\ secrets' = s
          /\ hook' = [hook EXCEPT ![b] = s] /\ visit' = [visit EXCEPT ![v] = x]
          /\ cut' = IF Crosses(v) THEN cut \cup {b} ELSE cut
          /\ UNCHANGED <<flow, result, account, linked, bot, slipped, completed, astray>>
      BY <1>1, <1>t DEF SetWebhook, VisitAt
    <2>2. b \in Bots /\ visit[v].flow = "none" /\ visit[v].ig = "none"
      BY <1>0, <2>1 DEF VisitFits, ForBot
    <2>3. s \in 0 .. MaxSecrets
      BY <1>0, <1>t, <2>1
    <2>4. /\ x \in VisitStates /\ x.at = "create" /\ x.secret = s /\ x.bot = b /\ x.ws = visit[v].ws
          /\ x.flow = "none" /\ x.ig = "none"
      BY <1>s, <2>2, <2>3 DEF VisitStates, Places
    <2> HIDE DEF x, s
    <2>5. /\ visit'[v] = x /\ \A u \in Visits \ {v} : visit'[u] = visit[u]
          /\ hook' \in [Bots -> 0 .. MaxSecrets] /\ hook'[b] = s
          /\ \A c \in Bots \ {b} : hook'[c] = hook[c]
      BY <1>t, <2>1, <2>2, <2>3, <2>4
    <2>6. cut \subseteq cut' /\ cut' \subseteq Bots
      BY <1>0, <2>1, <2>2
    <2>7. BotsAreHeard'
      <3> SUFFICES ASSUME NEW c \in Bots, c \notin cut'
                   PROVE  /\ \A u \in Visits : visit'[u].at = "create" /\ visit'[u].bot = c
                                => hook'[c] = visit'[u].secret
                          /\ bot[c].ws # Nowhere /\ hook'[c] # bot[c].secret =>
                               \E u \in Visits : /\ visit'[u].bot = c
                                                 /\ \/ visit'[u].at = "create"
                                                    \/ visit'[u].at = "drop" /\ visit'[u].secret = bot[c].secret
        BY <2>1 DEF BotsAreHeard
      <3>1. c \in Bots \ cut
        BY <2>6
      <3>2. CASE c = b
        <4>1. ~Crosses(v)
          BY <2>1, <3>2
        <4>2. \A u \in Visits : visit'[u].at = "create" /\ visit'[u].bot = c => u = v
          BY <2>5, <3>2, <4>1 DEF Crosses, VisitAt
        <4> QED BY <2>4, <2>5, <3>2, <4>2
      <3>3. CASE c # b
        <4>1. \A u \in Visits : visit'[u].bot = c => visit'[u] = visit[u]
          BY <2>4, <2>5, <3>3
        <4>2. \A u \in Visits : visit[u].bot = c => visit'[u] = visit[u]
          BY <2>5, <3>3
        <4>3. hook'[c] = hook[c]
          BY <2>5, <3>3
        <4> HIDE DEF b
        <4> QED BY <1>0, <3>1, <4>1, <4>2, <4>3 DEF BotsAreHeard
      <3> QED BY <3>2, <3>3
    <2>8. \A c \in Bots : bot'[c].ws \in {Nowhere, bot[c].ws}
      BY <2>1
    <2> QED BY <1>t, <2>1, <2>3, <2>4, <2>5, <2>6, <2>7, <2>8, BotStepKeeps DEF ForBot
  <1>2. CASE CreateBot(v)
    <2> DEFINE r == [ws |-> visit[v].ws, secret |-> visit[v].secret]
    <2>1. /\ visit[v].at = "create" /\ visit' = [visit EXCEPT ![v] = NoVisit]
          /\ IF bot[b].ws = Nowhere THEN bot' = [bot EXCEPT ![b] = r] /\ UNCHANGED cut
             ELSE cut' = cut \cup {b} /\ UNCHANGED bot
          /\ UNCHANGED <<flow, result, account, linked, hook, secrets, slipped, completed, astray>>
      BY <1>2 DEF CreateBot, VisitAt, Ends
    <2>2. b \in Bots /\ visit[v].ws \in Workspaces /\ visit[v].secret \in 0 .. MaxSecrets
      BY <1>0, <1>s, <2>1 DEF VisitFits, ForBot, VisitStates
    <2>3. r \in BotRows /\ r.ws = visit[v].ws /\ r.secret = visit[v].secret
      BY <2>2 DEF BotRows
    <2> HIDE DEF r
    <2>4. visit'[v] = NoVisit /\ \A u \in Visits \ {v} : visit'[u] = visit[u]
      BY <1>t, <2>1
    <2>5. /\ bot' \in [Bots -> BotRows] /\ \A c \in Bots \ {b} : bot'[c] = bot[c]
          /\ b \notin cut' => bot'[b] = r
          /\ bot'[b] \in {r, bot[b]}
      BY <1>t, <2>1, <2>2, <2>3
    <2>6. cut \subseteq cut' /\ cut' \subseteq Bots
      BY <1>0, <2>1, <2>2
    <2>7. BotsAreHeard'
      <3> SUFFICES ASSUME NEW c \in Bots, c \notin cut'
                   PROVE  /\ \A u \in Visits : visit'[u].at = "create" /\ visit'[u].bot = c
                                => hook[c] = visit'[u].secret
                          /\ bot'[c].ws # Nowhere /\ hook[c] # bot'[c].secret =>
                               \E u \in Visits : /\ visit'[u].bot = c
                                                 /\ \/ visit'[u].at = "create"
                                                    \/ visit'[u].at = "drop" /\ visit'[u].secret = bot'[c].secret
        BY <2>1 DEF BotsAreHeard
      <3>1. c \in Bots \ cut
        BY <2>6
      <3>2. \A u \in Visits : visit'[u].at = "create" /\ visit'[u].bot = c => hook[c] = visit'[u].secret
        BY <1>0, <1>n, <2>4, <3>1 DEF BotsAreHeard
      <3>3. CASE c = b
        <4>1. hook[c] = bot'[c].secret
          BY <1>0, <2>1, <2>3, <2>5, <3>1, <3>3 DEF BotsAreHeard
        <4> QED BY <3>2, <4>1
      <3>4. CASE c # b
        <4>1. \A u \in Visits : visit[u].bot = c => visit'[u] = visit[u]
          BY <2>4, <3>4
        <4>2. bot'[c] = bot[c]
          BY <2>5, <3>4
        <4> HIDE DEF b
        <4> QED BY <1>0, <3>1, <3>2, <4>1, <4>2 DEF BotsAreHeard
      <3> QED BY <3>3, <3>4
    <2>8. \A c \in Bots : \/ bot'[c].ws \in {Nowhere, bot[c].ws}
                          \/ visit[v].at = "create" /\ visit[v].bot = c /\ visit[v].ws = bot'[c].ws
      BY <2>1, <2>3, <2>5
    <2> QED BY <1>0, <1>n, <1>t, <2>1, <2>5, <2>6, <2>7, <2>8, BotStepKeeps DEF ForBot
  <1>3. CASE DropBot(v)
    <2>1. /\ visit[v].at = "drop" /\ visit' = [visit EXCEPT ![v] = NoVisit]
          /\ bot' = IF bot[b].secret = visit[v].secret THEN [bot EXCEPT ![b] = NoBot] ELSE bot
          /\ UNCHANGED <<flow, result, account, linked, hook, secrets, slipped, completed, astray, cut>>
      BY <1>3 DEF DropBot, VisitAt, Ends
    <2>2. b \in Bots
      BY <1>0, <2>1 DEF VisitFits, ForBot
    <2>3. NoBot \in BotRows /\ NoBot.ws = Nowhere
      BY <1>t DEF NoBot, BotRows
    <2>4. visit'[v] = NoVisit /\ \A u \in Visits \ {v} : visit'[u] = visit[u]
      BY <1>t, <2>1
    <2>5. /\ bot' \in [Bots -> BotRows] /\ \A c \in Bots \ {b} : bot'[c] = bot[c]
          /\ bot'[b] = IF bot[b].secret = visit[v].secret THEN NoBot ELSE bot[b]
      BY <1>t, <2>1, <2>2, <2>3
    <2>6. BotsAreHeard'
      <3> SUFFICES ASSUME NEW c \in Bots \ cut
                   PROVE  /\ \A u \in Visits : visit'[u].at = "create" /\ visit'[u].bot = c
                                => hook[c] = visit'[u].secret
                          /\ bot'[c].ws # Nowhere /\ hook[c] # bot'[c].secret =>
                               \E u \in Visits : /\ visit'[u].bot = c
                                                 /\ \/ visit'[u].at = "create"
                                                    \/ visit'[u].at = "drop" /\ visit'[u].secret = bot'[c].secret
        BY <2>1 DEF BotsAreHeard
      <3>1. \A u \in Visits : visit'[u].at = "create" /\ visit'[u].bot = c => hook[c] = visit'[u].secret
        BY <1>0, <1>n, <2>4 DEF BotsAreHeard
      <3>2. ASSUME bot'[c].ws # Nowhere, hook[c] # bot'[c].secret
            PROVE  \E u \in Visits : /\ visit'[u].bot = c
                                     /\ \/ visit'[u].at = "create"
                                        \/ visit'[u].at = "drop" /\ visit'[u].secret = bot'[c].secret
        <4>1. bot'[c] = bot[c] /\ (c = b => bot[b].secret # visit[v].secret)
          BY <2>3, <2>5, <3>2
        <4>2. PICK u \in Visits : /\ visit[u].bot = c
                                  /\ \/ visit[u].at = "create"
                                     \/ visit[u].at = "drop" /\ visit[u].secret = bot[c].secret
          BY <1>0, <3>2, <4>1 DEF BotsAreHeard
        <4>3. u # v
          BY <2>1, <4>1, <4>2
        <4> QED BY <2>4, <4>1, <4>2, <4>3
      <3> QED BY <3>1, <3>2
    <2>7. \A c \in Bots : bot'[c].ws \in {Nowhere, bot[c].ws}
      BY <2>3, <2>5
    <2> QED BY <1>0, <1>n, <1>t, <2>1, <2>5, <2>6, <2>7, BotStepKeeps DEF ForBot
  <1>4. ASSUME NEW removed \in BOOLEAN, RemoveWebhook(v, removed)
        PROVE  ConnectInv' /\ UNCHANGED <<account, linked>>
    <2>1. /\ visit[v].at = "unhook" /\ Goes(v, "drop")
          /\ hook' = IF removed THEN [hook EXCEPT ![b] = 0] ELSE hook
          /\ cut' = IF removed /\ (bot[b].secret # visit[v].secret \/ Crosses(v)) THEN cut \cup {b} ELSE cut
          /\ UNCHANGED <<flow, result, account, linked, bot, secrets, slipped, completed, astray>>
      BY <1>4 DEF RemoveWebhook, VisitAt
    <2>2. b \in Bots /\ visit[v].flow = "none" /\ visit[v].ig = "none"
      BY <1>0, <2>1 DEF VisitFits, ForBot
    <2>3. PICK x \in VisitStates :
            /\ visit' = [visit EXCEPT ![v] = x]
            /\ x.at = "drop" /\ x.flow = visit[v].flow /\ x.ig = visit[v].ig /\ x.bot = visit[v].bot
            /\ x.ws = visit[v].ws /\ x.secret = visit[v].secret /\ x.overtaken = visit[v].overtaken
      BY <1>t, <2>1, GoesOn DEF Places
    <2>4. /\ visit'[v] = x /\ \A u \in Visits \ {v} : visit'[u] = visit[u]
          /\ hook' \in [Bots -> 0 .. MaxSecrets] /\ \A c \in Bots \ {b} : hook'[c] = hook[c]
          /\ ~removed => hook' = hook
      BY <1>t, <2>1, <2>2, <2>3
    <2>5. cut \subseteq cut' /\ cut' \subseteq Bots
      BY <1>0, <2>1, <2>2
    <2>6. BotsAreHeard'
      <3> SUFFICES ASSUME NEW c \in Bots, c \notin cut'
                   PROVE  /\ \A u \in Visits : visit'[u].at = "create" /\ visit'[u].bot = c
                                => hook'[c] = visit'[u].secret
                          /\ bot[c].ws # Nowhere /\ hook'[c] # bot[c].secret =>
                               \E u \in Visits : /\ visit'[u].bot = c
                                                 /\ \/ visit'[u].at = "create"
                                                    \/ visit'[u].at = "drop" /\ visit'[u].secret = bot[c].secret
        BY <2>1 DEF BotsAreHeard
      <3>1. c \in Bots \ cut
        BY <2>5
      <3>2. CASE c = b /\ removed
        <4>1. ~Crosses(v) /\ bot[b].secret = visit[v].secret
          BY <2>1, <3>2
        <4>2. \A u \in Visits : visit'[u].bot = c => visit'[u].at # "create"
          BY <2>3, <2>4, <3>2, <4>1 DEF Crosses, VisitAt
        <4> QED BY <2>3, <2>4, <3>2, <4>1, <4>2
      <3>3. CASE c # b \/ ~removed
        <4>1. hook'[c] = hook[c]
          BY <2>4, <3>3
        <4>2. \A u \in Visits : visit'[u].at = "create" /\ visit'[u].bot = c => hook[c] = visit'[u].secret
          BY <1>0, <2>3, <2>4, <3>1 DEF BotsAreHeard
        <4>3. ASSUME bot[c].ws # Nowhere, hook[c] # bot[c].secret
              PROVE  \E u \in Visits : /\ visit'[u].bot = c
                                       /\ \/ visit'[u].at = "create"
                                          \/ visit'[u].at = "drop" /\ visit'[u].secret = bot[c].secret
          <5>1. PICK u \in Visits : /\ visit[u].bot = c
                                    /\ \/ visit[u].at = "create"
                                       \/ visit[u].at = "drop" /\ visit[u].secret = bot[c].secret
            BY <1>0, <3>1, <4>3 DEF BotsAreHeard
          <5>2. u # v
            BY <2>1, <5>1
          <5> QED BY <2>4, <5>1, <5>2
        <4> QED BY <4>1, <4>2, <4>3
      <3> QED BY <3>2, <3>3
    <2>7. \A c \in Bots : bot'[c].ws \in {Nowhere, bot[c].ws}
      BY <2>1
    <2> QED BY <1>0, <1>t, <2>1, <2>2, <2>3, <2>4, <2>5, <2>6, <2>7, BotStepKeeps DEF ForBot
  <1> QED BY <1>1, <1>2, <1>3, <1>4

\* No plan holds more than it has room for, but one account for every other request
\* under way, and those that were moved without being counted.
LEMMA PlansHold == ConnectInv => PlansHoldTheirAccounts
  <1> SUFFICES ASSUME ConnectInv, NEW w \in AllWorkspaces
               PROVE  Cardinality({i \in Instagrams : account[i] = w /\ <<i, w>> \notin slipped})
                        + Cardinality({b \in Bots : bot[b].ws = w})
                          <= AccountLimit + Cardinality(Visits) - 1
    BY DEF PlansHoldTheirAccounts
  <1> USE ConnectionsAssumption
  <1> DEFINE A == {i \in Instagrams : account[i] = w /\ <<i, w>> \notin slipped}
             B == {b \in Bots : bot[b].ws = w}
  <1>t. /\ bot \in [Bots -> BotRows]
        /\ \A i \in Instagrams : Home(i) \notin Workspaces \cup {Nowhere}
    BY ConnectTypes DEF ConnectInv
  <1>1. AccountLimit \in Nat \ {0} /\ Cardinality(Visits) \in Nat \ {0}
    BY FS_CardinalityType, FS_EmptySet
  <1>2. CASE w \in Workspaces
    <2>1. IgsOf(w) \in SUBSET Instagrams /\ BotsOf(w) \in SUBSET Bots
      BY DEF IgsOf, BotsOf
    <2>2. IsFiniteSet(IgsOf(w)) /\ IsFiniteSet(BotsOf(w))
      BY <2>1, FS_Subset
    <2>3. A \in SUBSET IgsOf(w) /\ B \in SUBSET BotsOf(w)
      BY DEF IgsOf, BotsOf
    <2> HIDE DEF A, B
    <2>4. /\ Cardinality(A) <= Cardinality(IgsOf(w)) /\ IsFiniteSet(A)
          /\ Cardinality(B) <= Cardinality(BotsOf(w)) /\ IsFiniteSet(B)
      BY <2>2, <2>3, FS_Subset
    <2>5. Cardinality(IgsOf(w)) + Cardinality(BotsOf(w)) <= AccountLimit + Cardinality(Visits) - 1
      BY <1>2 DEF ConnectInv, PlansHaveRoom
    <2>6. /\ Cardinality(A) \in Nat /\ Cardinality(B) \in Nat
          /\ Cardinality(IgsOf(w)) \in Nat /\ Cardinality(BotsOf(w)) \in Nat
      BY <2>2, <2>4, FS_CardinalityType
    <2>7. Cardinality(A) + Cardinality(B) <= AccountLimit + Cardinality(Visits) - 1
      BY <1>1, <2>4, <2>5, <2>6
    <2> QED BY <2>7 DEF A, B
  <1>3. ASSUME NEW i \in Instagrams, w = Home(i)
        PROVE  Cardinality(A) + Cardinality(B) <= AccountLimit + Cardinality(Visits) - 1
    <2>1. \A j \in Instagrams : account[j] = w => w = Home(j)
      BY <1>3 DEF ConnectInv, ConnectTypeOK
    <2>2. A \in SUBSET {i}
      BY <1>3, <2>1 DEF Home
    <2>3. B = {}
      BY <1>3, <1>t DEF BotRows
    <2> HIDE DEF A, B
    <2>4. Cardinality(A) <= 1 /\ Cardinality(A) \in Nat
      <3>1. IsFiniteSet({i}) /\ Cardinality({i}) = 1
        BY FS_Singleton
      <3> QED BY <2>2, <3>1, FS_Subset, FS_CardinalityType
    <2>5. Cardinality(B) = 0
      BY <2>3, FS_EmptySet
    <2> QED BY <1>1, <2>4, <2>5
  <1> HIDE DEF A, B
  <1>4. w \in Workspaces \/ \E i \in Instagrams : w = Home(i)
    BY DEF AllWorkspaces
  <1> QED BY <1>2, <1>3, <1>4 DEF A, B

\* Connecting accounts (lib/meta/oauth-flow.ts, lib/instagram-oauth.ts,
\* app/api/telegram/connect): a flow works once and for whoever started it, the plan's
\* number of accounts and their workspaces give way only to requests that race, a
\* sign-up is whole, and a bot that hears nothing was crossed or is being seen to.
THEOREM ConnectionsHold == ConnectSpec => ConnectionsAreSound
  <1>1. ConnectInit => ConnectInv
    <2> SUFFICES ASSUME ConnectInit PROVE ConnectInv
      OBVIOUS
    <2> USE ConnectionsAssumption DEF ConnectInit
    <2>0. 0 \in 0 .. MaxSecrets
      OBVIOUS
    <2>1. ConnectTypeOK
      <3>1. /\ flow \in [Flows -> FlowStates] /\ result \in [Flows -> ResultStates]
            /\ bot \in [Bots -> BotRows]
        BY <2>0 DEF FlowStates, ResultStates, BotRows, Clients, NoFlow, NoResult, NoBot
      <3>2. visit \in [Visits -> VisitStates]
        BY <2>0 DEF VisitStates, Places, NoVisit
      <3>3. \A i \in Instagrams : account[i] \notin {Home(j) : j \in Instagrams}
        BY DEF Home
      <3> QED BY <2>0, <3>1, <3>2, <3>3, ConnectTyped
    <2>2. \A v \in Visits : VisitFits(visit[v], account, linked)
      BY DEF VisitFits, NoVisit, ForWorkspace, ForPerson, ForBot
    <2>3. FlowsAreInOnePlace
      BY DEF FlowsAreInOnePlace, NoFlow, NoResult, NoVisit
    <2>4. PlansHaveRoom
      <3> SUFFICES ASSUME NEW w \in Workspaces
                   PROVE  Cardinality(IgsOf(w)) + Cardinality(BotsOf(w))
                            <= AccountLimit + Cardinality(Visits) - 1
        BY DEF PlansHaveRoom
      <3>1. IgsOf(w) = {} /\ BotsOf(w) = {}
        BY DEF IgsOf, BotsOf, NoVisit, NoBot
      <3>2. Cardinality(IgsOf(w)) = 0 /\ Cardinality(BotsOf(w)) = 0
        BY <3>1, FS_EmptySet
      <3>3. AccountLimit \in Nat \ {0} /\ Cardinality(Visits) \in Nat
        BY FS_CardinalityType
      <3> QED BY <3>2, <3>3
    <2>5. BotsAreHeard
      BY DEF BotsAreHeard, NoBot, NoVisit
    <2> QED BY <2>1, <2>2, <2>3, <2>4, <2>5 DEF ConnectInv, FlowsStayWithTheirStarter
  <1>2. ASSUME ConnectInv, [ConnectNext]_connectVars
        PROVE  ConnectInv' /\ MovesAreExplained /\ SignUpIsWhole
    <2>0. UNCHANGED <<account, linked>> => MovesAreExplained /\ SignUpIsWhole
      BY DEF MovesAreExplained, SignUpIsWhole
    <2>1. ASSUME NEW f \in Flows,
                 \/ \E client \in Clients, w \in Workspaces \cup {Nowhere} : Start(f, client, w)
                 \/ FlowExpires(f)
          PROVE  ConnectInv' /\ UNCHANGED <<account, linked>>
      <3>1. PICK v \in Visits : TRUE
        BY ConnectionsAssumption
      <3> QED BY <1>2, <2>1, <3>1, RoundTripKeeps
    <2>2. ASSUME NEW f \in Flows, NEW v \in Visits,
                 \E starter \in BOOLEAN : Callback(v, f, starter) \/ Redeem(v, f, starter)
          PROVE  ConnectInv' /\ UNCHANGED <<account, linked>>
      BY <1>2, <2>2, RoundTripKeeps
    <2>3. ASSUME NEW v \in Visits, \E i \in Instagrams : Authorize(v, i)
          PROVE  ConnectInv' /\ UNCHANGED <<account, linked>>
      <3>1. visit[v].flow \in Flows
        BY <1>2, <2>3 DEF ConnectInv, VisitFits, Authorize, VisitAt
      <3> QED BY <1>2, <2>3, <3>1, RoundTripKeeps
    <2>4. ASSUME NEW v \in Visits,
                 \/ Check(v) \/ LookIfNew(v) \/ LookForBot(v) \/ VisitFails(v)
                 \/ \E b \in Bots : FindBot(v, b)
          PROVE  ConnectInv' /\ UNCHANGED <<account, linked>>
      BY <1>2, <2>4, LooksKeep
    <2>5. ASSUME NEW v \in Visits, Count(v) \/ \E b \in Bots, w \in Workspaces : ConnectBot(v, b, w)
          PROVE  ConnectInv' /\ UNCHANGED <<account, linked>>
      BY <1>2, <2>5, CountsKeep
    <2>6. ASSUME NEW v \in Visits,
                 \/ SetWebhook(v) \/ CreateBot(v) \/ DropBot(v)
                 \/ \E removed \in BOOLEAN : RemoveWebhook(v, removed)
          PROVE  ConnectInv' /\ UNCHANGED <<account, linked>>
      BY <1>2, <2>6, BotStepsKeep
    <2>7. ASSUME NEW v \in Visits,
                 Upsert(v) \/ LookForSignIn(v) \/ HomeCount(v) \/ HomeCreate(v) \/ SignUp(v)
          PROVE  ConnectInv' /\ MovesAreExplained /\ SignUpIsWhole
      BY <1>2, <2>7, UpsertKeeps, SignInsKeep
    <2>8. ASSUME NEW i \in Instagrams, Disconnect(i)
          PROVE  ConnectInv' /\ MovesAreExplained /\ SignUpIsWhole
      BY <1>2, <2>8, DepartureKeeps
    <2>9. CASE UNCHANGED connectVars
      <3>1. /\ UNCHANGED <<account, linked, bot, hook, secrets, visit, slipped, astray, cut>>
            /\ UNCHANGED flow /\ UNCHANGED result /\ UNCHANGED completed
        BY <2>9 DEF connectVars
      <3>2. /\ flow' \in [Flows -> FlowStates] /\ result' \in [Flows -> ResultStates]
            /\ completed' \in [Flows -> Nat]
        BY <1>2, <3>1, ConnectTypes DEF ConnectInv
      <3>3. FlowsAreInOnePlace'
        BY <1>2, <3>1 DEF ConnectInv, FlowsAreInOnePlace
      <3> QED BY <1>2, <2>0, <3>1, <3>2, <3>3, FlowStepKeeps
    <2> QED BY <1>2, <2>0, <2>1, <2>2, <2>3, <2>4, <2>5, <2>6, <2>7, <2>8, <2>9 DEF ConnectNext
  <1>3. ConnectInv => /\ ConnectTypeOK /\ FlowsWorkOnce /\ FlowsStayWithTheirStarter
                      /\ PlansHoldTheirAccounts /\ DeafBotsAreExplained
    <2>1. ConnectInv => FlowsWorkOnce
      BY DEF ConnectInv, FlowsAreInOnePlace, FlowsWorkOnce
    <2>2. ConnectInv => DeafBotsAreExplained
      BY DEF ConnectInv, BotsAreHeard, DeafBotsAreExplained
    <2> QED BY <2>1, <2>2, PlansHold DEF ConnectInv
  <1>4. MovesAreExplained /\ SignUpIsWhole =>
          /\ \A i \in Instagrams : account[i] # Nowhere /\ account'[i] \notin {Nowhere, account[i]} =>
                \E v \in Visits : visit[v].ig = i /\ visit[v].overtaken /\ visit'[v] = NoVisit
          /\ \A i \in Instagrams : i \in linked' \ linked => account'[i] = Home(i)
    BY DEF MovesAreExplained, SignUpIsWhole
  <1> QED BY <1>1, <1>2, <1>3, <1>4, PTL
       DEF ConnectSpec, ConnectionsAreSound, OnlyRacesMoveAccounts, SignUpsAreWhole

=============================================================================
