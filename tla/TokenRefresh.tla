---------------------------- MODULE TokenRefresh -----------------------------
(***************************************************************************)
(* The daily request that keeps the Instagram connections alive            *)
(* (app/api/cron/refresh-tokens): after the pruning and the usage reset it *)
(* lists the accounts whose token is about to expire and refreshes them    *)
(* one by one.  A refresh that fails is recorded and the next account is   *)
(* taken; a record that fails ends the request.  Meanwhile people connect, *)
(* disconnect and delete their workspaces.                                 *)
(* Time is counted in days; the request, cut off after minutes, begins and *)
(* ends on one.                                                            *)
(***************************************************************************)
EXTENDS Naturals, FiniteSets

CONSTANTS Accounts,            \* Instagram accounts
          WorkspaceOf,         \* the workspace each is connected to
          Sweeps,              \* cron requests that run at the same time
          DAYS_BEFORE_EXPIRY,
          Lifetime,            \* days a new token is good for
          MaxRows,             \* bound on the rows ever created
          LastDay              \* bound on the calendar

Homes == {WorkspaceOf[a] : a \in Accounts}

ASSUME RefreshAssumption ==
    /\ DOMAIN WorkspaceOf = Accounts /\ IsFiniteSet(Accounts)
    /\ {DAYS_BEFORE_EXPIRY, Lifetime, MaxRows, LastDay} \subseteq Nat
    /\ Lifetime > DAYS_BEFORE_EXPIRY

VARIABLES
    today,
    homes,      \* Workspace rows
    igRow,      \* InstagramAccount rows, by their account
    rows,       \* rows created so far: the last id
    sweep,      \* the cron requests
    told,       \* observer: accounts whose failed refresh was recorded today
    stopped,    \* observer: a failing record ended a request today
    bereft      \* observer: a workspace was deleted today, or the database failed

refreshVars == <<today, homes, igRow, rows, sweep, told, stopped, bereft>>

NoAccount == [id |-> 0, expires |-> 0]
Listed    == [of : Accounts, id : 1 .. MaxRows, expires : 0 .. LastDay + Lifetime]
NoSweep   == [at |-> "idle", todo |-> {}, item |-> {}]

RefreshTypeOK ==
    /\ today \in 0 .. LastDay /\ homes \subseteq Homes /\ rows \in 0 .. MaxRows
    /\ igRow \in [Accounts -> [id : 0 .. MaxRows, expires : 0 .. LastDay + Lifetime]]
    /\ \A a \in Accounts : igRow[a].id # 0 => WorkspaceOf[a] \in homes /\ igRow[a].id <= rows
    /\ \A a, b \in Accounts : igRow[a].id = igRow[b].id /\ a # b => igRow[a].id = 0
    /\ \A s \in Sweeps :
          /\ sweep[s].at \in {"idle", "list", "next", "refresh", "write", "record"}
          /\ sweep[s].todo \cup sweep[s].item \subseteq Listed
          /\ (sweep[s].item # {}) <=> sweep[s].at \in {"refresh", "write", "record"}
    /\ told \subseteq Accounts /\ stopped \in BOOLEAN /\ bereft \in BOOLEAN

RefreshInit ==
    /\ today = 0 /\ homes = Homes /\ rows = 0
    /\ igRow = [a \in Accounts |-> NoAccount]
    /\ sweep = [s \in Sweeps |-> NoSweep]
    /\ told = {} /\ stopped = FALSE /\ bereft = FALSE

-----------------------------------------------------------------------------
(* The request                                                             *)

Elsewhere == UNCHANGED <<today, homes, rows>>
SweepEnds(s) == sweep' = [sweep EXCEPT ![s] = NoSweep]
TakesTheNext(s) ==
    sweep' = [sweep EXCEPT ![s] = [at |-> "next", todo |-> @.todo, item |-> {}]]
Item(s) == CHOOSE x \in sweep[s].item : TRUE

\* GET with the cron secret; what it deletes and resets first may fail (Dies).
BeginSweep(s) ==
    /\ sweep[s].at = "idle"
    /\ sweep' = [sweep EXCEPT ![s].at = "list"]
    /\ Elsewhere /\ UNCHANGED <<igRow, told, stopped, bereft>>

\* Seeded bug: only the tokens that are already too old.
DueTooLate(a) == igRow[a].id # 0 /\ igRow[a].expires <= today

Due(a) == igRow[a].id # 0 /\ igRow[a].expires <= today + DAYS_BEFORE_EXPIRY

\* findMany: the rows as they are now, with their tokens, in no order.
List(s) ==
    /\ sweep[s].at = "list"
    /\ sweep' = [sweep EXCEPT ![s] =
          [at |-> "next", item |-> {},
           todo |-> {[of |-> a, id |-> igRow[a].id, expires |-> igRow[a].expires] :
                     a \in {b \in Accounts : Due(b)}}]]
    /\ Elsewhere /\ UNCHANGED <<igRow, told, stopped, bereft>>

NextAccount(s) ==
    /\ sweep[s].at = "next"
    /\ IF sweep[s].todo = {} THEN SweepEnds(s)
       ELSE \E x \in sweep[s].todo :
               sweep' = [sweep EXCEPT ![s] =
                             [at |-> "refresh", todo |-> @.todo \ {x}, item |-> {x}]]
    /\ Elsewhere /\ UNCHANGED <<igRow, told, stopped, bereft>>

\* refreshLongLivedToken: Meta may refuse, and does when the token is too old.
AskMeta(s, granted) ==
    /\ sweep[s].at = "refresh" /\ (granted => today < Item(s).expires)
    /\ sweep' = [sweep EXCEPT ![s].at = IF granted THEN "write" ELSE "record"]
    /\ Elsewhere /\ UNCHANGED <<igRow, told, stopped, bereft>>

\* The update, by id: a row that has gone, or come anew, is not found, and the
\* update throws, as it does when the database fails.
WriteToken(s, fails) ==
    LET x == Item(s) IN
    /\ sweep[s].at = "write"
    /\ IF igRow[x.of].id = x.id /\ ~fails
       THEN /\ igRow' = [igRow EXCEPT ![x.of].expires = today + Lifetime]
            /\ TakesTheNext(s)
       ELSE sweep' = [sweep EXCEPT ![s].at = "record"] /\ UNCHANGED igRow
    /\ Elsewhere /\ UNCHANGED <<told, stopped, bereft>>

\* The catch: the failure is recorded for the workspace and pushed to it.  The
\* record refers to the workspace and nothing catches what it throws.
Record(s, fails) ==
    LET x == Item(s) IN
    /\ sweep[s].at = "record"
    /\ IF WorkspaceOf[x.of] \in homes /\ ~fails
       THEN /\ told' = told \cup {x.of}
            /\ TakesTheNext(s)
            /\ UNCHANGED <<stopped, bereft>>
       ELSE /\ SweepEnds(s) /\ stopped' = TRUE
            /\ bereft' = (bereft \/ fails)
            /\ UNCHANGED told
    /\ Elsewhere /\ UNCHANGED igRow

\* The pruning or the reset fails, or the request is cut off.
SweepDies(s) ==
    /\ sweep[s].at # "idle"
    /\ SweepEnds(s)
    /\ Elsewhere /\ UNCHANGED <<igRow, told, stopped, bereft>>

-----------------------------------------------------------------------------
(* Everybody else                                                          *)

\* Connected anew, or authorized again: the same row with a new token.
Connect(a) ==
    /\ WorkspaceOf[a] \in homes
    /\ IF igRow[a].id = 0
       THEN /\ rows < MaxRows /\ rows' = rows + 1
            /\ igRow' = [igRow EXCEPT ![a] = [id |-> rows', expires |-> today + Lifetime]]
       ELSE igRow' = [igRow EXCEPT ![a].expires = today + Lifetime] /\ UNCHANGED rows
    /\ UNCHANGED <<today, homes, sweep, told, stopped, bereft>>

DisconnectAccount(a) ==
    /\ igRow[a].id # 0
    /\ igRow' = [igRow EXCEPT ![a] = NoAccount]
    /\ UNCHANGED <<today, homes, rows, sweep, told, stopped, bereft>>

\* With its accounts.
DeleteWorkspace(w) ==
    /\ w \in homes
    /\ homes' = homes \ {w}
    /\ igRow' = [a \in Accounts |-> IF WorkspaceOf[a] = w THEN NoAccount ELSE igRow[a]]
    /\ bereft' = TRUE
    /\ UNCHANGED <<today, rows, sweep, told, stopped>>

NextDay ==
    /\ today < LastDay /\ \A s \in Sweeps : sweep[s].at = "idle"
    /\ today' = today + 1
    /\ told' = {} /\ stopped' = FALSE /\ bereft' = FALSE
    /\ UNCHANGED <<homes, igRow, rows, sweep>>

RefreshNext ==
    \/ \E s \in Sweeps :
          \/ BeginSweep(s) \/ List(s) \/ NextAccount(s)
          \/ \E granted \in BOOLEAN : AskMeta(s, granted)
          \/ \E fails \in BOOLEAN : WriteToken(s, fails) \/ Record(s, fails)
          \/ SweepDies(s)
    \/ \E a \in Accounts : Connect(a) \/ DisconnectAccount(a)
    \/ \E w \in Homes : DeleteWorkspace(w)
    \/ NextDay

RefreshSpec == RefreshInit /\ [][RefreshNext]_refreshVars

-----------------------------------------------------------------------------
(* Properties                                                              *)

\* A connection does not die unnoticed: a request that went through its whole
\* list leaves no token about to expire whose workspace has not been told today.
\* So a token expires only after days without such a request, or after a refusal,
\* with a record, on each of them.
NobodyIsPassedOver ==
    [][\A s \in Sweeps : sweep[s].at = "next" /\ sweep[s].todo = {} /\ sweep'[s].at = "idle" =>
          \A a \in Accounts :
              /\ igRow[a].id # 0 /\ igRow[a].expires <= today + DAYS_BEFORE_EXPIRY
              => a \in told]_refreshVars

\* One account's trouble leaves the others' refresh alone, unless its workspace
\* was deleted that day, or the database failed: only then does a record throw,
\* which ends the request for everybody behind it in the list.
OneFailureIsOnesOwn == stopped => bereft

\* Keeping connections alive: nobody is passed over, and one failure leaves the
\* others alone.
RefreshIsSound == [](RefreshTypeOK /\ OneFailureIsOnesOwn) /\ NobodyIsPassedOver

=============================================================================
