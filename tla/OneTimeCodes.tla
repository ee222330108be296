---------------------------- MODULE OneTimeCodes ----------------------------
(***************************************************************************)
(* The e-mailed sign-in codes of the mobile app, for one mailbox:          *)
(* lib/auth/mobile-codes.ts and the routes request-code and verify-code.   *)
(*                                                                         *)
(* A code is written by a transaction that first consumes the rows it can  *)
(* see, and verified by four statements with nothing around them.  Codes   *)
(* are numbered in the order their transactions start, which is the order  *)
(* of createdAt.  Which calls get this far is up to AuthLimits.            *)
(***************************************************************************)
EXTENDS Naturals, FiniteSets, Sequences

CONSTANTS Handlers,          \* HTTP requests that run at the same time
          MaxVerifyAttempts, \* MAX_VERIFY_ATTEMPTS
          MaxCodes           \* bound on the codes issued

ASSUME OneTimeCodesAssumption ==
    /\ MaxVerifyAttempts \in Nat \ {0} /\ MaxCodes \in Nat
    /\ IsFiniteSet(Handlers)

VARIABLES
    code,    \* MobileAuthCode rows
    handler, \* the requests
    won,     \* observer: sign-ins a code was good for
    behind   \* observer: for a code, those being written when it looked for older ones

codesVars == <<code, handler, won, behind>>

Waiting == [at |-> "waiting", guess |-> 0, row |-> 0, seen |-> {}]
CodeIds == 1..Len(code)

CodesTypeOK ==
    /\ code \in Seq([at : {"writing", "live", "used", "lost"}, tries : Nat, expired : BOOLEAN])
    /\ Len(code) <= MaxCodes
    /\ handler \in [Handlers -> [at : {"waiting", "commit", "count", "compare", "consume"},
                                 guess : 0..MaxCodes, row : 0..MaxCodes,
                                 seen : SUBSET (1..MaxCodes)]]
    /\ \A h \in Handlers : handler[h].at # "waiting" => handler[h].row \in CodeIds
    /\ won \in [1..MaxCodes -> Nat] /\ behind \in [1..MaxCodes -> SUBSET (1..MaxCodes)]

CodesInit ==
    /\ code = << >>
    /\ handler = [h \in Handlers |-> Waiting]
    /\ won = [i \in 1..MaxCodes |-> 0] /\ behind = [i \in 1..MaxCodes |-> {}]

HandlerAt(h, step) == handler[h].at = step
Proceed(h, step)   == handler' = [handler EXCEPT ![h].at = step]
Respond(h)         == handler' = [handler EXCEPT ![h] = Waiting]

-----------------------------------------------------------------------------
(* mobile-codes.ts                                                         *)

Live == {i \in CodeIds : code[i].at = "live"}
Writing == {i \in CodeIds : code[i].at = "writing"}

\* Rows a transaction in flight has updated: other writers wait for it.
Held(i) == \E h \in Handlers : HandlerAt(h, "commit") /\ i \in handler[h].seen

\* issueMobileAuthCode: the transaction starts and updates the rows it can see,
\* which are those committed before.
BeginIssue(h) ==
    /\ HandlerAt(h, "waiting") /\ Len(code) < MaxCodes
    /\ code' = Append(code, [at |-> "writing", tries |-> 0, expired |-> FALSE])
    /\ behind' = [behind EXCEPT ![Len(code) + 1] = Writing]
    /\ handler' = [handler EXCEPT ![h] = [Waiting EXCEPT !.at = "commit", !.row = Len(code) + 1,
                                                         !.seen = Live]]
    /\ UNCHANGED won

\* It commits: the older rows are consumed and the new one is there.  The e-mail
\* may fail, which changes nothing.
Commit(h) ==
    /\ HandlerAt(h, "commit")
    /\ code' = [i \in CodeIds |->
         [code[i] EXCEPT !.at = IF i = handler[h].row THEN "live"
                                ELSE IF i \in handler[h].seen THEN "used" ELSE @]]
    /\ Respond(h)
    /\ UNCHANGED <<won, behind>>

\* The newest row that is not consumed.
Newest == CHOOSE i \in Live : \A j \in Live : j <= i

\* verifyMobileAuthCode with the code of some row, or (0) with a wrong one.
\* None, an expired one or one with too many attempts ends the call.
FindCode(h, guess) ==
    /\ HandlerAt(h, "waiting") /\ Live # {}
    /\ ~code[Newest].expired /\ code[Newest].tries < MaxVerifyAttempts
    /\ handler' = [handler EXCEPT ![h] = [Waiting EXCEPT !.at = "count", !.row = Newest,
                                                         !.guess = guess]]
    /\ UNCHANGED <<code, won, behind>>

\* The attempt is counted before anything is compared.
CountAttempt(h) ==
    /\ HandlerAt(h, "count") /\ ~Held(handler[h].row)
    /\ code' = [code EXCEPT ![handler[h].row].tries = @ + 1]
    /\ Proceed(h, "compare")
    /\ UNCHANGED <<won, behind>>

Compare(h) ==
    /\ HandlerAt(h, "compare")
    /\ IF handler[h].guess = handler[h].row THEN Proceed(h, "consume") ELSE Respond(h)
    /\ UNCHANGED <<code, won, behind>>

\* Seeded bug: the row is consumed by its id alone.
ConsumeAlways(h) ==
    LET i == handler[h].row IN
    /\ HandlerAt(h, "consume") /\ ~Held(i)
    /\ code' = [code EXCEPT ![i].at = "used"]
    /\ won' = [won EXCEPT ![i] = @ + 1]
    /\ Respond(h)
    /\ UNCHANGED behind

\* The conditional update decides who signs in.
Consume(h) ==
    LET i == handler[h].row IN
    /\ HandlerAt(h, "consume") /\ ~Held(i)
    /\ code' = [code EXCEPT ![i].at = "used"]
    /\ won' = [won EXCEPT ![i] = IF code[i].at = "live" THEN @ + 1 ELSE @]
    /\ Respond(h)
    /\ UNCHANGED behind

\* Ten minutes pass.
CodeExpires(i) ==
    /\ i \in Live /\ ~code[i].expired
    /\ code' = [code EXCEPT ![i].expired = TRUE]
    /\ UNCHANGED <<handler, won, behind>>

\* The server dies, or the database throws, with a call under way: an open
\* transaction is rolled back.
HandlerDies(h) ==
    /\ ~HandlerAt(h, "waiting")
    /\ code' = IF HandlerAt(h, "commit") THEN [code EXCEPT ![handler[h].row].at = "lost"] ELSE code
    /\ Respond(h)
    /\ UNCHANGED <<won, behind>>

CodesNext ==
    \/ \E h \in Handlers :
          \/ BeginIssue(h) \/ Commit(h)
          \/ \E guess \in {0} \cup CodeIds : FindCode(h, guess)
          \/ CountAttempt(h) \/ Compare(h) \/ Consume(h)
          \/ HandlerDies(h)
    \/ \E i \in CodeIds : CodeExpires(i)

CodesSpec == CodesInit /\ [][CodesNext]_codesVars

-----------------------------------------------------------------------------
(* Properties                                                              *)

\* Reading the attempts and counting one are two statements: a code is guessed
\* at most MAX_VERIFY_ATTEMPTS times, and once more for every other request
\* that was past the check.
GuessesAreBounded ==
    \A i \in CodeIds : code[i].tries <= MaxVerifyAttempts + Cardinality(Handlers) - 1

\* A code signs in once, however many requests hold the right one.
CodesAreUsedOnce == \A i \in CodeIds : won[i] <= 1

\* Two codes work at the same time only when the later one could not see the
\* earlier one, whose transaction was not over yet.
OnlyRacingCodesCoexist ==
    \A i, j \in Live : i < j => i \in behind[j]

\* Codes under concurrent requests: guesses bounded, each used once, two valid
\* ones only of requests that raced.
CodesAreSound ==
    /\ CodesTypeOK
    /\ GuessesAreBounded
    /\ CodesAreUsedOnce
    /\ OnlyRacingCodesCoexist

=============================================================================
