----------------------------- MODULE AuthLimits -----------------------------
(***************************************************************************)
(* The Redis counters in front of sign-in: lib/auth/otp-rate-limit.ts and  *)
(* the calls its routes make of it (request-code, verify-code, Google,     *)
(* Apple and Instagram sign-in, verify-phone).                             *)
(*                                                                         *)
(* A counter is an INCR and, for the first call of a window, an EXPIRE:    *)
(* two commands, so a key can be left without an expiry.  A call goes      *)
(* through the keys of its endpoint in order and stops at the first that   *)
(* is full.                                                                *)
(***************************************************************************)
EXTENDS Naturals, FiniteSets, Sequences

CONSTANTS Keys,       \* Redis keys: an address, a client, an endpoint, the global one
          Endpoints,  \* endpoints: the keys each of their calls counts on, in order
          LimitOf,    \* the limit of a key
          Calls       \* HTTP requests that run at the same time

ASSUME AuthLimitsAssumption ==
    /\ Endpoints \subseteq Seq(Keys) \ {<< >>}
    /\ LimitOf \in [Keys -> Nat \ {0}]
    /\ IsFiniteSet(Calls)

VARIABLES
    key,      \* Redis: the counters
    call,     \* the keys a call still has to pass, and whether EXPIRE is its next command
    passed,   \* observer: calls a counter let through in its window
    unexpired \* observer: keys whose EXPIRE a crash or a Redis error swallowed

limitsVars == <<key, call, passed, unexpired>>

NoCall == [keys |-> << >>, expire |-> FALSE]

LimitsTypeOK ==
    /\ key \in [Keys -> [n : Nat, ttl : BOOLEAN]]
    /\ call \in [Calls -> [keys : Seq(Keys), expire : BOOLEAN]]
    /\ \A c \in Calls : call[c].expire => call[c].keys # << >>
    /\ passed \in [Keys -> Nat] /\ unexpired \subseteq Keys

LimitsInit ==
    /\ key = [k \in Keys |-> [n |-> 0, ttl |-> FALSE]]
    /\ call = [c \in Calls |-> NoCall]
    /\ passed = [k \in Keys |-> 0] /\ unexpired = {}

Counting(c)  == call[c].keys # << >>
Current(c)   == Head(call[c].keys)
Denied(c)    == call' = [call EXCEPT ![c] = NoCall]

\* allowCodeRequest, allowCodeVerifyAttempt, allowPhoneVerifyAttempt and
\* allowAuthAttemptByIp: which keys, in which order.
Arrive(c, keys) ==
    /\ ~Counting(c)
    /\ call' = [call EXCEPT ![c].keys = keys]
    /\ UNCHANGED <<key, passed, unexpired>>

\* The counter lets the call through, to the next one or to its work.
Pass(c) ==
    /\ passed' = [passed EXCEPT ![Current(c)] = @ + 1]
    /\ call' = [call EXCEPT ![c] = [keys |-> Tail(@.keys), expire |-> FALSE]]

\* checkAndIncrement.  Counts past the limit are all alike to it.
CheckAndIncrement(c) ==
    LET k == Current(c)
        n == IF key[k].n > LimitOf[k] THEN key[k].n ELSE key[k].n + 1 IN
    /\ Counting(c) /\ ~call[c].expire
    /\ key' = [key EXCEPT ![k].n = n]
    /\ IF n = 1 THEN call' = [call EXCEPT ![c].expire = TRUE] /\ UNCHANGED passed
       ELSE IF n <= LimitOf[k] THEN Pass(c)
       ELSE Denied(c) /\ UNCHANGED passed
    /\ UNCHANGED unexpired

\* Seeded bug: the expiry is left to the call that fills the window.
SetExpiryWhenFull(c) ==
    /\ Counting(c) /\ call[c].expire
    /\ key' = [key EXCEPT ![Current(c)].ttl = key[Current(c)].n >= LimitOf[Current(c)]]
    /\ Pass(c)
    /\ UNCHANGED unexpired

\* EXPIRE, the second command of the first call of a window.  A key that is
\* gone by then stays gone.
SetExpiry(c) ==
    /\ Counting(c) /\ call[c].expire
    /\ key' = [key EXCEPT ![Current(c)].ttl = @ \/ key[Current(c)].n > 0]
    /\ Pass(c)
    /\ UNCHANGED unexpired

\* A call that is cut off before its EXPIRE leaves the key with no expiry.
Swallowed(c) ==
    unexpired' = IF call[c].expire THEN unexpired \cup {Current(c)} ELSE unexpired

\* Redis is away, or the server dies: the call is denied.
RedisError(c) ==
    /\ Counting(c)
    /\ Swallowed(c) /\ Denied(c)
    /\ UNCHANGED <<key, passed>>

\* The window is over.
WindowEnds(k) ==
    /\ key[k].ttl
    /\ key' = [key EXCEPT ![k] = [n |-> 0, ttl |-> FALSE]]
    /\ passed' = [passed EXCEPT ![k] = 0]
    /\ UNCHANGED <<call, unexpired>>

LimitsNext ==
    \/ \E c \in Calls : \/ \E keys \in Endpoints : Arrive(c, keys)
                        \/ CheckAndIncrement(c) \/ SetExpiry(c) \/ RedisError(c)
    \/ \E k \in Keys : WindowEnds(k)

LimitsSpec == LimitsInit /\ [][LimitsNext]_limitsVars

-----------------------------------------------------------------------------
(* Properties                                                              *)

\* The limiter fails closed: no window of any key lets more calls through than
\* its limit, whatever Redis does and whichever keys an endpoint counts on.
LimitsHold == \A k \in Keys : passed[k] <= LimitOf[k]

\* A counter with no expiry locks its address out for good once it is full.  It
\* has lost its EXPIRE to a crash or a Redis error, or is about to get it.
LockoutsAreExplained ==
    \A k \in Keys : key[k].n > 0 /\ ~key[k].ttl =>
        k \in unexpired \/ \E c \in Calls : call[c].expire /\ Current(c) = k

\* The limiter fails closed, and locks nobody out for good that no fault explains.
LimiterIsSound ==
    /\ LimitsTypeOK
    /\ LimitsHold
    /\ LockoutsAreExplained

=============================================================================
