---------------------------- MODULE AccountProofs ----------------------------
(***************************************************************************)
(* What protects a sign-in, for every number of requests, codes, keys and  *)
(* endpoints: the one-time codes of a mailbox and the counters in front of *)
(* them.  And who belongs to a workspace, for every number of people,      *)
(* accounts, invitations and requests: one owner, an invitation used once, *)
(* access as it was given, admins the owner alone demotes.  And who a      *)
(* person is: usage kept by phone and mailbox through deletions, sessions  *)
(* that stay dead, accounts and workspaces that are double only where two  *)
(* sign-ins raced.  The five modules share no variable.                    *)
(***************************************************************************)
EXTENDS OneTimeCodes, AuthLimits, Membership, AccountLife, Provisioning, SumTheorems

-----------------------------------------------------------------------------
(* The counters: the invariant                                             *)

\* The calls whose next command is the EXPIRE of a key.
Expiring(c, k) == call[c].expire /\ Current(c) = k

\* Only a key that is there has an expiry; it waits for one EXPIRE at most, and
\* lives as long as it waits.
OneExpirePerKey ==
    \A k \in Keys :
        /\ key[k].ttl => key[k].n > 0
        /\ \A c \in Calls : Expiring(c, k) =>
              /\ key[k].n > 0 /\ ~key[k].ttl
              /\ \A d \in Calls : Expiring(d, k) => d = c

\* The calls a key let through are among those it counted, and the one that still
\* has to set the expiry is not among them yet.
PassedAreCounted ==
    \A k \in Keys :
        /\ passed[k] <= key[k].n /\ passed[k] <= LimitOf[k]
        /\ (\E c \in Calls : Expiring(c, k)) => passed[k] < key[k].n /\ passed[k] < LimitOf[k]

LimiterInv == LimitsTypeOK /\ OneExpirePerKey /\ PassedAreCounted /\ LockoutsAreExplained

-----------------------------------------------------------------------------
(* The counters: the steps                                                 *)

\* The key a counting call is at, and what is left of its list.
LEMMA CurrentIsKey ==
    ASSUME LimitsTypeOK, NEW c \in Calls, Counting(c)
    PROVE  Current(c) \in Keys /\ Tail(call[c].keys) \in Seq(Keys)
  <1>1. call[c].keys \in Seq(Keys) /\ call[c].keys # << >>
    BY DEF LimitsTypeOK, Counting
  <1>2. QED BY <1>1 DEF Current

\* What Pass does to the call that passes.
LEMMA PassMoves ==
    ASSUME LimitsTypeOK, NEW c \in Calls, Counting(c), Pass(c)
    PROVE  /\ call' \in [Calls -> [keys : Seq(Keys), expire : BOOLEAN]]
           /\ call'[c].expire = FALSE
           /\ \A d \in Calls \ {c} : call'[d] = call[d]
           /\ passed' \in [Keys -> Nat]
           /\ passed'[Current(c)] = passed[Current(c)] + 1
           /\ \A k \in Keys \ {Current(c)} : passed'[k] = passed[k]
  <1>1. Current(c) \in Keys /\ Tail(call[c].keys) \in Seq(Keys)
    BY CurrentIsKey
  <1>2. call' = [call EXCEPT ![c] = [keys |-> Tail(call[c].keys), expire |-> FALSE]]
    BY DEF Pass
  <1>3. passed' = [passed EXCEPT ![Current(c)] = @ + 1]
    BY DEF Pass
  <1>4. [keys |-> Tail(call[c].keys), expire |-> FALSE] \in [keys : Seq(Keys), expire : BOOLEAN]
    BY <1>1
  <1> HIDE DEF Current
  <1>5. call \in [Calls -> [keys : Seq(Keys), expire : BOOLEAN]] /\ passed \in [Keys -> Nat]
    BY DEF LimitsTypeOK
  <1>6. /\ call' \in [Calls -> [keys : Seq(Keys), expire : BOOLEAN]]
        /\ call'[c].expire = FALSE
        /\ \A d \in Calls \ {c} : call'[d] = call[d]
    BY <1>2, <1>4, <1>5
  <1>7. passed[Current(c)] + 1 \in Nat
    BY <1>1, <1>5
  <1>8. QED BY <1>1, <1>3, <1>5, <1>6, <1>7

\* A call that did not move waits for the EXPIRE it waited for.
LEMMA SameCallSameKey ==
    ASSUME NEW d \in Calls, NEW k, call'[d] = call[d]
    PROVE  Expiring(d, k)' <=> Expiring(d, k)
  BY DEF Expiring, Current

\* The parts of the invariant that are about one key hold of the keys a step
\* leaves alone, when no call comes to wait for them.
LEMMA OtherKeys ==
    ASSUME LimiterInv, NEW k \in Keys, key'[k] = key[k], passed'[k] = passed[k],
           \A d \in Calls : Expiring(d, k)' <=> Expiring(d, k),
           unexpired \subseteq unexpired'
    PROVE  /\ key'[k].ttl => key'[k].n > 0
           /\ \A d \in Calls : Expiring(d, k)' =>
                 /\ key'[k].n > 0 /\ ~key'[k].ttl
                 /\ \A e \in Calls : Expiring(e, k)' => e = d
           /\ passed'[k] <= key'[k].n /\ passed'[k] <= LimitOf[k]
           /\ (\E d \in Calls : Expiring(d, k)') => passed'[k] < key'[k].n /\ passed'[k] < LimitOf[k]
           /\ key'[k].n > 0 /\ ~key'[k].ttl =>
                 k \in unexpired' \/ \E d \in Calls : Expiring(d, k)'
  BY DEF LimiterInv, OneExpirePerKey, PassedAreCounted, LockoutsAreExplained, Expiring

\* The invariant, key by key.
LEMMA ByKey ==
    ASSUME LimitsTypeOK',
           \A k \in Keys :
              /\ key'[k].ttl => key'[k].n > 0
              /\ \A d \in Calls : Expiring(d, k)' =>
                    /\ key'[k].n > 0 /\ ~key'[k].ttl
                    /\ \A e \in Calls : Expiring(e, k)' => e = d
              /\ passed'[k] <= key'[k].n /\ passed'[k] <= LimitOf[k]
              /\ (\E d \in Calls : Expiring(d, k)') =>
                    passed'[k] < key'[k].n /\ passed'[k] < LimitOf[k]
              /\ key'[k].n > 0 /\ ~key'[k].ttl =>
                    k \in unexpired' \/ \E d \in Calls : Expiring(d, k)'
    PROVE  LimiterInv'
  BY DEF LimiterInv, OneExpirePerKey, PassedAreCounted, LockoutsAreExplained, Expiring

\* A call arrives: it waits for no EXPIRE yet.
LEMMA ArriveKeeps ==
    ASSUME LimiterInv, NEW c \in Calls, NEW keys \in Endpoints, Arrive(c, keys)
    PROVE  LimiterInv'
  <1>1. keys \in Seq(Keys) /\ ~call[c].expire
    BY AuthLimitsAssumption DEF Arrive, Counting, LimiterInv, LimitsTypeOK
  <1>2. /\ call' \in [Calls -> [keys : Seq(Keys), expire : BOOLEAN]]
        /\ ~call'[c].expire /\ \A d \in Calls \ {c} : call'[d] = call[d]
    BY <1>1 DEF Arrive, LimiterInv, LimitsTypeOK
  <1>3. LimitsTypeOK'
    BY <1>2 DEF Arrive, LimiterInv, LimitsTypeOK
  <1>4. ASSUME NEW k \in Keys, NEW d \in Calls PROVE Expiring(d, k)' <=> Expiring(d, k)
    <2>1. CASE d = c
      BY <1>1, <1>2, <2>1 DEF Expiring
    <2>2. CASE d # c
      BY <1>2, <2>2, SameCallSameKey
    <2> QED BY <2>1, <2>2
  <1>5. key' = key /\ passed' = passed /\ unexpired' = unexpired
    BY DEF Arrive
  <1>6. QED BY <1>3, <1>4, <1>5, OtherKeys, ByKey

\* INCR: the first call of a window takes the EXPIRE upon itself, the others pass
\* or are denied by what they read.
LEMMA CheckAndIncrementKeeps ==
    ASSUME LimiterInv, NEW c \in Calls, CheckAndIncrement(c)
    PROVE  LimiterInv'
  <1>1. Counting(c) /\ ~call[c].expire
    BY DEF CheckAndIncrement
  <1>2. Current(c) \in Keys
    BY <1>1, CurrentIsKey DEF LimiterInv
  <1>3. PICK k \in Keys : k = Current(c)
    BY <1>2
  <1>4. PICK n \in Nat : n = IF key[k].n > LimitOf[k] THEN key[k].n ELSE key[k].n + 1
    BY DEF LimiterInv, LimitsTypeOK
  <1>5. /\ key' = [key EXCEPT ![k].n = n] /\ unexpired' = unexpired
        /\ n = 1 => call' = [call EXCEPT ![c].expire = TRUE] /\ passed' = passed
        /\ n # 1 /\ n <= LimitOf[k] => Pass(c)
        /\ n # 1 /\ n > LimitOf[k] => Denied(c) /\ passed' = passed
    BY <1>3, <1>4, AuthLimitsAssumption DEF CheckAndIncrement
  <1>6. /\ key \in [Keys -> [n : Nat, ttl : BOOLEAN]] /\ passed \in [Keys -> Nat]
        /\ key[k].n \in Nat /\ LimitOf[k] \in Nat \ {0} /\ passed[k] \in Nat
    BY AuthLimitsAssumption DEF LimiterInv, LimitsTypeOK
  <1>7. /\ key' \in [Keys -> [n : Nat, ttl : BOOLEAN]]
        /\ key'[k].n = n /\ key'[k].ttl = key[k].ttl
        /\ \A j \in Keys \ {k} : key'[j] = key[j]
    BY <1>5, <1>6
  <1>8. n > 0 /\ n >= key[k].n /\ (n <= LimitOf[k] => n = key[k].n + 1)
    BY <1>4, <1>6
  <1>9. /\ passed[k] <= key[k].n /\ passed[k] <= LimitOf[k]
        /\ \A d \in Calls : Expiring(d, k) =>
              /\ key[k].n > 0 /\ ~key[k].ttl /\ passed[k] < key[k].n /\ passed[k] < LimitOf[k]
              /\ \A e \in Calls : Expiring(e, k) => e = d
        /\ key[k].n > 0 /\ ~key[k].ttl => k \in unexpired \/ \E d \in Calls : Expiring(d, k)
        /\ key[k].ttl => key[k].n > 0
    BY DEF LimiterInv, OneExpirePerKey, PassedAreCounted, LockoutsAreExplained, Expiring
  <1>10. /\ call \in [Calls -> [keys : Seq(Keys), expire : BOOLEAN]]
         /\ call[c].keys # << >> /\ unexpired \subseteq Keys
         /\ \A d \in Calls : call[d].expire => call[d].keys # << >>
    BY <1>1 DEF LimiterInv, LimitsTypeOK, Counting
  <1>11. CASE n = 1
    <2>1. /\ call' = [call EXCEPT ![c].expire = TRUE] /\ passed' = passed
          /\ key[k].n = 0 /\ ~key[k].ttl
      BY <1>4, <1>5, <1>6, <1>9, <1>11
    <2>2. /\ call' \in [Calls -> [keys : Seq(Keys), expire : BOOLEAN]]
          /\ call'[c].expire /\ call'[c].keys = call[c].keys
          /\ \A d \in Calls \ {c} : call'[d] = call[d]
      BY <1>10, <2>1
    <2>3. LimitsTypeOK'
      BY <1>5, <1>6, <1>7, <1>10, <2>1, <2>2 DEF LimitsTypeOK
    <2>4. Expiring(c, k)' /\ \A j \in Keys \ {k} : ~Expiring(c, j)'
      BY <1>3, <2>2 DEF Expiring, Current
    <2>5. \A d \in Calls \ {c} : ~Expiring(d, k)'
      BY <1>9, <2>1, <2>2, SameCallSameKey
    <2>6. ASSUME NEW j \in Keys \ {k}, NEW d \in Calls PROVE Expiring(d, j)' <=> Expiring(d, j)
      <3>1. CASE d = c
        BY <1>1, <2>4, <3>1 DEF Expiring
      <3>2. CASE d # c
        BY <2>2, <3>2, SameCallSameKey
      <3> QED BY <3>1, <3>2
    <2>7. \A j \in Keys \ {k} : key'[j] = key[j] /\ passed'[j] = passed[j]
      BY <1>7, <2>1
    <2>8. passed'[k] = 0
      BY <1>6, <1>9, <2>1
    <2> QED BY <1>5, <1>6, <1>7, <1>11, <2>1, <2>3, <2>4, <2>5, <2>6, <2>7, <2>8, OtherKeys, ByKey
  <1>12. CASE n # 1
    <2>1. ~call'[c].expire /\ call' \in [Calls -> [keys : Seq(Keys), expire : BOOLEAN]]
          /\ \A d \in Calls \ {c} : call'[d] = call[d]
      <3>1. CASE n <= LimitOf[k]
        BY <1>1, <1>5, <1>12, <3>1, PassMoves DEF LimiterInv
      <3>2. CASE n > LimitOf[k]
        <4>1. NoCall \in [keys : Seq(Keys), expire : BOOLEAN] /\ ~NoCall.expire
          BY DEF NoCall
        <4>2. call' = [call EXCEPT ![c] = NoCall]
          BY <1>5, <1>12, <3>2 DEF Denied
        <4> QED BY <1>10, <4>1, <4>2
      <3> QED BY <1>6, <3>1, <3>2
    <2>2. /\ passed' \in [Keys -> Nat] /\ \A j \in Keys \ {k} : passed'[j] = passed[j]
          /\ n <= LimitOf[k] => passed'[k] = passed[k] + 1
          /\ n > LimitOf[k] => passed'[k] = passed[k]
      <3>1. CASE n <= LimitOf[k]
        BY <1>1, <1>3, <1>5, <1>6, <1>12, <3>1, PassMoves DEF LimiterInv
      <3>2. CASE n > LimitOf[k]
        BY <1>5, <1>6, <1>12, <3>2
      <3> QED BY <1>6, <3>1, <3>2
    <2>3. LimitsTypeOK'
      BY <1>5, <1>7, <1>10, <2>1, <2>2 DEF LimitsTypeOK
    <2>4. ASSUME NEW j \in Keys, NEW d \in Calls PROVE Expiring(d, j)' <=> Expiring(d, j)
      <3>1. CASE d = c
        BY <1>1, <2>1, <3>1 DEF Expiring
      <3>2. CASE d # c
        BY <2>1, <3>2, SameCallSameKey
      <3> QED BY <3>1, <3>2
    <2>5. key[k].n > 0
      BY <1>4, <1>6, <1>12
    <2>6. /\ passed'[k] <= n /\ passed'[k] <= LimitOf[k]
          /\ (\E d \in Calls : Expiring(d, k)) => passed'[k] < n /\ passed'[k] < LimitOf[k]
      BY <1>6, <1>8, <1>9, <2>2
    <2> QED BY <1>5, <1>7, <1>8, <1>9, <2>2, <2>3, <2>4, <2>5, <2>6, OtherKeys, ByKey
  <1>13. QED BY <1>11, <1>12

\* EXPIRE: the one call that had it to set has, and passes.
LEMMA SetExpiryKeeps ==
    ASSUME LimiterInv, NEW c \in Calls, SetExpiry(c)
    PROVE  LimiterInv'
  <1>1. Counting(c) /\ call[c].expire /\ Pass(c) /\ unexpired' = unexpired
    BY DEF SetExpiry
  <1>2. PICK k \in Keys : k = Current(c)
    BY <1>1, CurrentIsKey DEF LimiterInv
  <1>3. /\ key \in [Keys -> [n : Nat, ttl : BOOLEAN]] /\ unexpired \subseteq Keys
        /\ key[k].n \in Nat /\ LimitOf[k] \in Nat \ {0} /\ passed[k] \in Nat
        /\ \A d \in Calls : call[d].expire => call[d].keys # << >>
    BY AuthLimitsAssumption DEF LimiterInv, LimitsTypeOK
  <1>4. Expiring(c, k)
    BY <1>1, <1>2 DEF Expiring
  <1>5. /\ key[k].n > 0 /\ passed[k] < key[k].n /\ passed[k] < LimitOf[k]
        /\ \A d \in Calls : Expiring(d, k) => d = c
    BY <1>4 DEF LimiterInv, OneExpirePerKey, PassedAreCounted
  <1>6. key' = [key EXCEPT ![k].ttl = TRUE]
    BY <1>2, <1>3, <1>5 DEF SetExpiry
  <1>7. /\ key' \in [Keys -> [n : Nat, ttl : BOOLEAN]]
        /\ key'[k].n = key[k].n /\ key'[k].ttl
        /\ \A j \in Keys \ {k} : key'[j] = key[j]
    BY <1>3, <1>6
  <1>8. /\ ~call'[c].expire /\ call' \in [Calls -> [keys : Seq(Keys), expire : BOOLEAN]]
        /\ \A d \in Calls \ {c} : call'[d] = call[d]
        /\ passed' \in [Keys -> Nat] /\ passed'[k] = passed[k] + 1
        /\ \A j \in Keys \ {k} : passed'[j] = passed[j]
    BY <1>1, <1>2, PassMoves DEF LimiterInv
  <1>9. LimitsTypeOK'
    BY <1>1, <1>3, <1>7, <1>8 DEF LimitsTypeOK
  <1>10. ASSUME NEW d \in Calls PROVE ~Expiring(d, k)'
    <2>1. CASE d = c
      BY <1>8, <2>1 DEF Expiring
    <2>2. CASE d # c
      BY <1>5, <1>8, <2>2, SameCallSameKey
    <2> QED BY <2>1, <2>2
  <1>11. ASSUME NEW j \in Keys \ {k}, NEW d \in Calls PROVE Expiring(d, j)' <=> Expiring(d, j)
    <2>1. CASE d = c
      BY <1>2, <1>8, <2>1 DEF Expiring
    <2>2. CASE d # c
      BY <1>8, <2>2, SameCallSameKey
    <2> QED BY <2>1, <2>2
  <1>12. passed'[k] <= key'[k].n /\ passed'[k] <= LimitOf[k]
    BY <1>3, <1>5, <1>7, <1>8
  <1>13. QED BY <1>1, <1>5, <1>7, <1>8, <1>9, <1>10, <1>11, <1>12, OtherKeys, ByKey

\* The call ends, and takes the EXPIRE it had to set with it.
LEMMA RedisErrorKeeps ==
    ASSUME LimiterInv, NEW c \in Calls, RedisError(c)
    PROVE  LimiterInv'
  <1>1. /\ Counting(c) /\ key' = key /\ passed' = passed
        /\ call' = [call EXCEPT ![c] = NoCall]
        /\ unexpired' = IF call[c].expire THEN unexpired \cup {Current(c)} ELSE unexpired
    BY DEF RedisError, Denied, Swallowed
  <1>2. Current(c) \in Keys
    BY <1>1, CurrentIsKey DEF LimiterInv
  <1>3. /\ unexpired \subseteq unexpired' /\ unexpired' \subseteq Keys
        /\ call[c].expire => Current(c) \in unexpired'
    BY <1>1, <1>2 DEF LimiterInv, LimitsTypeOK
  <1>4. NoCall \in [keys : Seq(Keys), expire : BOOLEAN] /\ ~NoCall.expire
    BY DEF NoCall
  <1>5. /\ call' \in [Calls -> [keys : Seq(Keys), expire : BOOLEAN]]
        /\ ~call'[c].expire /\ \A d \in Calls \ {c} : call'[d] = call[d]
    BY <1>1, <1>4 DEF LimiterInv, LimitsTypeOK
  <1>6. LimitsTypeOK'
    BY <1>1, <1>3, <1>5 DEF LimiterInv, LimitsTypeOK
  <1>7. ASSUME NEW k \in Keys, NEW d \in Calls
        PROVE  Expiring(d, k)' <=> Expiring(d, k) /\ d # c
    <2>1. CASE d = c
      BY <1>5, <2>1 DEF Expiring
    <2>2. CASE d # c
      BY <1>5, <2>2, SameCallSameKey
    <2> QED BY <2>1, <2>2
  <1>8. \A k \in Keys : Expiring(c, k) => k \in unexpired'
    BY <1>3 DEF Expiring
  <1>9. \A k \in Keys :
           /\ key[k].ttl => key[k].n > 0
           /\ \A d \in Calls : Expiring(d, k) =>
                 key[k].n > 0 /\ ~key[k].ttl /\ \A e \in Calls : Expiring(e, k) => e = d
           /\ passed[k] <= key[k].n /\ passed[k] <= LimitOf[k]
           /\ (\E d \in Calls : Expiring(d, k)) => passed[k] < key[k].n /\ passed[k] < LimitOf[k]
           /\ key[k].n > 0 /\ ~key[k].ttl => k \in unexpired \/ \E d \in Calls : Expiring(d, k)
    BY DEF LimiterInv, OneExpirePerKey, PassedAreCounted, LockoutsAreExplained, Expiring
  <1>10. QED BY <1>1, <1>3, <1>6, <1>7, <1>8, <1>9, ByKey

\* A window ends only with an expiry, so nobody waits to set one.
LEMMA WindowEndsKeeps ==
    ASSUME LimiterInv, NEW k \in Keys, WindowEnds(k)
    PROVE  LimiterInv'
  <1>1. /\ key[k].ttl /\ call' = call /\ unexpired' = unexpired
        /\ key' = [key EXCEPT ![k] = [n |-> 0, ttl |-> FALSE]]
        /\ passed' = [passed EXCEPT ![k] = 0]
    BY DEF WindowEnds
  <1>2. /\ key' \in [Keys -> [n : Nat, ttl : BOOLEAN]] /\ passed' \in [Keys -> Nat]
        /\ key'[k].n = 0 /\ ~key'[k].ttl /\ passed'[k] = 0
        /\ \A j \in Keys \ {k} : key'[j] = key[j] /\ passed'[j] = passed[j]
    BY <1>1 DEF LimiterInv, LimitsTypeOK
  <1>3. LimitsTypeOK'
    BY <1>1, <1>2 DEF LimiterInv, LimitsTypeOK
  <1>4. \A j \in Keys, d \in Calls : Expiring(d, j)' <=> Expiring(d, j)
    BY <1>1 DEF Expiring, Current
  <1>5. \A d \in Calls : ~Expiring(d, k)
    BY <1>1 DEF LimiterInv, OneExpirePerKey
  <1>6. LimitOf[k] \in Nat \ {0}
    BY AuthLimitsAssumption
  <1>7. QED BY <1>1, <1>2, <1>3, <1>4, <1>5, <1>6, OtherKeys, ByKey

\* The invariant holds in every reachable state.
LEMMA LimiterInvHolds == LimitsSpec => []LimiterInv
  <1>1. ASSUME LimitsInit PROVE LimiterInv
    <2>1. /\ NoCall \in [keys : Seq(Keys), expire : BOOLEAN] /\ ~NoCall.expire
      BY DEF NoCall
    <2>2. LimitsTypeOK /\ \A c \in Calls : ~call[c].expire
      BY <1>1, <2>1 DEF LimitsInit, LimitsTypeOK
    <2>3. \A k \in Keys : key[k].n = 0 /\ ~key[k].ttl /\ passed[k] = 0 /\ LimitOf[k] \in Nat \ {0}
      BY <1>1, AuthLimitsAssumption DEF LimitsInit
    <2> QED BY <2>2, <2>3 DEF LimiterInv, OneExpirePerKey, PassedAreCounted,
                              LockoutsAreExplained, Expiring
  <1>2. ASSUME LimiterInv, [LimitsNext]_limitsVars PROVE LimiterInv'
    <2>1. CASE UNCHANGED limitsVars
      BY <1>2, <2>1 DEF limitsVars, LimiterInv, LimitsTypeOK, OneExpirePerKey, PassedAreCounted,
                        LockoutsAreExplained, Expiring, Current
    <2>2. ASSUME NEW c \in Calls, NEW keys \in Endpoints, Arrive(c, keys) PROVE LimiterInv'
      BY <1>2, <2>2, ArriveKeeps
    <2>3. ASSUME NEW c \in Calls, CheckAndIncrement(c) \/ SetExpiry(c) \/ RedisError(c)
          PROVE  LimiterInv'
      BY <1>2, <2>3, CheckAndIncrementKeeps, SetExpiryKeeps, RedisErrorKeeps
    <2>4. ASSUME NEW k \in Keys, WindowEnds(k) PROVE LimiterInv'
      BY <1>2, <2>4, WindowEndsKeeps
    <2> QED BY <1>2, <2>1, <2>2, <2>3, <2>4 DEF LimitsNext
  <1>3. QED BY <1>1, <1>2, PTL DEF LimitsSpec

\* The counters in front of sign-in fail closed, whatever Redis does: no window of
\* any key lets more calls through than its limit, and a key that has lost its
\* expiry, which locks its address out, lost it to a crash or a Redis error.
THEOREM LimiterHolds == LimitsSpec => []LimiterIsSound
  <1>1. LimiterInv => LimiterIsSound
    BY DEF LimiterInv, PassedAreCounted, LimiterIsSound, LimitsHold
  <1>2. QED BY <1>1, LimiterInvHolds, PTL

-----------------------------------------------------------------------------
(* The codes: the invariant                                                *)

\* A MobileAuthCode row.
CodeRow == [at : {"writing", "live", "used", "lost"}, tries : Nat, expired : BOOLEAN]

\* A transaction under way writes a row of its own, and has updated older ones,
\* which were live.
WritersHaveRows ==
    \A h \in Handlers : HandlerAt(h, "commit") =>
        /\ code[handler[h].row].at = "writing"
        /\ \A i \in handler[h].seen : i \in CodeIds /\ code[i].at \in {"live", "used"}
        /\ \A g \in Handlers : HandlerAt(g, "commit") /\ handler[g].row = handler[h].row => g = h

\* A verification has found a row that was live.
GuessersHaveRows ==
    \A h \in Handlers : handler[h].at \in {"count", "compare", "consume"} =>
        code[handler[h].row].at \in {"live", "used"}

\* What a code was good for has consumed it.
WinnersAreUsed ==
    \A i \in 1 .. MaxCodes :
        won[i] = 0 \/ (won[i] = 1 /\ i \in CodeIds /\ code[i].at = "used")

\* The requests past the check of a code's attempts.
PastCheck(i) == {h \in Handlers : HandlerAt(h, "count") /\ handler[h].row = i}

\* Each of them was past the check before the last attempt was counted.
GuessesAndMore ==
    \A i \in CodeIds :
        code[i].tries + Cardinality(PastCheck(i)) <= MaxVerifyAttempts + Cardinality(Handlers) - 1

\* A row that is being written was so when the later ones began.
WritersAreBehind ==
    \A i, j \in CodeIds : i < j /\ code[i].at = "writing" => i \in behind[j]

\* What a transaction under way has not updated is not live, or was being written.
SeenOrBehind ==
    \A h \in Handlers : HandlerAt(h, "commit") =>
        \A i \in CodeIds : i < handler[h].row =>
            i \in behind[handler[h].row] \/ i \in handler[h].seen \/ code[i].at \in {"used", "lost"}

CodesInv ==
    /\ CodesTypeOK /\ WritersHaveRows /\ GuessersHaveRows /\ WinnersAreUsed
    /\ GuessesAndMore /\ WritersAreBehind /\ SeenOrBehind /\ OnlyRacingCodesCoexist

-----------------------------------------------------------------------------
(* The codes: the steps                                                    *)

\* What is known of a row and of a request.
LEMMA CodeFacts ==
    ASSUME CodesTypeOK
    PROVE  /\ Len(code) \in Nat /\ CodeIds = 1 .. Len(code) /\ CodeIds \subseteq 1 .. MaxCodes
           /\ \A i \in CodeIds : code[i] \in CodeRow
           /\ \A i \in CodeIds : i \in Nat /\ i \in 1 .. MaxCodes
           /\ \A h \in Handlers : /\ handler[h].row \in 0 .. MaxCodes
                                  /\ ~HandlerAt(h, "waiting") => handler[h].row \in CodeIds
  <1>1. code \in Seq(CodeRow) /\ Len(code) <= MaxCodes /\ MaxCodes \in Nat
    BY OneTimeCodesAssumption DEF CodesTypeOK, CodeRow
  <1>2. Len(code) \in Nat /\ \A i \in 1 .. Len(code) : code[i] \in CodeRow
    BY <1>1
  <1>3. CodeIds = 1 .. Len(code)
    BY DEF CodeIds
  <1>4. 1 .. Len(code) \subseteq 1 .. MaxCodes /\ \A i \in 1 .. Len(code) : i \in Nat
    BY <1>1, <1>2
  <1>5. \A h \in Handlers : /\ handler[h].row \in 0 .. MaxCodes
                            /\ ~HandlerAt(h, "waiting") => handler[h].row \in CodeIds
    BY DEF CodesTypeOK, HandlerAt
  <1>6. QED BY <1>2, <1>3, <1>4, <1>5

\* A row is overwritten: the codes are the same, with their numbers.
LEMMA CodesRewritten ==
    ASSUME CodesTypeOK, NEW f \in [CodeIds -> CodeRow], code' = f
    PROVE  /\ code' \in Seq(CodeRow) /\ Len(code') = Len(code) /\ CodeIds' = CodeIds
           /\ \A i \in CodeIds : code'[i] = f[i]
  <1>1. Len(code) \in Nat /\ CodeIds = 1 .. Len(code)
    BY CodeFacts
  <1>2. f \in Seq(CodeRow) /\ Len(f) = Len(code)
    BY <1>1
  <1>3. CodeIds' = 1 .. Len(code')
    BY DEF CodeIds
  <1>4. QED BY <1>1, <1>2, <1>3

\* The requests past the check of a code, when one request moves.
LEMMA PastCheckMoves ==
    ASSUME CodesTypeOK, NEW h \in Handlers, NEW i \in Nat,
           \A g \in Handlers \ {h} : handler'[g] = handler[g]
    PROVE  /\ Cardinality(PastCheck(i)) \in Nat /\ Cardinality(PastCheck(i)') \in Nat
           /\ Cardinality(PastCheck(i)') <= Cardinality(Handlers)
           /\ Cardinality(Handlers) \in Nat \ {0}
           /\ h \notin PastCheck(i)' => Cardinality(PastCheck(i)') <= Cardinality(PastCheck(i))
           /\ h \in PastCheck(i) /\ h \notin PastCheck(i)' =>
                 Cardinality(PastCheck(i)') = Cardinality(PastCheck(i)) - 1
  <1> DEFINE A == PastCheck(i)
             B == PastCheck(i)'
  <1>1. A \subseteq Handlers /\ B \subseteq Handlers /\ \A g \in Handlers \ {h} : g \in A <=> g \in B
    BY DEF PastCheck, HandlerAt
  <1> HIDE DEF A, B
  <1>2. /\ IsFiniteSet(Handlers) /\ IsFiniteSet(A) /\ IsFiniteSet(B)
        /\ Cardinality(A) \in Nat /\ Cardinality(B) \in Nat /\ Cardinality(Handlers) \in Nat
        /\ Cardinality(B) <= Cardinality(Handlers)
    BY <1>1, OneTimeCodesAssumption, FS_Subset, FS_CardinalityType
  <1>3. Cardinality(Handlers) # 0
    BY <1>2, FS_EmptySet
  <1>4. ASSUME h \notin B
        PROVE  /\ Cardinality(B) <= Cardinality(A)
               /\ h \in A => Cardinality(B) = Cardinality(A) - 1
    <2>1. B = A \ {h}
      BY <1>1, <1>4
    <2>2. h \in A => Cardinality(B) = Cardinality(A) - 1
      BY <1>2, <2>1, FS_RemoveElement
    <2>3. Cardinality(B) <= Cardinality(A)
      BY <1>2, <2>1, FS_Subset
    <2> QED BY <2>2, <2>3
  <1>5. QED BY <1>2, <1>3, <1>4 DEF A, B

\* A step that writes no row anew and ends no transaction, whether it consumes a
\* row that was live, counts an attempt or moves a request.
LEMMA RowsStay ==
    ASSUME CodesInv, CodesTypeOK', CodeIds' = CodeIds, behind' = behind,
           \A i \in CodeIds : \/ code'[i].at = code[i].at
                              \/ code[i].at \in {"live", "used"} /\ code'[i].at = "used",
           \A h \in Handlers : handler'[h] = handler[h] \/ handler'[h].at # "commit"
    PROVE  WritersHaveRows' /\ WritersAreBehind' /\ SeenOrBehind' /\ OnlyRacingCodesCoexist'
  <1>1. \A h \in Handlers : handler'[h].at = "commit" =>
           handler'[h] = handler[h] /\ handler[h].row \in CodeIds
    <2>1. \A h \in Handlers : handler[h].at = "commit" => handler[h].row \in CodeIds
      BY DEF CodesInv, CodesTypeOK
    <2> QED BY <2>1
  <1>2. WritersHaveRows'
    <2>1. ASSUME NEW h \in Handlers, handler'[h].at = "commit"
          PROVE  /\ code'[handler'[h].row].at = "writing"
                 /\ \A i \in handler'[h].seen : i \in CodeIds /\ code'[i].at \in {"live", "used"}
                 /\ \A g \in Handlers :
                       handler'[g].at = "commit" /\ handler'[g].row = handler'[h].row => g = h
      <3>1. /\ code[handler[h].row].at = "writing"
            /\ \A i \in handler[h].seen : i \in CodeIds /\ code[i].at \in {"live", "used"}
            /\ \A g \in Handlers :
                  handler[g].at = "commit" /\ handler[g].row = handler[h].row => g = h
        BY <1>1, <2>1 DEF CodesInv, WritersHaveRows, HandlerAt
      <3> QED BY <1>1, <2>1, <3>1
    <2> QED BY <2>1 DEF WritersHaveRows, HandlerAt
  <1>3. WritersAreBehind'
    BY DEF CodesInv, WritersAreBehind
  <1>4. SeenOrBehind'
    <2>1. ASSUME NEW h \in Handlers, handler'[h].at = "commit", NEW i \in CodeIds, i < handler'[h].row
          PROVE  \/ i \in behind'[handler'[h].row] \/ i \in handler'[h].seen
                 \/ code'[i].at \in {"used", "lost"}
      BY <1>1, <2>1 DEF CodesInv, SeenOrBehind, HandlerAt
    <2> QED BY <2>1 DEF SeenOrBehind, HandlerAt
  <1>5. OnlyRacingCodesCoexist'
    <2>1. Live' \subseteq Live
      BY DEF Live
    <2> QED BY <2>1 DEF CodesInv, OnlyRacingCodesCoexist
  <1>6. QED BY <1>2, <1>3, <1>4, <1>5

\* A row consumed stays consumed, and no other step signs anybody in.
LEMMA WinnersStay ==
    ASSUME CodesInv, won' = won, CodeIds \subseteq CodeIds',
           \A i \in CodeIds : code[i].at = "used" => code'[i].at = "used"
    PROVE  WinnersAreUsed'
  BY DEF CodesInv, WinnersAreUsed

\* A request that moves, but not past the check, and attempts that stay.
LEMMA GuessesStay ==
    ASSUME CodesInv, CodesTypeOK', CodeIds' = CodeIds, NEW h \in Handlers,
           \A g \in Handlers \ {h} : handler'[g] = handler[g],
           handler'[h].at # "count",
           \A i \in CodeIds : code'[i].tries = code[i].tries
    PROVE  GuessesAndMore'
  <1> SUFFICES ASSUME NEW i \in CodeIds
               PROVE  code'[i].tries + Cardinality(PastCheck(i)')
                      <= MaxVerifyAttempts + Cardinality(Handlers) - 1
    BY DEF GuessesAndMore, PastCheck, HandlerAt
  <1>1. i \in Nat /\ code[i] \in CodeRow
    BY CodeFacts DEF CodesInv
  <1>2. h \notin PastCheck(i)'
    BY DEF PastCheck, HandlerAt
  <1>3. /\ Cardinality(PastCheck(i)) \in Nat /\ Cardinality(PastCheck(i)') \in Nat
        /\ Cardinality(PastCheck(i)') <= Cardinality(PastCheck(i))
        /\ Cardinality(Handlers) \in Nat
    BY <1>1, <1>2, PastCheckMoves DEF CodesInv
  <1>4. code[i].tries + Cardinality(PastCheck(i)) <= MaxVerifyAttempts + Cardinality(Handlers) - 1
    BY DEF CodesInv, GuessesAndMore
  <1>5. code[i].tries \in Nat
    BY <1>1 DEF CodeRow
  <1>6. QED BY <1>3, <1>4, <1>5, OneTimeCodesAssumption

\* A request that found a row, and one that writes one.
LEMMA WaitingChanged ==
    ASSUME NEW r, NEW guess, NEW seen
    PROVE  /\ [Waiting EXCEPT !.at = "count", !.row = r, !.guess = guess]
              = [at |-> "count", guess |-> guess, row |-> r, seen |-> {}]
           /\ [Waiting EXCEPT !.at = "commit", !.row = r, !.seen = seen]
              = [at |-> "commit", guess |-> 0, row |-> r, seen |-> seen]
  <1> DEFINE f == [Waiting EXCEPT !.at = "count"]
             g == [Waiting EXCEPT !.at = "commit"]
             fr == [f EXCEPT !.row = r]
             gr == [g EXCEPT !.row = r]
  <1>1. /\ f = [at |-> "count", guess |-> 0, row |-> 0, seen |-> {}]
        /\ g = [at |-> "commit", guess |-> 0, row |-> 0, seen |-> {}]
    BY DEF Waiting
  <1> HIDE DEF f, g
  <1>2. /\ fr = [at |-> "count", guess |-> 0, row |-> r, seen |-> {}]
        /\ gr = [at |-> "commit", guess |-> 0, row |-> r, seen |-> {}]
    BY <1>1
  <1> HIDE DEF fr, gr
  <1>3. /\ [fr EXCEPT !.guess = guess] = [at |-> "count", guess |-> guess, row |-> r, seen |-> {}]
        /\ [gr EXCEPT !.seen = seen] = [at |-> "commit", guess |-> 0, row |-> r, seen |-> seen]
    BY <1>2
  <1>4. /\ [Waiting EXCEPT !.at = "count", !.row = r, !.guess = guess] = [fr EXCEPT !.guess = guess]
        /\ [Waiting EXCEPT !.at = "commit", !.row = r, !.seen = seen] = [gr EXCEPT !.seen = seen]
    BY DEF f, g, fr, gr
  <1>5. QED BY <1>3, <1>4

\* The answer of a request.
LEMMA RespondTypes ==
    ASSUME CodesTypeOK, NEW h \in Handlers, Respond(h)
    PROVE  /\ handler' \in [Handlers -> [at : {"waiting", "commit", "count", "compare", "consume"},
                                        guess : 0 .. MaxCodes, row : 0 .. MaxCodes,
                                        seen : SUBSET (1 .. MaxCodes)]]
           /\ handler'[h].at = "waiting"
           /\ \A g \in Handlers \ {h} : handler'[g] = handler[g]
  <1>1. Waiting \in [at : {"waiting", "commit", "count", "compare", "consume"},
                    guess : 0 .. MaxCodes, row : 0 .. MaxCodes, seen : SUBSET (1 .. MaxCodes)]
        /\ Waiting.at = "waiting"
    BY OneTimeCodesAssumption DEF Waiting
  <1>2. QED BY <1>1 DEF CodesTypeOK, Respond

\* The newest of the live rows is one of them.
LEMMA NewestIsLive ==
    ASSUME CodesTypeOK, Live # {}
    PROVE  Newest \in Live
  <1> DEFINE T == {Len(code) - i : i \in Live}
  <1>1. Len(code) \in Nat /\ \A i \in Live : i \in Nat /\ i <= Len(code)
    BY CodeFacts DEF Live
  <1>2. T \in SUBSET Nat /\ T # {}
    BY <1>1
  <1>3. \E n \in T : \A m \in T : n <= m
    <2> HIDE DEF T
    <2> QED BY <1>2, LeastNatural
  <1>4. PICK i \in Live : \A j \in Live : Len(code) - i <= Len(code) - j
    BY <1>3
  <1>5. \A j \in Live : j <= i
    BY <1>1, <1>4
  <1>6. QED BY <1>5 DEF Newest

\* One request more past the check, of a code with an attempt left.
LEMMA FindCodeKeeps ==
    ASSUME CodesInv, NEW h \in Handlers, NEW guess \in {0} \cup CodeIds, FindCode(h, guess)
    PROVE  CodesInv'
  <1>1. CodesTypeOK
    BY DEF CodesInv
  <1>2. /\ Newest \in Live /\ code[Newest].tries < MaxVerifyAttempts
        /\ code' = code /\ won' = won /\ behind' = behind
    BY <1>1, NewestIsLive DEF FindCode
  <1>3. PICK r \in CodeIds : r = Newest
    BY <1>2 DEF Live
  <1>4. r \in 0 .. MaxCodes /\ guess \in 0 .. MaxCodes /\ r \in Nat
    <2>1. \A i \in CodeIds : i \in 1 .. MaxCodes /\ i \in Nat
      BY <1>1, CodeFacts
    <2> QED BY <2>1, OneTimeCodesAssumption
  <1>5. handler' = [handler EXCEPT ![h] =
                      [at |-> "count", guess |-> guess, row |-> r, seen |-> {}]]
    <2> QED BY <1>3, WaitingChanged DEF FindCode
  <1>6. /\ handler' \in [Handlers -> [at : {"waiting", "commit", "count", "compare", "consume"},
                                     guess : 0 .. MaxCodes, row : 0 .. MaxCodes,
                                     seen : SUBSET (1 .. MaxCodes)]]
        /\ handler'[h].at = "count" /\ handler'[h].row = r
        /\ \A g \in Handlers \ {h} : handler'[g] = handler[g]
    BY <1>1, <1>4, <1>5 DEF CodesTypeOK
  <1>7. CodeIds' = CodeIds
    BY <1>2 DEF CodeIds
  <1>8. CodesTypeOK'
    BY <1>1, <1>2, <1>6, <1>7 DEF CodesTypeOK
  <1>9. /\ \A g \in Handlers : handler'[g] = handler[g] \/ handler'[g].at # "commit"
        /\ \A i \in CodeIds : \/ code'[i].at = code[i].at
                              \/ code[i].at \in {"live", "used"} /\ code'[i].at = "used"
    BY <1>2, <1>6
  <1>10. WritersHaveRows' /\ WritersAreBehind' /\ SeenOrBehind' /\ OnlyRacingCodesCoexist'
    BY <1>2, <1>7, <1>8, <1>9, RowsStay
  <1>11. WinnersAreUsed'
    BY <1>2, <1>7, WinnersStay
  <1>12. GuessersHaveRows'
    <2>1. code[r].at = "live"
      BY <1>2, <1>3 DEF Live
    <2>2. \A g \in Handlers : handler'[g].at \in {"count", "compare", "consume"} =>
             code'[handler'[g].row].at \in {"live", "used"}
      BY <1>2, <1>6, <2>1 DEF CodesInv, GuessersHaveRows
    <2> QED BY <2>2 DEF GuessersHaveRows
  <1>13. GuessesAndMore'
    <2> SUFFICES ASSUME NEW i \in CodeIds
                 PROVE  code[i].tries + Cardinality(PastCheck(i)')
                        <= MaxVerifyAttempts + Cardinality(Handlers) - 1
      BY <1>2, <1>7 DEF GuessesAndMore, PastCheck, HandlerAt
    <2>1. i \in Nat /\ code[i].tries \in Nat
      BY <1>1, CodeFacts DEF CodeRow
    <2>2. /\ Cardinality(PastCheck(i)) \in Nat /\ Cardinality(PastCheck(i)') \in Nat
          /\ Cardinality(PastCheck(i)') <= Cardinality(Handlers)
          /\ Cardinality(Handlers) \in Nat \ {0}
          /\ h \notin PastCheck(i)' => Cardinality(PastCheck(i)') <= Cardinality(PastCheck(i))
      BY <1>1, <1>6, <2>1, PastCheckMoves
    <2>3. CASE i = r
      <3>1. code[i].tries < MaxVerifyAttempts
        BY <1>2, <1>3, <2>3
      <3> QED BY <2>1, <2>2, <3>1, OneTimeCodesAssumption
    <2>4. CASE i # r
      <3>1. h \notin PastCheck(i)'
        BY <1>6, <2>4 DEF PastCheck, HandlerAt
      <3>2. code[i].tries + Cardinality(PastCheck(i)) <= MaxVerifyAttempts + Cardinality(Handlers) - 1
        BY DEF CodesInv, GuessesAndMore
      <3> QED BY <2>1, <2>2, <3>1, <3>2, OneTimeCodesAssumption
    <2> QED BY <2>3, <2>4
  <1>14. QED BY <1>8, <1>10, <1>11, <1>12, <1>13 DEF CodesInv

\* One attempt more, one request past the check less.
LEMMA CountAttemptKeeps ==
    ASSUME CodesInv, NEW h \in Handlers, CountAttempt(h)
    PROVE  CodesInv'
  <1>1. CodesTypeOK /\ HandlerAt(h, "count") /\ won' = won /\ behind' = behind
    BY DEF CodesInv, CountAttempt
  <1>2. PICK r \in CodeIds : r = handler[h].row
    BY <1>1 DEF HandlerAt, CodesTypeOK
  <1>3. /\ code[r] \in CodeRow /\ code[r].tries \in Nat /\ r \in Nat
        /\ code \in Seq(CodeRow) /\ Len(code) \in Nat /\ CodeIds = 1 .. Len(code)
        /\ \A i \in CodeIds : code[i] \in CodeRow
    BY <1>1, CodeFacts DEF CodeRow, CodesTypeOK
  <1>4. code' = [code EXCEPT ![r].tries = code[r].tries + 1]
    BY <1>2 DEF CountAttempt
  <1>5. [code[r] EXCEPT !.tries = code[r].tries + 1] \in CodeRow
    BY <1>3 DEF CodeRow
  <1>6. code' \in [CodeIds -> CodeRow]
    BY <1>3, <1>4, <1>5
  <1>7. code' \in Seq(CodeRow) /\ Len(code') = Len(code) /\ CodeIds' = CodeIds
    <2>1. PICK f \in [CodeIds -> CodeRow] : code' = f
      BY <1>6
    <2> QED BY <1>1, <2>1, CodesRewritten
  <1>8. /\ \A i \in CodeIds \ {r} : code'[i] = code[i]
        /\ code'[r].at = code[r].at /\ code'[r].tries = code[r].tries + 1
    BY <1>3, <1>4 DEF CodeRow
  <1>9. handler' = [handler EXCEPT ![h].at = "compare"]
    BY DEF CountAttempt, Proceed
  <1>10. /\ handler' \in [Handlers -> [at : {"waiting", "commit", "count", "compare", "consume"},
                                      guess : 0 .. MaxCodes, row : 0 .. MaxCodes,
                                      seen : SUBSET (1 .. MaxCodes)]]
         /\ handler'[h].at = "compare" /\ handler'[h].row = r
         /\ \A g \in Handlers \ {h} : handler'[g] = handler[g]
    BY <1>1, <1>2, <1>9 DEF CodesTypeOK
  <1>11. CodesTypeOK'
    BY <1>1, <1>2, <1>7, <1>10 DEF CodesTypeOK, CodeRow
  <1>12. /\ \A g \in Handlers : handler'[g] = handler[g] \/ handler'[g].at # "commit"
         /\ \A i \in CodeIds : \/ code'[i].at = code[i].at
                               \/ code[i].at \in {"live", "used"} /\ code'[i].at = "used"
    BY <1>8, <1>10
  <1>13. \A i \in CodeIds : code'[i].at = code[i].at
    BY <1>8
  <1>14. WritersHaveRows' /\ WritersAreBehind' /\ SeenOrBehind' /\ OnlyRacingCodesCoexist'
    BY <1>1, <1>7, <1>11, <1>12, <1>13, RowsStay
  <1>15. WinnersAreUsed'
    BY <1>1, <1>7, <1>13, WinnersStay
  <1>16. GuessersHaveRows'
    <2>1. \A g \in Handlers : handler[g].at \in {"count", "compare", "consume"} =>
             handler[g].row \in CodeIds /\ code[handler[g].row].at \in {"live", "used"}
      BY <1>1 DEF CodesInv, GuessersHaveRows, CodesTypeOK
    <2>2. \A g \in Handlers : handler'[g].at \in {"count", "compare", "consume"} =>
             code'[handler'[g].row].at \in {"live", "used"}
      BY <1>1, <1>2, <1>10, <1>13, <2>1 DEF HandlerAt
    <2> QED BY <2>2 DEF GuessersHaveRows
  <1>17. GuessesAndMore'
    <2> SUFFICES ASSUME NEW i \in CodeIds
                 PROVE  code'[i].tries + Cardinality(PastCheck(i)')
                        <= MaxVerifyAttempts + Cardinality(Handlers) - 1
      BY <1>7 DEF GuessesAndMore, PastCheck, HandlerAt
    <2>1. i \in Nat /\ code[i].tries \in Nat
      BY <1>1, CodeFacts DEF CodeRow
    <2>2. h \notin PastCheck(i)' /\ (i = r => h \in PastCheck(i))
      BY <1>1, <1>2, <1>10 DEF PastCheck, HandlerAt
    <2>3. /\ Cardinality(PastCheck(i)) \in Nat /\ Cardinality(PastCheck(i)') \in Nat
          /\ Cardinality(Handlers) \in Nat
          /\ Cardinality(PastCheck(i)') <= Cardinality(PastCheck(i))
          /\ i = r => Cardinality(PastCheck(i)') = Cardinality(PastCheck(i)) - 1
      BY <1>1, <1>10, <2>1, <2>2, PastCheckMoves
    <2>4. code[i].tries + Cardinality(PastCheck(i)) <= MaxVerifyAttempts + Cardinality(Handlers) - 1
      BY DEF CodesInv, GuessesAndMore
    <2>5. CASE i = r
      BY <1>8, <2>1, <2>3, <2>4, <2>5, OneTimeCodesAssumption
    <2>6. CASE i # r
      BY <1>8, <2>1, <2>3, <2>4, <2>6, OneTimeCodesAssumption
    <2> QED BY <2>5, <2>6
  <1>18. QED BY <1>11, <1>14, <1>15, <1>16, <1>17 DEF CodesInv

\* A guess is compared: no row changes.
LEMMA CompareKeeps ==
    ASSUME CodesInv, NEW h \in Handlers, Compare(h)
    PROVE  CodesInv'
  <1>1. CodesTypeOK /\ HandlerAt(h, "compare") /\ code' = code /\ won' = won /\ behind' = behind
    BY DEF CodesInv, Compare
  <1>2. Proceed(h, "consume") \/ Respond(h)
    BY DEF Compare
  <1>3. /\ handler' \in [Handlers -> [at : {"waiting", "commit", "count", "compare", "consume"},
                                     guess : 0 .. MaxCodes, row : 0 .. MaxCodes,
                                     seen : SUBSET (1 .. MaxCodes)]]
        /\ handler'[h].at \in {"waiting", "consume"}
        /\ handler'[h].at = "consume" => handler'[h].row = handler[h].row
        /\ \A g \in Handlers \ {h} : handler'[g] = handler[g]
    <2>1. CASE Respond(h)
      BY <1>1, <2>1, RespondTypes
    <2>2. CASE Proceed(h, "consume")
      BY <1>1, <2>2 DEF Proceed, CodesTypeOK
    <2> QED BY <1>2, <2>1, <2>2
  <1>4. CodeIds' = CodeIds
    BY <1>1 DEF CodeIds
  <1>5. \A g \in Handlers : handler[g].at # "waiting" => handler[g].row \in CodeIds
    BY <1>1 DEF CodesTypeOK
  <1>6. \A g \in Handlers : handler'[g].at # "waiting" => handler'[g].row \in CodeIds
    BY <1>1, <1>3, <1>5 DEF HandlerAt
  <1>7. CodesTypeOK'
    BY <1>1, <1>3, <1>4, <1>6 DEF CodesTypeOK
  <1>8. /\ \A g \in Handlers : handler'[g] = handler[g] \/ handler'[g].at # "commit"
        /\ \A i \in CodeIds : \/ code'[i].at = code[i].at
                              \/ code[i].at \in {"live", "used"} /\ code'[i].at = "used"
    BY <1>1, <1>3
  <1>9. WritersHaveRows' /\ WritersAreBehind' /\ SeenOrBehind' /\ OnlyRacingCodesCoexist'
    BY <1>1, <1>4, <1>7, <1>8, RowsStay
  <1>10. WinnersAreUsed'
    BY <1>1, <1>4, WinnersStay
  <1>11. GuessersHaveRows'
    <2>1. \A g \in Handlers : handler[g].at \in {"count", "compare", "consume"} =>
             code[handler[g].row].at \in {"live", "used"}
      BY DEF CodesInv, GuessersHaveRows
    <2>2. \A g \in Handlers : handler'[g].at \in {"count", "compare", "consume"} =>
             code'[handler'[g].row].at \in {"live", "used"}
      BY <1>1, <1>3, <2>1 DEF HandlerAt
    <2> QED BY <2>2 DEF GuessersHaveRows
  <1>12. GuessesAndMore'
    <2>1. handler'[h].at # "count"
      BY <1>3
    <2> QED BY <1>1, <1>3, <1>4, <1>7, <2>1, GuessesStay
  <1>13. QED BY <1>7, <1>9, <1>10, <1>11, <1>12 DEF CodesInv

\* The row is consumed, and good for a sign-in if it was live.
LEMMA ConsumeKeeps ==
    ASSUME CodesInv, NEW h \in Handlers, Consume(h)
    PROVE  CodesInv'
  <1>1. CodesTypeOK /\ HandlerAt(h, "consume") /\ Respond(h) /\ behind' = behind
    BY DEF CodesInv, Consume
  <1>2. PICK r \in CodeIds : r = handler[h].row
    BY <1>1 DEF HandlerAt, CodesTypeOK
  <1>3. /\ code \in Seq(CodeRow) /\ Len(code) \in Nat /\ CodeIds = 1 .. Len(code)
        /\ \A i \in CodeIds : code[i] \in CodeRow /\ i \in 1 .. MaxCodes
    BY <1>1, CodeFacts DEF CodeRow, CodesTypeOK
  <1>4. /\ code' = [code EXCEPT ![r].at = "used"]
        /\ won' = [won EXCEPT ![r] = IF code[r].at = "live" THEN won[r] + 1 ELSE won[r]]
    BY <1>2 DEF Consume
  <1>5. [code[r] EXCEPT !.at = "used"] \in CodeRow
    BY <1>3 DEF CodeRow
  <1>6. code' \in [CodeIds -> CodeRow]
    BY <1>3, <1>4, <1>5
  <1>7. code' \in Seq(CodeRow) /\ Len(code') = Len(code) /\ CodeIds' = CodeIds
    <2>1. PICK f \in [CodeIds -> CodeRow] : code' = f
      BY <1>6
    <2> QED BY <1>1, <2>1, CodesRewritten
  <1>8. /\ \A i \in CodeIds \ {r} : code'[i] = code[i]
        /\ code'[r].at = "used" /\ code'[r].tries = code[r].tries
    BY <1>3, <1>4 DEF CodeRow
  <1>9. /\ handler' \in [Handlers -> [at : {"waiting", "commit", "count", "compare", "consume"},
                                     guess : 0 .. MaxCodes, row : 0 .. MaxCodes,
                                     seen : SUBSET (1 .. MaxCodes)]]
        /\ handler'[h].at = "waiting"
        /\ \A g \in Handlers \ {h} : handler'[g] = handler[g]
    BY <1>1, RespondTypes
  <1>10. code[r].at \in {"live", "used"}
    BY <1>1, <1>2 DEF CodesInv, GuessersHaveRows, HandlerAt
  <1>11. won \in [1 .. MaxCodes -> Nat] /\ won' \in [1 .. MaxCodes -> Nat]
    BY <1>1, <1>3, <1>4 DEF CodesTypeOK
  <1>12. CodesTypeOK'
    <2>1. \A g \in Handlers : handler'[g].at # "waiting" => handler'[g].row \in CodeIds
      BY <1>1, <1>9 DEF CodesTypeOK
    <2> QED BY <1>1, <1>7, <1>9, <1>11, <2>1 DEF CodesTypeOK, CodeRow
  <1>13. /\ \A g \in Handlers : handler'[g] = handler[g] \/ handler'[g].at # "commit"
         /\ \A i \in CodeIds : \/ code'[i].at = code[i].at
                               \/ code[i].at \in {"live", "used"} /\ code'[i].at = "used"
    BY <1>8, <1>9, <1>10
  <1>14. WritersHaveRows' /\ WritersAreBehind' /\ SeenOrBehind' /\ OnlyRacingCodesCoexist'
    BY <1>1, <1>7, <1>12, <1>13, RowsStay
  <1>15. WinnersAreUsed'
    <2> SUFFICES ASSUME NEW i \in 1 .. MaxCodes
                 PROVE  won'[i] = 0 \/ (won'[i] = 1 /\ i \in CodeIds /\ code'[i].at = "used")
      BY <1>7 DEF WinnersAreUsed
    <2>1. won[i] = 0 \/ (won[i] = 1 /\ i \in CodeIds /\ code[i].at = "used")
      BY DEF CodesInv, WinnersAreUsed
    <2>2. CASE i # r
      BY <1>4, <1>8, <1>11, <2>1, <2>2
    <2>3. CASE i = r
      BY <1>4, <1>8, <1>11, <2>1, <2>3
    <2> QED BY <2>2, <2>3
  <1>16. GuessersHaveRows'
    <2>1. \A g \in Handlers : handler[g].at \in {"count", "compare", "consume"} =>
             handler[g].row \in CodeIds /\ code[handler[g].row].at \in {"live", "used"}
      BY <1>1 DEF CodesInv, GuessersHaveRows, CodesTypeOK
    <2>2. \A g \in Handlers : handler'[g].at \in {"count", "compare", "consume"} =>
             code'[handler'[g].row].at \in {"live", "used"}
      BY <1>9, <1>13, <2>1
    <2> QED BY <2>2 DEF GuessersHaveRows
  <1>17. GuessesAndMore'
    <2>1. handler'[h].at # "count" /\ \A i \in CodeIds : code'[i].tries = code[i].tries
      BY <1>8, <1>9
    <2> QED BY <1>7, <1>9, <1>12, <2>1, GuessesStay
  <1>18. QED BY <1>12, <1>14, <1>15, <1>16, <1>17 DEF CodesInv

\* An expired row stays the row it was.
LEMMA CodeExpiresKeeps ==
    ASSUME CodesInv, NEW r \in CodeIds, CodeExpires(r)
    PROVE  CodesInv'
  <1>1. CodesTypeOK /\ handler' = handler /\ won' = won /\ behind' = behind
    BY DEF CodesInv, CodeExpires
  <1>2. /\ code \in Seq(CodeRow) /\ Len(code) \in Nat /\ CodeIds = 1 .. Len(code)
        /\ \A i \in CodeIds : code[i] \in CodeRow
    BY <1>1, CodeFacts DEF CodeRow, CodesTypeOK
  <1>3. code' = [code EXCEPT ![r].expired = TRUE] /\ [code[r] EXCEPT !.expired = TRUE] \in CodeRow
    BY <1>2 DEF CodeExpires, CodeRow
  <1>4. code' \in [CodeIds -> CodeRow]
    BY <1>2, <1>3
  <1>5. code' \in Seq(CodeRow) /\ Len(code') = Len(code) /\ CodeIds' = CodeIds
    <2>1. PICK f \in [CodeIds -> CodeRow] : code' = f
      BY <1>4
    <2> QED BY <1>1, <2>1, CodesRewritten
  <1>6. \A i \in CodeIds : code'[i].at = code[i].at /\ code'[i].tries = code[i].tries
    BY <1>2, <1>3 DEF CodeRow
  <1>7. CodesTypeOK'
    BY <1>1, <1>5 DEF CodesTypeOK, CodeRow
  <1>8. /\ \A g \in Handlers : handler'[g] = handler[g] \/ handler'[g].at # "commit"
        /\ \A i \in CodeIds : \/ code'[i].at = code[i].at
                              \/ code[i].at \in {"live", "used"} /\ code'[i].at = "used"
    BY <1>1, <1>6
  <1>9. WritersHaveRows' /\ WritersAreBehind' /\ SeenOrBehind' /\ OnlyRacingCodesCoexist'
    BY <1>1, <1>5, <1>7, <1>8, RowsStay
  <1>10. WinnersAreUsed'
    BY <1>1, <1>5, <1>6, WinnersStay
  <1>11. GuessersHaveRows'
    <2>1. \A g \in Handlers : handler[g].at # "waiting" => handler[g].row \in CodeIds
      BY <1>1 DEF CodesTypeOK
    <2> QED BY <1>1, <1>6, <2>1 DEF CodesInv, GuessersHaveRows
  <1>12. GuessesAndMore'
    BY <1>1, <1>5, <1>6 DEF CodesInv, GuessesAndMore, PastCheck, HandlerAt
  <1>13. QED BY <1>7, <1>9, <1>10, <1>11, <1>12 DEF CodesInv

\* A request dies, and its row is lost with its transaction.
LEMMA HandlerDiesKeeps ==
    ASSUME CodesInv, NEW h \in Handlers, HandlerDies(h)
    PROVE  CodesInv'
  <1>1. /\ CodesTypeOK /\ ~HandlerAt(h, "waiting") /\ Respond(h)
        /\ won' = won /\ behind' = behind
    BY DEF CodesInv, HandlerDies
  <1>2. /\ handler' \in [Handlers -> [at : {"waiting", "commit", "count", "compare", "consume"},
                                     guess : 0 .. MaxCodes, row : 0 .. MaxCodes,
                                     seen : SUBSET (1 .. MaxCodes)]]
        /\ handler'[h].at = "waiting"
        /\ \A g \in Handlers \ {h} : handler'[g] = handler[g]
    BY <1>1, RespondTypes
  <1>3. PICK r \in CodeIds : r = handler[h].row
    BY <1>1 DEF HandlerAt, CodesTypeOK
  <1>4. /\ code \in Seq(CodeRow) /\ Len(code) \in Nat /\ CodeIds = 1 .. Len(code)
        /\ \A i \in CodeIds : code[i] \in CodeRow
    BY <1>1, CodeFacts DEF CodeRow, CodesTypeOK
  <1>5. \A g \in Handlers : handler[g].at # "waiting" => handler[g].row \in CodeIds
    BY <1>1 DEF CodesTypeOK
  <1>6. \A g \in Handlers : handler[g].at \in {"count", "compare", "consume"} =>
           handler[g].row \in CodeIds /\ code[handler[g].row].at \in {"live", "used"}
    BY <1>5 DEF CodesInv, GuessersHaveRows
  <1>7. CASE ~HandlerAt(h, "commit")
    <2>1. code' = code /\ CodeIds' = CodeIds
      BY <1>7 DEF HandlerDies, CodeIds
    <2>2. CodesTypeOK'
      BY <1>1, <1>2, <1>5, <2>1 DEF CodesTypeOK
    <2>3. /\ \A g \in Handlers : handler'[g] = handler[g] \/ handler'[g].at # "commit"
          /\ \A i \in CodeIds : \/ code'[i].at = code[i].at
                                \/ code[i].at \in {"live", "used"} /\ code'[i].at = "used"
      BY <1>2, <2>1
    <2>4. WritersHaveRows' /\ WritersAreBehind' /\ SeenOrBehind' /\ OnlyRacingCodesCoexist'
      BY <1>1, <2>1, <2>2, <2>3, RowsStay
    <2>5. WinnersAreUsed'
      BY <1>1, <2>1, WinnersStay
    <2>6. GuessersHaveRows'
      BY <1>2, <1>6, <2>1 DEF GuessersHaveRows
    <2>7. GuessesAndMore'
      <3>1. handler'[h].at # "count" /\ \A i \in CodeIds : code'[i].tries = code[i].tries
        BY <1>2, <2>1
      <3> QED BY <1>2, <2>1, <2>2, <3>1, GuessesStay
    <2> QED BY <2>2, <2>4, <2>5, <2>6, <2>7 DEF CodesInv
  <1>8. CASE HandlerAt(h, "commit")
    <2>1. code' = [code EXCEPT ![r].at = "lost"] /\ [code[r] EXCEPT !.at = "lost"] \in CodeRow
      BY <1>3, <1>4, <1>8 DEF HandlerDies, CodeRow
    <2>2. code' \in [CodeIds -> CodeRow]
      BY <1>4, <2>1
    <2>3. code' \in Seq(CodeRow) /\ Len(code') = Len(code) /\ CodeIds' = CodeIds
      <3>1. PICK f \in [CodeIds -> CodeRow] : code' = f
        BY <2>2
      <3> QED BY <1>1, <3>1, CodesRewritten
    <2>4. /\ \A i \in CodeIds \ {r} : code'[i] = code[i]
          /\ code'[r].at = "lost" /\ code'[r].tries = code[r].tries
      BY <1>4, <2>1 DEF CodeRow
    <2>5. /\ code[r].at = "writing"
          /\ \A g \in Handlers : HandlerAt(g, "commit") /\ handler[g].row = r => g = h
      BY <1>3, <1>8 DEF CodesInv, WritersHaveRows
    <2>6. CodesTypeOK'
      BY <1>1, <1>2, <1>5, <2>3 DEF CodesTypeOK, CodeRow
    <2>7. WritersHaveRows'
      <3>1. ASSUME NEW g \in Handlers, handler'[g].at = "commit"
            PROVE  /\ code'[handler'[g].row].at = "writing"
                   /\ \A i \in handler'[g].seen : i \in CodeIds /\ code'[i].at \in {"live", "used"}
                   /\ \A e \in Handlers :
                         handler'[e].at = "commit" /\ handler'[e].row = handler'[g].row => e = g
        <4>1. g # h /\ handler'[g] = handler[g]
          BY <1>2, <3>1
        <4>2. /\ handler[g].row \in CodeIds \ {r} /\ code[handler[g].row].at = "writing"
              /\ \A i \in handler[g].seen : i \in CodeIds /\ code[i].at \in {"live", "used"}
              /\ \A e \in Handlers :
                    handler[e].at = "commit" /\ handler[e].row = handler[g].row => e = g
          BY <1>5, <2>5, <3>1, <4>1 DEF CodesInv, WritersHaveRows, HandlerAt
        <4>3. \A i \in handler[g].seen : i # r
          BY <2>5, <4>2
        <4>4. \A e \in Handlers : handler'[e].at = "commit" => handler'[e] = handler[e]
          BY <1>2
        <4> QED BY <2>4, <4>1, <4>2, <4>3, <4>4
      <3> QED BY <2>3, <3>1 DEF WritersHaveRows, HandlerAt
    <2>8. GuessersHaveRows'
      BY <1>2, <1>6, <2>4, <2>5 DEF GuessersHaveRows
    <2>9. WinnersAreUsed'
      <3>1. \A i \in CodeIds : code[i].at = "used" => code'[i].at = "used"
        BY <2>4, <2>5
      <3> QED BY <1>1, <2>3, <3>1, WinnersStay
    <2>10. GuessesAndMore'
      <3>1. handler'[h].at # "count" /\ \A i \in CodeIds : code'[i].tries = code[i].tries
        BY <1>2, <2>4
      <3> QED BY <1>2, <2>3, <2>6, <3>1, GuessesStay
    <2>11. WritersAreBehind'
      BY <1>1, <2>3, <2>4 DEF CodesInv, WritersAreBehind
    <2>12. SeenOrBehind'
      <3>1. ASSUME NEW g \in Handlers, handler'[g].at = "commit",
                   NEW i \in CodeIds, i < handler'[g].row
            PROVE  \/ i \in behind'[handler'[g].row] \/ i \in handler'[g].seen
                   \/ code'[i].at \in {"used", "lost"}
        <4>1. handler'[g] = handler[g]
          BY <1>2, <3>1
        <4>2. \/ i \in behind[handler[g].row] \/ i \in handler[g].seen
              \/ code[i].at \in {"used", "lost"}
          BY <3>1, <4>1 DEF CodesInv, SeenOrBehind, HandlerAt
        <4> QED BY <1>1, <2>4, <4>1, <4>2
      <3> QED BY <2>3, <3>1 DEF SeenOrBehind, HandlerAt
    <2>13. OnlyRacingCodesCoexist'
      <3>1. Live' \subseteq Live
        BY <2>3, <2>4 DEF Live
      <3> QED BY <1>1, <3>1 DEF CodesInv, OnlyRacingCodesCoexist
    <2> QED BY <2>6, <2>7, <2>8, <2>9, <2>10, <2>11, <2>12, <2>13 DEF CodesInv
  <1>9. QED BY <1>7, <1>8

\* The row goes live: the older live ones were updated, or being written.
LEMMA CommitKeeps ==
    ASSUME CodesInv, NEW h \in Handlers, Commit(h)
    PROVE  CodesInv'
  <1>1. /\ CodesTypeOK /\ HandlerAt(h, "commit") /\ Respond(h)
        /\ won' = won /\ behind' = behind
    BY DEF CodesInv, Commit
  <1>2. /\ handler' \in [Handlers -> [at : {"waiting", "commit", "count", "compare", "consume"},
                                     guess : 0 .. MaxCodes, row : 0 .. MaxCodes,
                                     seen : SUBSET (1 .. MaxCodes)]]
        /\ handler'[h].at = "waiting"
        /\ \A g \in Handlers \ {h} : handler'[g] = handler[g]
    BY <1>1, RespondTypes
  <1>3. PICK r \in CodeIds : r = handler[h].row
    BY <1>1 DEF HandlerAt, CodesTypeOK
  <1>4. PICK seen : seen = handler[h].seen
    OBVIOUS
  <1>5. /\ Len(code) \in Nat /\ CodeIds = 1 .. Len(code)
        /\ \A i \in CodeIds : code[i] \in CodeRow
    BY <1>1, CodeFacts
  <1>6. \A g \in Handlers : handler[g].at # "waiting" => handler[g].row \in CodeIds
    BY <1>1 DEF CodesTypeOK
  <1>7. /\ code[r].at = "writing"
        /\ \A i \in seen : i \in CodeIds /\ code[i].at \in {"live", "used"}
        /\ \A g \in Handlers : HandlerAt(g, "commit") /\ handler[g].row = r => g = h
    BY <1>1, <1>3, <1>4 DEF CodesInv, WritersHaveRows
  <1>8. code' = [i \in CodeIds |-> [code[i] EXCEPT !.at = IF i = r THEN "live"
                                                       ELSE IF i \in seen THEN "used" ELSE @]]
    BY <1>3, <1>4 DEF Commit
  <1>9. ASSUME NEW i \in CodeIds
        PROVE  /\ code'[i] \in CodeRow /\ code'[i].tries = code[i].tries
               /\ i = r => code'[i].at = "live"
               /\ i # r /\ i \in seen => code'[i].at = "used"
               /\ i # r /\ i \notin seen => code'[i].at = code[i].at
    <2>1. PICK c \in CodeRow : c = code[i]
      BY <1>5
    <2>2. code'[i] = [c EXCEPT !.at = IF i = r THEN "live" ELSE IF i \in seen THEN "used" ELSE c.at]
      BY <1>8, <2>1
    <2> QED BY <2>1, <2>2 DEF CodeRow
  <1>10. code' \in [CodeIds -> CodeRow]
    BY <1>8, <1>9
  <1>11. code' \in Seq(CodeRow) /\ Len(code') = Len(code) /\ CodeIds' = CodeIds
    <2>1. PICK f \in [CodeIds -> CodeRow] : code' = f
      BY <1>10
    <2> QED BY <1>1, <2>1, CodesRewritten
  <1>12. CodesTypeOK'
    BY <1>1, <1>2, <1>6, <1>11 DEF CodesTypeOK, CodeRow
  <1>13. /\ \A i \in CodeIds : code'[i].at = "writing" <=> code[i].at = "writing" /\ i # r
         /\ \A i \in CodeIds : code[i].at \in {"live", "used"} => i # r /\ code'[i].at \in {"live", "used"}
         /\ \A i \in CodeIds : code[i].at \in {"lost", "used"} => code'[i].at \in {"lost", "used"}
         /\ \A i \in CodeIds : code[i].at = "used" => code'[i].at = "used"
    BY <1>7, <1>9
  <1>14. WritersHaveRows'
    <2>1. ASSUME NEW g \in Handlers, handler'[g].at = "commit"
          PROVE  /\ code'[handler'[g].row].at = "writing"
                 /\ \A i \in handler'[g].seen : i \in CodeIds /\ code'[i].at \in {"live", "used"}
                 /\ \A e \in Handlers :
                       handler'[e].at = "commit" /\ handler'[e].row = handler'[g].row => e = g
      <3>1. g # h /\ handler'[g] = handler[g]
        BY <1>2, <2>1
      <3>2. /\ handler[g].row \in CodeIds \ {r} /\ code[handler[g].row].at = "writing"
            /\ \A i \in handler[g].seen : i \in CodeIds /\ code[i].at \in {"live", "used"}
            /\ \A e \in Handlers :
                  handler[e].at = "commit" /\ handler[e].row = handler[g].row => e = g
        BY <1>6, <1>7, <2>1, <3>1 DEF CodesInv, WritersHaveRows, HandlerAt
      <3>3. \A e \in Handlers : handler'[e].at = "commit" => handler'[e] = handler[e]
        BY <1>2
      <3> QED BY <1>13, <3>1, <3>2, <3>3
    <2> QED BY <1>11, <2>1 DEF WritersHaveRows, HandlerAt
  <1>15. GuessersHaveRows'
    <2>1. \A g \in Handlers : handler[g].at \in {"count", "compare", "consume"} =>
             handler[g].row \in CodeIds /\ code[handler[g].row].at \in {"live", "used"}
      BY <1>6 DEF CodesInv, GuessersHaveRows
    <2> QED BY <1>2, <1>13, <2>1 DEF GuessersHaveRows
  <1>16. WinnersAreUsed'
    BY <1>1, <1>11, <1>13, WinnersStay
  <1>17. GuessesAndMore'
    <2>1. handler'[h].at # "count" /\ \A i \in CodeIds : code'[i].tries = code[i].tries
      BY <1>2, <1>9
    <2> QED BY <1>2, <1>11, <1>12, <2>1, GuessesStay
  <1>18. WritersAreBehind'
    BY <1>1, <1>11, <1>13 DEF CodesInv, WritersAreBehind
  <1>19. SeenOrBehind'
    <2>1. ASSUME NEW g \in Handlers, handler'[g].at = "commit",
                 NEW i \in CodeIds, i < handler'[g].row
          PROVE  \/ i \in behind'[handler'[g].row] \/ i \in handler'[g].seen
                 \/ code'[i].at \in {"used", "lost"}
      <3>1. handler'[g] = handler[g]
        BY <1>2, <2>1
      <3>2. \/ i \in behind[handler[g].row] \/ i \in handler[g].seen
            \/ code[i].at \in {"used", "lost"}
        BY <2>1, <3>1 DEF CodesInv, SeenOrBehind, HandlerAt
      <3> QED BY <1>1, <1>13, <3>1, <3>2
    <2> QED BY <1>11, <2>1 DEF SeenOrBehind, HandlerAt
  <1>20. OnlyRacingCodesCoexist'
    <2> SUFFICES ASSUME NEW i \in CodeIds, NEW j \in CodeIds, i < j,
                        code'[i].at = "live", code'[j].at = "live"
                 PROVE  i \in behind[j]
      BY <1>1, <1>11 DEF OnlyRacingCodesCoexist, Live
    <2>1. CASE i # r /\ j # r
      <3>1. i \in Live /\ j \in Live
        BY <1>9, <2>1 DEF Live
      <3> QED BY <3>1 DEF CodesInv, OnlyRacingCodesCoexist
    <2>2. CASE j = r
      <3>1. i # r /\ i \notin seen /\ code[i].at = "live"
        BY <1>5, <1>9, <2>2
      <3>2. \/ i \in behind[r] \/ i \in seen \/ code[i].at \in {"used", "lost"}
        BY <1>1, <1>3, <1>4, <2>2 DEF CodesInv, SeenOrBehind
      <3> QED BY <2>2, <3>1, <3>2
    <2>3. CASE i = r
      BY <1>7, <2>3 DEF CodesInv, WritersAreBehind
    <2> QED BY <2>1, <2>2, <2>3
  <1>21. QED BY <1>12, <1>14, <1>15, <1>16, <1>17, <1>18, <1>19, <1>20 DEF CodesInv

\* The newest row, which looks for the older ones.
LEMMA BeginIssueKeeps ==
    ASSUME CodesInv, NEW h \in Handlers, BeginIssue(h)
    PROVE  CodesInv'
  <1> DEFINE new == [at |-> "writing", tries |-> 0, expired |-> FALSE]
             n == Len(code) + 1
  <1>1. /\ CodesTypeOK /\ HandlerAt(h, "waiting") /\ Len(code) < MaxCodes
        /\ code' = Append(code, new) /\ won' = won
        /\ behind' = [behind EXCEPT ![n] = Writing]
    BY DEF CodesInv, BeginIssue
  <1>2. handler' = [handler EXCEPT ![h] = [at |-> "commit", guess |-> 0, row |-> n, seen |-> Live]]
    BY WaitingChanged DEF BeginIssue
  <1>3. /\ Len(code) \in Nat /\ CodeIds = 1 .. Len(code) /\ CodeIds \subseteq 1 .. MaxCodes
        /\ \A i \in CodeIds : code[i] \in CodeRow /\ i \in Nat
        /\ code \in Seq(CodeRow)
    BY <1>1, CodeFacts DEF CodesTypeOK, CodeRow
  <1>4. /\ n \in 1 .. MaxCodes /\ n \in 0 .. MaxCodes /\ n \in Nat
        /\ \A i \in CodeIds : i < n /\ i # n
    BY <1>1, <1>3, OneTimeCodesAssumption
  <1>5. new \in CodeRow
    BY DEF CodeRow
  <1>6. /\ code' \in Seq(CodeRow) /\ Len(code') = n
        /\ code'[n] = new /\ \A i \in CodeIds : code'[i] = code[i]
    <2> HIDE DEF new
    <2> QED BY <1>1, <1>3, <1>5
  <1>7. CodeIds' = CodeIds \cup {n}
    <2>1. CodeIds' = 1 .. n
      BY <1>6 DEF CodeIds
    <2> QED BY <1>3, <2>1
  <1> HIDE DEF n
  <1>8. code'[n].at = "writing" /\ code'[n].tries = 0
    BY <1>6
  <1> HIDE DEF new
  <1>9. Live \in SUBSET (1 .. MaxCodes) /\ Writing \in SUBSET (1 .. MaxCodes)
        /\ n \notin Live /\ n \notin Writing
    BY <1>3, <1>4 DEF Live, Writing
  <1>10. /\ handler' \in [Handlers -> [at : {"waiting", "commit", "count", "compare", "consume"},
                                      guess : 0 .. MaxCodes, row : 0 .. MaxCodes,
                                      seen : SUBSET (1 .. MaxCodes)]]
         /\ handler'[h].at = "commit" /\ handler'[h].row = n /\ handler'[h].seen = Live
         /\ \A g \in Handlers \ {h} : handler'[g] = handler[g]
    BY <1>1, <1>2, <1>4, <1>9, OneTimeCodesAssumption DEF CodesTypeOK
  <1>11. \A g \in Handlers : handler[g].at # "waiting" => handler[g].row \in CodeIds
    BY <1>1 DEF CodesTypeOK
  <1>12. /\ behind' \in [1 .. MaxCodes -> SUBSET (1 .. MaxCodes)]
         /\ behind'[n] = Writing /\ \A j \in CodeIds : behind'[j] = behind[j]
    BY <1>1, <1>3, <1>4, <1>9 DEF CodesTypeOK
  <1>13. CodesTypeOK'
    <2>1. \A g \in Handlers : handler'[g].at # "waiting" => handler'[g].row \in CodeIds'
      BY <1>7, <1>10, <1>11
    <2>2. Len(code') <= MaxCodes
      BY <1>4, <1>6
    <2> QED BY <1>1, <1>6, <1>10, <1>12, <2>1, <2>2 DEF CodesTypeOK, CodeRow
  <1>14. WritersHaveRows'
    <2>1. \A i \in Live : i \in CodeIds /\ code[i].at = "live"
      BY DEF Live
    <2>2. ASSUME NEW g \in Handlers, handler'[g].at = "commit"
          PROVE  /\ code'[handler'[g].row].at = "writing"
                 /\ \A i \in handler'[g].seen : i \in CodeIds' /\ code'[i].at \in {"live", "used"}
                 /\ \A e \in Handlers :
                       handler'[e].at = "commit" /\ handler'[e].row = handler'[g].row => e = g
      <3>1. CASE g = h
        <4>1. \A e \in Handlers \ {h} : handler'[e].at = "commit" => handler'[e].row \in CodeIds
          BY <1>10, <1>11
        <4>2. \A e \in Handlers \ {h} : handler'[e].at = "commit" => handler'[e].row # n
          BY <1>4, <4>1
        <4>3. \A i \in Live : i \in CodeIds' /\ code'[i].at = "live"
          BY <1>6, <1>7, <2>1
        <4> QED BY <1>8, <1>10, <3>1, <4>2, <4>3
      <3>2. CASE g # h
        <4>1. /\ handler'[g] = handler[g] /\ handler[g].row \in CodeIds
              /\ code[handler[g].row].at = "writing"
              /\ \A i \in handler[g].seen : i \in CodeIds /\ code[i].at \in {"live", "used"}
              /\ \A e \in Handlers :
                    handler[e].at = "commit" /\ handler[e].row = handler[g].row => e = g
          BY <1>10, <1>11, <2>2, <3>2 DEF CodesInv, WritersHaveRows, HandlerAt
        <4>2. \A e \in Handlers : handler'[e].at = "commit" /\ handler'[e].row = handler[g].row => e # h
          BY <1>4, <1>10, <4>1
        <4>3. \A e \in Handlers : handler'[e].at = "commit" /\ handler'[e].row = handler[g].row => e = g
          BY <1>10, <4>1, <4>2
        <4> QED BY <1>6, <1>7, <4>1, <4>3
      <3> QED BY <3>1, <3>2
    <2> QED BY <2>2 DEF WritersHaveRows, HandlerAt
  <1>15. GuessersHaveRows'
    <2>1. \A g \in Handlers : handler[g].at \in {"count", "compare", "consume"} =>
             handler[g].row \in CodeIds /\ code[handler[g].row].at \in {"live", "used"}
      BY <1>11 DEF CodesInv, GuessersHaveRows
    <2> QED BY <1>6, <1>10, <2>1 DEF GuessersHaveRows
  <1>16. WinnersAreUsed'
    <2>1. CodeIds \subseteq CodeIds' /\ \A i \in CodeIds : code[i].at = "used" => code'[i].at = "used"
      BY <1>6, <1>7
    <2> QED BY <1>1, <2>1, WinnersStay
  <1>17. GuessesAndMore'
    <2> SUFFICES ASSUME NEW i \in CodeIds'
                 PROVE  code'[i].tries + Cardinality(PastCheck(i)')
                        <= MaxVerifyAttempts + Cardinality(Handlers) - 1
      BY DEF GuessesAndMore, PastCheck, HandlerAt
    <2>1. i \in Nat
      BY <1>3, <1>4, <1>7
    <2>2. h \notin PastCheck(i)'
      BY <1>10 DEF PastCheck, HandlerAt
    <2>3. /\ Cardinality(PastCheck(i)) \in Nat /\ Cardinality(PastCheck(i)') \in Nat
          /\ Cardinality(Handlers) \in Nat \ {0}
          /\ Cardinality(PastCheck(i)') <= Cardinality(PastCheck(i))
      BY <1>1, <1>10, <2>1, <2>2, PastCheckMoves
    <2>4. CASE i = n
      <3>1. PastCheck(i)' = {}
        BY <1>4, <1>10, <1>11, <2>4 DEF PastCheck, HandlerAt
      <3>2. Cardinality(PastCheck(i)') = 0
        BY <3>1, FS_EmptySet
      <3> QED BY <1>8, <2>3, <2>4, <3>2, OneTimeCodesAssumption
    <2>5. CASE i \in CodeIds
      <3>1. code'[i].tries = code[i].tries /\ code[i].tries \in Nat
        BY <1>3, <1>6, <2>5 DEF CodeRow
      <3>2. code[i].tries + Cardinality(PastCheck(i)) <= MaxVerifyAttempts + Cardinality(Handlers) - 1
        BY <2>5 DEF CodesInv, GuessesAndMore
      <3> QED BY <2>3, <3>1, <3>2, OneTimeCodesAssumption
    <2> QED BY <1>7, <2>4, <2>5
  <1>18. WritersAreBehind'
    <2> SUFFICES ASSUME NEW i \in CodeIds', NEW j \in CodeIds', i < j, code'[i].at = "writing"
                 PROVE  i \in behind'[j]
      BY DEF WritersAreBehind
    <2>1. i \in CodeIds /\ code[i].at = "writing"
      BY <1>3, <1>4, <1>6, <1>7
    <2>2. CASE j = n
      BY <1>12, <2>1, <2>2 DEF Writing
    <2>3. CASE j \in CodeIds
      BY <1>12, <2>1, <2>3 DEF CodesInv, WritersAreBehind
    <2> QED BY <1>7, <2>2, <2>3
  <1>19. SeenOrBehind'
    <2>1. ASSUME NEW g \in Handlers, handler'[g].at = "commit",
                 NEW i \in CodeIds', i < handler'[g].row
          PROVE  \/ i \in behind'[handler'[g].row] \/ i \in handler'[g].seen
                 \/ code'[i].at \in {"used", "lost"}
      <3>1. CASE g = h
        <4>1. i \in CodeIds /\ code'[i] = code[i] /\ code[i] \in CodeRow
          BY <1>3, <1>4, <1>6, <1>7, <1>10, <2>1, <3>1
        <4>2. code[i].at \in {"writing", "live", "used", "lost"}
          BY <4>1 DEF CodeRow
        <4>3. /\ code[i].at = "writing" => i \in Writing
              /\ code[i].at = "live" => i \in Live
          BY <4>1 DEF Writing, Live
        <4> QED BY <1>10, <1>12, <3>1, <4>1, <4>2, <4>3
      <3>2. CASE g # h
        <4>1. handler'[g] = handler[g] /\ handler[g].row \in CodeIds
          BY <1>10, <1>11, <2>1, <3>2
        <4>2. i \in CodeIds
          BY <1>3, <1>4, <1>7, <2>1, <4>1
        <4>3. \/ i \in behind[handler[g].row] \/ i \in handler[g].seen
              \/ code[i].at \in {"used", "lost"}
          BY <2>1, <4>1, <4>2 DEF CodesInv, SeenOrBehind, HandlerAt
        <4> QED BY <1>6, <1>12, <4>1, <4>2, <4>3
      <3> QED BY <3>1, <3>2
    <2> QED BY <2>1 DEF SeenOrBehind, HandlerAt
  <1>20. OnlyRacingCodesCoexist'
    <2>1. Live' \subseteq Live
      BY <1>6, <1>7, <1>8 DEF Live
    <2>2. \A j \in Live : behind'[j] = behind[j]
      BY <1>12 DEF Live
    <2> QED BY <2>1, <2>2 DEF CodesInv, OnlyRacingCodesCoexist
  <1>21. QED BY <1>13, <1>14, <1>15, <1>16, <1>17, <1>18, <1>19, <1>20 DEF CodesInv

-----------------------------------------------------------------------------
(* The codes: the theorem                                                  *)

\* No code and no request.
LEMMA CodesInitHolds ==
    ASSUME CodesInit PROVE CodesInv
  <1>1. Len(code) = 0 /\ CodeIds = {} /\ code \in Seq(CodeRow)
    BY DEF CodesInit, CodeIds
  <1>2. Waiting \in [at : {"waiting", "commit", "count", "compare", "consume"},
                    guess : 0 .. MaxCodes, row : 0 .. MaxCodes, seen : SUBSET (1 .. MaxCodes)]
        /\ Waiting.at = "waiting"
    BY OneTimeCodesAssumption DEF Waiting
  <1>3. CodesTypeOK /\ \A h \in Handlers : handler[h].at = "waiting"
    BY <1>1, <1>2, OneTimeCodesAssumption DEF CodesInit, CodesTypeOK, CodeRow
  <1>4. WritersHaveRows /\ GuessersHaveRows /\ SeenOrBehind
    BY <1>3 DEF WritersHaveRows, GuessersHaveRows, SeenOrBehind, HandlerAt
  <1>5. WinnersAreUsed
    BY DEF CodesInit, WinnersAreUsed
  <1>6. GuessesAndMore /\ WritersAreBehind /\ OnlyRacingCodesCoexist
    BY <1>1 DEF GuessesAndMore, WritersAreBehind, OnlyRacingCodesCoexist, Live
  <1>7. QED BY <1>3, <1>4, <1>5, <1>6 DEF CodesInv

\* The invariant holds in every reachable state.
LEMMA CodesInvHolds == CodesSpec => []CodesInv
  <1>1. ASSUME CodesInv, [CodesNext]_codesVars PROVE CodesInv'
    <2>1. CASE UNCHANGED codesVars
      BY <1>1, <2>1 DEF codesVars, CodesInv, CodesTypeOK, WritersHaveRows, GuessersHaveRows,
             WinnersAreUsed, GuessesAndMore, PastCheck, WritersAreBehind, SeenOrBehind,
             OnlyRacingCodesCoexist, Live, CodeIds, HandlerAt
    <2>2. ASSUME NEW h \in Handlers, NEW guess \in {0} \cup CodeIds, FindCode(h, guess)
          PROVE  CodesInv'
      BY <1>1, <2>2, FindCodeKeeps
    <2>3. ASSUME NEW h \in Handlers,
                 \/ BeginIssue(h) \/ Commit(h) \/ CountAttempt(h) \/ Compare(h) \/ Consume(h)
                 \/ HandlerDies(h)
          PROVE  CodesInv'
      BY <1>1, <2>3, BeginIssueKeeps, CommitKeeps, CountAttemptKeeps, CompareKeeps, ConsumeKeeps,
         HandlerDiesKeeps
    <2>4. ASSUME NEW i \in CodeIds, CodeExpires(i) PROVE CodesInv'
      BY <1>1, <2>4, CodeExpiresKeeps
    <2> QED BY <1>1, <2>1, <2>2, <2>3, <2>4 DEF CodesNext
  <1>2. QED BY <1>1, CodesInitHolds, PTL DEF CodesSpec

\* The codes of a mailbox, whatever requests run at the same time or die: a code is
\* guessed at most as often as the attempts and the other requests allow, it signs
\* in once, and two of them work only if the later one could not see the earlier.
THEOREM CodesHold == CodesSpec => []CodesAreSound
  <1>1. ASSUME CodesInv PROVE CodesAreSound
    <2>1. GuessesAreBounded
      <3> SUFFICES ASSUME NEW i \in CodeIds
                   PROVE  code[i].tries <= MaxVerifyAttempts + Cardinality(Handlers) - 1
        BY DEF GuessesAreBounded
      <3>1. IsFiniteSet(PastCheck(i)) /\ Cardinality(PastCheck(i)) \in Nat
        BY OneTimeCodesAssumption, FS_Subset, FS_CardinalityType DEF PastCheck
      <3>2. code[i].tries \in Nat /\ Cardinality(Handlers) \in Nat
        BY <1>1, CodeFacts, OneTimeCodesAssumption, FS_CardinalityType DEF CodesInv, CodeRow
      <3>3. code[i].tries + Cardinality(PastCheck(i)) <= MaxVerifyAttempts + Cardinality(Handlers) - 1
        BY <1>1 DEF CodesInv, GuessesAndMore
      <3> QED BY <3>1, <3>2, <3>3, OneTimeCodesAssumption
    <2>2. CodesAreUsedOnce
      BY <1>1, CodeFacts DEF CodesInv, WinnersAreUsed, CodesAreUsedOnce
    <2> QED BY <1>1, <2>1, <2>2 DEF CodesInv, CodesAreSound
  <1>2. QED BY <1>1, CodesInvHolds, PTL

-----------------------------------------------------------------------------
(* Membership: the invariant                                               *)

ReqStates == [at : Steps, by : Users, as : Roles \cup {"none"}, target : Users,
              seen : Roles \cup {"none"}, wanted : Offered \cup {"none"},
              gone : BOOLEAN, joined : SUBSET Users]
MemberStates == [role : Roles \cup {"none"}, restricted : BOOLEAN, grants : SUBSET Accounts]
InviteStates == [status : {"none", "PENDING", "ACCEPTED", "EXPIRED", "REVOKED"},
                 role : {"ADMIN", "MEMBER"}, expired : BOOLEAN]

\* The rows, and what is observed of them.
RowsTypeOK ==
    /\ people \subseteq Users /\ exists \in BOOLEAN
    /\ member \in [Users -> MemberStates] /\ invite \in [Users -> InviteStates]
    /\ connected \subseteq Accounts
    /\ issued \in [Users -> 0 .. MaxInvites] /\ joins \in [Users -> Nat]
    /\ given \in [Users -> SUBSET Accounts]

\* A workspace is there as long as its owner, who never has another role; nobody
\* belongs, or is invited, to one that is gone.
OwnerStays ==
    /\ exists <=> Owner \in people
    /\ exists => member[Owner].role = "OWNER"
    /\ \A u \in Users : member[u].role # "none" => exists
    /\ \A u \in Users : member[u].role = "OWNER" => u = Owner
    /\ \A u \in Users : invite[u].status = "PENDING" => exists

\* An invitation that can still be used has not been.
InvitationsLast ==
    \A u \in Users : /\ joins[u] <= issued[u]
                     /\ invite[u].status = "PENDING" => joins[u] < issued[u]

\* What somebody was granted a manager gave; who is not restricted has no grants,
\* so that losing one cannot widen what they see.
GrantsWereGiven ==
    \A u \in Users : /\ member[u].grants \subseteq given[u]
                     /\ ~member[u].restricted => given[u] = Accounts /\ member[u].grants = {}

RowsAreSound == OwnerStays /\ InvitationsLast /\ GrantsWereGiven /\ NobodyIsLeftBehind

\* What a request has read and may rely on: its member is there, unless it knows
\* better, and is not the owner; who may not change an admin did not find one; who
\* deletes the workspace has counted its members, but for those who joined since.
RequestIsSound(r) ==
    /\ req[r].at \in {"patch", "remove", "access"} /\ ~req[r].gone =>
          req[r].target \in Members \ {Owner}
    /\ req[r].at \in {"patch", "claim"} => req[r].wanted \in Offered
    /\ req[r].at \in {"patch", "remove"} => req[r].as = "OWNER" \/ req[r].seen # "ADMIN"
    /\ req[r].at = "delete" /\ req[r].by = Owner => Members \subseteq req[r].joined \cup {Owner}

MemberInv ==
    /\ RowsTypeOK /\ req \in [Requests -> ReqStates]
    /\ RowsAreSound
    /\ \A r \in Requests : RequestIsSound(r)

-----------------------------------------------------------------------------
(* Membership: what stays                                                  *)

\* A request that has not begun.
LEMMA IdleIsSound ==
    ASSUME Owner \in Users
    PROVE  Idle \in ReqStates /\ Idle.at = "idle"
  BY DEF Idle, ReqStates, Steps, Roles

\* A request that has nothing to rely on.
LEMMA IdleRelies ==
    ASSUME NEW r \in Requests, req'[r].at \in {"idle", "context", "expired"}
    PROVE  RequestIsSound(r)'
  BY DEF RequestIsSound

\* A request that answers is idle, and the others are where they were.
LEMMA AnswerMoves ==
    ASSUME MemberInv, NEW r \in Requests, Answer(r)
    PROVE  /\ req' \in [Requests -> ReqStates] /\ RequestIsSound(r)'
           /\ \A q \in Requests \ {r} : req'[q] = req[q]
  <1>1. Idle \in ReqStates /\ Idle.at = "idle"
    BY IdleIsSound, MembershipAssumption
  <1>2. req' = [req EXCEPT ![r] = Idle] /\ req \in [Requests -> ReqStates]
    BY DEF Answer, MemberInv
  <1> HIDE DEF Idle
  <1>3. /\ req' \in [Requests -> ReqStates] /\ req'[r] = Idle
        /\ \A q \in Requests \ {r} : req'[q] = req[q]
    BY <1>1, <1>2
  <1>4. QED BY <1>1, <1>3, IdleRelies

\* A request goes on relying on what it has read while the same people belong to
\* the workspace, but for those it is told about.
LEMMA RequestStays ==
    ASSUME NEW q \in Requests, RequestIsSound(q),
           req'[q].at = req[q].at, req'[q].by = req[q].by, req'[q].as = req[q].as,
           req'[q].target = req[q].target, req'[q].seen = req[q].seen,
           req'[q].wanted = req[q].wanted,
           req[q].gone => req'[q].gone,
           req[q].target \in Members => req[q].target \in Members' \/ req'[q].gone,
           Members' \subseteq Members \cup req'[q].joined \/ req[q].at # "delete",
           req[q].joined \subseteq req'[q].joined
    PROVE  RequestIsSound(q)'
  BY DEF RequestIsSound

\* A step that lets nobody in or out leaves the others' requests sound.
LEMMA StepKeeps ==
    ASSUME MemberInv, req' \in [Requests -> ReqStates], RowsTypeOK', RowsAreSound',
           Members' = Members,
           \A q \in Requests : req'[q] = req[q] \/ RequestIsSound(q)'
    PROVE  MemberInv'
  <1>1. ASSUME NEW q \in Requests PROVE RequestIsSound(q)'
    <2>1. CASE req'[q] = req[q]
      <3>1. RequestIsSound(q)
        BY DEF MemberInv
      <3> QED BY <2>1, <3>1, RequestStays
    <2> QED BY <1>1, <2>1
  <1>2. QED BY <1>1 DEF MemberInv

\* A step of one request that writes no row.
LEMMA RequestMoves ==
    ASSUME MemberInv, NEW r \in Requests, req'[r] \in ReqStates, DOMAIN req' = Requests,
           req' = [q \in DOMAIN req' |-> req'[q]],
           \A q \in Requests \ {r} : req'[q] = req[q], RequestIsSound(r)',
           UNCHANGED <<people, exists, member, invite, connected, observers>>
    PROVE  MemberInv'
  <1>1. req' \in [Requests -> ReqStates]
    <2>1. \A q \in Requests : req'[q] \in ReqStates
      BY DEF MemberInv
    <2> QED BY <2>1
  <1>2. /\ people' = people /\ exists' = exists /\ member' = member /\ invite' = invite
        /\ connected' = connected /\ issued' = issued /\ joins' = joins /\ given' = given
        /\ lost' = lost
    BY DEF observers
  <1>3. RowsTypeOK' /\ RowsAreSound' /\ Members' = Members
    BY <1>2 DEF MemberInv, RowsTypeOK, RowsAreSound, OwnerStays, InvitationsLast,
                GrantsWereGiven, NobodyIsLeftBehind, Members
  <1>4. QED BY <1>1, <1>3, StepKeeps

\* A step of one request that writes rows, lets nobody in or out, and answers.
LEMMA AnswerKeeps ==
    ASSUME MemberInv, NEW r \in Requests, Answer(r), RowsTypeOK', RowsAreSound',
           Members' = Members
    PROVE  MemberInv'
  <1>1. /\ req' \in [Requests -> ReqStates] /\ RequestIsSound(r)'
        /\ \A q \in Requests \ {r} : req'[q] = req[q]
    BY AnswerMoves
  <1>2. QED BY <1>1, StepKeeps

-----------------------------------------------------------------------------
(* Membership: requests that read                                         *)

\* A request that has found its caller relies on nothing yet.
LEMMA ContextKeeps ==
    ASSUME MemberInv, NEW r \in Requests, NEW u \in Users, Context(r, u) PROVE MemberInv'
  <1> DEFINE y == [Idle EXCEPT !.at = "context", !.by = u, !.as = member[u].role]
  <1>1. /\ req' = [req EXCEPT ![r] = y] /\ req \in [Requests -> ReqStates]
        /\ UNCHANGED <<people, exists, member, invite, connected, observers>>
        /\ member[u].role \in Roles
    BY DEF Context, MemberInv, CanManageWorkspace, Roles
  <1>2. y \in ReqStates /\ y.at = "context"
    BY <1>1, MembershipAssumption DEF Idle, ReqStates, Steps, Roles
  <1> HIDE DEF y
  <1>3. /\ req'[r] = y /\ DOMAIN req' = Requests /\ req' = [q \in DOMAIN req' |-> req'[q]]
        /\ \A q \in Requests \ {r} : req'[q] = req[q]
    BY <1>1
  <1>4. RequestIsSound(r)'
    BY <1>2, <1>3, IdleRelies
  <1>5. QED BY <1>1, <1>2, <1>3, <1>4, RequestMoves

\* What a request finds is a member; it may go on if that is not the owner, and if
\* its own role allows what it asks for.
LEMMA FoundKeeps ==
    ASSUME MemberInv, NEW r \in Requests, NEW v \in Users, NEW wanted \in Offered \cup {"none"},
           NEW step \in {"patch", "remove", "access"}, Found(r, v, step, wanted),
           v # Owner, step = "patch" => wanted \in Offered,
           step # "access" => req[r].as = "OWNER" \/ member[v].role # "ADMIN"
    PROVE  MemberInv'
  <1>1. /\ req' = [req EXCEPT ![r].at = step, ![r].target = v, ![r].seen = member[v].role,
                              ![r].wanted = wanted]
        /\ req \in [Requests -> ReqStates] /\ v \in Members
        /\ UNCHANGED <<people, exists, member, invite, connected, observers>>
        /\ member[v].role \in Roles \cup {"none"} /\ step \in Steps
    BY DEF Found, MemberInv, RowsTypeOK, MemberStates, Steps
  <1>2. /\ req'[r].at = step /\ req'[r].target = v /\ req'[r].seen = member[v].role
        /\ req'[r].wanted = wanted /\ req'[r].as = req[r].as
    BY <1>1 DEF ReqStates
  <1>3. req'[r] \in ReqStates
    <2>1. req[r] \in ReqStates
      BY <1>1
    <2>2. req'[r] = [req[r] EXCEPT !.at = step, !.target = v, !.seen = member[v].role,
                                   !.wanted = wanted]
      BY <1>1
    <2>3. [req[r] EXCEPT !.at = step, !.target = v, !.seen = member[v].role, !.wanted = wanted]
             \in ReqStates
      BY <1>1, <2>1 DEF ReqStates
    <2> QED BY <2>2, <2>3
  <1>4. \A q \in Requests \ {r} : req'[q] = req[q]
    BY <1>1
  <1>5. DOMAIN req' = Requests /\ req' = [q \in DOMAIN req' |-> req'[q]]
    BY <1>1
  <1>6. Members' = Members
    BY <1>1 DEF Members
  <1>7. RequestIsSound(r)'
    BY <1>1, <1>2, <1>6 DEF RequestIsSound
  <1>8. QED BY <1>1, <1>3, <1>4, <1>5, <1>7, RequestMoves

\* The three requests about a member find one who is not the owner.
LEMMA FindKeeps ==
    ASSUME MemberInv, NEW r \in Requests, NEW v \in Users,
           \/ FindToRemove(r, v) \/ FindToScope(r, v)
           \/ \E wanted \in Offered : FindToPatch(r, v, wanted)
    PROVE  MemberInv'
  <1>1. ASSUME v \in Members, member[v].role # "OWNER" PROVE v # Owner
    BY <1>1 DEF MemberInv, RowsAreSound, OwnerStays, Members
  <1>2. CASE FindToRemove(r, v)
    <2>1. Found(r, v, "remove", "none") /\ v \in Members /\ member[v].role # "OWNER"
          /\ (req[r].as = "OWNER" \/ member[v].role # "ADMIN")
      BY <1>2 DEF FindToRemove, Found
    <2> QED BY <1>1, <2>1, FoundKeeps
  <1>3. CASE FindToScope(r, v)
    <2>1. Found(r, v, "access", "none") /\ v \in Members /\ member[v].role # "OWNER"
      BY <1>3 DEF FindToScope, Found, Managers
    <2> QED BY <1>1, <2>1, FoundKeeps
  <1>4. ASSUME NEW wanted \in Offered, FindToPatch(r, v, wanted) PROVE MemberInv'
    <2>1. Found(r, v, "patch", wanted) /\ v \in Members /\ member[v].role # "OWNER"
          /\ (req[r].as = "OWNER" \/ member[v].role # "ADMIN")
      BY <1>4 DEF FindToPatch, Found, MayPatch
    <2> QED BY <1>1, <2>1, FoundKeeps
  <1>5. QED BY <1>2, <1>3, <1>4

\* An invitation is of one of the roles offered.
LEMMA OpenInvitationKeeps ==
    ASSUME MemberInv, NEW r \in Requests, NEW u \in Users, OpenInvitation(r, u) PROVE MemberInv'
  <1>1. PICK step \in {"expired", "claim"} : step = IF invite[u].expired THEN "expired" ELSE "claim"
    OBVIOUS
  <1> DEFINE y == [Idle EXCEPT !.by = u, !.wanted = invite[u].role, !.at = step]
  <1>2. /\ req' = [req EXCEPT ![r] = y] /\ req \in [Requests -> ReqStates]
        /\ UNCHANGED <<people, exists, member, invite, connected, observers>>
    BY <1>1 DEF OpenInvitation, MemberInv
  <1>3. invite[u].role \in Offered
    BY DEF MemberInv, RowsTypeOK, InviteStates, Offered
  <1>4. y \in ReqStates /\ y.at = step /\ y.wanted \in Offered
    BY <1>3, MembershipAssumption DEF Idle, ReqStates, Steps, Roles
  <1> HIDE DEF y
  <1>5. /\ req'[r] = y /\ DOMAIN req' = Requests /\ req' = [q \in DOMAIN req' |-> req'[q]]
        /\ \A q \in Requests \ {r} : req'[q] = req[q]
    BY <1>2
  <1>6. RequestIsSound(r)'
    BY <1>4, <1>5 DEF RequestIsSound
  <1>7. QED BY <1>2, <1>4, <1>5, <1>6, RequestMoves

\* The owner goes on only when nobody else belongs to the workspace.
LEMMA BeginDeleteKeeps ==
    ASSUME MemberInv, NEW r \in Requests, NEW u \in Users, BeginDelete(r, u) PROVE MemberInv'
  <1> DEFINE y == [Idle EXCEPT !.at = "delete", !.by = u]
  <1>1. /\ req' = [req EXCEPT ![r] = y] /\ req \in [Requests -> ReqStates]
        /\ UNCHANGED <<people, exists, member, invite, connected, observers>>
        /\ u = Owner => Cardinality(Members) <= 1
    BY DEF BeginDelete, MemberInv
  <1>2. y \in ReqStates /\ y.at = "delete" /\ y.by = u
    BY MembershipAssumption DEF Idle, ReqStates, Steps, Roles
  <1> HIDE DEF y
  <1>3. /\ req'[r] = y /\ DOMAIN req' = Requests /\ req' = [q \in DOMAIN req' |-> req'[q]]
        /\ \A q \in Requests \ {r} : req'[q] = req[q]
    BY <1>1
  <1>4. ASSUME u = Owner PROVE Members \subseteq {Owner}
    <2> SUFFICES ASSUME NEW v \in Members, v # Owner PROVE FALSE
      OBVIOUS
    <2>1. Owner \in Members
      BY MembershipAssumption DEF MemberInv, RowsAreSound, OwnerStays, Members
    <2>2. IsFiniteSet(Members)
      BY MembershipAssumption, FS_Subset DEF Members
    <2>3. Cardinality({Owner, v}) = 2
      <3>1. IsFiniteSet({Owner}) /\ Cardinality({Owner}) = 1
        BY FS_Singleton
      <3>2. {Owner, v} = {Owner} \cup {v} /\ v \notin {Owner}
        OBVIOUS
      <3>3. Cardinality({Owner} \cup {v}) = Cardinality({Owner}) + 1
        BY <3>1, <3>2, FS_AddElement
      <3> QED BY <3>1, <3>2, <3>3
    <2>4. Cardinality({Owner, v}) <= Cardinality(Members)
      BY <2>1, <2>2, FS_Subset
    <2>5. Cardinality(Members) \in Nat
      BY <2>2, FS_CardinalityType
    <2> QED BY <1>1, <1>4, <2>3, <2>4, <2>5
  <1>5. Members' = Members
    BY <1>1 DEF Members
  <1>6. RequestIsSound(r)'
    BY <1>2, <1>3, <1>4, <1>5 DEF RequestIsSound
  <1>7. QED BY <1>1, <1>2, <1>3, <1>6, RequestMoves

-----------------------------------------------------------------------------
(* Membership: requests that write                                        *)

\* Invitations change, and nothing else.
LEMMA InvitesMove ==
    ASSUME MemberInv, UNCHANGED <<people, exists, member, connected, given, lost, joins>>,
           invite' \in [Users -> InviteStates], issued' \in [Users -> 0 .. MaxInvites],
           \A u \in Users : invite'[u].status = "PENDING" => exists,
           InvitationsLast'
    PROVE  RowsTypeOK' /\ RowsAreSound' /\ Members' = Members
  <1>1. RowsTypeOK'
    BY DEF MemberInv, RowsTypeOK
  <1>2. OwnerStays' /\ GrantsWereGiven' /\ NobodyIsLeftBehind'
    BY DEF MemberInv, RowsAreSound, OwnerStays, GrantsWereGiven, NobodyIsLeftBehind
  <1>3. Members' = Members
    BY DEF Members
  <1>4. QED BY <1>1, <1>2, <1>3 DEF RowsAreSound

\* Roles and access change, and nobody comes, goes or becomes the owner.
LEMMA MembersMove ==
    ASSUME MemberInv, UNCHANGED <<people, exists, invite, issued, joins, lost>>,
           member' \in [Users -> MemberStates], given' \in [Users -> SUBSET Accounts],
           connected' \subseteq Accounts,
           \A u \in Users : /\ member'[u].role = "none" <=> member[u].role = "none"
                            /\ u = Owner => member'[u].role = member[u].role
                            /\ member'[u].role = "OWNER" => u = Owner,
           GrantsWereGiven'
    PROVE  RowsTypeOK' /\ RowsAreSound' /\ Members' = Members
  <1>1. RowsTypeOK'
    BY DEF MemberInv, RowsTypeOK
  <1>2. OwnerStays'
    BY MembershipAssumption DEF MemberInv, RowsAreSound, OwnerStays
  <1>3. InvitationsLast' /\ NobodyIsLeftBehind'
    BY DEF MemberInv, RowsAreSound, InvitationsLast, NobodyIsLeftBehind
  <1>4. Members' = Members
    BY DEF Members
  <1>5. QED BY <1>1, <1>2, <1>3, <1>4 DEF RowsAreSound

\* Types of the invitations and what counts them.
LEMMA InviteFacts ==
    ASSUME MemberInv
    PROVE  /\ invite \in [Users -> InviteStates] /\ issued \in [Users -> 0 .. MaxInvites]
           /\ joins \in [Users -> Nat] /\ MaxInvites \in Nat
           /\ \A u \in Users : /\ issued[u] \in Nat /\ joins[u] \in Nat
                               /\ joins[u] <= issued[u]
                               /\ invite[u].status = "PENDING" => joins[u] < issued[u] /\ exists
  <1>1. /\ invite \in [Users -> InviteStates] /\ issued \in [Users -> 0 .. MaxInvites]
        /\ joins \in [Users -> Nat] /\ MaxInvites \in Nat
    BY MembershipAssumption DEF MemberInv, RowsTypeOK
  <1>2. \A u \in Users : issued[u] \in Nat /\ joins[u] \in Nat
    BY <1>1
  <1>3. QED BY <1>1, <1>2 DEF MemberInv, RowsAreSound, OwnerStays, InvitationsLast

\* A new invitation is one more that was issued.
LEMMA InviteKeeps ==
    ASSUME MemberInv, NEW r \in Requests, NEW v \in Users, NEW role \in Offered, Invite(r, v, role)
    PROVE  MemberInv'
  <1> DEFINE new == [status |-> "PENDING", role |-> role, expired |-> FALSE]
  <1>1. /\ exists /\ invite' = [invite EXCEPT ![v] = new]
        /\ issued' = [issued EXCEPT ![v] = issued[v] + 1] /\ Answer(r)
        /\ UNCHANGED <<people, exists, member, connected, given, lost, joins>>
        /\ SumOver(issued, Users) < MaxInvites
    BY DEF Invite, SumOver
  <1>2. new \in InviteStates /\ new.status = "PENDING"
    BY DEF InviteStates, Offered
  <1> HIDE DEF new
  <1>3. issued[v] + 1 \in 0 .. MaxInvites
    <2>1. issued \in [Users -> Nat] /\ IsFiniteSet(Users)
      BY InviteFacts, MembershipAssumption
    <2>2. issued[v] <= SumOver(issued, Users) /\ SumOver(issued, Users) \in Nat
      BY <2>1, SumBoundsEach, SumIsNat
    <2> QED BY <1>1, <2>1, <2>2, InviteFacts
  <1>4. /\ invite' \in [Users -> InviteStates] /\ issued' \in [Users -> 0 .. MaxInvites]
        /\ invite'[v] = new /\ issued'[v] = issued[v] + 1
        /\ \A u \in Users \ {v} : invite'[u] = invite[u] /\ issued'[u] = issued[u]
    BY <1>1, <1>2, <1>3, InviteFacts
  <1>5. \A u \in Users : invite'[u].status = "PENDING" => exists
    BY <1>1
  <1>6. InvitationsLast'
    <2> SUFFICES ASSUME NEW u \in Users
                 PROVE  /\ joins[u] <= issued'[u]
                        /\ invite'[u].status = "PENDING" => joins[u] < issued'[u]
      BY <1>1 DEF InvitationsLast
    <2>1. CASE u = v
      BY <1>4, <2>1, InviteFacts
    <2>2. CASE u # v
      BY <1>4, <2>2, InviteFacts
    <2> QED BY <2>1, <2>2
  <1>7. QED BY <1>1, <1>4, <1>5, <1>6, InvitesMove, AnswerKeeps

\* No invitation becomes one that can be used.
LEMMA StatusMoves ==
    ASSUME MemberInv, invite' \in [Users -> InviteStates],
           UNCHANGED <<people, exists, member, connected, observers>>,
           \A u \in Users : invite'[u].status = "PENDING" => invite[u].status = "PENDING"
    PROVE  RowsTypeOK' /\ RowsAreSound' /\ Members' = Members
  <1>1. issued' = issued /\ joins' = joins /\ given' = given /\ lost' = lost
    BY DEF observers
  <1>2. issued' \in [Users -> 0 .. MaxInvites]
    BY <1>1, InviteFacts
  <1>3. InvitationsLast' /\ \A u \in Users : invite'[u].status = "PENDING" => exists
    BY <1>1, InviteFacts DEF InvitationsLast
  <1>4. QED BY <1>1, <1>2, <1>3, InvitesMove

\* Revoked, or too late.
LEMMA CloseInvitationKeeps ==
    ASSUME MemberInv, NEW r \in Requests,
           (\E v \in Users : Revoke(r, v)) \/ MarkExpired(r)
    PROVE  MemberInv'
  <1>1. ASSUME NEW v \in Users, NEW status \in {"none", "EXPIRED", "REVOKED"}, Answer(r),
               invite' = [invite EXCEPT ![v].status = status],
               UNCHANGED <<people, exists, member, connected, observers>>
        PROVE  MemberInv'
    <2>1. invite \in [Users -> InviteStates] /\ invite[v] \in InviteStates
      BY InviteFacts
    <2>2. [invite[v] EXCEPT !.status = status] \in InviteStates
      BY <2>1 DEF InviteStates
    <2>3. invite' = [invite EXCEPT ![v] = [invite[v] EXCEPT !.status = status]]
      BY <1>1
    <2>4. /\ invite' \in [Users -> InviteStates] /\ invite'[v].status = status
          /\ \A u \in Users \ {v} : invite'[u] = invite[u]
      <3>1. [invite[v] EXCEPT !.status = status].status = status
        BY <2>1 DEF InviteStates
      <3> QED BY <2>1, <2>2, <2>3, <3>1
    <2>5. \A u \in Users : invite'[u].status = "PENDING" => invite[u].status = "PENDING"
      BY <2>4
    <2> QED BY <1>1, <2>4, <2>5, StatusMoves, AnswerKeeps
  <1>2. ASSUME NEW v \in Users, Revoke(r, v) PROVE MemberInv'
    BY <1>1, <1>2 DEF Revoke
  <1>3. CASE MarkExpired(r)
    <2>1. PICK v \in Users : v = req[r].by
      BY DEF MemberInv, ReqStates
    <2>2. PICK status \in {"none", "EXPIRED"} :
             status = IF invite[v].status = "none" THEN invite[v].status ELSE "EXPIRED"
      OBVIOUS
    <2>3. invite' = [invite EXCEPT ![v].status = status]
      BY <1>3, <2>1, <2>2 DEF MarkExpired
    <2> QED BY <1>1, <1>3, <2>3 DEF MarkExpired
  <1>4. QED BY <1>2, <1>3

\* Fourteen days change no status.
LEMMA ExpireKeeps ==
    ASSUME MemberInv, NEW v \in Users, Expire(v) PROVE MemberInv'
  <1>1. /\ invite' = [invite EXCEPT ![v] = [invite[v] EXCEPT !.expired = TRUE]]
        /\ UNCHANGED <<people, exists, member, connected, observers>> /\ req' = req
    BY DEF Expire
  <1>2. invite \in [Users -> InviteStates] /\ invite[v] \in InviteStates
    BY InviteFacts
  <1>3. /\ [invite[v] EXCEPT !.expired = TRUE] \in InviteStates
        /\ [invite[v] EXCEPT !.expired = TRUE].status = invite[v].status
    BY <1>2 DEF InviteStates
  <1>4. /\ invite' \in [Users -> InviteStates]
        /\ \A u \in Users : invite'[u].status = "PENDING" => invite[u].status = "PENDING"
    BY <1>1, <1>2, <1>3
  <1>5. req' \in [Requests -> ReqStates]
    BY <1>1 DEF MemberInv
  <1>6. QED BY <1>1, <1>4, <1>5, StatusMoves, StepKeeps

\* A member's role is written, by a request that did not find the owner.
LEMMA PatchKeeps ==
    ASSUME MemberInv, NEW r \in Requests, Patch(r) PROVE MemberInv'
  <1>1. /\ Answer(r) /\ req[r].at = "patch" /\ UNCHANGED <<people, exists, invite, connected>>
        /\ issued' = issued /\ joins' = joins /\ given' = given /\ lost' = lost
    BY DEF Patch, observers, At
  <1>2. connected' \subseteq Accounts /\ given' \in [Users -> SUBSET Accounts]
        /\ member \in [Users -> MemberStates]
    BY <1>1 DEF MemberInv, RowsTypeOK
  <1>3. CASE req[r].gone
    <2>1. member' = member
      BY <1>3 DEF Patch
    <2>2. GrantsWereGiven'
      BY <1>1, <2>1 DEF MemberInv, RowsAreSound, GrantsWereGiven
    <2>3. \A u \in Users : member[u].role = "OWNER" => u = Owner
      BY DEF MemberInv, RowsAreSound, OwnerStays
    <2> QED BY <1>1, <1>2, <2>1, <2>2, <2>3, MembersMove, AnswerKeeps
  <1>4. CASE ~req[r].gone
    <2> DEFINE v == req[r].target
               wanted == req[r].wanted
               was == req[r].seen = "ADMIN" /\ req[r].wanted # "ADMIN"
               y == [role |-> wanted, grants |-> member[v].grants,
                     restricted |-> member[v].restricted \/ was]
    <2>1. v \in Users /\ was \in BOOLEAN
      BY DEF MemberInv, ReqStates
    <2>2. wanted \in Offered
      BY <1>1 DEF MemberInv, RequestIsSound
    <2>3. v \in Members /\ v # Owner /\ member[v] \in MemberStates
      BY <1>1, <1>2, <1>4, <2>1 DEF MemberInv, RequestIsSound
    <2>4. member' = [member EXCEPT ![v] = y]
      BY <1>4 DEF Patch
    <2> HIDE DEF v, wanted, was
    <2>5. /\ y \in MemberStates /\ y.role = wanted /\ y.grants = member[v].grants
          /\ y.restricted = (member[v].restricted \/ was)
      BY <2>1, <2>2, <2>3 DEF MemberStates, Roles, Managers, Offered
    <2> HIDE DEF y
    <2>6. /\ member' \in [Users -> MemberStates] /\ member'[v] = y
          /\ \A u \in Users \ {v} : member'[u] = member[u]
      BY <1>2, <2>1, <2>4, <2>5
    <2>7. wanted # "none" /\ wanted # "OWNER"
      BY <2>2 DEF Offered
    <2>8. \A u \in Users : /\ member'[u].role = "none" <=> member[u].role = "none"
                           /\ u = Owner => member'[u].role = member[u].role
                           /\ member'[u].role = "OWNER" => u = Owner
      BY <2>3, <2>5, <2>6, <2>7 DEF Members, MemberInv, RowsAreSound, OwnerStays
    <2>9. GrantsWereGiven'
      <3> SUFFICES ASSUME NEW u \in Users
                   PROVE  /\ member'[u].grants \subseteq given[u]
                          /\ ~member'[u].restricted => given[u] = Accounts /\ member'[u].grants = {}
        BY <1>1 DEF GrantsWereGiven
      <3>1. /\ member[u].grants \subseteq given[u]
            /\ ~member[u].restricted => given[u] = Accounts /\ member[u].grants = {}
        BY DEF MemberInv, RowsAreSound, GrantsWereGiven
      <3>2. member'[u].grants = member[u].grants /\ (~member'[u].restricted => ~member[u].restricted)
        BY <2>3, <2>5, <2>6
      <3> QED BY <3>1, <3>2
    <2> QED BY <1>1, <1>2, <2>6, <2>8, <2>9, MembersMove, AnswerKeeps
  <1>5. QED BY <1>3, <1>4

\* What is selected is given with it.
LEMMA SetAccessKeeps ==
    ASSUME MemberInv, NEW r \in Requests, NEW unrestricted \in BOOLEAN,
           NEW selected \in SUBSET Accounts, SetAccess(r, unrestricted, selected)
    PROVE  MemberInv'
  <1>1. PICK v \in Users : v = req[r].target
    BY DEF MemberInv, ReqStates
  <1>2. PICK G \in SUBSET Accounts : G = IF unrestricted THEN {} ELSE selected
    OBVIOUS
  <1>3. PICK H \in SUBSET Accounts : H = IF unrestricted THEN Accounts ELSE given[v] \cup selected
    BY DEF MemberInv, RowsTypeOK
  <1>4. /\ Answer(r) /\ member' = [member EXCEPT ![v].restricted = ~unrestricted, ![v].grants = G]
        /\ given' = [given EXCEPT ![v] = H]
        /\ UNCHANGED <<people, exists, invite, issued, joins, lost>> /\ connected' = connected
    BY <1>1, <1>2, <1>3 DEF SetAccess
  <1>5. /\ member \in [Users -> MemberStates] /\ member[v] \in MemberStates
        /\ connected' \subseteq Accounts /\ given' \in [Users -> SUBSET Accounts]
        /\ given'[v] = H /\ \A u \in Users \ {v} : given'[u] = given[u]
    BY <1>4 DEF MemberInv, RowsTypeOK
  <1>6. /\ member' \in [Users -> MemberStates]
        /\ member'[v].role = member[v].role /\ member'[v].grants = G
        /\ member'[v].restricted = ~unrestricted
        /\ \A u \in Users \ {v} : member'[u] = member[u]
    BY <1>4, <1>5 DEF MemberStates
  <1>7. \A u \in Users : member'[u].role = member[u].role
    BY <1>6
  <1>8. \A u \in Users : member'[u].role = "OWNER" => u = Owner
    BY <1>7 DEF MemberInv, RowsAreSound, OwnerStays
  <1>9. GrantsWereGiven'
    <2> SUFFICES ASSUME NEW u \in Users
                 PROVE  /\ member'[u].grants \subseteq given'[u]
                        /\ ~member'[u].restricted => given'[u] = Accounts /\ member'[u].grants = {}
      BY DEF GrantsWereGiven
    <2>1. CASE u = v
      BY <1>2, <1>3, <1>5, <1>6, <2>1
    <2>2. CASE u # v
      BY <1>5, <1>6, <2>2 DEF MemberInv, RowsAreSound, GrantsWereGiven
    <2> QED BY <2>1, <2>2
  <1>10. QED BY <1>4, <1>5, <1>6, <1>7, <1>8, <1>9, MembersMove, AnswerKeeps

\* The request is told that its member is gone, or its invitation.
LEMMA FailureKeeps ==
    ASSUME MemberInv, NEW r \in Requests, SetAccessFails(r) \/ ClaimFails(r) PROVE MemberInv'
  <1>1. Answer(r) /\ UNCHANGED <<people, exists, member, invite, connected, observers>>
    BY DEF SetAccessFails, ClaimFails
  <1>2. invite' \in [Users -> InviteStates]
    BY <1>1, InviteFacts
  <1>3. QED BY <1>1, <1>2, StatusMoves, AnswerKeeps

\* Accounts come, or go with their grants.
LEMMA AccountsKeep ==
    ASSUME MemberInv, NEW a \in Accounts, Connect(a) \/ Disconnect(a) PROVE MemberInv'
  <1>1. /\ UNCHANGED <<people, exists, invite>> /\ req' = req
        /\ issued' = issued /\ joins' = joins /\ given' = given /\ lost' = lost
        /\ connected' \subseteq Accounts
    BY DEF Connect, Disconnect, observers, MemberInv, RowsTypeOK
  <1>2. member \in [Users -> MemberStates] /\ given' \in [Users -> SUBSET Accounts]
    BY <1>1 DEF MemberInv, RowsTypeOK
  <1>3. /\ member' \in [Users -> MemberStates]
        /\ \A u \in Users : /\ member'[u].role = member[u].role
                            /\ member'[u].restricted = member[u].restricted
                            /\ member'[u].grants \subseteq member[u].grants
    <2>1. CASE Connect(a)
      BY <1>2, <2>1 DEF Connect
    <2>2. CASE Disconnect(a)
      <3>1. \A u \in Users : member'[u] = [member[u] EXCEPT !.grants = member[u].grants \ {a}]
        BY <1>2, <2>2 DEF Disconnect
      <3>2. \A u \in Users : member[u] \in MemberStates
        BY <1>2
      <3>3. ASSUME NEW u \in Users
            PROVE  /\ member'[u] \in MemberStates
                   /\ member'[u].role = member[u].role
                   /\ member'[u].restricted = member[u].restricted
                   /\ member'[u].grants \subseteq member[u].grants
        <4>1. PICK x \in MemberStates : x = member[u]
          BY <3>2
        <4>2. [x EXCEPT !.grants = x.grants \ {a}] \in MemberStates
          BY DEF MemberStates
        <4>3. /\ [x EXCEPT !.grants = x.grants \ {a}].role = x.role
              /\ [x EXCEPT !.grants = x.grants \ {a}].restricted = x.restricted
              /\ [x EXCEPT !.grants = x.grants \ {a}].grants = x.grants \ {a}
          BY DEF MemberStates
        <4> QED BY <3>1, <4>1, <4>2, <4>3
      <3>4. member' \in [Users -> MemberStates]
        BY <2>2, <3>3 DEF Disconnect
      <3> QED BY <3>3, <3>4
    <2> QED BY <2>1, <2>2
  <1>4. \A u \in Users : member'[u].role = "OWNER" => u = Owner
    BY <1>3 DEF MemberInv, RowsAreSound, OwnerStays
  <1>5. GrantsWereGiven'
    <2> SUFFICES ASSUME NEW u \in Users
                 PROVE  /\ member'[u].grants \subseteq given[u]
                        /\ ~member'[u].restricted => given[u] = Accounts /\ member'[u].grants = {}
      BY <1>1 DEF GrantsWereGiven
    <2>1. /\ member[u].grants \subseteq given[u]
          /\ ~member[u].restricted => given[u] = Accounts /\ member[u].grants = {}
      BY DEF MemberInv, RowsAreSound, GrantsWereGiven
    <2> QED BY <1>3, <2>1
  <1>6. RowsTypeOK' /\ RowsAreSound' /\ Members' = Members
    BY <1>1, <1>2, <1>3, <1>4, <1>5, MembersMove
  <1>7. QED BY <1>1, <1>6, StepKeeps DEF MemberInv

-----------------------------------------------------------------------------
(* Membership: members who come and go                                    *)

\* The requests about the members who go are told; the others find theirs.
LEMMA ToldMoves ==
    ASSUME MemberInv, NEW r \in Requests, NEW T \in SUBSET Users,
           req' = [q \in Requests |-> req'[q]], req'[r] = Idle,
           \A q \in Requests \ {r} : \E b \in BOOLEAN :
               /\ b = (req[q].gone \/ req[q].target \in T)
               /\ req'[q] = [req[q] EXCEPT !.gone = b],
           Members \ T \subseteq Members', Members' \subseteq Members
    PROVE  req' \in [Requests -> ReqStates] /\ \A q \in Requests : RequestIsSound(q)'
  <1>1. Idle \in ReqStates /\ Idle.at = "idle"
    BY IdleIsSound, MembershipAssumption
  <1> HIDE DEF Idle
  <1>2. ASSUME NEW q \in Requests PROVE req'[q] \in ReqStates /\ RequestIsSound(q)'
    <2>1. CASE q = r
      BY <1>1, <2>1, IdleRelies
    <2>2. CASE q # r
      <3>1. PICK b \in BOOLEAN : /\ b = (req[q].gone \/ req[q].target \in T)
                                 /\ req'[q] = [req[q] EXCEPT !.gone = b]
        BY <2>2
      <3>2. PICK x \in ReqStates : x = req[q]
        BY DEF MemberInv
      <3>3. /\ [x EXCEPT !.gone = b] \in ReqStates
            /\ [x EXCEPT !.gone = b].gone = b
            /\ [x EXCEPT !.gone = b].at = x.at /\ [x EXCEPT !.gone = b].by = x.by
            /\ [x EXCEPT !.gone = b].as = x.as /\ [x EXCEPT !.gone = b].target = x.target
            /\ [x EXCEPT !.gone = b].seen = x.seen /\ [x EXCEPT !.gone = b].wanted = x.wanted
            /\ [x EXCEPT !.gone = b].joined = x.joined
        BY DEF ReqStates
      <3>4. RequestIsSound(q)
        BY DEF MemberInv
      <3>5. /\ req[q].gone => req'[q].gone
            /\ req[q].target \in Members => req[q].target \in Members' \/ req'[q].gone
        BY <3>1, <3>2, <3>3
      <3>6. RequestIsSound(q)'
        BY <3>1, <3>2, <3>3, <3>4, <3>5, RequestStays
      <3> QED BY <3>1, <3>2, <3>3, <3>6
    <2> QED BY <2>1, <2>2
  <1>3. QED BY <1>2

\* A member who is removed is not the owner, and takes what was given along.
LEMMA RemoveKeeps ==
    ASSUME MemberInv, NEW r \in Requests, Remove(r) PROVE MemberInv'
  <1>1. PICK v \in Users : v = req[r].target
    BY DEF MemberInv, ReqStates
  <1>2. /\ req[r].at = "remove" /\ UNCHANGED <<people, exists, invite>> /\ connected' = connected
        /\ issued' = issued /\ joins' = joins /\ lost' = lost
        /\ req' = [q \in Requests |-> IF q = r THEN Idle
                                      ELSE [req[q] EXCEPT !.gone = req[q].gone \/ req[q].target = v]]
    BY <1>1 DEF Remove, At
  <1>3. req' = [q \in Requests |-> req'[q]] /\ req'[r] = Idle
    BY <1>2
  <1>4. ASSUME NEW q \in Requests \ {r}
        PROVE  \E b \in BOOLEAN : /\ b = (req[q].gone \/ req[q].target \in {v})
                                  /\ req'[q] = [req[q] EXCEPT !.gone = b]
    <2>1. req[q].gone \in BOOLEAN
      BY DEF MemberInv, ReqStates
    <2>2. PICK b \in BOOLEAN : b = (req[q].gone \/ req[q].target = v)
      BY <2>1
    <2> QED BY <1>2, <2>2
  <1>5. /\ member \in [Users -> MemberStates] /\ given \in [Users -> SUBSET Accounts]
    BY DEF MemberInv, RowsTypeOK
  <1>6. CASE req[r].gone
    <2>1. member' = member /\ given' = given
      BY <1>6 DEF Remove
    <2>2. Members' = Members /\ RowsTypeOK' /\ RowsAreSound'
      BY <1>2, <2>1 DEF Members, MemberInv, RowsTypeOK, RowsAreSound, OwnerStays, InvitationsLast,
                        GrantsWereGiven, NobodyIsLeftBehind
    <2>3. {v} \in SUBSET Users /\ Members \ {v} \subseteq Members' /\ Members' \subseteq Members
      BY <2>2
    <2>4. req' \in [Requests -> ReqStates] /\ \A q \in Requests : RequestIsSound(q)'
      BY <1>3, <1>4, <2>3, ToldMoves, Zenon
    <2> QED BY <2>2, <2>4 DEF MemberInv
  <1>7. CASE ~req[r].gone
    <2>1. v # Owner
      BY <1>1, <1>2, <1>7 DEF MemberInv, RequestIsSound
    <2>2. member' = [member EXCEPT ![v] = NoMember] /\ given' = [given EXCEPT ![v] = {}]
      BY <1>1, <1>7 DEF Remove, WithoutMember
    <2>3. /\ NoMember \in MemberStates /\ NoMember.role = "none" /\ NoMember.grants = {}
          /\ NoMember.restricted
      BY DEF NoMember, MemberStates
    <2>4. /\ member' \in [Users -> MemberStates] /\ given' \in [Users -> SUBSET Accounts]
          /\ member'[v] = NoMember /\ given'[v] = {}
          /\ \A u \in Users \ {v} : member'[u] = member[u] /\ given'[u] = given[u]
      BY <1>5, <2>2, <2>3
    <2>5. RowsTypeOK'
      BY <1>2, <2>4 DEF MemberInv, RowsTypeOK
    <2>6. Members' = Members \ {v}
      BY <2>3, <2>4 DEF Members
    <2>7. OwnerStays'
      BY <1>2, <2>1, <2>3, <2>4, MembershipAssumption DEF MemberInv, RowsAreSound, OwnerStays
    <2>8. InvitationsLast' /\ NobodyIsLeftBehind'
      BY <1>2 DEF MemberInv, RowsAreSound, InvitationsLast, NobodyIsLeftBehind
    <2>9. GrantsWereGiven'
      <3> SUFFICES ASSUME NEW u \in Users
                   PROVE  /\ member'[u].grants \subseteq given'[u]
                          /\ ~member'[u].restricted => given'[u] = Accounts /\ member'[u].grants = {}
        BY DEF GrantsWereGiven
      <3>1. CASE u = v
        BY <2>3, <2>4, <3>1
      <3>2. CASE u # v
        BY <2>4, <3>2 DEF MemberInv, RowsAreSound, GrantsWereGiven
      <3> QED BY <3>1, <3>2
    <2>10. req' \in [Requests -> ReqStates] /\ \A q \in Requests : RequestIsSound(q)'
      <3>1. {v} \in SUBSET Users /\ Members \ {v} \subseteq Members' /\ Members' \subseteq Members
        BY <2>6
      <3> QED BY <1>3, <1>4, <3>1, ToldMoves, Zenon
    <2> QED BY <2>5, <2>7, <2>8, <2>9, <2>10 DEF MemberInv, RowsAreSound
  <1>8. QED BY <1>6, <1>7

\* Who joins does so by an invitation that is open, with the role it offered, and
\* is nobody a request that counts members has to miss.
LEMMA ClaimKeeps ==
    ASSUME MemberInv, NEW r \in Requests, Claim(r) PROVE MemberInv'
  <1>1. PICK u \in Users : u = req[r].by
    BY DEF MemberInv, ReqStates
  <1>2. /\ req[r].at = "claim" /\ invite[u].status = "PENDING"
        /\ invite' = [invite EXCEPT ![u] = [invite[u] EXCEPT !.status = "ACCEPTED"]]
        /\ joins' = [joins EXCEPT ![u] = joins[u] + 1]
        /\ Joined(u, req[r].wanted)
        /\ UNCHANGED <<people, exists, given, lost>> /\ connected' = connected /\ issued' = issued
        /\ req' = [q \in Requests |->
                     IF q = r THEN Idle
                     ELSE IF At(q, "delete") THEN [req[q] EXCEPT !.joined = req[q].joined \cup {u}]
                     ELSE req[q]]
    BY <1>1 DEF Claim, At
  <1>3. /\ member \in [Users -> MemberStates] /\ given \in [Users -> SUBSET Accounts]
        /\ req[r].wanted \in Offered /\ exists
    BY <1>2, InviteFacts DEF MemberInv, RowsTypeOK, RequestIsSound
  <1>4. /\ invite' \in [Users -> InviteStates] /\ joins' \in [Users -> Nat]
        /\ invite'[u].status = "ACCEPTED" /\ joins'[u] = joins[u] + 1
        /\ \A v \in Users \ {u} : invite'[v] = invite[v] /\ joins'[v] = joins[v]
    <2>1. PICK x \in InviteStates : x = invite[u]
      BY InviteFacts
    <2>2. /\ [x EXCEPT !.status = "ACCEPTED"] \in InviteStates
          /\ [x EXCEPT !.status = "ACCEPTED"].status = "ACCEPTED"
      BY DEF InviteStates
    <2> QED BY <1>2, <2>1, <2>2, InviteFacts
  <1>5. PICK y \in MemberStates :
            /\ member' = [member EXCEPT ![u] = y]
            /\ IF u \in Members THEN y = member[u]
               ELSE y.role = req[r].wanted /\ y.restricted /\ y.grants = {}
    <2>1. CASE u \in Members
      <3>1. member' = member /\ member[u] \in MemberStates
        BY <1>2, <1>3, <2>1 DEF Joined
      <3>2. member' = [member EXCEPT ![u] = member[u]]
        BY <1>3, <3>1
      <3> QED BY <2>1, <3>1, <3>2
    <2>2. CASE u \notin Members
      <3> DEFINE y == [NoMember EXCEPT !.role = req[r].wanted]
      <3>1. /\ y \in MemberStates /\ y.role = req[r].wanted /\ y.restricted /\ y.grants = {}
        BY <1>3 DEF NoMember, MemberStates, Roles, Managers, Offered
      <3>2. member' = [member EXCEPT ![u] = y]
        BY <1>2, <2>2 DEF Joined
      <3> HIDE DEF y
      <3> QED BY <2>2, <3>1, <3>2
    <2> QED BY <2>1, <2>2
  <1>6. /\ member' \in [Users -> MemberStates] /\ member'[u] = y
        /\ \A v \in Users \ {u} : member'[v] = member[v]
    BY <1>3, <1>5
  <1>7. RowsTypeOK'
    BY <1>2, <1>3, <1>4, <1>6 DEF MemberInv, RowsTypeOK
  <1>8. y.role # "none" /\ Members' = Members \cup {u}
    <2>1. y.role # "none"
      BY <1>3, <1>5 DEF Members, Offered
    <2> QED BY <1>6, <2>1 DEF Members
  <1>9. OwnerStays'
    <2>1. /\ exists <=> Owner \in people
          /\ member[Owner].role = "OWNER" /\ Owner \in Members
      BY <1>3, MembershipAssumption DEF MemberInv, RowsAreSound, OwnerStays, Members
    <2>2. member'[Owner] = member[Owner]
      BY <1>5, <1>6, <2>1, MembershipAssumption
    <2>3. \A v \in Users : member'[v].role = "OWNER" => v = Owner
      <3> SUFFICES ASSUME NEW v \in Users, member'[v].role = "OWNER" PROVE v = Owner
        OBVIOUS
      <3>1. member[v].role = "OWNER"
        BY <1>3, <1>5, <1>6 DEF Offered
      <3> QED BY <3>1 DEF MemberInv, RowsAreSound, OwnerStays
    <2> QED BY <1>2, <1>3, <2>1, <2>2, <2>3 DEF OwnerStays
  <1>10. InvitationsLast'
    <2> SUFFICES ASSUME NEW v \in Users
                 PROVE  /\ joins'[v] <= issued[v]
                        /\ invite'[v].status = "PENDING" => joins'[v] < issued[v]
      BY <1>2 DEF InvitationsLast
    <2>1. CASE v = u
      BY <1>2, <1>4, <2>1, InviteFacts
    <2>2. CASE v # u
      BY <1>4, <2>2, InviteFacts
    <2> QED BY <2>1, <2>2
  <1>11. GrantsWereGiven' /\ NobodyIsLeftBehind'
    <2>1. \A v \in Users : /\ member[v].grants \subseteq given[v]
                           /\ ~member[v].restricted => given[v] = Accounts /\ member[v].grants = {}
      BY DEF MemberInv, RowsAreSound, GrantsWereGiven
    <2>2. ASSUME NEW v \in Users
          PROVE  /\ member'[v].grants \subseteq given[v]
                 /\ ~member'[v].restricted => given[v] = Accounts /\ member'[v].grants = {}
      BY <1>5, <1>6, <2>1
    <2> QED BY <1>2, <2>2 DEF MemberInv, RowsAreSound, GrantsWereGiven, NobodyIsLeftBehind
  <1>12. ASSUME NEW q \in Requests PROVE req'[q] \in ReqStates /\ RequestIsSound(q)'
    <2>1. CASE q = r
      <3>1. Idle \in ReqStates /\ Idle.at = "idle" /\ req'[r] = Idle
        BY <1>2, IdleIsSound, MembershipAssumption
      <3> HIDE DEF Idle
      <3> QED BY <2>1, <3>1, IdleRelies
    <2>2. CASE q # r
      <3>1. RequestIsSound(q) /\ req[q] \in ReqStates
        BY DEF MemberInv
      <3>2. PICK x \in ReqStates : x = req[q]
        BY <3>1
      <3>3. PICK J \in SUBSET Users : J = x.joined \cup {u}
        BY DEF ReqStates
      <3>4. /\ [x EXCEPT !.joined = J] \in ReqStates
            /\ [x EXCEPT !.joined = J].joined = J
            /\ [x EXCEPT !.joined = J].at = x.at /\ [x EXCEPT !.joined = J].by = x.by
            /\ [x EXCEPT !.joined = J].as = x.as /\ [x EXCEPT !.joined = J].target = x.target
            /\ [x EXCEPT !.joined = J].seen = x.seen /\ [x EXCEPT !.joined = J].wanted = x.wanted
            /\ [x EXCEPT !.joined = J].gone = x.gone
        BY DEF ReqStates
      <3>5. CASE req[q].at = "delete"
        <4>1. req'[q] = [x EXCEPT !.joined = J]
          BY <1>2, <2>2, <3>2, <3>3, <3>5 DEF At
        <4>2. Members' \subseteq Members \cup req'[q].joined /\ req[q].joined \subseteq req'[q].joined
          BY <1>8, <3>2, <3>3, <3>4, <4>1
        <4>3. RequestIsSound(q)'
          BY <1>8, <3>1, <3>2, <3>4, <4>1, <4>2, RequestStays
        <4> QED BY <3>4, <4>1, <4>3
      <3>6. CASE req[q].at # "delete"
        <4>1. req'[q] = req[q]
          BY <1>2, <2>2, <3>6 DEF At
        <4>2. RequestIsSound(q)'
          BY <1>8, <3>1, <3>6, <4>1, RequestStays
        <4> QED BY <3>1, <4>1, <4>2
      <3> QED BY <3>5, <3>6
    <2> QED BY <2>1, <2>2
  <1>13. req' \in [Requests -> ReqStates]
    BY <1>2, <1>12
  <1>14. QED BY <1>7, <1>9, <1>10, <1>11, <1>12, <1>13 DEF MemberInv, RowsAreSound

\* Who goes takes their membership along, and the owner the workspace: nobody
\* else was left in it but those who joined since the members were counted.
LEMMA DeleteKeeps ==
    ASSUME MemberInv, NEW r \in Requests, Delete(r) PROVE MemberInv'
  <1>1. PICK u \in Users : u = req[r].by
    BY DEF MemberInv, ReqStates
  <1>2. PICK T \in SUBSET Users : T = IF u = Owner THEN Users ELSE {u}
    OBVIOUS
  <1>3. /\ req[r].at = "delete" /\ people' = people \ {u} /\ exists' = (exists /\ u # Owner)
        /\ member' = [v \in Users |-> IF v \in T THEN NoMember ELSE member[v]]
        /\ given' = [v \in Users |-> IF v \in T THEN {} ELSE given[v]]
        /\ invite' = [v \in Users |-> IF u = Owner THEN NoInvite ELSE invite[v]]
        /\ connected' = IF u = Owner THEN {} ELSE connected
        /\ lost' = IF u = Owner THEN lost \cup (Members \ (req[r].joined \cup {Owner})) ELSE lost
        /\ req' = [q \in Requests |-> IF q = r THEN Idle
                                      ELSE [req[q] EXCEPT !.gone = req[q].gone \/ req[q].target \in T]]
        /\ issued' = issued /\ joins' = joins
    BY <1>1, <1>2 DEF Delete, At
  <1>4. /\ NoMember \in MemberStates /\ NoMember.role = "none" /\ NoMember.grants = {}
        /\ NoMember.restricted
    BY DEF NoMember, MemberStates
  <1>5. NoInvite \in InviteStates /\ NoInvite.status = "none"
    BY DEF NoInvite, InviteStates
  <1> HIDE DEF NoMember, NoInvite
  <1>6. /\ member \in [Users -> MemberStates] /\ given \in [Users -> SUBSET Accounts]
        /\ people \subseteq Users /\ connected \subseteq Accounts
    BY DEF MemberInv, RowsTypeOK
  <1>7. RowsTypeOK'
    <2>1. people' \subseteq Users /\ exists' \in BOOLEAN /\ connected' \subseteq Accounts
      BY <1>3, <1>6
    <2>2. member' \in [Users -> MemberStates] /\ given' \in [Users -> SUBSET Accounts]
      BY <1>3, <1>4, <1>6
    <2>3. invite' \in [Users -> InviteStates]
      BY <1>3, <1>5, InviteFacts
    <2>4. issued' \in [Users -> 0 .. MaxInvites] /\ joins' \in [Users -> Nat]
      BY <1>3, InviteFacts
    <2> QED BY <2>1, <2>2, <2>3, <2>4 DEF RowsTypeOK
  <1>8. \A v \in Users : /\ v \in T => member'[v] = NoMember /\ given'[v] = {}
                         /\ v \notin T => member'[v] = member[v] /\ given'[v] = given[v]
    BY <1>3
  <1>9. Members' = Members \ T
    BY <1>4, <1>8 DEF Members
  <1>10. OwnerStays'
    <2>1. CASE u = Owner
      <3>1. ~exists' /\ Owner \notin people'
        BY <1>3, <2>1
      <3>2. \A v \in Users : member'[v].role = "none" /\ invite'[v].status = "none"
        BY <1>2, <1>3, <1>4, <1>5, <1>8, <2>1
      <3> QED BY <3>1, <3>2 DEF OwnerStays
    <2>2. CASE u # Owner
      <3>1. /\ (Owner \in people' <=> Owner \in people) /\ Owner \notin T
            /\ \A v \in Users : invite'[v] = invite[v]
        BY <1>2, <1>3, <2>2
      <3>2. exists' <=> exists
        BY <1>3, <2>2
      <3> QED BY <1>4, <1>8, <3>1, <3>2, MembershipAssumption
              DEF MemberInv, RowsAreSound, OwnerStays
    <2> QED BY <2>1, <2>2
  <1>11. InvitationsLast'
    <2> SUFFICES ASSUME NEW v \in Users
                 PROVE  /\ joins[v] <= issued[v]
                        /\ invite'[v].status = "PENDING" => joins[v] < issued[v]
      BY <1>3 DEF InvitationsLast
    <2>1. invite'[v].status = "PENDING" => invite[v].status = "PENDING"
      BY <1>3, <1>5
    <2> QED BY <2>1, InviteFacts
  <1>12. GrantsWereGiven'
    <2> SUFFICES ASSUME NEW v \in Users
                 PROVE  /\ member'[v].grants \subseteq given'[v]
                        /\ ~member'[v].restricted => given'[v] = Accounts /\ member'[v].grants = {}
      BY DEF GrantsWereGiven
    <2>1. CASE v \in T
      BY <1>4, <1>8, <2>1
    <2>2. CASE v \notin T
      BY <1>8, <2>2 DEF MemberInv, RowsAreSound, GrantsWereGiven
    <2> QED BY <2>1, <2>2
  <1>13. NobodyIsLeftBehind'
    <2>1. lost = {}
      BY DEF MemberInv, RowsAreSound, NobodyIsLeftBehind
    <2>2. u = Owner => Members \subseteq req[r].joined \cup {Owner}
      BY <1>1, <1>3 DEF MemberInv, RequestIsSound
    <2> QED BY <1>3, <2>1, <2>2 DEF NobodyIsLeftBehind
  <1>14. req' = [q \in Requests |-> req'[q]] /\ req'[r] = Idle
    BY <1>3
  <1>15. ASSUME NEW q \in Requests \ {r}
         PROVE  \E b \in BOOLEAN : /\ b = (req[q].gone \/ req[q].target \in T)
                                   /\ req'[q] = [req[q] EXCEPT !.gone = b]
    <2>1. req[q].gone \in BOOLEAN
      BY DEF MemberInv, ReqStates
    <2>2. PICK b \in BOOLEAN : b = (req[q].gone \/ req[q].target \in T)
      BY <2>1
    <2> QED BY <1>3, <2>2
  <1>16. req' \in [Requests -> ReqStates] /\ \A q \in Requests : RequestIsSound(q)'
    BY <1>9, <1>14, <1>15, ToldMoves, Zenon
  <1>17. QED BY <1>7, <1>10, <1>11, <1>12, <1>13, <1>16 DEF MemberInv, RowsAreSound

-----------------------------------------------------------------------------
(* Membership: the theorem                                                *)

\* In the beginning the owner is alone and nobody has asked for anything.
LEMMA MemberInvInit == Init => MemberInv
  <1> SUFFICES ASSUME Init PROVE MemberInv
    OBVIOUS
  <1>1. /\ NoMember \in MemberStates /\ NoMember.role = "none" /\ NoMember.grants = {}
        /\ NoMember.restricted
    BY DEF NoMember, MemberStates
  <1>2. PICK o \in MemberStates : /\ o = [NoMember EXCEPT !.role = "OWNER"]
                                  /\ o.role = "OWNER" /\ o.grants = {} /\ o.restricted
    <2> DEFINE x == [NoMember EXCEPT !.role = "OWNER"]
    <2>1. x \in MemberStates /\ x.role = "OWNER" /\ x.grants = {} /\ x.restricted
      BY DEF NoMember, MemberStates, Roles, Managers
    <2> QED BY <2>1
  <1>3. NoInvite \in InviteStates /\ NoInvite.status = "none"
    BY DEF NoInvite, InviteStates
  <1>4. Idle \in ReqStates /\ Idle.at = "idle"
    BY IdleIsSound, MembershipAssumption
  <1>5. /\ people = Users /\ exists = TRUE /\ connected = Accounts
        /\ member = [u \in Users |-> IF u = Owner THEN o ELSE NoMember]
        /\ invite = [u \in Users |-> NoInvite] /\ req = [r \in Requests |-> Idle]
        /\ issued = [u \in Users |-> 0] /\ joins = [u \in Users |-> 0]
        /\ given = [u \in Users |-> {}] /\ lost = {}
    BY <1>2 DEF Init
  <1> HIDE DEF NoMember, NoInvite, Idle
  <1>6. RowsTypeOK
    BY <1>1, <1>2, <1>3, <1>5, MembershipAssumption DEF RowsTypeOK
  <1>7. OwnerStays
    BY <1>1, <1>2, <1>3, <1>5, MembershipAssumption DEF OwnerStays
  <1>8. InvitationsLast
    BY <1>3, <1>5 DEF InvitationsLast
  <1>9. GrantsWereGiven /\ NobodyIsLeftBehind
    BY <1>1, <1>2, <1>5 DEF GrantsWereGiven, NobodyIsLeftBehind
  <1>10. req \in [Requests -> ReqStates] /\ \A r \in Requests : RequestIsSound(r)
    BY <1>4, <1>5 DEF RequestIsSound
  <1>11. QED BY <1>6, <1>7, <1>8, <1>9, <1>10 DEF MemberInv, RowsAreSound

\* A step that changes nothing.
LEMMA StutterKeeps == ASSUME MemberInv, UNCHANGED vars PROVE MemberInv'
  <1>1. /\ people' = people /\ exists' = exists /\ member' = member /\ invite' = invite
        /\ connected' = connected /\ issued' = issued /\ joins' = joins /\ given' = given
        /\ lost' = lost /\ req' = req
    BY DEF vars, observers
  <1>2. RowsTypeOK' /\ RowsAreSound' /\ Members' = Members
    BY <1>1 DEF MemberInv, RowsTypeOK, RowsAreSound, OwnerStays, InvitationsLast,
                GrantsWereGiven, NobodyIsLeftBehind, Members
  <1>3. req' \in [Requests -> ReqStates]
    BY <1>1 DEF MemberInv
  <1>4. QED BY <1>1, <1>2, <1>3, StepKeeps

\* Every step keeps the invariant, between any two steps of any other requests.
LEMMA MemberInvStep == ASSUME MemberInv, [Next]_vars PROVE MemberInv'
  <1>1. ASSUME NEW r \in Requests, Manage(r) PROVE MemberInv'
    <2>1. ASSUME NEW u \in Users, Context(r, u) \/ Revoke(r, u) PROVE MemberInv'
      BY <2>1, ContextKeeps, CloseInvitationKeeps
    <2>2. ASSUME NEW u \in Users, FindToRemove(r, u) \/ FindToScope(r, u) PROVE MemberInv'
      BY <2>2, FindKeeps
    <2>3. ASSUME NEW v \in Users, NEW role \in Offered, Invite(r, v, role) \/ FindToPatch(r, v, role)
          PROVE  MemberInv'
      BY <2>3, InviteKeeps, FindKeeps
    <2>4. CASE Patch(r) \/ Remove(r) \/ SetAccessFails(r)
      BY <2>4, PatchKeeps, RemoveKeeps, FailureKeeps
    <2>5. ASSUME NEW selected \in SUBSET Accounts, SetAccess(r, FALSE, selected) PROVE MemberInv'
      BY <2>5, SetAccessKeeps
    <2>6. CASE SetAccess(r, TRUE, {})
      BY <2>6, SetAccessKeeps
    <2> QED BY <1>1, <2>1, <2>2, <2>3, <2>4, <2>5, <2>6 DEF Manage
  <1>2. ASSUME NEW r \in Requests, Accept(r) PROVE MemberInv'
    BY <1>2, OpenInvitationKeeps, CloseInvitationKeeps, ClaimKeeps, FailureKeeps DEF Accept
  <1>3. ASSUME NEW r \in Requests, Leave(r) PROVE MemberInv'
    BY <1>3, BeginDeleteKeeps, DeleteKeeps DEF Leave
  <1>4. ASSUME NEW a \in Accounts, Connect(a) \/ Disconnect(a) PROVE MemberInv'
    BY <1>4, AccountsKeep
  <1>5. ASSUME NEW u \in Users, Expire(u) PROVE MemberInv'
    BY <1>5, ExpireKeeps
  <1>6. QED BY <1>1, <1>2, <1>3, <1>4, <1>5, StutterKeeps DEF Next

\* The invariant says what is promised of every state.
LEMMA MemberInvSays ==
    ASSUME MemberInv
    PROVE  TypeOK /\ OneOwner /\ InvitationsAreUsedOnce /\ AccessWasGiven /\ NobodyIsLeftBehind
  <1>1. NobodyIsLeftBehind
    BY DEF MemberInv, RowsAreSound
  <1>2. TypeOK
    BY <1>1 DEF MemberInv, RowsTypeOK, TypeOK, MemberStates, InviteStates, ReqStates,
                NobodyIsLeftBehind
  <1>3. OneOwner
    BY MembershipAssumption DEF MemberInv, RowsAreSound, OwnerStays, OneOwner
  <1>4. InvitationsAreUsedOnce
    BY InviteFacts DEF InvitationsAreUsedOnce
  <1>5. AccessWasGiven
    <2> SUFFICES ASSUME NEW u \in Users, member[u].role = "MEMBER"
                 PROVE  Scope(member[u], connected) \subseteq given[u]
      BY DEF AccessWasGiven
    <2>1. /\ member[u].grants \subseteq given[u] /\ connected \subseteq Accounts
          /\ ~member[u].restricted => given[u] = Accounts /\ member[u].grants = {}
      BY DEF MemberInv, RowsTypeOK, RowsAreSound, GrantsWereGiven
    <2> QED BY <2>1 DEF Scope, CanManageWorkspace, Managers
  <1>6. QED BY <1>1, <1>2, <1>3, <1>4, <1>5

\* Who was an admin stays one, but for two requests and the deletions.
LEMMA RolesMove ==
    ASSUME MemberInv, [Next]_vars, NEW u \in Users,
           member[u].role = "ADMIN", member'[u].role # "ADMIN"
    PROVE  \E r \in Requests : \/ (Patch(r) \/ Remove(r)) /\ ~req[r].gone /\ req[r].target = u
                               \/ Delete(r) /\ (u = req[r].by \/ req[r].by = Owner)
  <1>1. member' # member /\ member \in [Users -> MemberStates]
    BY DEF MemberInv, RowsTypeOK
  <1>2. ASSUME NEW r \in Requests, Manage(r)
        PROVE  (Patch(r) \/ Remove(r)) /\ ~req[r].gone /\ req[r].target = u
    <2>1. ASSUME NEW unrestricted, NEW selected, SetAccess(r, unrestricted, selected) PROVE FALSE
      <3>1. PICK v \in Users : v = req[r].target
        BY DEF MemberInv, ReqStates
      <3>2. PICK G : member' = [member EXCEPT ![v].restricted = ~unrestricted, ![v].grants = G]
        BY <2>1, <3>1 DEF SetAccess
      <3>3. member'[u].role = member[u].role
        BY <1>1, <3>2 DEF MemberStates
      <3> QED BY <3>3
    <2>2. Patch(r) \/ Remove(r)
      BY <1>1, <1>2, <2>1
      DEF Manage, Context, Revoke, FindToRemove, FindToScope, FindToPatch, Found, Invite,
          SetAccessFails
    <2>3. ~req[r].gone
      BY <1>1, <2>2 DEF Patch, Remove
    <2>4. req[r].target = u
      <3>1. CASE Patch(r)
        BY <1>1, <2>3, <3>1 DEF Patch
      <3>2. CASE Remove(r)
        BY <1>1, <2>3, <3>2 DEF Remove, WithoutMember
      <3> QED BY <2>2, <3>1, <3>2
    <2> QED BY <2>2, <2>3, <2>4
  <1>3. ASSUME NEW r \in Requests, Accept(r) PROVE FALSE
    <2>1. Claim(r)
      BY <1>1, <1>3 DEF Accept, OpenInvitation, MarkExpired, ClaimFails
    <2>2. PICK v \in Users : v = req[r].by
      BY DEF MemberInv, ReqStates
    <2>3. CASE v \in Members
      BY <1>1, <2>1, <2>2, <2>3 DEF Claim, Joined
    <2>4. CASE v \notin Members
      <3>1. member' = [member EXCEPT ![v] = [NoMember EXCEPT !.role = req[r].wanted]]
        BY <2>1, <2>2, <2>4 DEF Claim, Joined
      <3>2. u # v
        BY <2>4 DEF Members
      <3> QED BY <1>1, <3>1, <3>2
    <2> QED BY <2>3, <2>4
  <1>4. ASSUME NEW r \in Requests, Leave(r)
        PROVE  Delete(r) /\ (u = req[r].by \/ req[r].by = Owner)
    <2>1. Delete(r)
      BY <1>1, <1>4 DEF Leave, BeginDelete
    <2>2. u = req[r].by \/ req[r].by = Owner
      BY <1>1, <2>1 DEF Delete
    <2> QED BY <2>1, <2>2
  <1>5. ASSUME NEW a \in Accounts, Connect(a) \/ Disconnect(a) PROVE FALSE
    <2>1. Disconnect(a)
      BY <1>1, <1>5 DEF Connect
    <2>2. member'[u] = [member[u] EXCEPT !.grants = member[u].grants \ {a}] /\ member[u] \in MemberStates
      BY <1>1, <2>1 DEF Disconnect
    <2>3. member'[u].role = member[u].role
      BY <2>2 DEF MemberStates
    <2> QED BY <2>3
  <1>6. ASSUME NEW v \in Users, Expire(v) PROVE FALSE
    BY <1>1, <1>6 DEF Expire
  <1>7. CASE UNCHANGED vars
    BY <1>1, <1>7 DEF vars
  <1>8. QED BY <1>2, <1>3, <1>4, <1>5, <1>6, <1>7 DEF Next

\* Only the owner, or a request that found no admin, makes one less.
LEMMA AdminsStay ==
    ASSUME MemberInv, [Next]_vars, NEW u \in Users,
           member[u].role = "ADMIN", member'[u].role # "ADMIN"
    PROVE  \/ u \notin people' \/ ~exists'
           \/ \E r \in Requests : /\ req[r].at \in {"patch", "remove"} /\ req[r].target = u
                                  /\ req'[r] = Idle
                                  /\ req[r].as = "OWNER" \/ req[r].seen # "ADMIN"
  <1>1. PICK r \in Requests : \/ (Patch(r) \/ Remove(r)) /\ ~req[r].gone /\ req[r].target = u
                              \/ Delete(r) /\ (u = req[r].by \/ req[r].by = Owner)
    BY RolesMove
  <1>2. CASE (Patch(r) \/ Remove(r)) /\ ~req[r].gone /\ req[r].target = u
    <2>1. req[r].at \in {"patch", "remove"}
      BY <1>2 DEF Patch, Remove, At
    <2>2. req'[r] = Idle
      <3> req \in [Requests -> ReqStates]
        BY DEF MemberInv
      <3> QED BY <1>2 DEF Patch, Remove, Answer
    <2>3. req[r].as = "OWNER" \/ req[r].seen # "ADMIN"
      BY <2>1 DEF MemberInv, RequestIsSound
    <2> QED BY <1>2, <2>1, <2>2, <2>3
  <1>3. CASE Delete(r) /\ (u = req[r].by \/ req[r].by = Owner)
    BY <1>3 DEF Delete
  <1>4. QED BY <1>1, <1>2, <1>3

\* An account is lost by a disconnection or with the workspace.
LEMMA AccountsMove ==
    ASSUME MemberInv, [Next]_vars, NEW a \in Accounts, a \in connected, exists',
           connected' = connected \ {a}
    PROVE  Disconnect(a)
  <1>1. connected' # connected
    OBVIOUS
  <1>2. ASSUME NEW r \in Requests, Manage(r) \/ Accept(r) PROVE FALSE
    BY <1>1, <1>2
    DEF Manage, Context, Revoke, FindToRemove, FindToScope, FindToPatch, Found, Invite, Patch,
        Remove, SetAccessFails, SetAccess, Accept, OpenInvitation, MarkExpired, Claim, ClaimFails
  <1>3. ASSUME NEW r \in Requests, Leave(r) PROVE FALSE
    BY <1>1, <1>3 DEF Leave, BeginDelete, Delete
  <1>4. ASSUME NEW b \in Accounts, Connect(b) \/ Disconnect(b) PROVE Disconnect(a)
    <2>1. CASE Connect(b)
      BY <2>1 DEF Connect
    <2>2. CASE Disconnect(b)
      <3>1. b = a
        BY <2>2 DEF Disconnect
      <3> QED BY <2>2, <3>1
    <2> QED BY <1>4, <2>1, <2>2
  <1>5. ASSUME NEW v \in Users, Expire(v) PROVE FALSE
    BY <1>1, <1>5 DEF Expire
  <1>6. CASE UNCHANGED vars
    BY <1>1, <1>6 DEF vars
  <1>7. QED BY <1>2, <1>3, <1>4, <1>5, <1>6 DEF Next

\* Who is not restricted has no grants to lose, so nobody becomes unrestricted by
\* losing their last.
LEMMA ScopesShrink ==
    ASSUME MemberInv, NEW a \in Accounts, Disconnect(a), NEW u \in Users
    PROVE  Scope(member'[u], connected') \subseteq Scope(member[u], connected)
  <1>1. PICK x \in MemberStates : x = member[u]
    BY DEF MemberInv, RowsTypeOK
  <1>2. connected' = connected \ {a} /\ member'[u] = [x EXCEPT !.grants = x.grants \ {a}]
    BY <1>1 DEF Disconnect
  <1>3. /\ [x EXCEPT !.grants = x.grants \ {a}].role = x.role
        /\ [x EXCEPT !.grants = x.grants \ {a}].restricted = x.restricted
        /\ [x EXCEPT !.grants = x.grants \ {a}].grants = x.grants \ {a}
    BY DEF MemberStates
  <1>4. ~x.restricted => x.grants = {}
    BY <1>1 DEF MemberInv, RowsAreSound, GrantsWereGiven
  <1>5. QED BY <1>1, <1>2, <1>3, <1>4 DEF Scope, CanManageWorkspace

\* The invariant holds in every state.
LEMMA MemberInvHolds == Spec => []MemberInv
  <1>1. QED BY MemberInvInit, MemberInvStep, PTL DEF Spec

\* One owner, an invitation used once, access as it was given, nobody's workspace
\* deleted with somebody else's account; no admin demoted but by the owner or by
\* a request that found no admin; and no member who sees more of the accounts for
\* one of them being disconnected: for any number of people, accounts, invitations
\* and requests between whose reads and writes the others run.
THEOREM MembershipHolds == Spec => MembershipIsSound
  <1>1. MemberInv => TypeOK /\ OneOwner /\ InvitationsAreUsedOnce /\ AccessWasGiven
                     /\ NobodyIsLeftBehind
    BY MemberInvSays
  <1>2. ASSUME MemberInv, [Next]_vars
        PROVE  \A u \in Users : member[u].role = "ADMIN" /\ member'[u].role # "ADMIN" =>
                  \/ u \notin people' \/ ~exists'
                  \/ \E r \in Requests : /\ req[r].at \in {"patch", "remove"} /\ req[r].target = u
                                         /\ req'[r] = Idle
                                         /\ req[r].as = "OWNER" \/ req[r].seen # "ADMIN"
    BY <1>2, AdminsStay
  <1>3. ASSUME MemberInv, [Next]_vars
        PROVE  \A a \in Accounts : a \in connected /\ exists' /\ connected' = connected \ {a} =>
                  \A u \in Users : Scope(member'[u], connected') \subseteq Scope(member[u], connected)
    BY <1>3, AccountsMove, ScopesShrink
  <1>4. QED
    BY <1>1, <1>2, <1>3, MemberInvHolds, PTL
    DEF Spec, MembershipIsSound, AdminsArePeers, DisconnectNeverWidens

-----------------------------------------------------------------------------
(* AccountLife: the invariant                                              *)

\* A request is about a user, or about a session somebody created; the caller of
\* createMobileSession has its session to itself, and meta rows that a sign-out has
\* deleted stay away.
RequestsHaveSubjects ==
    /\ \A j \in Jobs :
          /\ job[j].at \in {"attach", "listed", "recorded"} => job[j].row \in Rows
          /\ job[j].at = "attach" => job[j].phone \in Phones
          /\ job[j].at \in {"meta", "found", "unmeta", "bearer"} =>
                job[j].session \in Sessions /\ session[job[j].session].at # "unused"
          /\ job[j].at = "unmeta" => ~session[job[j].session].meta
    /\ \A j, k \in Jobs : /\ job[j].at = "meta" /\ job[k].at \in {"meta", "found", "unmeta"}
                          /\ job[j].session = job[k].session
                          => j = k

\* A phone is one user's, of those that are there.
PhonesAreUnique ==
    /\ \A u \in Rows : row[u].phone # NoPhone => row[u].alive
    /\ \A u, v \in Rows : row[u].phone # NoPhone /\ row[u].phone = row[v].phone => u = v

\* What went out under a phone is in the count of the user who has it, or in the claim
\* on it, but for what slipped past a deletion.
SpendingIsClaimed ==
    /\ \A p \in Phones : (\A u \in Rows : row[u].phone # p) => spent[p] <= claim[p] + slipped[p]
    /\ \A u \in Rows : row[u].phone # NoPhone =>
          spent[row[u].phone] <= row[u].used + slipped[row[u].phone]

\* A deletion that has read the usage will claim what went out before it did.
DeletionsClaim ==
    \A j \in Jobs : JobAt(j, "recorded") /\ row[job[j].row].phone # NoPhone =>
        LET p == row[job[j].row].phone IN
        \/ spent[p] <= claim[p] + slipped[p]
        \/ job[j].phone = p /\ spent[p] <= job[j].used + slipped[p]

LifeInv ==
    /\ LifeTypeOK /\ RequestsHaveSubjects /\ PhonesAreUnique /\ SpendingIsClaimed
    /\ DeletionsClaim /\ NoDeviceIsRemembered


UserRows    == [alive : BOOLEAN, phone : Phones \cup {NoPhone}, used : 0 .. FreeLimit]
SessionRows == [at : {"unused", "live", "gone"}, row : Rows \cup {"none"}, meta : BOOLEAN,
                expiry : {"far", "near", "over"}]
LifeJobs    == [at : {"idle", "meta", "attach", "listed", "recorded", "found", "unmeta", "bearer"},
                row : Rows \cup {"none"}, session : Sessions \cup {"none"},
                phone : Phones \cup {NoPhone}, listed : SUBSET Sessions, used : 0 .. FreeLimit]

-----------------------------------------------------------------------------
(* AccountLife: the proof                                                  *)

\* The larger of two numbers.
LEMMA MaxOfTwo ==
    ASSUME NEW a \in Nat, NEW b \in Nat
    PROVE  Max({a, b}) \in {a, b} /\ Max({a, b}) >= a /\ Max({a, b}) >= b
  <1>1. \E x \in {a, b} : \A y \in {a, b} : x >= y
    <2>1. CASE a >= b
      BY <2>1
    <2>2. CASE ~(a >= b)
      BY <2>2
    <2> QED BY <2>1, <2>2
  <1> QED BY <1>1 DEF Max

\* The types, for the provers.
LEMMA LifeTypes ==
    ASSUME LifeTypeOK
    PROVE  /\ row \in [Rows -> UserRows] /\ session \in [Sessions -> SessionRows]
           /\ job \in [Jobs -> LifeJobs] /\ NoJob \in LifeJobs
           /\ claim \in [Identities -> 0 .. FreeLimit]
           /\ FreeLimit \in Nat /\ NoPhone \notin Phones
           /\ \A u \in Rows : MailboxOfRow[u] \in Identities /\ row[u].used \in Nat
           /\ \A p \in Phones : /\ p \in Identities /\ claim[p] \in Nat
                                /\ spent[p] \in Nat /\ slipped[p] \in Nat
           /\ \A j \in Jobs : job[j].used \in Nat
  <1> USE AccountLifeAssumption
  <1>1. /\ row \in [Rows -> UserRows] /\ session \in [Sessions -> SessionRows]
        /\ job \in [Jobs -> LifeJobs] /\ claim \in [Identities -> 0 .. FreeLimit]
    BY DEF LifeTypeOK, UserRows, SessionRows, LifeJobs
  <1>2. NoJob \in LifeJobs
    <2>1. 0 \in 0 .. FreeLimit
      OBVIOUS
    <2> QED BY <2>1 DEF NoJob, LifeJobs
  <1>3. \A u \in Rows : MailboxOfRow[u] \in Identities /\ row[u].used \in Nat
    BY <1>1 DEF Identities, Mailboxes, UserRows
  <1>4. \A p \in Phones : p \in Identities /\ claim[p] \in Nat /\ spent[p] \in Nat /\ slipped[p] \in Nat
    BY <1>1 DEF Identities, LifeTypeOK
  <1>5. \A j \in Jobs : job[j].used \in Nat
    BY <1>1 DEF LifeJobs
  <1> QED BY <1>1, <1>2, <1>3, <1>4, <1>5

\* It holds at the beginning.
LEMMA LifeStarts == LifeInit => LifeInv
  <1> SUFFICES ASSUME LifeInit PROVE LifeInv
    OBVIOUS
  <1> USE AccountLifeAssumption DEF LifeInit
  <1>0. 0 \in 0 .. FreeLimit
    OBVIOUS
  <1>1. LifeTypeOK
    <2>1. row \in [Rows -> UserRows] /\ claim \in [Identities -> 0 .. FreeLimit]
      BY <1>0 DEF UserRows
    <2>2. session \in [Sessions -> SessionRows] /\ job \in [Jobs -> LifeJobs]
      BY <1>0 DEF SessionRows, LifeJobs, NoJob
    <2> QED BY <2>1, <2>2 DEF LifeTypeOK, UserRows, SessionRows, LifeJobs
  <1>2. RequestsHaveSubjects /\ DeletionsClaim
    BY DEF RequestsHaveSubjects, DeletionsClaim, NoJob, JobAt
  <1>3. PhonesAreUnique
    BY DEF PhonesAreUnique
  <1>4. SpendingIsClaimed
    BY <1>0 DEF SpendingIsClaimed, Identities
  <1>5. NoDeviceIsRemembered
    BY DEF NoDeviceIsRemembered
  <1> QED BY <1>1, <1>2, <1>3, <1>4, <1>5 DEF LifeInv

\* A step of one request that touches neither users nor claims, and that leaves no
\* deletion behind which it did not find.
LEMMA RequestKeeps ==
    ASSUME LifeInv, NEW j \in Jobs, NEW x \in LifeJobs, job' = [job EXCEPT ![j] = x],
           x.at = "recorded" => x = job[j],
           session' \in [Sessions -> SessionRows], late' \subseteq Sessions,
           UNCHANGED <<row, claim, spent, slipped>>,
           RequestsHaveSubjects', NoDeviceIsRemembered'
    PROVE  LifeInv'
  <1>1. LifeTypeOK'
    BY LifeTypes DEF LifeInv, LifeTypeOK, LifeJobs, SessionRows
  <1>2. PhonesAreUnique' /\ SpendingIsClaimed'
    BY DEF LifeInv, PhonesAreUnique, SpendingIsClaimed
  <1>3. \A k \in Jobs : job'[k].at = "recorded" => job'[k] = job[k]
    BY LifeTypes DEF LifeInv
  <1>4. DeletionsClaim'
    BY <1>3 DEF LifeInv, DeletionsClaim, JobAt
  <1> QED BY <1>1, <1>2, <1>4 DEF LifeInv

\* Sessions that are made, refreshed, signed out or that age.
LEMMA SessionsKeep ==
    ASSUME LifeInv, NEW j \in Jobs,
           \/ \E u \in Rows, s \in Sessions : CreateSession(j, u, s)
           \/ \E s \in Sessions : Bearer(j, s) \/ Logout(j, s)
           \/ CreateMeta(j) \/ Refresh(j) \/ DeleteMeta(j) \/ DeleteSession(j)
    PROVE  LifeInv'
  <1>0. LifeTypeOK /\ RequestsHaveSubjects /\ NoDeviceIsRemembered /\ late \subseteq Sessions
    BY DEF LifeInv, LifeTypeOK
  <1>t. /\ row \in [Rows -> UserRows] /\ session \in [Sessions -> SessionRows]
        /\ job \in [Jobs -> LifeJobs] /\ NoJob \in LifeJobs
    BY <1>0, LifeTypes
  <1>1. ASSUME NEW u \in Rows, NEW s \in Sessions, CreateSession(j, u, s) PROVE LifeInv'
    <2> DEFINE x == [NoJob EXCEPT !.at = "meta", !.session = s]
    <2>1. /\ job[j].at = "idle" /\ session[s].at = "unused" /\ job' = [job EXCEPT ![j] = x]
          /\ session' = [session EXCEPT ![s].at = "live", ![s].row = u]
          /\ UNCHANGED <<row, claim, spent, slipped, late>>
      BY <1>1 DEF CreateSession, JobAt
    <2>2. x \in LifeJobs /\ x.at = "meta" /\ x.session = s
      BY <1>t DEF LifeJobs, NoJob
    <2> HIDE DEF x
    <2>3. /\ session' \in [Sessions -> SessionRows] /\ session'[s].at = "live"
          /\ \A r \in Sessions : session'[r].meta = session[r].meta
          /\ \A r \in Sessions \ {s} : session'[r] = session[r]
      BY <1>t, <2>1 DEF SessionRows
    <2>4. /\ job'[j] = x /\ \A k \in Jobs \ {j} : job'[k] = job[k]
          /\ \A k \in Jobs : job[k].at \in {"meta", "found", "unmeta", "bearer"} => job[k].session # s
      BY <1>0, <1>t, <2>1 DEF RequestsHaveSubjects
    <2>5. RequestsHaveSubjects'
      <3>1. \A k \in Jobs :
              /\ job'[k].at \in {"attach", "listed", "recorded"} => job'[k].row \in Rows
              /\ job'[k].at = "attach" => job'[k].phone \in Phones
              /\ job'[k].at \in {"meta", "found", "unmeta", "bearer"} =>
                    job'[k].session \in Sessions /\ session'[job'[k].session].at # "unused"
              /\ job'[k].at = "unmeta" => ~session'[job'[k].session].meta
        BY <1>0, <2>2, <2>3, <2>4 DEF RequestsHaveSubjects
      <3>2. \A k, l \in Jobs : /\ job'[k].at = "meta" /\ job'[l].at \in {"meta", "found", "unmeta"}
                               /\ job'[k].session = job'[l].session
                               => k = l
        BY <1>0, <2>2, <2>4 DEF RequestsHaveSubjects
      <3> QED BY <3>1, <3>2 DEF RequestsHaveSubjects
    <2>6. NoDeviceIsRemembered'
      BY <1>0, <2>1, <2>3 DEF NoDeviceIsRemembered
    <2> QED BY <1>0, <2>1, <2>2, <2>3, <2>5, <2>6, RequestKeeps
  <1>2. ASSUME NEW s \in Sessions, Bearer(j, s) \/ Logout(j, s) PROVE LifeInv'
    <2>1. PICK at \in {"bearer", "found"} :
            /\ session[s].at = "live" /\ \A k \in Jobs : ~(job[k].at = "meta" /\ job[k].session = s)
            /\ job' = [job EXCEPT ![j] = [NoJob EXCEPT !.at = at, !.session = s]]
            /\ UNCHANGED <<row, claim, session, spent, slipped, late>>
      BY <1>2 DEF Bearer, Logout, JobAt, TokenIsKnown
    <2> DEFINE x == [NoJob EXCEPT !.at = at, !.session = s]
    <2>2. x \in LifeJobs /\ x.at = at /\ x.session = s
      BY <1>t DEF LifeJobs, NoJob
    <2>3. job' = [job EXCEPT ![j] = x]
      BY <2>1
    <2> HIDE DEF x
    <2>4. job'[j] = x /\ \A k \in Jobs \ {j} : job'[k] = job[k]
      BY <1>t, <2>3
    <2>5. RequestsHaveSubjects'
      BY <1>0, <2>1, <2>2, <2>4 DEF RequestsHaveSubjects
    <2>6. NoDeviceIsRemembered'
      BY <1>0, <2>1 DEF NoDeviceIsRemembered
    <2> QED BY <1>0, <1>t, <2>1, <2>2, <2>3, <2>5, <2>6, RequestKeeps
  \* The request ends: what it did to its session.
  <1>3. ASSUME job' = [job EXCEPT ![j] = NoJob], session' \in [Sessions -> SessionRows],
               \A r \in Sessions : session'[r].at # session[r].at => session'[r].at = "gone",
               \A r \in Sessions : session'[r].meta /\ ~session[r].meta =>
                    job[j].at = "meta" /\ job[j].session = r,
               late' \subseteq Sessions, UNCHANGED <<row, claim, spent, slipped>>, NoDeviceIsRemembered'
        PROVE  LifeInv'
    <2>1. /\ \A k \in Jobs \ {j} : job'[k] = job[k]
          /\ job'[j] = NoJob /\ NoJob.at = "idle"
      BY <1>3, <1>t DEF NoJob
    <2>2. \A k \in Jobs : job'[k].at = "unmeta" => ~session'[job'[k].session].meta
      BY <1>0, <1>3, <2>1 DEF RequestsHaveSubjects
    <2>3. RequestsHaveSubjects'
      BY <1>0, <1>3, <2>1, <2>2 DEF RequestsHaveSubjects
    <2> QED BY <1>t, <1>3, <2>1, <2>3, RequestKeeps
  <1>4. CASE CreateMeta(j)
    <2> DEFINE s == job[j].session
    <2>1. /\ job[j].at = "meta" /\ session' = [session EXCEPT ![s].meta = TRUE]
          /\ late' = (IF session[s].at = "gone" THEN late \cup {s} ELSE late)
          /\ job' = [job EXCEPT ![j] = NoJob] /\ UNCHANGED <<row, claim, spent, slipped>>
      BY <1>4 DEF CreateMeta, JobAt, Over
    <2>2. s \in Sessions
      BY <1>0, <2>1 DEF RequestsHaveSubjects
    <2> HIDE DEF s
    <2>3. /\ session' \in [Sessions -> SessionRows]
          /\ \A r \in Sessions : session'[r].at = session[r].at
          /\ \A r \in Sessions \ {s} : session'[r].meta = session[r].meta
      BY <1>t, <2>1, <2>2 DEF SessionRows
    <2>4. NoDeviceIsRemembered' /\ late' \subseteq Sessions
      BY <1>0, <2>1, <2>2, <2>3 DEF NoDeviceIsRemembered
    <2> QED BY <1>3, <2>1, <2>3, <2>4 DEF s
  <1>5. CASE Refresh(j)
    <2>1. /\ session' \in [Sessions -> SessionRows]
          /\ \A r \in Sessions : session'[r].at = session[r].at /\ session'[r].meta = session[r].meta
      <3>1. job[j].session \in Sessions
        BY <1>0, <1>5 DEF Refresh, JobAt, RequestsHaveSubjects
      <3>2. session' \in {session, [session EXCEPT ![job[j].session].expiry = "far"]}
        BY <1>5 DEF Refresh
      <3> QED BY <1>t, <3>1, <3>2 DEF SessionRows
    <2>2. job' = [job EXCEPT ![j] = NoJob] /\ UNCHANGED <<row, claim, spent, slipped, late>>
      BY <1>5 DEF Refresh, Over
    <2>3. NoDeviceIsRemembered'
      BY <1>0, <2>1, <2>2 DEF NoDeviceIsRemembered
    <2> QED BY <1>0, <1>3, <2>1, <2>2, <2>3
  <1>6. CASE DeleteMeta(j)
    <2> DEFINE s == job[j].session
               x == [job[j] EXCEPT !.at = "unmeta"]
    <2>1. /\ job[j].at = "found" /\ session' = [session EXCEPT ![s].meta = FALSE]
          /\ job' = [job EXCEPT ![j] = x] /\ UNCHANGED <<row, claim, spent, slipped, late>>
      BY <1>6, <1>t DEF DeleteMeta, JobAt
    <2>2. s \in Sessions /\ session[s].at # "unused"
      BY <1>0, <2>1 DEF RequestsHaveSubjects
    <2>3. x \in LifeJobs /\ x.at = "unmeta" /\ x.session = s
      BY <1>t DEF LifeJobs
    <2> HIDE DEF s, x
    <2>4. /\ session' \in [Sessions -> SessionRows] /\ ~session'[s].meta
          /\ \A r \in Sessions : /\ session'[r].at = session[r].at
                                 /\ session'[r].meta => session[r].meta
      BY <1>t, <2>1, <2>2 DEF SessionRows
    <2>5. job'[j] = x /\ \A k \in Jobs \ {j} : job'[k] = job[k]
      BY <1>t, <2>1
    <2>6. RequestsHaveSubjects'
      <3>1. \A k \in Jobs :
              /\ job'[k].at \in {"attach", "listed", "recorded"} => job'[k].row \in Rows
              /\ job'[k].at = "attach" => job'[k].phone \in Phones
              /\ job'[k].at \in {"meta", "found", "unmeta", "bearer"} =>
                    job'[k].session \in Sessions /\ session'[job'[k].session].at # "unused"
              /\ job'[k].at = "unmeta" => ~session'[job'[k].session].meta
        BY <1>0, <2>2, <2>3, <2>4, <2>5 DEF RequestsHaveSubjects
      <3>2. \A k, l \in Jobs : /\ job'[k].at = "meta" /\ job'[l].at \in {"meta", "found", "unmeta"}
                               /\ job'[k].session = job'[l].session
                               => k = l
        <4>1. \A k \in Jobs : /\ job'[k].at = "meta" => job[k].at = "meta" /\ k # j
                              /\ job'[k].at \in {"meta", "found", "unmeta"} => job[k].at \in {"meta", "found", "unmeta"}
                              /\ job'[k].session = job[k].session
          BY <2>1, <2>3, <2>5 DEF s
        <4> QED BY <1>0, <4>1 DEF RequestsHaveSubjects
      <3> QED BY <3>1, <3>2 DEF RequestsHaveSubjects
    <2>7. NoDeviceIsRemembered'
      BY <1>0, <2>1, <2>4 DEF NoDeviceIsRemembered
    <2> QED BY <1>0, <2>1, <2>3, <2>4, <2>6, <2>7, RequestKeeps
  <1>7. CASE DeleteSession(j)
    <2> DEFINE s == job[j].session
    <2>1. /\ job[j].at = "unmeta" /\ session' = [session EXCEPT ![s].at = "gone"]
          /\ job' = [job EXCEPT ![j] = NoJob] /\ UNCHANGED <<row, claim, spent, slipped, late>>
      BY <1>7 DEF DeleteSession, JobAt, Over
    <2>2. s \in Sessions /\ ~session[s].meta
      BY <1>0, <2>1 DEF RequestsHaveSubjects
    <2> HIDE DEF s
    <2>3. /\ session' \in [Sessions -> SessionRows] /\ session'[s].at = "gone"
          /\ \A r \in Sessions : session'[r].meta = session[r].meta
          /\ \A r \in Sessions \ {s} : session'[r].at = session[r].at
      BY <1>t, <2>1, <2>2 DEF SessionRows
    <2>4. NoDeviceIsRemembered'
      BY <1>0, <2>1, <2>2, <2>3 DEF NoDeviceIsRemembered
    <2> QED BY <1>0, <1>3, <2>1, <2>3, <2>4
  <1> QED BY <1>1, <1>2, <1>4, <1>5, <1>6, <1>7


\* A request that goes on to a user, or ends, keeps what the others are about.
LEMMA SubjectsStay ==
    ASSUME LifeInv, NEW j \in Jobs, NEW x \in LifeJobs, job' = [job EXCEPT ![j] = x],
           x.at \in {"idle", "attach", "listed", "recorded"},
           x.at # "idle" => x.row \in Rows,
           x.at = "attach" => x.phone \in Phones,
           \A s \in Sessions : /\ session[s].at # "unused" => session'[s].at # "unused"
                               /\ session'[s].meta => session[s].meta
    PROVE  RequestsHaveSubjects'
  <1>1. RequestsHaveSubjects /\ job \in [Jobs -> LifeJobs]
    BY LifeTypes DEF LifeInv
  <1>2. job'[j] = x /\ \A k \in Jobs \ {j} : job'[k] = job[k]
    BY <1>1
  <1> QED BY <1>1, <1>2 DEF RequestsHaveSubjects

\* Requests that begin or end without a user being touched, and time.
LEMMA AskingKeeps ==
    ASSUME LifeInv,
           \/ \E j \in Jobs : \/ \E u \in Rows, phone \in Phones : VerifyPhone(j, u, phone)
                              \/ \E u \in Rows : ListSessions(j, u)
                              \/ JobDies(j)
           \/ \E s \in Sessions : SessionAges(s)
    PROVE  LifeInv'
  <1>0. LifeTypeOK /\ RequestsHaveSubjects /\ NoDeviceIsRemembered /\ late \subseteq Sessions
    BY DEF LifeInv, LifeTypeOK
  <1>t. /\ row \in [Rows -> UserRows] /\ session \in [Sessions -> SessionRows]
        /\ job \in [Jobs -> LifeJobs] /\ NoJob \in LifeJobs
    BY <1>0, LifeTypes
  <1>1. ASSUME NEW j \in Jobs, NEW x \in LifeJobs, job' = [job EXCEPT ![j] = x],
               x.at \in {"idle", "attach", "listed"},
               x.at # "idle" => x.row \in Rows, x.at = "attach" => x.phone \in Phones,
               UNCHANGED <<row, claim, session, spent, slipped, late>>
        PROVE  LifeInv'
    <2>1. RequestsHaveSubjects'
      BY <1>1, SubjectsStay
    <2>2. NoDeviceIsRemembered'
      BY <1>0, <1>1 DEF NoDeviceIsRemembered
    <2> QED BY <1>0, <1>t, <1>1, <2>1, <2>2, RequestKeeps
  <1>2. ASSUME NEW j \in Jobs, NEW u \in Rows, NEW phone \in Phones, VerifyPhone(j, u, phone)
        PROVE  LifeInv'
    <2> DEFINE x == [NoJob EXCEPT !.at = "attach", !.row = u, !.phone = phone]
    <2>1. x \in LifeJobs /\ x.at = "attach" /\ x.row = u /\ x.phone = phone
      BY <1>t DEF LifeJobs, NoJob
    <2>2. job' = [job EXCEPT ![j] = x] /\ UNCHANGED <<row, claim, session, spent, slipped, late>>
      BY <1>2 DEF VerifyPhone
    <2> HIDE DEF x
    <2> QED BY <1>1, <2>1, <2>2
  <1>3. ASSUME NEW j \in Jobs, NEW u \in Rows, ListSessions(j, u) PROVE LifeInv'
    <2> DEFINE S == {s \in Sessions : session[s].at = "live" /\ session[s].row = u}
               x == [NoJob EXCEPT !.at = "listed", !.row = u, !.listed = S]
    <2>1. S \in SUBSET Sessions
      OBVIOUS
    <2>2. job' = [job EXCEPT ![j] = x] /\ UNCHANGED <<row, claim, session, spent, slipped, late>>
      BY <1>3 DEF ListSessions
    <2> HIDE DEF S
    <2>3. x \in LifeJobs /\ x.at = "listed" /\ x.row = u
      BY <1>t, <2>1 DEF LifeJobs, NoJob
    <2> HIDE DEF x
    <2> QED BY <1>1, <2>2, <2>3
  <1>4. ASSUME NEW j \in Jobs, JobDies(j) PROVE LifeInv'
    <2>1. job' = [job EXCEPT ![j] = NoJob] /\ UNCHANGED <<row, claim, session, spent, slipped, late>>
      BY <1>4 DEF JobDies, Over
    <2>2. NoJob.at = "idle"
      BY DEF NoJob
    <2> QED BY <1>1, <1>t, <2>1, <2>2
  <1>5. ASSUME NEW s \in Sessions, SessionAges(s) PROVE LifeInv'
    <2>1. /\ session' = [session EXCEPT ![s].expiry = IF @ = "far" THEN "near" ELSE "over"]
          /\ UNCHANGED <<row, claim, job, spent, slipped, late>>
      BY <1>5 DEF SessionAges
    <2>2. /\ session' \in [Sessions -> SessionRows]
          /\ \A r \in Sessions : session'[r].at = session[r].at /\ session'[r].meta = session[r].meta
      BY <1>t, <2>1 DEF SessionRows
    <2>3. LifeTypeOK'
      BY <1>0, <2>1, <2>2 DEF LifeTypeOK, SessionRows
    <2>4. RequestsHaveSubjects' /\ NoDeviceIsRemembered'
      BY <1>0, <2>1, <2>2 DEF RequestsHaveSubjects, NoDeviceIsRemembered
    <2>5. PhonesAreUnique' /\ SpendingIsClaimed' /\ DeletionsClaim'
      BY <2>1 DEF LifeInv, PhonesAreUnique, SpendingIsClaimed, DeletionsClaim, JobAt
    <2> QED BY <2>3, <2>4, <2>5 DEF LifeInv
  <1> QED BY <1>2, <1>3, <1>4, <1>5

\* A deletion reads what its user has used: nothing has slipped past it yet.
LEMMA ReadUsedKeeps ==
    ASSUME LifeInv, NEW j \in Jobs, ReadUsed(j) PROVE LifeInv'
  <1>0. /\ LifeTypeOK /\ RequestsHaveSubjects /\ NoDeviceIsRemembered /\ late \subseteq Sessions
        /\ PhonesAreUnique /\ SpendingIsClaimed /\ DeletionsClaim
    BY DEF LifeInv, LifeTypeOK
  <1>t. /\ row \in [Rows -> UserRows] /\ session \in [Sessions -> SessionRows]
        /\ job \in [Jobs -> LifeJobs] /\ NoJob \in LifeJobs
    BY <1>0, LifeTypes
  <1>1. job[j].at = "listed" /\ job[j].row \in Rows /\ UNCHANGED <<row, claim, session, spent, slipped, late>>
    BY <1>0 DEF ReadUsed, JobAt, RequestsHaveSubjects
  <1>2. NoDeviceIsRemembered'
    BY <1>0, <1>1 DEF NoDeviceIsRemembered
  <1>3. CASE row[job[j].row].alive
    <2> DEFINE u == job[j].row
               x == [job[j] EXCEPT !.at = "recorded", !.used = row[u].used, !.phone = row[u].phone]
    <2>1. job' = [job EXCEPT ![j] = x]
      BY <1>3, <1>t DEF ReadUsed
    <2>2. /\ x \in LifeJobs /\ x.at = "recorded" /\ x.row = u
          /\ x.used = row[u].used /\ x.phone = row[u].phone
      BY <1>t, <1>1 DEF LifeJobs, UserRows
    <2>3. u \in Rows
      BY <1>1
    <2> HIDE DEF u, x
    <2>4. RequestsHaveSubjects'
      BY <1>1, <2>1, <2>2, <2>3, SubjectsStay
    <2>5. LifeTypeOK'
      BY <1>0, <1>t, <1>1, <2>1, <2>2 DEF LifeTypeOK, LifeJobs
    <2>6. job'[j] = x /\ \A k \in Jobs \ {j} : job'[k] = job[k]
      BY <1>t, <2>1
    <2>7. DeletionsClaim'
      BY <1>0, <1>1, <2>2, <2>3, <2>6 DEF DeletionsClaim, SpendingIsClaimed, JobAt
    <2>8. PhonesAreUnique' /\ SpendingIsClaimed'
      BY <1>0, <1>1 DEF PhonesAreUnique, SpendingIsClaimed
    <2> QED BY <1>2, <2>4, <2>5, <2>7, <2>8 DEF LifeInv
  <1>4. CASE ~row[job[j].row].alive
    <2>1. job' = [job EXCEPT ![j] = NoJob] /\ NoJob.at = "idle"
      BY <1>4 DEF ReadUsed, Over, NoJob
    <2>2. RequestsHaveSubjects'
      BY <1>t, <1>1, <2>1, SubjectsStay
    <2> QED BY <1>0, <1>t, <1>1, <1>2, <2>1, <2>2, RequestKeeps
  <1> QED BY <1>3, <1>4

\* A phone is attached to a user who then counts at least what its claim says.
LEMMA AttachKeeps ==
    ASSUME LifeInv, NEW j \in Jobs, Attach(j)
    PROVE  /\ LifeInv'
           /\ \A v \in Rows : row[v].phone # NoPhone => row'[v] = row[v]
  <1>0. /\ LifeTypeOK /\ RequestsHaveSubjects /\ NoDeviceIsRemembered /\ late \subseteq Sessions
        /\ PhonesAreUnique /\ SpendingIsClaimed /\ DeletionsClaim
    BY DEF LifeInv, LifeTypeOK
  <1>t. /\ row \in [Rows -> UserRows] /\ session \in [Sessions -> SessionRows]
        /\ job \in [Jobs -> LifeJobs] /\ NoJob \in LifeJobs /\ NoJob.at = "idle"
        /\ claim \in [Identities -> 0 .. FreeLimit] /\ FreeLimit \in Nat /\ NoPhone \notin Phones
        /\ \A u \in Rows : MailboxOfRow[u] \in Identities /\ row[u].used \in Nat
        /\ \A p \in Phones : p \in Identities /\ claim[p] \in Nat /\ spent[p] \in Nat /\ slipped[p] \in Nat
    BY <1>0, LifeTypes DEF NoJob
  <1> DEFINE u == job[j].row
             p == job[j].phone
             now == row[u].alive /\ row[u].phone = NoPhone /\ \A v \in Rows : row[v].alive => row[v].phone # p
             m == Max({row[u].used, Carried(p, u)})
  <1>1. /\ job[j].at = "attach" /\ u \in Rows /\ p \in Phones
        /\ job' = [job EXCEPT ![j] = NoJob] /\ UNCHANGED <<claim, session, spent, slipped, late>>
    BY <1>0 DEF Attach, JobAt, Over, RequestsHaveSubjects
  <1>2. row' = IF now THEN [row EXCEPT ![u].phone = p, ![u].used = m] ELSE row
    BY <1>t, <1>1 DEF Attach, HasVerifiedPhone
  <1>3. m \in 0 .. FreeLimit /\ m >= claim[p]
    <2>1. claim[p] \in 0 .. FreeLimit /\ claim[MailboxOfRow[u]] \in 0 .. FreeLimit /\ row[u].used \in 0 .. FreeLimit
      BY <1>t, <1>1 DEF UserRows
    <2>2. /\ Carried(p, u) \in {claim[p], claim[MailboxOfRow[u]]}
          /\ Carried(p, u) >= claim[p]
      BY <2>1, MaxOfTwo DEF Carried
    <2>3. Carried(p, u) \in 0 .. FreeLimit
      BY <2>1, <2>2
    <2> HIDE DEF u, p
    <2>4. m \in {row[u].used, Carried(p, u)} /\ m >= Carried(p, u)
      BY <2>1, <2>3, MaxOfTwo
    <2> QED BY <2>1, <2>2, <2>3, <2>4
  <1> HIDE DEF u, p, m
  <1>4. RequestsHaveSubjects' /\ NoDeviceIsRemembered'
    BY <1>0, <1>t, <1>1, SubjectsStay DEF NoDeviceIsRemembered
  <1>5. \A k \in Jobs : job'[k].at = "recorded" => job'[k] = job[k]
    BY <1>t, <1>1
  <1>6. CASE now
    <2>1. row' = [row EXCEPT ![u].phone = p, ![u].used = m]
      BY <1>2, <1>6
    <2>2. /\ row' \in [Rows -> UserRows] /\ row'[u].phone = p /\ row'[u].used = m /\ row'[u].alive
          /\ \A v \in Rows \ {u} : row'[v] = row[v]
      BY <1>t, <1>1, <1>3, <1>6, <2>1 DEF UserRows
    <2>3. row[u].phone = NoPhone /\ \A v \in Rows : row[v].phone # p
      BY <1>0, <1>t, <1>1, <1>6 DEF PhonesAreUnique
    <2> HIDE DEF now
    <2>4. spent[p] <= claim[p] + slipped[p]
      BY <1>0, <1>1, <2>3 DEF SpendingIsClaimed
    <2>5. LifeTypeOK'
      BY <1>0, <1>t, <1>1, <2>2 DEF LifeTypeOK, UserRows, LifeJobs
    <2>6. PhonesAreUnique'
      BY <1>0, <1>t, <1>1, <2>2, <2>3 DEF PhonesAreUnique
    <2>7. SpendingIsClaimed'
      <3>1. spent[p] <= m + slipped[p]
        BY <1>t, <1>1, <1>3, <2>4
      <3>2. \A q \in Phones : (\A v \in Rows : row'[v].phone # q) => spent[q] <= claim[q] + slipped[q]
        <4> SUFFICES ASSUME NEW q \in Phones, \A v \in Rows : row'[v].phone # q
                     PROVE  spent[q] <= claim[q] + slipped[q]
          OBVIOUS
        <4>1. \A v \in Rows : row[v].phone # q
          BY <1>t, <1>1, <2>2, <2>3
        <4> QED BY <1>0, <4>1 DEF SpendingIsClaimed
      <3> QED BY <1>0, <1>1, <2>2, <3>1, <3>2 DEF SpendingIsClaimed
    <2>8. DeletionsClaim'
      <3> SUFFICES ASSUME NEW k \in Jobs, job'[k].at = "recorded", row'[job'[k].row].phone # NoPhone
                   PROVE  LET q == row'[job'[k].row].phone IN
                            \/ spent[q] <= claim[q] + slipped[q]
                            \/ job'[k].phone = q /\ spent[q] <= job'[k].used + slipped[q]
        BY <1>1 DEF DeletionsClaim, JobAt
      <3>1. job'[k] = job[k] /\ job[k].row \in Rows
        BY <1>0, <1>5 DEF RequestsHaveSubjects
      <3>2. CASE job[k].row = u
        BY <2>2, <2>4, <3>1, <3>2
      <3>3. CASE job[k].row # u
        BY <1>0, <2>2, <3>1, <3>3 DEF DeletionsClaim, JobAt
      <3> QED BY <3>2, <3>3
    <2> QED BY <1>4, <2>2, <2>3, <2>5, <2>6, <2>7, <2>8 DEF LifeInv
  <1>7. CASE ~now
    <2>1. row' = row
      BY <1>2, <1>7
    <2> HIDE DEF now
    <2> QED BY <1>0, <1>t, <1>1, <1>4, <2>1, RequestKeeps
  <1> QED BY <1>6, <1>7

\* A message is counted where its phone is, and slips if a deletion has read the count.
LEMMA SendKeeps ==
    ASSUME LifeInv, NEW u \in Rows, SendDM(u)
    PROVE  LifeInv' /\ \A v \in Rows : row'[v].phone = row[v].phone
  <1>0. /\ LifeTypeOK /\ RequestsHaveSubjects /\ NoDeviceIsRemembered /\ late \subseteq Sessions
        /\ PhonesAreUnique /\ SpendingIsClaimed /\ DeletionsClaim
    BY DEF LifeInv, LifeTypeOK
  <1>t. /\ row \in [Rows -> UserRows] /\ job \in [Jobs -> LifeJobs]
        /\ claim \in [Identities -> 0 .. FreeLimit] /\ FreeLimit \in Nat /\ NoPhone \notin Phones
        /\ \A v \in Rows : row[v].used \in Nat
        /\ \A q \in Phones : claim[q] \in Nat /\ spent[q] \in Nat /\ slipped[q] \in Nat
        /\ \A j \in Jobs : job[j].used \in Nat
        /\ spent \in [Phones -> Nat] /\ slipped \in [Phones -> Nat]
    BY <1>0, LifeTypes DEF LifeTypeOK
  <1> DEFINE p == row[u].phone
  <1>1. /\ row[u].alive /\ p # NoPhone /\ row[u].used < FreeLimit
        /\ row' = [row EXCEPT ![u].used = row[u].used + 1]
        /\ spent' = [spent EXCEPT ![p] = spent[p] + 1]
        /\ slipped' = IF Deleting(u) THEN [slipped EXCEPT ![p] = slipped[p] + 1] ELSE slipped
        /\ UNCHANGED <<claim, session, job, late>>
    BY <1>t DEF SendDM, HasVerifiedPhone, UserRows
  <1>2. p \in Phones
    BY <1>t, <1>1 DEF UserRows
  <1>3. /\ row' \in [Rows -> UserRows]
        /\ row'[u].used = row[u].used + 1
        /\ \A v \in Rows : row'[v].phone = row[v].phone /\ row'[v].alive = row[v].alive
        /\ \A v \in Rows \ {u} : row'[v] = row[v]
    <2>1. row[u].used + 1 \in 0 .. FreeLimit
      BY <1>t, <1>1
    <2> QED BY <1>t, <1>1, <2>1 DEF UserRows
  <1>4. /\ spent' \in [Phones -> Nat] /\ slipped' \in [Phones -> Nat]
        /\ spent'[p] = spent[p] + 1 /\ (Deleting(u) => slipped'[p] = slipped[p] + 1)
        /\ ~Deleting(u) => slipped'[p] = slipped[p]
        /\ \A q \in Phones \ {p} : spent'[q] = spent[q] /\ slipped'[q] = slipped[q]
    BY <1>t, <1>1, <1>2
  <1> HIDE DEF p
  <1>5. LifeTypeOK'
    BY <1>0, <1>1, <1>3, <1>4 DEF LifeTypeOK, UserRows
  <1>6. PhonesAreUnique'
    BY <1>0, <1>3 DEF PhonesAreUnique
  <1>7. RequestsHaveSubjects' /\ NoDeviceIsRemembered'
    BY <1>0, <1>1 DEF RequestsHaveSubjects, NoDeviceIsRemembered
  <1>8. SpendingIsClaimed'
    <2>1. \A q \in Phones : (\A v \in Rows : row'[v].phone # q) => spent'[q] <= claim'[q] + slipped'[q]
      <3> SUFFICES ASSUME NEW q \in Phones, \A v \in Rows : row'[v].phone # q
                   PROVE  spent'[q] <= claim[q] + slipped'[q]
        BY <1>1
      <3>1. q # p /\ \A v \in Rows : row[v].phone # q
        BY <1>3 DEF p
      <3> QED BY <1>0, <1>4, <3>1 DEF SpendingIsClaimed
    <2>2. ASSUME NEW v \in Rows, row[v].phone # NoPhone
          PROVE  spent'[row[v].phone] <= row'[v].used + slipped'[row[v].phone]
      <3>0. row[v].phone \in Phones /\ spent[row[v].phone] <= row[v].used + slipped[row[v].phone]
        BY <1>0, <1>t, <2>2 DEF SpendingIsClaimed, UserRows
      <3>1. CASE v = u
        <4>1. row[v].phone = p
          BY <3>1 DEF p
        <4>2. slipped'[p] \in Nat /\ slipped'[p] >= slipped[p]
          BY <1>4, <1>2, <1>t
        <4> QED BY <1>t, <1>2, <1>3, <1>4, <3>0, <3>1, <4>1, <4>2
      <3>2. CASE v # u
        <4>1. row[v].phone # p
          BY <1>0, <2>2, <3>2 DEF PhonesAreUnique, p
        <4> QED BY <1>3, <1>4, <3>0, <3>2, <4>1
      <3> QED BY <3>1, <3>2
    <2> QED BY <1>3, <2>1, <2>2 DEF SpendingIsClaimed
  <1>9. DeletionsClaim'
    <2> SUFFICES ASSUME NEW k \in Jobs, job[k].at = "recorded", row[job[k].row].phone # NoPhone
                 PROVE  LET q == row[job[k].row].phone IN
                          \/ spent'[q] <= claim[q] + slipped'[q]
                          \/ job[k].phone = q /\ spent'[q] <= job[k].used + slipped'[q]
      <3>1. \A k \in Jobs : job[k].at = "recorded" => job[k].row \in Rows
        BY <1>0 DEF RequestsHaveSubjects
      <3> QED BY <1>1, <1>3, <3>1 DEF DeletionsClaim, JobAt
    <2> DEFINE q == row[job[k].row].phone
    <2>0. job[k].row \in Rows
      BY <1>0 DEF RequestsHaveSubjects
    <2>1. q \in Phones /\ q # NoPhone
      BY <1>t, <2>0 DEF UserRows
    <2>2. \/ spent[q] <= claim[q] + slipped[q]
          \/ job[k].phone = q /\ spent[q] <= job[k].used + slipped[q]
      BY <1>0 DEF DeletionsClaim, JobAt
    <2>3. q = p => job[k].row = u
      BY <1>0, <2>0, <2>1 DEF PhonesAreUnique, p
    <2>4. q = p => Deleting(u)
      BY <2>3 DEF Deleting, JobAt
    <2> HIDE DEF q
    <2>5. p \in Phones /\ claim[q] \in Nat /\ spent[q] \in Nat /\ slipped[q] \in Nat /\ job[k].used \in Nat
      BY <1>t, <1>2, <2>1
    <2>6. (spent'[q] = spent[q] /\ slipped'[q] = slipped[q]) \/ (spent'[q] = spent[q] + 1 /\ slipped'[q] = slipped[q] + 1)
      <3>1. CASE q = p
        BY <1>4, <2>4, <3>1
      <3>2. CASE q # p
        BY <1>4, <2>1, <3>2
      <3> QED BY <3>1, <3>2
    <2>7. \/ spent'[q] <= claim[q] + slipped'[q]
          \/ job[k].phone = q /\ spent'[q] <= job[k].used + slipped'[q]
      BY <2>2, <2>5, <2>6
    <2> QED BY <2>7 DEF q
  <1> QED BY <1>3, <1>5, <1>6, <1>7, <1>8, <1>9 DEF LifeInv

\* The end of an account: the claims say at least what the user or the claim said, and
\* of the sessions that were not listed the observer knows.
LEMMA DeletionKeeps ==
    ASSUME LifeInv, NEW j \in Jobs, DeleteAccount(j)
    PROVE  /\ LifeInv'
           /\ \A v \in Rows : row'[v] = row[v] \/ ~row'[v].alive
           /\ \A s \in Sessions : session[s].at = "gone" => session'[s].at = "gone"
  <1>0. /\ LifeTypeOK /\ RequestsHaveSubjects /\ NoDeviceIsRemembered /\ late \subseteq Sessions
        /\ PhonesAreUnique /\ SpendingIsClaimed /\ DeletionsClaim
    BY DEF LifeInv, LifeTypeOK
  <1>t. /\ row \in [Rows -> UserRows] /\ session \in [Sessions -> SessionRows]
        /\ job \in [Jobs -> LifeJobs] /\ NoJob \in LifeJobs /\ NoJob.at = "idle"
        /\ claim \in [Identities -> 0 .. FreeLimit] /\ FreeLimit \in Nat /\ NoPhone \notin Phones
        /\ \A q \in Phones : q \in Identities /\ claim[q] \in Nat /\ spent[q] \in Nat /\ slipped[q] \in Nat
        /\ \A k \in Jobs : job[k].used \in Nat
    BY <1>0, LifeTypes DEF NoJob
  <1> DEFINE u == job[j].row
             live == {s \in Sessions : session[s].at = "live" /\ session[s].row = u}
  <1>1. /\ job[j].at = "recorded" /\ u \in Rows
        /\ job' = [job EXCEPT ![j] = NoJob] /\ UNCHANGED <<spent, slipped>>
    BY <1>0 DEF DeleteAccount, JobAt, Over, RequestsHaveSubjects
  <1>2. CASE row[u].alive
    <2>1. /\ row' = [row EXCEPT ![u].alive = FALSE, ![u].phone = NoPhone]
          /\ claim' = Claimed(j)
          /\ session' = [s \in Sessions |->
                 [session[s] EXCEPT !.at = IF s \in live THEN "gone" ELSE session[s].at,
                                    !.meta = session[s].meta /\ s \notin job[j].listed]]
          /\ late' = late \cup (live \ job[j].listed)
      BY <1>2, <1>t DEF DeleteAccount, SessionRows
    <2>2. /\ row' \in [Rows -> UserRows] /\ row'[u].phone = NoPhone /\ ~row'[u].alive
          /\ \A v \in Rows \ {u} : row'[v] = row[v]
      BY <1>t, <1>1, <2>1 DEF UserRows
    <2>3. /\ claim' \in [Identities -> 0 .. FreeLimit]
          /\ \A i \in Identities : claim'[i] >= claim[i]
          /\ \A i \in Identities : i = job[j].phone => claim'[i] >= job[j].used
      <3>1. \A i \in Identities :
              /\ Max({claim[i], job[j].used}) \in 0 .. FreeLimit
              /\ Max({claim[i], job[j].used}) >= claim[i] /\ Max({claim[i], job[j].used}) >= job[j].used
        <4> TAKE i \in Identities
        <4>1. claim[i] \in 0 .. FreeLimit /\ job[j].used \in 0 .. FreeLimit
          BY <1>t DEF LifeJobs
        <4>2. /\ Max({claim[i], job[j].used}) \in {claim[i], job[j].used}
              /\ Max({claim[i], job[j].used}) >= claim[i] /\ Max({claim[i], job[j].used}) >= job[j].used
          BY <4>1, <1>t, MaxOfTwo
        <4> QED BY <4>1, <4>2
      <3>2. \A i \in Identities : claim[i] \in 0 .. FreeLimit /\ claim[i] >= claim[i]
        BY <1>t
      <3> QED BY <2>1, <3>1, <3>2 DEF Claimed
    <2>4. /\ session' \in [Sessions -> SessionRows]
          /\ \A s \in Sessions : /\ session'[s].at = (IF s \in live THEN "gone" ELSE session[s].at)
                                 /\ session'[s].meta => session[s].meta /\ s \notin job[j].listed
      BY <1>t, <2>1 DEF SessionRows
    <2>5. RequestsHaveSubjects'
      BY <1>t, <1>1, <2>4, SubjectsStay
    <2>6. NoDeviceIsRemembered' /\ late' \subseteq Sessions
      <3>1. late' \subseteq Sessions
        BY <1>0, <2>1
      <3> QED BY <1>0, <2>1, <2>4, <3>1 DEF NoDeviceIsRemembered
    <2>7. \A s \in Sessions : session[s].at = "gone" => session'[s].at = "gone"
      BY <2>4
    <2> HIDE DEF live
    <2>8. LifeTypeOK'
      BY <1>0, <1>t, <1>1, <2>2, <2>3, <2>4, <2>6 DEF LifeTypeOK, UserRows, LifeJobs, SessionRows
    <2>9. PhonesAreUnique'
      BY <1>0, <2>2 DEF PhonesAreUnique
    <2>10. SpendingIsClaimed'
      <3>1. ASSUME NEW q \in Phones, \A v \in Rows : row'[v].phone # q
            PROVE  spent[q] <= claim'[q] + slipped[q]
        <4>1. claim'[q] \in Nat /\ claim'[q] >= claim[q] /\ (q = job[j].phone => claim'[q] >= job[j].used)
          BY <1>t, <2>3
        <4>2. CASE \A v \in Rows : row[v].phone # q
          <5>1. spent[q] <= claim[q] + slipped[q]
            BY <1>0, <4>2 DEF SpendingIsClaimed
          <5> QED BY <1>t, <4>1, <5>1
        <4>3. CASE \E v \in Rows : row[v].phone = q
          <5>1. row[u].phone = q
            BY <2>2, <3>1, <4>3
          <5>2. q # NoPhone
            BY <1>t
          <5>3. \/ spent[q] <= claim[q] + slipped[q]
                \/ job[j].phone = q /\ spent[q] <= job[j].used + slipped[q]
            BY <1>0, <1>1, <5>1, <5>2 DEF DeletionsClaim, JobAt
          <5> QED BY <1>t, <4>1, <5>3
        <4> QED BY <4>2, <4>3
      <3>2. \A v \in Rows : row'[v].phone # NoPhone =>
                spent[row'[v].phone] <= row'[v].used + slipped[row'[v].phone]
        BY <1>0, <2>2 DEF SpendingIsClaimed
      <3> QED BY <1>1, <3>1, <3>2 DEF SpendingIsClaimed
    <2>11. DeletionsClaim'
      <3> SUFFICES ASSUME NEW k \in Jobs, job'[k].at = "recorded", row'[job'[k].row].phone # NoPhone
                   PROVE  LET q == row'[job'[k].row].phone IN
                            \/ spent[q] <= claim'[q] + slipped[q]
                            \/ job'[k].phone = q /\ spent[q] <= job'[k].used + slipped[q]
        BY <1>1 DEF DeletionsClaim, JobAt
      <3>1. job'[k] = job[k]
        BY <1>t, <1>1
      <3>2. job[k].row \in Rows
        BY <1>0, <3>1 DEF RequestsHaveSubjects
      <3>3. row'[job[k].row] = row[job[k].row]
        BY <2>2, <3>1, <3>2
      <3> DEFINE q == row[job[k].row].phone
      <3>4. q \in Phones
        BY <1>t, <3>1, <3>2, <3>3 DEF UserRows
      <3>5. \/ spent[q] <= claim[q] + slipped[q]
            \/ job[k].phone = q /\ spent[q] <= job[k].used + slipped[q]
        BY <1>0, <3>1, <3>3 DEF DeletionsClaim, JobAt
      <3>6. claim'[q] \in Nat /\ claim'[q] >= claim[q] /\ claim[q] \in Nat /\ spent[q] \in Nat /\ slipped[q] \in Nat
        BY <1>t, <2>3, <3>4
      <3> HIDE DEF q
      <3>7. \/ spent[q] <= claim'[q] + slipped[q]
            \/ job[k].phone = q /\ spent[q] <= job[k].used + slipped[q]
        BY <3>5, <3>6
      <3> QED BY <3>1, <3>3, <3>7 DEF q
    <2> QED BY <2>2, <2>5, <2>6, <2>7, <2>8, <2>9, <2>10, <2>11 DEF LifeInv
  <1>3. CASE ~row[u].alive
    <2>1. UNCHANGED <<row, claim, session, late>>
      BY <1>3 DEF DeleteAccount
    <2>2. RequestsHaveSubjects' /\ NoDeviceIsRemembered'
      BY <1>0, <1>t, <1>1, <2>1, SubjectsStay DEF NoDeviceIsRemembered
    <2> QED BY <1>0, <1>t, <1>1, <2>1, <2>2, RequestKeeps
  <1> QED BY <1>2, <1>3

\* What outlives an account and what must not: nobody sends more under one phone in a
\* month than the plan allows, however often they delete their account and sign up
\* again, but for what slips in between a deletion's look and its end; a session that
\* is over leaves no device behind; a verified phone stays, and no session comes back.
THEOREM AccountsHold == LifeSpec => AccountsAreSound
  <1>1. LifeInit => LifeInv
    BY LifeStarts
  <1>2. LifeInv /\ [LifeNext]_lifeVars => LifeInv'
    <2> SUFFICES ASSUME LifeInv, LifeNext \/ UNCHANGED lifeVars PROVE LifeInv'
      BY DEF lifeVars
    <2>1. CASE LifeNext
      BY <2>1, SessionsKeep, AskingKeeps, ReadUsedKeeps, AttachKeeps, SendKeeps, DeletionKeeps DEF LifeNext
    <2>2. CASE UNCHANGED lifeVars
      BY <2>2 DEF lifeVars, LifeInv, LifeTypeOK, RequestsHaveSubjects, PhonesAreUnique,
                  SpendingIsClaimed, DeletionsClaim, NoDeviceIsRemembered, JobAt
    <2> QED BY <2>1, <2>2
  <1>3. LifeInv => LifeTypeOK /\ AllowanceSurvivesDeletion /\ NoDeviceIsRemembered
    <2> SUFFICES ASSUME LifeInv PROVE AllowanceSurvivesDeletion
      BY DEF LifeInv
    <2>0. LifeTypeOK /\ SpendingIsClaimed
      BY DEF LifeInv
    <2>t. /\ row \in [Rows -> UserRows] /\ claim \in [Identities -> 0 .. FreeLimit] /\ FreeLimit \in Nat
          /\ NoPhone \notin Phones
          /\ \A q \in Phones : q \in Identities /\ claim[q] \in Nat /\ spent[q] \in Nat /\ slipped[q] \in Nat
      BY <2>0, LifeTypes
    <2> SUFFICES ASSUME NEW p \in Phones PROVE spent[p] <= FreeLimit + slipped[p]
      BY DEF AllowanceSurvivesDeletion
    <2>1. CASE \A u \in Rows : row[u].phone # p
      <3>1. spent[p] <= claim[p] + slipped[p] /\ claim[p] \in 0 .. FreeLimit
        BY <2>0, <2>t, <2>1 DEF SpendingIsClaimed
      <3> QED BY <2>t, <3>1
    <2>2. ASSUME NEW u \in Rows, row[u].phone = p PROVE spent[p] <= FreeLimit + slipped[p]
      <3>1. spent[p] <= row[u].used + slipped[p] /\ row[u].used \in 0 .. FreeLimit
        BY <2>0, <2>t, <2>2 DEF SpendingIsClaimed, UserRows
      <3> QED BY <2>t, <3>1
    <2> QED BY <2>1, <2>2
  <1>4. LifeInv /\ [LifeNext]_lifeVars =>
            [\A u \in Rows : HasVerifiedPhone(u) /\ row'[u].alive => row'[u].phone = row[u].phone]_lifeVars
    <2> SUFFICES ASSUME LifeInv, LifeNext, NEW u \in Rows, HasVerifiedPhone(u), row'[u].alive
                 PROVE  row'[u].phone = row[u].phone
      OBVIOUS
    <2>1. CASE row' = row
      BY <2>1
    <2>2. CASE row' # row
      <3>1. \/ \E v \in Rows : SendDM(v)
            \/ \E j \in Jobs : Attach(j) \/ DeleteAccount(j)
        BY <2>2 DEF LifeNext, CreateSession, CreateMeta, Bearer, Refresh, SessionAges, Logout, DeleteMeta,
                    DeleteSession, VerifyPhone, ListSessions, ReadUsed, JobDies
      <3> QED BY <3>1, SendKeeps, AttachKeeps, DeletionKeeps DEF HasVerifiedPhone
    <2> QED BY <2>1, <2>2
  <1>5. LifeInv /\ [LifeNext]_lifeVars =>
            [\A s \in Sessions : session[s].at = "gone" => session'[s].at = "gone"]_lifeVars
    <2> SUFFICES ASSUME LifeInv, LifeNext, NEW s \in Sessions, session[s].at = "gone"
                 PROVE  session'[s].at = "gone"
      OBVIOUS
    <2>0. session \in [Sessions -> SessionRows]
      BY LifeTypes DEF LifeInv
    <2>1. CASE session' = session
      BY <2>1
    <2>2. ASSUME NEW r \in Sessions, SessionAges(r) PROVE session'[s].at = "gone"
      BY <2>0, <2>2 DEF SessionAges, SessionRows
    <2>3. ASSUME NEW j \in Jobs, NEW v \in Rows, NEW r \in Sessions, CreateSession(j, v, r)
          PROVE  session'[s].at = "gone"
      BY <2>0, <2>3 DEF CreateSession, SessionRows
    <2>4. ASSUME NEW j \in Jobs, CreateMeta(j) \/ Refresh(j) \/ DeleteMeta(j) \/ DeleteSession(j)
          PROVE  session'[s].at = "gone"
      BY <2>0, <2>4 DEF CreateMeta, Refresh, DeleteMeta, DeleteSession, SessionRows
    <2>5. ASSUME NEW j \in Jobs, DeleteAccount(j) PROVE session'[s].at = "gone"
      BY <2>5, DeletionKeeps
    <2>6. CASE session' # session
      BY <2>2, <2>3, <2>4, <2>5, <2>6 DEF LifeNext, Bearer, Logout, VerifyPhone, ListSessions, Attach,
                                          ReadUsed, JobDies, SendDM
    <2> QED BY <2>1, <2>6
  <1> QED BY <1>1, <1>2, <1>3, <1>4, <1>5, PTL
         DEF LifeSpec, AccountsAreSound, PhonesAreFixed, RevokedSessionsStayDead

-----------------------------------------------------------------------------
(* Provisioning: the invariant                                             *)

UserRecords  == [address : Addresses \cup {NoAddress}, known : BOOLEAN, alive : BOOLEAN,
                 web : BOOLEAN, knew : SUBSET UserIds]
SpaceRecords == [owner : 0 .. MaxUsers, knew : SUBSET WorkspaceIds]
SignInStates == [at : {"idle", "exact", "mailbox", "create", "canonical", "link", "look", "workspace"},
                 web : BOOLEAN, address : Addresses \cup {NoAddress},
                 sub : Subs \cup {"none"}, user : 0 .. MaxUsers,
                 knew : SUBSET (UserIds \cup WorkspaceIds)]

\* A sign-in x among the users us and the workspaces ws: whom it signs in as has a
\* row; who has no address came with a provider account, which will be linked; whom
\* it knew when it found nobody has another mailbox; the workspaces that were there
\* when it found none of its user's are other people's.
SignInFits(x, us, ws) ==
    /\ x.at \in {"canonical", "link", "look", "workspace"} => x.user \in DOMAIN us
    /\ x.at = "link" => x.sub \in Subs
    /\ x.at \in {"exact", "mailbox"} => x.address # NoAddress /\ x.knew = {}
    /\ x.at \in {"exact", "mailbox", "create"} /\ x.web => x.sub = "none"
    /\ x.at = "create" /\ x.address = NoAddress => x.sub \in Subs
    /\ x.at = "create" => \A i \in x.knew :
          i \in DOMAIN us /\ MailboxOf[us[i].address] # MailboxOf[x.address]
    /\ x.at = "workspace" => \A v \in x.knew : v \in DOMAIN ws /\ ws[v].owner # x.user

\* The users a user's sign-in knew, and the workspaces a workspace's request did, are
\* of other mailboxes and other people.
UsersKnewOthers(us) ==
    \A j \in DOMAIN us : \A i \in us[j].knew :
        i \in DOMAIN us /\ MailboxOf[us[i].address] # MailboxOf[us[j].address]
SpacesKnewOthers(ws) ==
    \A w \in DOMAIN ws : \A v \in ws[w].knew :
        v \in DOMAIN ws /\ (ws[w].owner # 0 => ws[v].owner # ws[w].owner)

ProvisionInv ==
    /\ ProvisionTypeOK
    /\ \A s \in Subs : link[s] # 0 => link[s] \in DOMAIN user
    /\ \A p \in SignIns : SignInFits(signin[p], user, workspace)
    /\ UsersKnewOthers(user) /\ SpacesKnewOthers(workspace)
    /\ UnreachableUsersAreExplained


-----------------------------------------------------------------------------
(* Provisioning: the proof                                                 *)

\* The types, for the provers.
LEMMA ProvisionTypes ==
    ASSUME ProvisionTypeOK
    PROVE  /\ Len(user) \in Nat /\ DOMAIN user = 1 .. Len(user) /\ DOMAIN user \subseteq UserIds
           /\ \A i \in DOMAIN user : i \in Nat /\ i # 0 /\ i \in 0 .. MaxUsers
           /\ user \in Seq(UserRecords) /\ \A i \in DOMAIN user : user[i] \in UserRecords
           /\ Len(workspace) \in Nat /\ DOMAIN workspace = 1 .. Len(workspace)
           /\ DOMAIN workspace \subseteq WorkspaceIds
           /\ workspace \in Seq(SpaceRecords) /\ \A w \in DOMAIN workspace : workspace[w] \in SpaceRecords
           /\ signin \in [SignIns -> SignInStates] /\ NoSignIn \in SignInStates
           /\ link \in [Subs -> 0 .. MaxUsers]
           /\ MaxUsers \in Nat /\ MaxWorkspaces \in Nat
  <1> USE ProvisioningAssumption
  <1>1. /\ user \in Seq(UserRecords) /\ workspace \in Seq(SpaceRecords)
        /\ signin \in [SignIns -> SignInStates] /\ link \in [Subs -> 0 .. MaxUsers]
        /\ Len(user) <= MaxUsers /\ Len(workspace) <= MaxWorkspaces
    BY DEF ProvisionTypeOK, UserRecords, SpaceRecords, SignInStates
  <1>2. /\ Len(user) \in Nat /\ DOMAIN user = 1 .. Len(user) /\ \A i \in DOMAIN user : user[i] \in UserRecords
        /\ Len(workspace) \in Nat /\ DOMAIN workspace = 1 .. Len(workspace)
        /\ \A w \in DOMAIN workspace : workspace[w] \in SpaceRecords
    BY <1>1
  <1>3. /\ DOMAIN user \subseteq UserIds /\ DOMAIN workspace \subseteq WorkspaceIds
        /\ \A i \in DOMAIN user : i \in Nat /\ i # 0 /\ i \in 0 .. MaxUsers
    BY <1>1, <1>2 DEF UserIds, WorkspaceIds
  <1>4. NoSignIn \in SignInStates
    <2>1. 0 \in 0 .. MaxUsers
      OBVIOUS
    <2> QED BY <2>1 DEF NoSignIn, SignInStates
  <1> QED BY <1>1, <1>2, <1>3, <1>4

\* It holds at the beginning.
LEMMA ProvisionStarts == ProvisionInit => ProvisionInv
  <1> SUFFICES ASSUME ProvisionInit PROVE ProvisionInv
    OBVIOUS
  <1> USE ProvisioningAssumption DEF ProvisionInit
  <1>0. 0 \in 0 .. MaxUsers /\ DOMAIN user = {} /\ DOMAIN workspace = {} /\ Len(user) = 0 /\ Len(workspace) = 0
    OBVIOUS
  <1>1. ProvisionTypeOK
    <2>1. user \in Seq(UserRecords) /\ workspace \in Seq(SpaceRecords)
      OBVIOUS
    <2>2. signin \in [SignIns -> SignInStates] /\ link \in [Subs -> 0 .. MaxUsers]
      BY <1>0 DEF SignInStates, NoSignIn
    <2> QED BY <1>0, <2>1, <2>2 DEF ProvisionTypeOK, UserRecords, SpaceRecords, SignInStates
  <1>2. \A p \in SignIns : SignInFits(signin[p], user, workspace)
    BY DEF SignInFits, NoSignIn
  <1>3. UsersKnewOthers(user) /\ SpacesKnewOthers(workspace) /\ UnreachableUsersAreExplained
    BY <1>0 DEF UsersKnewOthers, SpacesKnewOthers, UnreachableUsersAreExplained, Alive
  <1> QED BY <1>1, <1>2, <1>3 DEF ProvisionInv

\* A sign-in keeps fitting while users are added and workspaces lose their owners.
LEMMA StillFits ==
    ASSUME NEW x, NEW us, NEW ws, NEW us2, NEW ws2, SignInFits(x, us, ws),
           0 \notin DOMAIN us, DOMAIN us \subseteq DOMAIN us2,
           \A i \in DOMAIN us : us2[i].address = us[i].address,
           DOMAIN ws \subseteq DOMAIN ws2,
           \A w \in DOMAIN ws : ws2[w].owner \in {0, ws[w].owner}
    PROVE  SignInFits(x, us2, ws2)
  BY DEF SignInFits

\* A step of one sign-in that touches no row, and that accounts for a provider account
\* it will not link.
LEMMA SignInKeeps ==
    ASSUME ProvisionInv, NEW p \in SignIns, NEW x \in SignInStates,
           signin' = [signin EXCEPT ![p] = x], SignInFits(x, user, workspace),
           UNCHANGED <<user, link, workspace>>,
           stranded \subseteq stranded', stranded' \subseteq UserIds,
           signin[p].at = "link" => signin[p].user \in stranded'
    PROVE  ProvisionInv'
  <1>t. signin \in [SignIns -> SignInStates]
    BY ProvisionTypes DEF ProvisionInv
  <1>1. /\ signin'[p] = x /\ \A q \in SignIns \ {p} : signin'[q] = signin[q]
        /\ signin' \in [SignIns -> SignInStates]
    BY <1>t
  <1>2. ProvisionTypeOK'
    BY <1>1 DEF ProvisionInv, ProvisionTypeOK, SignInStates
  <1>3. \A q \in SignIns : SignInFits(signin'[q], user', workspace')
    BY <1>1 DEF ProvisionInv
  <1>4. UnreachableUsersAreExplained'
    BY <1>1 DEF ProvisionInv, UnreachableUsersAreExplained, Alive, SignInAt
  <1> QED BY <1>2, <1>3, <1>4 DEF ProvisionInv

\* On to the workspace, with the user and nothing else.
LEMMA LooksFits ==
    ASSUME ProvisionTypeOK, NEW p \in SignIns, NEW i, i \in 0 .. MaxUsers, NEW us, i \in DOMAIN us,
           Looks(p, i)
    PROVE  \E x \in SignInStates :
              /\ signin' = [signin EXCEPT ![p] = x] /\ SignInFits(x, us, workspace)
              /\ x.at = "look" /\ x.user = i
  <1> DEFINE x == [NoSignIn EXCEPT !.at = "look", !.user = i]
  <1>1. signin' = [signin EXCEPT ![p] = x]
    BY DEF Looks
  <1>2. x \in SignInStates /\ x.user = i /\ x.at = "look"
    BY ProvisionTypes DEF SignInStates, NoSignIn
  <1> HIDE DEF x
  <1>3. SignInFits(x, us, workspace)
    BY <1>2 DEF SignInFits
  <1> QED BY <1>1, <1>2, <1>3

\* Whoever was found or created, the sign-in goes on to the account or the workspace.
LEMMA ResolvedFits ==
    ASSUME ProvisionTypeOK, NEW p \in SignIns, NEW i, i \in 0 .. MaxUsers, NEW us, i \in DOMAIN us,
           Resolved(p, i)
    PROVE  \E x \in SignInStates :
              /\ signin' = [signin EXCEPT ![p] = x] /\ SignInFits(x, us, workspace)
              /\ signin[p].sub # "none" => x.at = "link" /\ x.user = i
  <1>1. CASE signin[p].sub = "none"
    BY <1>1, LooksFits DEF Resolved
  <1>2. CASE signin[p].sub # "none"
    <2> DEFINE x == [NoSignIn EXCEPT !.at = "link", !.sub = signin[p].sub, !.user = i]
    <2>1. signin' = [signin EXCEPT ![p] = x]
      BY <1>2 DEF Resolved
    <2>2. signin[p].sub \in Subs
      BY <1>2, ProvisionTypes DEF SignInStates
    <2>3. x \in SignInStates /\ x.user = i /\ x.sub = signin[p].sub /\ x.at = "link"
      BY <2>2, ProvisionTypes DEF SignInStates, NoSignIn
    <2> HIDE DEF x
    <2>4. SignInFits(x, us, workspace)
      BY <2>2, <2>3 DEF SignInFits
    <2> QED BY <2>1, <2>3, <2>4
  <1> QED BY <1>1, <1>2


\* The oldest of some users is one of them.
LEMMA OldestIsOne ==
    ASSUME ProvisionTypeOK, NEW S, S \subseteq DOMAIN user, S # {}
    PROVE  (CHOOSE i \in S : \A j \in S : i <= j) \in S
  <1>1. S \subseteq Nat
    BY ProvisionTypes
  <1>2. \E i \in S : \A j \in S : i <= j
    BY <1>1, LeastNatural
  <1> QED BY <1>2

\* The steps of a sign-in that write nothing.
LEMMA LookingKeeps ==
    ASSUME ProvisionInv, NEW p \in SignIns,
           \/ \E a \in Addresses, web \in BOOLEAN : SignInByEmail(p, a, web)
           \/ \E s \in Subs : SignInByAccount(p, s)
           \/ \E i \in UserIds : Request(p, i)
           \/ FindExact(p) \/ FindMailbox(p) \/ LookForWorkspace(p) \/ SignInDies(p)
    PROVE  ProvisionInv' /\ UNCHANGED link
  <1> USE ProvisioningAssumption
  <1>0. ProvisionTypeOK /\ SignInFits(signin[p], user, workspace) /\ stranded \subseteq UserIds
    BY DEF ProvisionInv, ProvisionTypeOK
  <1>t. /\ DOMAIN user \subseteq UserIds /\ signin \in [SignIns -> SignInStates] /\ NoSignIn \in SignInStates
        /\ \A i \in DOMAIN user : i \in 0 .. MaxUsers
        /\ DOMAIN workspace \subseteq WorkspaceIds /\ link \in [Subs -> 0 .. MaxUsers]
    BY <1>0, ProvisionTypes
  <1>s. signin[p] \in SignInStates
    BY <1>t
  \* The user found, or nobody, and nothing left to account for.
  <1>1. ASSUME NEW x \in SignInStates, signin' = [signin EXCEPT ![p] = x], SignInFits(x, user, workspace),
               signin[p].at # "link", UNCHANGED <<user, link, workspace, stranded>>
        PROVE  ProvisionInv' /\ UNCHANGED link
    BY <1>0, <1>1, SignInKeeps
  <1>2. SignInFits(NoSignIn, user, workspace)
    BY DEF SignInFits, NoSignIn
  \* On to the workspace.
  <1>a. ASSUME NEW i \in DOMAIN user, Looks(p, i), signin[p].at # "link",
               UNCHANGED <<user, link, workspace, stranded>>
        PROVE  ProvisionInv' /\ UNCHANGED link
    <2>1. PICK x \in SignInStates : signin' = [signin EXCEPT ![p] = x] /\ SignInFits(x, user, workspace)
      BY <1>0, <1>t, <1>a, LooksFits
    <2> QED BY <1>1, <1>a, <2>1
  <1>3. ASSUME NEW a \in Addresses, NEW web \in BOOLEAN, SignInByEmail(p, a, web)
        PROVE  ProvisionInv' /\ UNCHANGED link
    <2> DEFINE x == [NoSignIn EXCEPT !.at = "exact", !.address = a, !.web = web]
    <2>1. x \in SignInStates
      BY <1>t DEF SignInStates, NoSignIn
    <2>2. x.at = "exact" /\ x.address = a /\ x.sub = "none" /\ x.knew = {}
      BY DEF NoSignIn
    <2>3. /\ signin[p].at # "link" /\ signin' = [signin EXCEPT ![p] = x]
          /\ UNCHANGED <<user, link, workspace, stranded>>
      BY <1>3 DEF SignInByEmail, SignInAt
    <2> HIDE DEF x
    <2>4. SignInFits(x, user, workspace)
      BY <2>2 DEF SignInFits
    <2> QED BY <1>1, <2>1, <2>3, <2>4
  <1>4. ASSUME NEW s \in Subs, SignInByAccount(p, s) PROVE ProvisionInv' /\ UNCHANGED link
    <2>0. signin[p].at # "link" /\ UNCHANGED <<user, link, workspace, stranded>>
      BY <1>4 DEF SignInByAccount, SignInAt
    <2>1. CASE link[s] # 0
      <3>1. link[s] \in DOMAIN user /\ Looks(p, link[s])
        BY <1>4, <2>1 DEF ProvisionInv, SignInByAccount
      <3> QED BY <1>a, <2>0, <3>1
    <2>2. CASE link[s] = 0
      <3> DEFINE next == IF AddressOf[s] = NoAddress THEN "create" ELSE "exact"
                 x == [NoSignIn EXCEPT !.address = AddressOf[s], !.sub = s, !.at = next]
      <3>1. signin' = [signin EXCEPT ![p] = x]
        BY <1>4, <2>2 DEF SignInByAccount
      <3>2. next \in {"create", "exact"} /\ (next = "exact" => AddressOf[s] # NoAddress)
        OBVIOUS
      <3> HIDE DEF next
      <3>3. x \in SignInStates
        BY <1>t, <3>2 DEF SignInStates, NoSignIn
      <3>4. x.at = next /\ x.address = AddressOf[s] /\ x.sub = s /\ x.web = FALSE /\ x.knew = {}
        BY DEF NoSignIn
      <3> HIDE DEF x
      <3>5. SignInFits(x, user, workspace)
        BY <3>2, <3>4 DEF SignInFits
      <3> QED BY <1>1, <2>0, <3>1, <3>3, <3>5
    <2> QED BY <2>1, <2>2
  <1>5. ASSUME NEW i \in UserIds, Request(p, i) PROVE ProvisionInv' /\ UNCHANGED link
    <2>1. /\ signin[p].at # "link" /\ i \in DOMAIN user /\ Looks(p, i)
          /\ UNCHANGED <<user, link, workspace, stranded>>
      BY <1>5 DEF Request, SignInAt, Alive
    <2> QED BY <1>a, <2>1
  \* A step to another place, with what is known there.
  <1>6. ASSUME NEW i \in DOMAIN user, Resolved(p, i), signin[p].at # "link",
               UNCHANGED <<user, link, workspace, stranded>>
        PROVE  ProvisionInv' /\ UNCHANGED link
    <2>1. PICK x \in SignInStates : signin' = [signin EXCEPT ![p] = x] /\ SignInFits(x, user, workspace)
      BY <1>0, <1>t, <1>6, ResolvedFits
    <2> QED BY <1>1, <1>6, <2>1
  <1>7. CASE FindExact(p)
    <2>1. signin[p].at = "exact" /\ UNCHANGED <<user, link, workspace, stranded>>
      BY <1>7 DEF FindExact, SignInAt
    <2>2. CASE signin' = [signin EXCEPT ![p] = NoSignIn]
      BY <1>1, <1>2, <1>t, <2>1, <2>2
    <2>3. CASE \E i \in Alive : Resolved(p, i)
      BY <1>6, <2>1, <2>3 DEF Alive
    <2>4. ASSUME NEW to \in {"create", "mailbox"}, to = "create" <=> signin[p].web,
                 signin' = [signin EXCEPT ![p].at = to]
          PROVE  ProvisionInv' /\ UNCHANGED link
      <3> DEFINE x == [signin[p] EXCEPT !.at = to]
      <3>1. signin' = [signin EXCEPT ![p] = x]
        BY <2>4, <1>t
      <3>2. /\ x \in SignInStates /\ x.at = to /\ x.address = signin[p].address
            /\ x.web = signin[p].web /\ x.sub = signin[p].sub /\ x.knew = signin[p].knew
        BY <1>s DEF SignInStates
      <3> HIDE DEF x
      <3>3. SignInFits(x, user, workspace)
        BY <1>0, <2>1, <2>4, <3>2 DEF SignInFits
      <3> QED BY <1>1, <2>1, <3>1, <3>2, <3>3
    <2> QED BY <1>7, <2>2, <2>3, <2>4 DEF FindExact, Fails
  <1>8. CASE FindMailbox(p)
    <2> DEFINE found == Known(signin[p].address)
               knew == {i \in Alive : user[i].known}
    <2>1. signin[p].at = "mailbox" /\ UNCHANGED <<user, link, workspace, stranded>>
      BY <1>8 DEF FindMailbox, SignInAt
    <2>2. CASE found # {}
      <3>1. found \subseteq DOMAIN user
        BY DEF Known, Alive
      <3> DEFINE oldest == CHOOSE i \in found : \A j \in found : i <= j
      <3>2. Resolved(p, oldest)
        BY <1>8, <2>2 DEF FindMailbox
      <3> HIDE DEF found
      <3>3. oldest \in found
        BY <1>0, <2>2, <3>1, OldestIsOne
      <3> HIDE DEF oldest
      <3> QED BY <1>6, <2>1, <3>1, <3>2, <3>3
    <2>3. CASE found = {}
      <3> DEFINE x == [signin[p] EXCEPT !.at = "create", !.knew = knew]
      <3>1. signin' = [signin EXCEPT ![p] = x]
        BY <1>8, <1>t, <2>3 DEF FindMailbox
      <3>2. knew \subseteq DOMAIN user /\ \A i \in knew : MailboxOf[user[i].address] # MailboxOf[signin[p].address]
        BY <2>3 DEF Known, Alive
      <3>3. knew \in SUBSET (UserIds \cup WorkspaceIds)
        BY <3>2, <1>t
      <3> HIDE DEF knew
      <3>4. /\ x \in SignInStates /\ x.at = "create" /\ x.address = signin[p].address
            /\ x.web = signin[p].web /\ x.sub = signin[p].sub /\ x.knew = knew
        BY <1>s, <3>3 DEF SignInStates
      <3> HIDE DEF x
      <3>5. SignInFits(x, user, workspace)
        BY <1>0, <2>1, <3>2, <3>4 DEF SignInFits
      <3> QED BY <1>1, <2>1, <3>1, <3>4, <3>5
    <2> QED BY <2>2, <2>3
  <1>9. CASE LookForWorkspace(p)
    <2>1. signin[p].at = "look" /\ UNCHANGED <<user, link, workspace, stranded>>
      BY <1>9 DEF LookForWorkspace, SignInAt
    <2>2. CASE signin' = [signin EXCEPT ![p] = NoSignIn]
      BY <1>1, <1>2, <1>t, <2>1, <2>2
    <2>3. CASE Owned(signin[p].user) = {}
      <3> DEFINE x == [signin[p] EXCEPT !.at = "workspace", !.knew = DOMAIN workspace]
      <3>1. signin' = [signin EXCEPT ![p] = x]
        BY <1>9, <1>t, <2>3 DEF LookForWorkspace
      <3>2. \A v \in DOMAIN workspace : workspace[v].owner # signin[p].user
        BY <2>3 DEF Owned
      <3>3. DOMAIN workspace \in SUBSET (UserIds \cup WorkspaceIds)
        BY <1>t
      <3>4. /\ x \in SignInStates /\ x.at = "workspace" /\ x.user = signin[p].user
            /\ x.knew = DOMAIN workspace
        BY <1>s, <3>3 DEF SignInStates
      <3> HIDE DEF x
      <3>5. SignInFits(x, user, workspace)
        BY <1>0, <2>1, <3>2, <3>4 DEF SignInFits
      <3> QED BY <1>1, <2>1, <3>1, <3>4, <3>5
    <2> QED BY <1>9, <2>2, <2>3 DEF LookForWorkspace, Fails
  <1>10. CASE SignInDies(p)
    <2>1. /\ signin' = [signin EXCEPT ![p] = NoSignIn] /\ UNCHANGED <<user, link, workspace>>
          /\ stranded' = IF signin[p].at = "link" THEN stranded \cup {signin[p].user} ELSE stranded
      BY <1>10 DEF SignInDies, Fails, SignInAt
    <2>2. signin[p].at = "link" => signin[p].user \in UserIds
      BY <1>0, <1>t DEF SignInFits
    <2>3. /\ stranded \subseteq stranded' /\ stranded' \subseteq UserIds
          /\ signin[p].at = "link" => signin[p].user \in stranded'
      BY <1>0, <2>1, <2>2
    <2> QED BY <1>2, <1>t, <2>1, <2>3, SignInKeeps
  <1> QED BY <1>3, <1>4, <1>5, <1>7, <1>8, <1>9, <1>10

\* A new user knew people of other mailboxes; without an address it is on its way to a
\* provider account.
LEMMA CreateUserKeeps ==
    ASSUME ProvisionInv, NEW p \in SignIns, CreateUser(p)
    PROVE  ProvisionInv' /\ UNCHANGED link
  <1> USE ProvisioningAssumption
  <1>0. /\ ProvisionTypeOK /\ SignInFits(signin[p], user, workspace)
        /\ UsersKnewOthers(user) /\ SpacesKnewOthers(workspace) /\ UnreachableUsersAreExplained
    BY DEF ProvisionInv
  <1>t. /\ Len(user) \in Nat /\ DOMAIN user = 1 .. Len(user) /\ DOMAIN user \subseteq UserIds
        /\ \A i \in DOMAIN user : i \in Nat /\ i # 0 /\ i \in 0 .. MaxUsers
        /\ user \in Seq(UserRecords) /\ \A i \in DOMAIN user : user[i] \in UserRecords
        /\ signin \in [SignIns -> SignInStates] /\ NoSignIn \in SignInStates
        /\ link \in [Subs -> 0 .. MaxUsers] /\ MaxUsers \in Nat
    BY <1>0, ProvisionTypes
  <1>s. signin[p] \in SignInStates
    BY <1>t
  <1> DEFINE a == signin[p].address
             n == Len(user) + 1
             r == [address |-> a, known |-> a # NoAddress /\ ~signin[p].web,
                   alive |-> TRUE, web |-> signin[p].web, knew |-> signin[p].knew]
  <1>1. signin[p].at = "create" /\ UNCHANGED <<link, workspace, stranded>>
    BY DEF CreateUser, SignInAt
  <1>2. CASE Fails(p) /\ UNCHANGED user
    <2>1. SignInFits(NoSignIn, user, workspace)
      BY DEF SignInFits, NoSignIn
    <2>2. stranded \subseteq UserIds
      BY <1>0 DEF ProvisionTypeOK
    <2> QED BY <1>1, <1>2, <1>t, <2>1, <2>2, SignInKeeps DEF Fails
  <1>3. CASE /\ Len(user) < MaxUsers
             /\ user' = Append(user, r)
             /\ IF signin[p].web THEN signin' = [signin EXCEPT ![p].user = n, ![p].at = "canonical"]
                ELSE Resolved(p, n)
    <2>1. n \in 0 .. MaxUsers /\ n \in UserIds /\ n \notin DOMAIN user /\ n # 0
      BY <1>t, <1>3 DEF UserIds
    <2>2. r \in UserRecords
      <3>1. signin[p].knew \subseteq UserIds
        BY <1>0, <1>1, <1>t DEF SignInFits
      <3> QED BY <1>s, <3>1 DEF UserRecords, SignInStates
    <2>3. /\ user' \in Seq(UserRecords) /\ Len(user') = n /\ DOMAIN user' = DOMAIN user \cup {n}
          /\ user'[n] = r /\ \A i \in DOMAIN user : user'[i] = user[i]
      <3> HIDE DEF r
      <3> QED BY <1>3, <1>t, <2>2
    <2>4. r.address = a /\ r.alive /\ r.web = signin[p].web /\ r.knew = signin[p].knew
      OBVIOUS
    <2> HIDE DEF r, n, a
    <2>5. PICK x \in SignInStates :
             /\ signin' = [signin EXCEPT ![p] = x] /\ SignInFits(x, user', workspace)
             /\ a = NoAddress => x.at = "link" /\ x.user = n
      <3>1. CASE signin[p].web
        <4> DEFINE x == [signin[p] EXCEPT !.user = n, !.at = "canonical"]
        <4>1. x \in SignInStates /\ x.at = "canonical" /\ x.user = n
          BY <1>s, <2>1 DEF SignInStates
        <4>2. signin' = [signin EXCEPT ![p] = x]
          BY <1>3, <1>t, <3>1
        <4>3. a # NoAddress
          BY <1>0, <1>1, <3>1 DEF SignInFits, a
        <4> HIDE DEF x
        <4>4. SignInFits(x, user', workspace)
          BY <2>3, <4>1 DEF SignInFits
        <4> QED BY <4>1, <4>2, <4>3, <4>4
      <3>2. CASE ~signin[p].web
        <4>1. Resolved(p, n) /\ n \in DOMAIN user'
          BY <1>3, <2>3, <3>2
        <4>2. PICK x \in SignInStates :
                /\ signin' = [signin EXCEPT ![p] = x] /\ SignInFits(x, user', workspace)
                /\ signin[p].sub # "none" => x.at = "link" /\ x.user = n
          BY <1>0, <2>1, <4>1, ResolvedFits
        <4>3. a = NoAddress => signin[p].sub # "none"
          BY <1>0, <1>1 DEF SignInFits, a
        <4> QED BY <4>2, <4>3
      <3> QED BY <3>1, <3>2
    <2>6. /\ signin'[p] = x /\ \A q \in SignIns \ {p} : signin'[q] = signin[q]
          /\ signin' \in [SignIns -> SignInStates]
      BY <1>t, <2>5
    <2>7. ProvisionTypeOK'
      <3>1. \A s \in Subs : link'[s] # 0 => user'[link'[s]].alive
        BY <1>0, <1>1, <2>3 DEF ProvisionInv, ProvisionTypeOK
      <3>2. Len(user') <= MaxUsers
        BY <1>t, <1>3, <2>3 DEF n
      <3> QED BY <1>0, <1>1, <2>3, <2>6, <3>1, <3>2
           DEF ProvisionTypeOK, UserRecords, SpaceRecords, SignInStates
    <2>8. \A q \in SignIns : SignInFits(signin'[q], user', workspace')
      <3> SUFFICES ASSUME NEW q \in SignIns, q # p PROVE SignInFits(signin[q], user', workspace)
        BY <1>1, <2>5, <2>6
      <3>1. SignInFits(signin[q], user, workspace)
        BY DEF ProvisionInv
      <3> QED BY <1>t, <2>3, <3>1, StillFits
    <2>9. UsersKnewOthers(user')
      BY <1>0, <1>1, <2>3, <2>4, <1>t DEF UsersKnewOthers, SignInFits, a
    <2>10. UnreachableUsersAreExplained'
      <3> SUFFICES ASSUME NEW i \in DOMAIN user', user'[i].alive, user'[i].address = NoAddress,
                          \A s \in Subs : link[s] # i, i \notin stranded
                   PROVE  \E q \in SignIns : signin'[q].at = "link" /\ signin'[q].user = i
        BY <1>1 DEF UnreachableUsersAreExplained, Alive, SignInAt
      <3>1. CASE i = n
        BY <2>3, <2>4, <2>5, <2>6, <3>1
      <3>2. CASE i \in DOMAIN user
        <4>1. PICK q \in SignIns : signin[q].at = "link" /\ signin[q].user = i
          BY <1>0, <2>3, <3>2 DEF UnreachableUsersAreExplained, Alive, SignInAt
        <4> QED BY <1>1, <2>6, <4>1
      <3> QED BY <2>3, <3>1, <3>2
    <2>11. \A s \in Subs : link'[s] # 0 => link'[s] \in DOMAIN user'
      BY <1>1, <2>3 DEF ProvisionInv
    <2> QED BY <1>0, <1>1, <2>7, <2>8, <2>9, <2>10, <2>11 DEF ProvisionInv
  <1> QED BY <1>2, <1>3 DEF CreateUser

\* A step of one sign-in that changes users' flags, links and owners, and no address.
LEMMA RowsKeep ==
    ASSUME ProvisionInv, ProvisionTypeOK',
           DOMAIN user' = DOMAIN user,
           \A i \in DOMAIN user : /\ user'[i].address = user[i].address /\ user'[i].knew = user[i].knew
                                  /\ user'[i].alive => user[i].alive,
           DOMAIN workspace' = DOMAIN workspace,
           \A w \in DOMAIN workspace : /\ workspace'[w].owner \in {0, workspace[w].owner}
                                       /\ workspace'[w].knew = workspace[w].knew,
           \A s \in Subs : link'[s] # 0 => link'[s] \in DOMAIN user,
           \A q \in SignIns : signin'[q] = signin[q] \/ SignInFits(signin'[q], user, workspace),
           UnreachableUsersAreExplained'
    PROVE  ProvisionInv'
  <1>t. 0 \notin DOMAIN user /\ 0 \notin DOMAIN user'
    BY ProvisionTypes DEF ProvisionInv
  <1>1. \A q \in SignIns : SignInFits(signin'[q], user', workspace')
    <2> SUFFICES ASSUME NEW q \in SignIns PROVE SignInFits(signin'[q], user', workspace')
      OBVIOUS
    <2>1. SignInFits(signin'[q], user, workspace)
      BY DEF ProvisionInv
    <2> QED BY <1>t, <2>1, StillFits
  <1>2. UsersKnewOthers(user') /\ SpacesKnewOthers(workspace')
    BY DEF ProvisionInv, UsersKnewOthers, SpacesKnewOthers
  <1> QED BY <1>1, <1>2 DEF ProvisionInv


\* The mailbox of the web's user becomes known.
LEMMA SetCanonicalKeeps ==
    ASSUME ProvisionInv, NEW p \in SignIns, SetCanonical(p)
    PROVE  ProvisionInv' /\ UNCHANGED link
  <1>0. /\ ProvisionTypeOK /\ SignInFits(signin[p], user, workspace) /\ stranded \subseteq UserIds
        /\ UnreachableUsersAreExplained
    BY DEF ProvisionInv, ProvisionTypeOK
  <1>t. /\ DOMAIN user = 1 .. Len(user) /\ user \in Seq(UserRecords) /\ Len(user) \in Nat
        /\ \A i \in DOMAIN user : user[i] \in UserRecords /\ i \in 0 .. MaxUsers
        /\ signin \in [SignIns -> SignInStates] /\ NoSignIn \in SignInStates
    BY <1>0, ProvisionTypes
  <1>s. signin[p] \in SignInStates
    BY <1>t
  <1> DEFINE i == signin[p].user
  <1>1. /\ signin[p].at = "canonical" /\ UNCHANGED <<link, workspace, stranded>> /\ i \in DOMAIN user
    BY <1>0 DEF SetCanonical, SignInAt, SignInFits
  <1>2. CASE Fails(p) /\ UNCHANGED user
    <2>1. SignInFits(NoSignIn, user, workspace)
      BY DEF SignInFits, NoSignIn
    <2> QED BY <1>0, <1>1, <1>2, <1>t, <2>1, SignInKeeps DEF Fails
  <1>3. CASE /\ user' = [user EXCEPT ![i].known = TRUE]
             /\ Looks(p, i)
    <2> DEFINE r == [user[i] EXCEPT !.known = TRUE]
    <2>0. Looks(p, i)
      BY <1>3
    <2>x. PICK x \in SignInStates : /\ signin' = [signin EXCEPT ![p] = x] /\ x.at = "look" /\ x.user = i
                                  /\ SignInFits(x, user, workspace)
      <3> HIDE DEF i
      <3> QED BY <1>0, <1>1, <1>t, <2>0, LooksFits
    <2>1. user' = [user EXCEPT ![i] = r] /\ signin' = [signin EXCEPT ![p] = x]
      BY <1>1, <1>3, <1>t, <2>x
    <2>2. /\ r \in UserRecords /\ r.address = user[i].address /\ r.knew = user[i].knew
          /\ r.alive = user[i].alive
      BY <1>1, <1>t DEF UserRecords
    <2>3. x \in SignInStates /\ x.at = "look" /\ x.user = i
      BY <2>x
    <2> HIDE DEF r
    <2>4. /\ user' \in Seq(UserRecords) /\ Len(user') = Len(user) /\ DOMAIN user' = DOMAIN user
          /\ \A j \in DOMAIN user : user'[j] = IF j = i THEN r ELSE user[j]
      <3> HIDE DEF i
      <3> QED BY <1>1, <1>t, <2>1, <2>2
    <2>5. /\ signin' \in [SignIns -> SignInStates] /\ signin'[p] = x
          /\ \A q \in SignIns \ {p} : signin'[q] = signin[q]
      BY <1>t, <2>1, <2>3
    <2>6. \A j \in DOMAIN user : /\ user'[j].address = user[j].address /\ user'[j].knew = user[j].knew
                                 /\ user'[j].alive = user[j].alive
      BY <2>2, <2>4
    <2>7. ProvisionTypeOK'
      <3>1. \A s \in Subs : link'[s] # 0 => user'[link'[s]].alive
        BY <1>0, <1>1, <2>6 DEF ProvisionInv, ProvisionTypeOK
      <3> QED BY <1>0, <1>1, <2>4, <2>5, <3>1
           DEF ProvisionTypeOK, UserRecords, SpaceRecords, SignInStates
    <2>8. UnreachableUsersAreExplained'
      <3> SUFFICES ASSUME NEW j \in DOMAIN user, user[j].alive, user[j].address = NoAddress,
                          \A s \in Subs : link[s] # j, j \notin stranded
                   PROVE  \E q \in SignIns : signin'[q].at = "link" /\ signin'[q].user = j
        BY <1>1, <2>4, <2>6 DEF UnreachableUsersAreExplained, Alive, SignInAt
      <3>1. PICK q \in SignIns : signin[q].at = "link" /\ signin[q].user = j
        BY <1>0 DEF UnreachableUsersAreExplained, Alive, SignInAt
      <3> QED BY <1>1, <2>5, <3>1
    <2>9. \A q \in SignIns : signin'[q] = signin[q] \/ SignInFits(signin'[q], user, workspace)
      <3>1. SignInFits(x, user, workspace)
        BY <1>1, <2>3 DEF SignInFits
      <3> QED BY <2>5, <3>1
    <2>10. \A w \in DOMAIN workspace : workspace'[w].owner \in {0, workspace[w].owner}
      BY <1>1
    <2>11. \A s \in Subs : link'[s] # 0 => link'[s] \in DOMAIN user
      BY <1>1 DEF ProvisionInv
    <2> HIDE DEF i
    <2> QED BY <1>1, <2>4, <2>6, <2>7, <2>8, <2>9, <2>10, <2>11, RowsKeep
  <1> QED BY <1>2, <1>3 DEF SetCanonical

\* A link is made of an account nobody has, to somebody who is there; the sign-in that
\* could not make it leaves its user behind.
LEMMA LinkKeeps ==
    ASSUME ProvisionInv, NEW p \in SignIns, Link(p)
    PROVE  ProvisionInv' /\ \A s \in Subs : link[s] # 0 => link'[s] = link[s]
  <1> USE ProvisioningAssumption
  <1>0. /\ ProvisionTypeOK /\ SignInFits(signin[p], user, workspace) /\ stranded \subseteq UserIds
        /\ UnreachableUsersAreExplained
    BY DEF ProvisionInv, ProvisionTypeOK
  <1>t. /\ DOMAIN user \subseteq UserIds /\ \A i \in DOMAIN user : i # 0 /\ i \in 0 .. MaxUsers
        /\ signin \in [SignIns -> SignInStates] /\ NoSignIn \in SignInStates
        /\ link \in [Subs -> 0 .. MaxUsers]
    BY <1>0, ProvisionTypes
  <1>s. signin[p] \in SignInStates
    BY <1>t
  <1> DEFINE i == signin[p].user
             s == signin[p].sub
  <1>1. signin[p].at = "link" /\ UNCHANGED <<user, workspace>> /\ i \in DOMAIN user /\ s \in Subs
    BY <1>0 DEF Link, SignInAt, SignInFits
  <1>2. CASE Fails(p) /\ stranded' = stranded \cup {i} /\ UNCHANGED link
    <2>1. SignInFits(NoSignIn, user, workspace)
      BY DEF SignInFits, NoSignIn
    <2>2. stranded \subseteq stranded' /\ stranded' \subseteq UserIds /\ signin[p].user \in stranded'
      BY <1>0, <1>1, <1>2, <1>t
    <2> QED BY <1>1, <1>2, <1>t, <2>1, <2>2, SignInKeeps DEF Fails
  <1>3. CASE /\ user[i].alive /\ link[s] = 0
             /\ link' = [link EXCEPT ![s] = i]
             /\ Looks(p, i)
             /\ UNCHANGED stranded
    <2>x. PICK x \in SignInStates : /\ signin' = [signin EXCEPT ![p] = x] /\ x.at = "look" /\ x.user = i
                                  /\ SignInFits(x, user, workspace)
      <3> HIDE DEF i, s
      <3> QED BY <1>0, <1>1, <1>3, <1>t, LooksFits
    <2>1. signin' = [signin EXCEPT ![p] = x]
      BY <2>x
    <2>2. x \in SignInStates /\ x.at = "look" /\ x.user = i
      BY <2>x
    <2>3. /\ signin' \in [SignIns -> SignInStates] /\ signin'[p] = x
          /\ \A q \in SignIns \ {p} : signin'[q] = signin[q]
      BY <1>t, <2>1, <2>2
    <2>4. /\ link' \in [Subs -> 0 .. MaxUsers] /\ link'[s] = i
          /\ \A o \in Subs \ {s} : link'[o] = link[o]
      <3> HIDE DEF i, s
      <3> QED BY <1>1, <1>3, <1>t
    <2>5. ProvisionTypeOK'
      <3>1. \A o \in Subs : link'[o] # 0 => user'[link'[o]].alive
        BY <1>0, <1>1, <1>3, <2>4 DEF ProvisionTypeOK
      <3> QED BY <1>0, <1>1, <1>3, <2>3, <2>4, <3>1
           DEF ProvisionTypeOK, UserRecords, SpaceRecords, SignInStates
    <2>6. UnreachableUsersAreExplained'
      <3> SUFFICES ASSUME NEW j \in DOMAIN user, user[j].alive, user[j].address = NoAddress,
                          \A o \in Subs : link'[o] # j, j \notin stranded
                   PROVE  \E q \in SignIns : signin'[q].at = "link" /\ signin'[q].user = j
        BY <1>1, <1>3 DEF UnreachableUsersAreExplained, Alive, SignInAt
      <3>1. j # i /\ j # 0 /\ \A o \in Subs : link[o] # j
        BY <1>1, <1>3, <1>t, <2>4
      <3>2. PICK q \in SignIns : signin[q].at = "link" /\ signin[q].user = j
        BY <1>0, <3>1 DEF UnreachableUsersAreExplained, Alive, SignInAt
      <3> QED BY <2>3, <3>1, <3>2
    <2>7. \A q \in SignIns : signin'[q] = signin[q] \/ SignInFits(signin'[q], user, workspace)
      <3>1. SignInFits(x, user, workspace)
        BY <1>1, <2>2 DEF SignInFits
      <3> QED BY <2>3, <3>1
    <2>8. /\ \A o \in Subs : link'[o] # 0 => link'[o] \in DOMAIN user
          /\ \A o \in Subs : link[o] # 0 => link'[o] = link[o]
      BY <1>1, <1>3, <2>4 DEF ProvisionInv
    <2>9. /\ DOMAIN user' = DOMAIN user /\ DOMAIN workspace' = DOMAIN workspace
          /\ \A j \in DOMAIN user : /\ user'[j].address = user[j].address /\ user'[j].knew = user[j].knew
                                    /\ user'[j].alive => user[j].alive
          /\ \A w \in DOMAIN workspace : /\ workspace'[w].owner \in {0, workspace[w].owner}
                                         /\ workspace'[w].knew = workspace[w].knew
      BY <1>1
    <2> HIDE DEF i, s
    <2> QED BY <2>5, <2>6, <2>7, <2>8, <2>9, RowsKeep
  <1> QED BY <1>2, <1>3 DEF Link

\* A workspace is made by a request that had found none of its user's.
LEMMA CreateWorkspaceKeeps ==
    ASSUME ProvisionInv, NEW p \in SignIns, CreateWorkspace(p)
    PROVE  ProvisionInv' /\ UNCHANGED link
  <1> USE ProvisioningAssumption
  <1>0. /\ ProvisionTypeOK /\ SignInFits(signin[p], user, workspace) /\ stranded \subseteq UserIds
        /\ UsersKnewOthers(user) /\ SpacesKnewOthers(workspace) /\ UnreachableUsersAreExplained
    BY DEF ProvisionInv, ProvisionTypeOK
  <1>t. /\ Len(workspace) \in Nat /\ DOMAIN workspace = 1 .. Len(workspace)
        /\ DOMAIN workspace \subseteq WorkspaceIds
        /\ workspace \in Seq(SpaceRecords) /\ \A w \in DOMAIN workspace : workspace[w] \in SpaceRecords
        /\ \A i \in DOMAIN user : i # 0 /\ i \in 0 .. MaxUsers
        /\ signin \in [SignIns -> SignInStates] /\ NoSignIn \in SignInStates
        /\ link \in [Subs -> 0 .. MaxUsers] /\ MaxWorkspaces \in Nat
    BY <1>0, ProvisionTypes
  <1>s. signin[p] \in SignInStates
    BY <1>t
  <1> DEFINE i == signin[p].user
             n == Len(workspace) + 1
             r == [owner |-> i, knew |-> signin[p].knew]
  <1>1. /\ signin[p].at = "workspace" /\ UNCHANGED <<user, link, stranded>> /\ i \in DOMAIN user
        /\ signin' = [signin EXCEPT ![p] = NoSignIn]
    BY <1>0 DEF CreateWorkspace, SignInAt, SignInFits, Fails
  <1>2. CASE UNCHANGED workspace
    <2>1. SignInFits(NoSignIn, user, workspace)
      BY DEF SignInFits, NoSignIn
    <2> QED BY <1>0, <1>1, <1>2, <1>t, <2>1, SignInKeeps
  <1>3. CASE Len(workspace) < MaxWorkspaces /\ workspace' = Append(workspace, r)
    <2>1. \A v \in signin[p].knew : v \in DOMAIN workspace /\ workspace[v].owner # i
      BY <1>0, <1>1 DEF SignInFits
    <2>2. r \in SpaceRecords
      <3>1. signin[p].knew \subseteq WorkspaceIds
        BY <2>1, <1>t
      <3> QED BY <1>1, <1>t, <3>1 DEF SpaceRecords
    <2>3. r.owner = i /\ r.knew = signin[p].knew
      OBVIOUS
    <2>4. /\ workspace' \in Seq(SpaceRecords) /\ Len(workspace') = n
          /\ DOMAIN workspace' = DOMAIN workspace \cup {n}
          /\ workspace'[n] = r /\ \A w \in DOMAIN workspace : workspace'[w] = workspace[w]
          /\ n \notin DOMAIN workspace /\ n <= MaxWorkspaces
      <3> HIDE DEF r
      <3> QED BY <1>3, <1>t, <2>2
    <2> HIDE DEF r, n, i
    <2>5. /\ signin' \in [SignIns -> SignInStates] /\ signin'[p] = NoSignIn
          /\ \A q \in SignIns \ {p} : signin'[q] = signin[q]
      BY <1>1, <1>t
    <2>6. ProvisionTypeOK'
      BY <1>0, <1>1, <2>4, <2>5 DEF ProvisionTypeOK, UserRecords, SpaceRecords, SignInStates
    <2>7. \A q \in SignIns : SignInFits(signin'[q], user', workspace')
      <3> SUFFICES ASSUME NEW q \in SignIns PROVE SignInFits(signin'[q], user, workspace')
        BY <1>1
      <3>1. CASE q = p
        BY <2>5, <3>1 DEF SignInFits, NoSignIn
      <3>2. CASE q # p
        <4>1. SignInFits(signin[q], user, workspace)
          BY DEF ProvisionInv
        <4>2. SignInFits(signin[q], user, workspace')
          BY <1>t, <2>4, <4>1, StillFits
        <4> QED BY <2>5, <3>2, <4>2
      <3> QED BY <3>1, <3>2
    <2>8. SpacesKnewOthers(workspace')
      BY <1>0, <2>1, <2>3, <2>4 DEF SpacesKnewOthers
    <2>9. UnreachableUsersAreExplained'
      BY <1>0, <1>1, <2>5 DEF UnreachableUsersAreExplained, Alive, SignInAt
    <2>10. UsersKnewOthers(user') /\ \A s \in Subs : link'[s] # 0 => link'[s] \in DOMAIN user'
      BY <1>0, <1>1 DEF ProvisionInv
    <2> QED BY <1>1, <2>6, <2>7, <2>8, <2>9, <2>10 DEF ProvisionInv
  <1> QED BY <1>2, <1>3 DEF CreateWorkspace

\* A deleted account takes its links and its workspaces with it.
LEMMA DeleteUserKeeps ==
    ASSUME ProvisionInv, NEW i \in UserIds, DeleteUser(i)
    PROVE  /\ ProvisionInv'
           /\ \A s \in Subs : link[s] # 0 /\ link'[s] # link[s] => ~user'[link[s]].alive
  <1> USE ProvisioningAssumption
  <1>0. ProvisionTypeOK /\ UnreachableUsersAreExplained
    BY DEF ProvisionInv
  <1>t. /\ DOMAIN user = 1 .. Len(user) /\ user \in Seq(UserRecords) /\ Len(user) \in Nat
        /\ \A j \in DOMAIN user : user[j] \in UserRecords
        /\ DOMAIN workspace = 1 .. Len(workspace) /\ Len(workspace) \in Nat
        /\ workspace \in Seq(SpaceRecords)
        /\ \A w \in DOMAIN workspace : workspace[w] \in SpaceRecords
        /\ link \in [Subs -> 0 .. MaxUsers]
    BY <1>0, ProvisionTypes
  <1> DEFINE r == [user[i] EXCEPT !.alive = FALSE]
             freed(w) == [workspace[w] EXCEPT !.owner = 0]
  <1>1. /\ i \in DOMAIN user /\ user[i].alive /\ user' = [user EXCEPT ![i] = r]
        /\ link' = [s \in Subs |-> IF link[s] = i THEN 0 ELSE link[s]]
        /\ workspace' = [w \in DOMAIN workspace |->
                            IF workspace[w].owner = i THEN freed(w) ELSE workspace[w]]
        /\ UNCHANGED <<signin, stranded>>
    BY <1>t DEF DeleteUser, Alive
  <1>2. r \in UserRecords /\ r.address = user[i].address /\ r.knew = user[i].knew /\ r.alive = FALSE
    BY <1>1, <1>t DEF UserRecords
  <1>3. \A w \in DOMAIN workspace : /\ freed(w) \in SpaceRecords /\ freed(w).owner = 0
                                    /\ freed(w).knew = workspace[w].knew
    <2>1. 0 \in 0 .. MaxUsers
      OBVIOUS
    <2> QED BY <1>t, <2>1 DEF SpaceRecords
  <1> HIDE DEF r, freed
  <1>4. /\ user' \in Seq(UserRecords) /\ Len(user') = Len(user) /\ DOMAIN user' = DOMAIN user
        /\ \A j \in DOMAIN user : user'[j] = IF j = i THEN r ELSE user[j]
    BY <1>1, <1>2, <1>t
  <1>5. /\ DOMAIN workspace' = DOMAIN workspace
        /\ \A w \in DOMAIN workspace :
              workspace'[w] = IF workspace[w].owner = i THEN freed(w) ELSE workspace[w]
    BY <1>1
  <1>6. workspace' \in Seq(SpaceRecords) /\ Len(workspace') = Len(workspace)
    <2> DEFINE new(w) == IF workspace[w].owner = i THEN freed(w) ELSE workspace[w]
    <2>1. \A w \in 1 .. Len(workspace) : new(w) \in SpaceRecords
      BY <1>3, <1>t
    <2>2. workspace' = [w \in 1 .. Len(workspace) |-> new(w)]
      BY <1>1, <1>t
    <2> HIDE DEF new
    <2> QED BY <1>t, <2>1, <2>2
  <1>7. /\ \A s \in Subs : link'[s] = IF link[s] = i THEN 0 ELSE link[s]
        /\ link' \in [Subs -> 0 .. MaxUsers]
    BY <1>1, <1>t
  <1>8. ProvisionTypeOK'
    <2>1. \A s \in Subs : link'[s] # 0 => user'[link'[s]].alive
      BY <1>0, <1>4, <1>7 DEF ProvisionInv, ProvisionTypeOK
    <2> QED BY <1>0, <1>1, <1>4, <1>6, <1>7, <2>1
         DEF ProvisionTypeOK, UserRecords, SpaceRecords, SignInStates
  <1>9. UnreachableUsersAreExplained'
    <2> SUFFICES ASSUME NEW j \in DOMAIN user, user'[j].alive, user'[j].address = NoAddress,
                        \A s \in Subs : link'[s] # j, j \notin stranded
                 PROVE  \E q \in SignIns : signin[q].at = "link" /\ signin[q].user = j
      BY <1>1, <1>4 DEF UnreachableUsersAreExplained, Alive, SignInAt
    <2>1. j # i /\ user[j] = user'[j]
      BY <1>2, <1>4
    <2>2. \A s \in Subs : link[s] # j
      BY <1>7, <2>1
    <2> QED BY <1>0, <2>1, <2>2 DEF UnreachableUsersAreExplained, Alive, SignInAt
  <1>10. \A j \in DOMAIN user : /\ user'[j].address = user[j].address /\ user'[j].knew = user[j].knew
                                /\ user'[j].alive => user[j].alive
    BY <1>1, <1>2, <1>4
  <1>11. \A w \in DOMAIN workspace : /\ workspace'[w].owner \in {0, workspace[w].owner}
                                     /\ workspace'[w].knew = workspace[w].knew
    BY <1>3, <1>5
  <1>12. \A s \in Subs : link'[s] # 0 => link'[s] \in DOMAIN user
    BY <1>7 DEF ProvisionInv
  <1>13. \A s \in Subs : link[s] # 0 /\ link'[s] # link[s] => ~user'[link[s]].alive
    BY <1>1, <1>2, <1>4, <1>7
  <1>14. \A q \in SignIns : signin'[q] = signin[q]
    BY <1>1
  <1> QED BY <1>4, <1>5, <1>8, <1>9, <1>10, <1>11, <1>12, <1>13, <1>14, RowsKeep

\* Check-then-create of users, links and workspaces (lib/auth/provision.ts,
\* lib/workspace.ts): two users of one mailbox, and two workspaces of one user, come
\* only of sign-ins that could not have known of the first; a user nobody can reach was
\* left by a sign-in that ended before the link; a linked account stays linked.
THEOREM IdentitiesHold == ProvisionSpec => IdentitiesAreSound
  <1>1. ProvisionInit => ProvisionInv
    BY ProvisionStarts
  <1>2. ASSUME ProvisionInv, [ProvisionNext]_provisionVars
        PROVE  /\ ProvisionInv'
               /\ \A s \in Subs : link[s] # 0 /\ link'[s] # link[s] => ~user'[link[s]].alive
    <2>1. ASSUME NEW p \in SignIns,
                 \/ \E a \in Addresses, web \in BOOLEAN : SignInByEmail(p, a, web)
                 \/ \E s \in Subs : SignInByAccount(p, s)
                 \/ \E i \in UserIds : Request(p, i)
                 \/ FindExact(p) \/ FindMailbox(p) \/ LookForWorkspace(p) \/ SignInDies(p)
          PROVE  ProvisionInv' /\ UNCHANGED link
      BY <1>2, <2>1, LookingKeeps
    <2>2. ASSUME NEW p \in SignIns, CreateUser(p) \/ SetCanonical(p) \/ CreateWorkspace(p)
          PROVE  ProvisionInv' /\ UNCHANGED link
      BY <1>2, <2>2, CreateUserKeeps, SetCanonicalKeeps, CreateWorkspaceKeeps
    <2>3. ASSUME NEW p \in SignIns, Link(p)
          PROVE  ProvisionInv' /\ \A s \in Subs : link[s] # 0 => link'[s] = link[s]
      BY <1>2, <2>3, LinkKeeps
    <2>4. ASSUME NEW i \in UserIds, DeleteUser(i)
          PROVE  /\ ProvisionInv'
                 /\ \A s \in Subs : link[s] # 0 /\ link'[s] # link[s] => ~user'[link[s]].alive
      BY <1>2, <2>4, DeleteUserKeeps
    <2>5. CASE UNCHANGED provisionVars
      <3>1. UNCHANGED user /\ UNCHANGED link /\ UNCHANGED workspace /\ UNCHANGED signin /\ UNCHANGED stranded
        BY <2>5 DEF provisionVars
      <3>2. ProvisionTypeOK' /\ UnreachableUsersAreExplained'
        BY <1>2, <3>1 DEF ProvisionInv, ProvisionTypeOK, UnreachableUsersAreExplained, Alive, SignInAt
      <3> QED BY <1>2, <3>1, <3>2 DEF ProvisionInv
    <2> QED BY <1>2, <2>1, <2>2, <2>3, <2>4, <2>5 DEF ProvisionNext
  <1>3. ProvisionInv => /\ ProvisionTypeOK /\ TwinsAreExplained /\ OnlyRacesDuplicateWorkspaces
                        /\ UnreachableUsersAreExplained
    BY DEF ProvisionInv, TwinsAreExplained, OnlyRacesDuplicateWorkspaces, UsersKnewOthers, SpacesKnewOthers,
           Alive
  <1> QED BY <1>1, <1>2, <1>3, PTL DEF ProvisionSpec, IdentitiesAreSound, LinksAreStable

=============================================================================
