----------------------------- MODULE MCAccounts -----------------------------
(***************************************************************************)
(* The five modules about people and their accounts, checked in one run.   *)
(* They share no variable: the part that moves is chosen in the initial    *)
(* state and the others keep theirs, so that the state spaces add up       *)
(* instead of multiplying.                                                 *)
(***************************************************************************)
EXTENDS Membership, OneTimeCodes, AuthLimits, Provisioning, AccountLife, TLC

CONSTANTS u0, u1, u2, r1, r2, x1, x2,                 \* Membership
          email, ip, global, verify,               \* AuthLimits
          plain, alias, noAddress, google, apple,  \* Provisioning
          noPhone, session1                        \* AccountLife

VARIABLE part

MCUsers    == {u0, u1, u2}
MCRequests == {r1, r2}
MCAccounts == {x1, x2}

\* The limits are scaled down: email 5, ip 20, global 500 and verify 10.
MCLimitOf   == [k \in {email, ip, global, verify} |-> IF k = global THEN 3 ELSE 2]
MCEndpoints == {<<email, ip, global>>, <<email, global>>, <<verify>>, <<verify, ip>>}

\* Both addresses are of one mailbox; the Apple account shows no address.
MCMailboxOf == [d \in {plain, alias, noAddress} |-> IF d = noAddress THEN "no mailbox" ELSE "mailbox"]
MCAddressOf == [s \in {google, apple} |-> IF s = google THEN plain ELSE noAddress]

\* The symmetric values of one part serve the others: two people are two rows
\* with a mailbox each, two accounts two phones.
MCRows         == {u1, u2}
MCMailboxOfRow == [u \in MCRows |-> u]

Symmetry == Permutations(MCRows) \cup Permutations(MCRequests) \cup Permutations(MCAccounts)

AccountsInit ==
    /\ part \in {"membership", "codes", "limits", "provisioning", "life"}
    /\ Init /\ CodesInit /\ LimitsInit /\ ProvisionInit /\ LifeInit

AccountsNext ==
    /\ UNCHANGED part
    /\ \/ part = "membership" /\ Next
          /\ UNCHANGED <<codesVars, limitsVars, provisionVars, lifeVars>>
       \/ part = "codes" /\ CodesNext
          /\ UNCHANGED <<vars, limitsVars, provisionVars, lifeVars>>
       \/ part = "limits" /\ LimitsNext
          /\ UNCHANGED <<vars, codesVars, provisionVars, lifeVars>>
       \/ part = "provisioning" /\ ProvisionNext
          /\ UNCHANGED <<vars, codesVars, limitsVars, lifeVars>>
       \/ part = "life" /\ LifeNext
          /\ UNCHANGED <<vars, codesVars, limitsVars, provisionVars>>

AccountsSpec ==
    AccountsInit
    /\ [][AccountsNext]_<<part, vars, codesVars, limitsVars, provisionVars, lifeVars>>

=============================================================================
