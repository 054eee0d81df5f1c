------------------------------- MODULE Registry ------------------------------
(***************************************************************************)
(* What the binder of CS454/A3 promises about its database                 *)
(* (submit/SystemManual.txt:15-35): which servers offer which function,    *)
(* and that a function is located at the server that has gone the longest  *)
(* without being chosen.                                                   *)
(***************************************************************************)
EXTENDS Naturals, Sequences, SequencesExt

CONSTANTS Servers, Functions

VARIABLES
    database,   \* the pairs <<function, server>> that are registered
    recency,    \* the servers that were ever chosen, the last one at the end
    lookups     \* how often a function was located

registryVars == <<database, recency, lookups>>

RegistryInit == database = {} /\ recency = << >> /\ lookups = 0

Offering(f) == {s \in Servers : <<f, s>> \in database}

Offer(f, s) == database' = database \union {<<f, s>>} /\ UNCHANGED <<recency, lookups>>

\* A server is forgotten with all its functions.
Withdraw(s) == database' = {d \in database : d[2] # s} /\ UNCHANGED <<recency, lookups>>

\* Servers never chosen come first, in any order; of the others the one that was
\* chosen before all others goes from its place to the end.
Locate(f, s) ==
    /\ s \in Offering(f)
    /\ \/ s \notin ToSet(recency) /\ recency' = Append(recency, s)
       \/ \E i \in DOMAIN recency :
             /\ recency[i] = s
             /\ Offering(f) \subseteq ToSet(recency)
             /\ \A j \in 1 .. i - 1 : recency[j] \notin Offering(f)
             /\ recency' = Append(RemoveAt(recency, i), s)
    /\ lookups' = lookups + 1
    /\ UNCHANGED database

RegistryNext ==
    \E s \in Servers : Withdraw(s) \/ \E f \in Functions : Offer(f, s) \/ Locate(f, s)

RegistrySpec == RegistryInit /\ [][RegistryNext]_registryVars
=============================================================================
