------------------------------ MODULE MCServices ------------------------------
(* The services around the server side by side: the price client, the verifier *)
(* of Access assertions and the character provider. They share no state, so a  *)
(* behaviour follows one of them ("part") and the other two stand still.       *)
EXTENDS Naturals, FiniteSets, TLC

CONSTANTS
    v1, v2, d1, d2, b1, b2, b3, t1, t2,
    None,
    ScoutCalls, ScoutKeys, ttl, stale_limit, interval, Backoffs, RetryAfters, MaxRows, MaxScoutNow,
    Verifications, Kids, KeyLife, RetryFloor, FetchTime, MaxClock,
    Characters, Contents, Attached, BuildIds, Floor, Waits, MaxBuilds, MaxBytes, MaxNow

VARIABLES
    part,
    cache, call, reply, next_request, cooldown, lastSent, late, scoutNow,
    verify, answer, keys, expires, retry_at, fetched, keeps, since, upto, lastFetch, failedAt, clock,
    task, blocked, session, deadline, builds, index, asked, told, now

\* The directory has room for a build an older release left there.
ASSUME ProviderAssumption ==
    /\ Floor \in Nat /\ Waits \subseteq Nat /\ MaxNow \in Nat
    /\ MaxBuilds \in Nat \ {0} /\ MaxBytes \in Nat /\ MaxBytes >= 3
    /\ None \notin [content : Contents, current : BOOLEAN,
                    parts : SUBSET {"pob", "projection", "beasts", "origin"}]

\* A fetch gives up before the next one is allowed, and a copy of the keys lives
\* at least that long.
ASSUME AccessAssumption ==
    /\ KeyLife \in Nat /\ RetryFloor \in Nat /\ FetchTime \in Nat /\ MaxClock \in Nat
    /\ FetchTime < RetryFloor /\ RetryFloor <= KeyLife
    /\ None \notin Nat /\ \A published \in SUBSET Kids : published # None
    /\ None \notin [kid : Kids, step : {"queued", "fetching"}, genuine : BOOLEAN]
    /\ None \notin [kid : Kids, genuine : BOOLEAN, outcome : {"accepted", "denied", "unavailable"}]
    /\ None \notin [begun : Nat, body : {None} \cup SUBSET Kids]

ASSUME ScoutAssumption ==
    /\ ttl \in Nat /\ stale_limit \in Nat /\ interval \in Nat
    /\ Backoffs \subseteq Nat /\ RetryAfters \subseteq Nat
    /\ IsFiniteSet(ScoutKeys) /\ MaxRows \in Nat /\ MaxScoutNow \in Nat

\* A category's items take two pages.
Requests == [k \in ScoutKeys |-> IF k = t1 THEN 2 ELSE 1]

Scout == INSTANCE ScoutCache WITH now <- scoutNow
Access == INSTANCE AccessKeys
Provider == INSTANCE CharacterProvider

scoutVars == <<cache, call, reply, next_request, cooldown, lastSent, late, scoutNow>>
accessVars == <<verify, answer, keys, expires, retry_at, fetched, keeps, since, upto, lastFetch, failedAt, clock>>
providerVars == <<task, blocked, session, deadline, builds, index, asked, told, now>>
serviceVars == <<part, scoutVars, accessVars, providerVars>>

Init ==
    /\ part \in {"scout", "access", "provider"}
    /\ Scout!Init /\ Access!Init /\ Provider!Init
    /\ part # "scout" => cache = [k \in ScoutKeys |-> None]
    /\ part # "access" => keeps = Kids
    /\ part # "provider" => session = None /\ builds = [b \in BuildIds |-> None]

Next ==
    \/ part = "scout" /\ Scout!Next /\ UNCHANGED <<part, accessVars, providerVars>>
    \/ part = "access" /\ Access!Next /\ UNCHANGED <<part, scoutVars, providerVars>>
    \/ part = "provider" /\ Provider!Next /\ UNCHANGED <<part, scoutVars, accessVars>>

Spec == Init /\ [][Next]_serviceVars

Symmetry == Permutations(Kids) \cup Permutations(BuildIds)

-------------------------------------------------------------------------------
\* Scout._cached and _request: no price is served beyond its age, a key is loaded
\* by one call at a time and at most one request slips past a cooldown.
PricesSound == Scout!ScoutTypeOK /\ Scout!AgesKept /\ Scout!OneLoader /\ Scout!AtMostOneLate

\* AccessVerifier._key: a withdrawn key stops being accepted in time, and the
\* floor between fetches refuses an honest owner no longer than it says.
AssertionsSound == Access!AccessTypeOK /\ Access!AcceptedIsPublished /\ Access!RefusalEnds

\* Provider.store: a build somebody was told of stays whole and the directory
\* within its quota, through crashes between the writes of an import.
ImportsSound == Provider!ProviderTypeOK /\ Provider!ToldIsWhole /\ Provider!QuotaHolds

\* Each service keeps its distance to the server it asks: price requests, key
\* fetches and character refreshes, through retries, failures and restarts.
RequestsSpaced ==
    Scout!ScoutSpaced /\ Access!AccessFetchesSpaced /\ Provider!ProviderRefreshSpaced

===============================================================================
