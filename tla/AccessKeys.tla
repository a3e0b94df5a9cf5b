------------------------------ MODULE AccessKeys ------------------------------
(* The origin's verifier of Access assertions: access.AccessVerifier and the   *)
(* answer CloudflareAccessMiddleware gives. The signing keys are fetched from  *)
(* the issuer, which rotates them; one lock serializes lookups and fetches.    *)
(* clock is monotonic. "keeps" is what the issuer publishes.                   *)
EXTENDS Naturals, FiniteSets

CONSTANTS Verifications, Kids, KeyLife, RetryFloor, FetchTime, MaxClock, None

VARIABLES
    verify,      \* each request in progress: [kid, step, genuine]
    answer,      \* the answer given in the latest step, if any
    keys, expires, retry_at,   \* the verifier's copy and its two deadlines
    fetched,     \* the fetch in progress: [begun, body], body None until served
    keeps,       \* the key identifiers the issuer publishes
    since, upto, \* when each identifier was last added, and last published
    lastFetch,   \* when the latest fetch began, or None
    failedAt,    \* when a fetch last failed, or None
    clock

accessVars == <<verify, answer, keys, expires, retry_at, fetched, keeps, since, upto, lastFetch, failedAt, clock>>

AccessTimes == 0..(MaxClock + KeyLife + RetryFloor)
Answers == [kid : Kids, genuine : BOOLEAN, outcome : {"accepted", "denied", "unavailable"}]

AccessTypeOK ==
    /\ verify \in [Verifications -> {None} \cup
         [kid : Kids, step : {"queued", "fetching"}, genuine : BOOLEAN]]
    /\ answer \in {None} \cup Answers
    /\ keys \subseteq Kids /\ expires \in AccessTimes /\ retry_at \in AccessTimes
    /\ fetched \in {None} \cup [begun : AccessTimes, body : {None} \cup SUBSET Kids]
    /\ keeps \subseteq Kids
    /\ since \in [Kids -> AccessTimes] /\ upto \in [Kids -> AccessTimes \cup {None}]
    /\ lastFetch \in AccessTimes \cup {None} /\ failedAt \in AccessTimes \cup {None}
    /\ clock \in 0..MaxClock

Init ==
    /\ verify = [v \in Verifications |-> None] /\ answer = None
    /\ keys = {} /\ expires = 0 /\ retry_at = 0 /\ fetched = None
    /\ keeps \in (SUBSET Kids) \ {{}}
    /\ since = [k \in Kids |-> 0]
    /\ upto = [k \in Kids |-> IF k \in keeps THEN 0 ELSE None]
    /\ lastFetch = None /\ failedAt = None /\ clock = 0

Step(v, s) == verify[v] # None /\ verify[v].step = s
Locked == \E v \in Verifications : Step(v, "fetching")
Conclude(v, outcome) ==
    /\ answer' = [kid |-> verify[v].kid, genuine |-> verify[v].genuine, outcome |-> outcome]
    /\ verify' = [verify EXCEPT ![v] = None]

\* The signature, audience, issuer and owner of the token decide once its key is known.
Checked(v) == IF verify[v].genuine THEN "accepted" ELSE "denied"

\* Exactly one assertion with an acceptable header; any other request is denied
\* without a lookup.
Request(v, kid, genuine) ==
    /\ answer' = None
    /\ verify[v] = None
    /\ verify' = [verify EXCEPT ![v] = [kid |-> kid, step |-> "queued", genuine |-> genuine]]
    /\ UNCHANGED <<keys, expires, retry_at, fetched, keeps, since, upto, lastFetch, failedAt, clock>>

Known(v) == clock < expires /\ verify[v].kid \in keys

\* Under the lock: a known key, or a refusal until the next fetch is allowed.
Lookup(v) ==
    /\ Step(v, "queued") /\ ~Locked
    /\ \/ Known(v) /\ Conclude(v, Checked(v))
       \/ /\ ~Known(v) /\ clock < retry_at
          /\ Conclude(v, IF clock >= expires THEN "unavailable" ELSE "denied")
    /\ UNCHANGED <<keys, expires, retry_at, fetched, keeps, since, upto, lastFetch, failedAt, clock>>

\* A fetch begins, and none may begin for the time of the floor, whatever
\* becomes of this one.
Fetch(v) ==
    /\ answer' = None
    /\ Step(v, "queued") /\ ~Locked /\ ~Known(v) /\ clock >= retry_at
    /\ verify' = [verify EXCEPT ![v].step = "fetching"]
    /\ retry_at' = clock + RetryFloor
    /\ fetched' = [begun |-> clock, body |-> None]
    /\ lastFetch' = clock
    /\ UNCHANGED <<keys, expires, keeps, since, upto, failedAt, clock>>

\* The issuer answers with what it publishes at that moment.
Served ==
    /\ answer' = None
    /\ fetched # None /\ fetched.body = None
    /\ fetched' = [fetched EXCEPT !.body = keeps]
    /\ UNCHANGED <<verify, keys, expires, retry_at, keeps, since, upto, lastFetch, failedAt, clock>>

\* Mutant: the time to live is counted from the end of the fetch.
ExpiryAfter(begun) == clock + KeyLife

\* The time to live is counted from before the fetch.
Expiry(begun) == begun + KeyLife

Received(v) ==
    /\ Step(v, "fetching") /\ fetched.body # None
    /\ keys' = fetched.body /\ expires' = Expiry(fetched.begun)
    /\ Conclude(v, IF verify[v].kid \in fetched.body THEN Checked(v) ELSE "denied")
    /\ fetched' = None
    /\ UNCHANGED <<retry_at, keeps, since, upto, lastFetch, failedAt, clock>>

\* A status, a size, an entry or a connection that fails leaves the old copy.
Failed(v) ==
    /\ Step(v, "fetching")
    /\ Conclude(v, "unavailable")
    /\ fetched' = None /\ failedAt' = clock
    /\ UNCHANGED <<keys, expires, retry_at, keeps, since, upto, lastFetch, clock>>

\* The request is cancelled while its fetch is under way.
Cancelled(v) ==
    /\ answer' = None
    /\ Step(v, "fetching")
    /\ verify' = [verify EXCEPT ![v] = None]
    /\ fetched' = None /\ failedAt' = clock
    /\ UNCHANGED <<keys, expires, retry_at, keeps, since, upto, lastFetch, clock>>

\* The issuer adds or withdraws a key.
Rotate(kid) ==
    /\ answer' = None
    /\ keeps # {kid}
    /\ keeps' = IF kid \in keeps THEN keeps \ {kid} ELSE keeps \cup {kid}
    /\ since' = [since EXCEPT ![kid] = IF kid \in keeps THEN @ ELSE clock]
    /\ upto' = [upto EXCEPT ![kid] = clock]
    /\ UNCHANGED <<verify, keys, expires, retry_at, fetched, lastFetch, failedAt, clock>>

\* The client's timeouts end a fetch well within the floor.
Tick ==
    /\ answer' = None
    /\ clock < MaxClock
    /\ fetched # None => clock < fetched.begun + FetchTime
    /\ clock' = clock + 1
    /\ upto' = [k \in Kids |-> IF k \in keeps THEN clock + 1 ELSE upto[k]]
    /\ UNCHANGED <<verify, keys, expires, retry_at, fetched, keeps, since, lastFetch, failedAt>>

Next ==
    \/ \E v \in Verifications, kid \in Kids, genuine \in BOOLEAN : Request(v, kid, genuine)
    \/ \E v \in Verifications : Lookup(v) \/ Fetch(v) \/ Received(v) \/ Failed(v) \/ Cancelled(v)
    \/ Served \/ Tick
    \/ \E kid \in Kids : Rotate(kid)

Spec == Init /\ [][Next]_accessVars

-------------------------------------------------------------------------------
\* A withdrawn key stops being accepted: an accepted assertion carries a key the
\* issuer published within the last KeyLife, however long its fetch took and
\* whatever fails afterwards.
AcceptedIsPublished ==
    answer # None /\ answer.outcome = "accepted" =>
        answer.genuine /\ upto[answer.kid] # None /\ clock < upto[answer.kid] + KeyLife

\* A flood of unknown identifiers, failing or cancelled fetches never brings two
\* fetches closer than the floor.
FetchesSpaced ==
    lastFetch # None /\ fetched' # None /\ (fetched = None \/ fetched'.begun # fetched.begun)
      => clock >= lastFetch + RetryFloor
AccessFetchesSpaced == [][FetchesSpaced]_accessVars

\* The same floor delays an honest owner no longer than it says: a genuine
\* assertion whose key has been published for RetryFloor is refused only when a
\* fetch has failed or was cancelled since.
RefusalEnds ==
    answer # None /\ answer.genuine /\ answer.kid \in keeps /\ answer.outcome # "accepted" =>
        \/ clock < since[answer.kid] + RetryFloor
        \/ failedAt # None /\ failedAt >= since[answer.kid]

===============================================================================
