------------------------------ MODULE ScoutCache ------------------------------
(* The price client of scout.py: a persistent snapshot cache (Cache), one lock *)
(* per key (Scout._cached), and the paced, retried requests that every load    *)
(* shares (Scout._request). A call is one _cached of one key: the catalogue    *)
(* that a category needs is a call of its own, made before it. clock and       *)
(* monotonic are one clock.                                                    *)
EXTENDS Naturals, FiniteSets, FiniteSetsExt

CONSTANTS
    ScoutCalls, ScoutKeys,
    Requests,                \* how many requests a complete load of a key takes
    ttl, stale_limit, interval,
    Backoffs, RetryAfters,   \* waits between attempts, and after a 429
    MaxRows, MaxScoutNow, None

VARIABLES
    cache,         \* when each key's snapshot was saved, or None
    call,          \* each call: [key, stale, step, old, left, attempt, wake]
    reply,         \* what the call returned: [delivery, age], or None
    next_request, cooldown,
    lastSent,      \* when the latest request was sent, or None
    late,          \* requests sent since the cooldown in force was set
    now

scoutVars == <<cache, call, reply, next_request, cooldown, lastSent, late, now>>

Idle == [step |-> "idle"]
Steps == {"lock", "rate", "pace", "sent", "backoff"}
Loads == [key : ScoutKeys, stale : BOOLEAN, step : Steps,
          old : Nat \cup {None}, left : Nat, attempt : 0..2, wake : Nat]
Replies == [delivery : {"cache", "network", "stale_cache", "error"}, age : Nat, asked : BOOLEAN]

ScoutTypeOK ==
    /\ cache \in [ScoutKeys -> Nat \cup {None}]
    /\ call \in [ScoutCalls -> {Idle} \cup Loads]
    /\ reply \in [ScoutCalls -> {None} \cup Replies]
    /\ next_request \in Nat /\ cooldown \in Nat
    /\ lastSent \in Nat \cup {None} /\ late \in Nat /\ now \in 0..MaxScoutNow

Init ==
    /\ cache \in [ScoutKeys -> {None, 0}]
    /\ Cardinality({k \in ScoutKeys : cache[k] # None}) <= MaxRows
    /\ call = [c \in ScoutCalls |-> Idle]
    /\ reply = [c \in ScoutCalls |-> None]
    /\ next_request = 0 /\ cooldown = 0
    /\ lastSent = None /\ late = 0 /\ now = 0

At(c, step) == call[c].step = step
Return(c, delivery, age) ==
    /\ reply' = [reply EXCEPT ![c] = [delivery |-> delivery, age |-> age, asked |-> call[c].stale]]
    /\ call' = [call EXCEPT ![c] = Idle]

-------------------------------------------------------------------------------
(* Scout._cached. *)

Ask(c, key, stale) ==
    /\ At(c, "idle") /\ reply[c] = None
    /\ call' = [call EXCEPT ![c] = [key |-> key, stale |-> stale, step |-> "lock",
                                    old |-> None, left |-> 0, attempt |-> 0, wake |-> 0]]
    /\ UNCHANGED <<cache, reply, next_request, cooldown, lastSent, late, now>>

Loading(key) == \E c \in ScoutCalls : call[c] # Idle /\ call[c].key = key /\ ~At(c, "lock")

\* The key's lock, then the snapshot: served while it is fresh, loaded otherwise.
Enter(c) ==
    /\ At(c, "lock") /\ ~Loading(call[c].key)
    /\ LET old == cache[call[c].key]
       IN  IF old # None /\ now - old <= ttl
           THEN Return(c, "cache", now - old)
           ELSE /\ call' = [call EXCEPT ![c].step = "rate", ![c].old = old,
                                        ![c].left = Requests[call[c].key]]
                /\ UNCHANGED reply
    /\ UNCHANGED <<cache, next_request, cooldown, lastSent, late, now>>

\* The newest MaxRows snapshots are kept; ties are broken either way.
Newest(saved, kept) ==
    LET rows == {k \in ScoutKeys : saved[k] # None}
    IN  /\ kept \subseteq rows
        /\ Cardinality(kept) = Min({MaxRows, Cardinality(rows)})
        /\ \A k \in kept, j \in rows \ kept : saved[j] <= saved[k]

Put(key) ==
    LET saved == [cache EXCEPT ![key] = now]
    IN  \E kept \in SUBSET ScoutKeys :
          /\ Newest(saved, kept)
          /\ cache' = [k \in ScoutKeys |-> IF k \in kept THEN saved[k] ELSE None]

\* Mutant: the age is the one measured before the load and its retries.
StaleServedEarly(c) ==
    /\ call[c].stale /\ call[c].old # None
    /\ now - call[c].old <= stale_limit + 1

\* A snapshot too old to be fresh may be asked for when the load fails.
StaleServed(c) ==
    /\ call[c].stale /\ call[c].old # None
    /\ now - call[c].old <= stale_limit

Fail(c, retryable) ==
    IF retryable /\ StaleServed(c) THEN Return(c, "stale_cache", now - call[c].old)
    ELSE Return(c, "error", 0)

-------------------------------------------------------------------------------
(* Scout._request. *)

Holder == {c \in ScoutCalls : At(c, "pace")}

\* The rate lock: a cooldown refuses the request, and otherwise its turn comes
\* when the interval since the request before has passed. The lock is held over
\* that wait.
Turn(c) ==
    /\ At(c, "rate") /\ Holder = {}
    /\ IF now < cooldown THEN Fail(c, TRUE)
       ELSE /\ call' = [call EXCEPT ![c].step = "pace", ![c].wake = Max({next_request, now})]
            /\ UNCHANGED reply
    /\ UNCHANGED <<cache, next_request, cooldown, lastSent, late, now>>

\* The wait is over: the request goes out without another look at the cooldown.
Send(c) ==
    /\ At(c, "pace") /\ now >= call[c].wake
    /\ next_request' = now + interval
    /\ call' = [call EXCEPT ![c].step = "sent"]
    /\ lastSent' = now
    /\ late' = IF now < cooldown THEN late + 1 ELSE late
    /\ UNCHANGED <<cache, reply, cooldown, now>>

\* A page of the load: the last one saves and returns the snapshot.
Answered(c) ==
    /\ At(c, "sent")
    /\ IF call[c].left > 1
       THEN /\ call' = [call EXCEPT ![c].step = "rate", ![c].left = @ - 1, ![c].attempt = 0]
            /\ UNCHANGED <<cache, reply>>
       ELSE Put(call[c].key) /\ Return(c, "network", 0)
    /\ UNCHANGED <<next_request, cooldown, lastSent, late, now>>

\* 429: Retry-After sets the cooldown of the process; no attempt follows.
RateLimited(c) ==
    /\ At(c, "sent")
    /\ \E wait \in RetryAfters : cooldown' = now + wait
    /\ late' = 0
    /\ Fail(c, TRUE)
    /\ UNCHANGED <<cache, next_request, lastSent, now>>

\* A lost connection or a 5xx: two more attempts, each after a longer wait.
Retried(c) ==
    /\ At(c, "sent")
    /\ IF call[c].attempt = 2 THEN Fail(c, TRUE)
       ELSE /\ \E wait \in Backoffs :
                 call' = [call EXCEPT ![c].step = "backoff", ![c].attempt = @ + 1,
                                      ![c].wake = now + wait]
            /\ UNCHANGED reply
    /\ UNCHANGED <<cache, next_request, cooldown, lastSent, late, now>>

\* Another status or schema, a page that contradicts the first, a duplicate.
Rejected(c) ==
    /\ At(c, "sent")
    /\ \E retryable \in BOOLEAN : Fail(c, retryable)
    /\ UNCHANGED <<cache, next_request, cooldown, lastSent, late, now>>

Wake(c) ==
    /\ At(c, "backoff") /\ now >= call[c].wake
    /\ call' = [call EXCEPT ![c].step = "rate"]
    /\ UNCHANGED <<cache, reply, next_request, cooldown, lastSent, late, now>>

Tick ==
    /\ now < MaxScoutNow
    /\ now' = now + 1
    /\ UNCHANGED <<cache, call, reply, next_request, cooldown, lastSent, late>>

Next ==
    \/ \E c \in ScoutCalls, key \in ScoutKeys, stale \in BOOLEAN : Ask(c, key, stale)
    \/ \E c \in ScoutCalls :
         \/ Enter(c) \/ Turn(c) \/ Send(c) \/ Answered(c)
         \/ RateLimited(c) \/ Retried(c) \/ Rejected(c) \/ Wake(c)
    \/ Tick

Spec == Init /\ [][Next]_scoutVars

-------------------------------------------------------------------------------
\* What is not marked stale is no older than its time to live; a stale snapshot
\* comes only to a caller who asked for one, and its age, measured after the
\* failing request and all its retries, is within the limit.
AgesKept ==
    \A c \in ScoutCalls : reply[c] # None =>
        /\ reply[c].delivery = "cache" => reply[c].age <= ttl
        /\ reply[c].delivery = "stale_cache" => reply[c].asked /\ reply[c].age <= stale_limit

\* A key is loaded by one call at a time, one request at a time waits for its
\* turn under the rate lock, and the rows are bounded.
OneLoader ==
    /\ \A c, d \in ScoutCalls :
         c # d /\ call[c] # Idle /\ call[d] # Idle /\ call[c].key = call[d].key
           => At(c, "lock") \/ At(d, "lock")
    /\ Cardinality(Holder) <= 1
    /\ Cardinality({k \in ScoutKeys : cache[k] # None}) <= MaxRows

\* Two requests are at least an interval apart, whichever calls they serve and
\* however their retries and pages interleave.
Spaced ==
    (\E c \in ScoutCalls : At(c, "pace") /\ call'[c].step = "sent") /\ lastSent # None
      => now >= lastSent + interval
ScoutSpaced == [][Spaced]_scoutVars

\* After a 429 at most one more request goes out before the cooldown ends: the
\* one that already slept under the rate lock.
AtMostOneLate == late <= 1

===============================================================================
