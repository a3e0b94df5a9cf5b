---------------------------- MODULE StaticInspector ----------------------------
(* The worker's queries about a saved build that need no combat calculation:   *)
(* private_inspection.StaticInspector.document and execute. A key stands for   *)
(* the digest of a document with the selector of the query, so a document that *)
(* is replaced has another key. Every stretch of code between two awaits is    *)
(* one action; the only await is the LuaJIT process that lists the document.   *)
EXTENDS Naturals, Sequences, FiniteSetsExt, Lists

CONSTANTS
    Keys, Sizes,        \* documents with a selector, sizes of encoded results
    CACHE_BYTES, CACHE_TTL, MaxTime

VARIABLES
    cache,        \* the OrderedDict: <<[key, deadline, size]>>, oldest use first
    cache_bytes,  \* the running total beside it
    running,      \* the key whose process holds the lock, if any
    process,      \* "none", "live", or "killed" but not yet reaped
    monotonic,    \* time.monotonic()
    replied       \* the reply of the latest query: [key, code]

staticVars == <<cache, cache_bytes, running, process, monotonic, replied>>

NoKey == [none |-> TRUE]
Entry == [key : Keys, deadline : 0..(MaxTime + CACHE_TTL), size : Sizes]
Codes == {"hit", "listed", "engine_busy", "engine_timeout", "engine_invalid_build"}

StaticTypeOK ==
    /\ cache \in Seq(Entry) /\ cache_bytes \in Nat
    /\ running \in Keys \cup {NoKey}
    /\ process \in {"none", "live", "killed"}
    /\ monotonic \in 0..MaxTime
    /\ replied \in [key : Keys \cup {NoKey}, code : Codes \cup {"none"}]

Bytes(entries) == Total(0, [i \in DOMAIN entries |-> entries[i].size])
Find(key) == {i \in DOMAIN cache : cache[i].key = key}
Fresh(key) == {i \in Find(key) : cache[i].deadline > monotonic}

Init ==
    /\ cache = <<>> /\ cache_bytes = 0
    /\ running = NoKey /\ process = "none"
    /\ monotonic = 0
    /\ replied = [key |-> NoKey, code |-> "none"]

Reply(key, code) == replied' = [key |-> key, code |-> code]

\* A hit takes no lock: it may overlap a running process, and moves the entry
\* to the end of the order.
Hit(key) ==
    \E i \in Fresh(key) :
        /\ cache' = Append(Picked(cache, DOMAIN cache \ {i}), cache[i])
        /\ Reply(key, "hit")
        /\ UNCHANGED <<cache_bytes, running, process, monotonic>>

\* A miss while a process runs is refused, whatever key that process is for.
Busy(key) ==
    /\ Fresh(key) = {} /\ running # NoKey
    /\ Reply(key, "engine_busy")
    /\ UNCHANGED <<cache, cache_bytes, running, process, monotonic>>

Live(e) == e.deadline > monotonic
Alive == {i \in DOMAIN cache : Live(cache[i])}

\* Mutant: what expired is still counted.
PurgedUncounted == cache' = Picked(cache, Alive) /\ cache_bytes' = cache_bytes

\* Expired entries go, wherever they stand in the order.
Purged ==
    /\ cache' = Picked(cache, Alive)
    /\ cache_bytes' = cache_bytes - Bytes(Picked(cache, DOMAIN cache \ Alive))

\* A miss takes the lock and purges; the document is decoded and its process
\* started, unless the document is invalid.
Miss(key) ==
    /\ Fresh(key) = {} /\ running = NoKey
    /\ Purged
    /\ \/ /\ running' = key /\ process' = "live"
          /\ UNCHANGED replied
       \/ /\ Reply(key, "engine_invalid_build")
          /\ UNCHANGED <<running, process>>
    /\ UNCHANGED monotonic

\* The numbers of oldest entries whose removal makes room for the new result.
Newest(n) == Picked(cache, n + 1 .. Len(cache))
Room(size) == {n \in 0..Len(cache) : Bytes(Newest(n)) + size <= CACHE_BYTES}

\* Mutant: the entries used last make room.
StoredNewestOut(key, size) ==
    IF size > CACHE_BYTES THEN UNCHANGED <<cache, cache_bytes>>
    ELSE LET kept == Picked(cache, 1 .. Len(cache) - Min(Room(size)))
         IN  /\ cache' = Append(kept, [key |-> key, deadline |-> monotonic + CACHE_TTL, size |-> size])
             /\ cache_bytes' = Bytes(kept) + size

\* A result larger than the whole cache is returned and not kept.
Stored(key, size) ==
    IF size > CACHE_BYTES THEN UNCHANGED <<cache, cache_bytes>>
    ELSE LET evicted == Min(Room(size))
         IN  /\ cache' = Append(Newest(evicted),
                                [key |-> key, deadline |-> monotonic + CACHE_TTL, size |-> size])
             /\ cache_bytes' = cache_bytes - Bytes(Picked(cache, 1 .. evicted)) + size

Released == running' = NoKey /\ process' = "none"

Listed ==
    /\ process = "live"
    /\ \E size \in Sizes : Stored(running, size)
    /\ Reply(running, "listed")
    /\ Released
    /\ UNCHANGED monotonic

\* The process fails, or its output is not a valid document.
Failed ==
    /\ process = "live"
    /\ Reply(running, "engine_invalid_build")
    /\ Released
    /\ UNCHANGED <<cache, cache_bytes, monotonic>>

\* 40 s passed: the process group is killed, the lock stays held.
TimedOut ==
    /\ process = "live"
    /\ process' = "killed"
    /\ UNCHANGED <<cache, cache_bytes, running, monotonic, replied>>

Reaped ==
    /\ process = "killed"
    /\ Reply(running, "engine_timeout")
    /\ Released
    /\ UNCHANGED <<cache, cache_bytes, monotonic>>

Tick ==
    /\ monotonic < MaxTime
    /\ monotonic' = monotonic + 1
    /\ UNCHANGED <<cache, cache_bytes, running, process, replied>>

Next ==
    \/ \E key \in Keys : Hit(key) \/ Busy(key) \/ Miss(key)
    \/ Listed \/ Failed \/ TimedOut \/ Reaped \/ Tick

Spec == Init /\ [][Next]_staticVars

-------------------------------------------------------------------------------
\* The running total is the size of what is kept, which stays within the
\* quota through hits that reorder, purges out of order and evictions; a key is
\* kept once, and nothing outlives its time to live.
CacheAccounted ==
    /\ cache_bytes = Bytes(cache)
    /\ cache_bytes <= CACHE_BYTES
    /\ \A i, j \in DOMAIN cache : cache[i].key = cache[j].key => i = j
    /\ \A i \in DOMAIN cache : cache[i].deadline <= monotonic + CACHE_TTL

\* A listing process exists only under the lock, a killed one until it is
\* reaped.
ProcessUnderLock == (process # "none") <=> (running # NoKey)

\* An entry that is in use is not evicted before one that was used longer ago:
\* whatever a step removes, unless it had expired, is older in the order of use
\* than everything the step leaves.
EvictsOldest ==
    LET Kept(e) == \E i \in DOMAIN cache' : cache'[i] = e
    IN  \A i, j \in DOMAIN cache :
            ~Kept(cache[i]) /\ Live(cache[i]) /\ Kept(cache[j]) => i < j
InspectorEvictsOldest == [][EvictsOldest]_staticVars

===============================================================================
