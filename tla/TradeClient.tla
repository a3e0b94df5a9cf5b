------------------------------ MODULE TradeClient ------------------------------
(***************************************************************************)
(* The client of the official trade site: the gate that spaces its         *)
(* requests, the block it sets on itself, and the searches it retains.     *)
(*                                                                         *)
(* Callers share one asyncio process.  "queue" is the lock under which a   *)
(* request is delayed, sent and answered; "searching" the lock that a      *)
(* search holds from its look into the caches to its first page.  Both     *)
(* are first come, first served, and their head is the holder.             *)
(*                                                                         *)
(* What the site's catalogue says is left out, and its three parts are one: *)
(* "meta" tells whether the parts a call needs are at hand.                *)
(*                                                                         *)
(* Every instant the code keeps is held here as the time left until it, or *)
(* the age since it, so that a behaviour needs no last instant.            *)
(***************************************************************************)
EXTENDS Integers, Sequences, FiniteSets, SequencesExt, FiniteSetsExt

CONSTANTS
    Clients,       \* calls that can be under way at the same time
    Queries,       \* search requests: the keys of the query cache
    Listings,      \* listings a search may return
    SearchIds,
    None,
    Cap, Window,   \* the provider's limit: [Goal -> requests], [Goal -> seconds]
    Waits,         \* seconds the provider may tell the client to wait
    MaxWait,       \* 5 s: a longer delay is refused instead of waited for
    Interval,      \* 1 s between two requests
    BadWait,       \* 60 s after headers that cannot be read
    FailLife,      \* 60 s that a failed query is remembered
    FailLimit,     \* 2 failures of one query
    CacheLife,     \* 60 s that a search is reused
    RetainLife,    \* 600 s that a search is kept for paging
    MetaLife,      \* 6 h that the filter catalogue is kept
    MaxKept,       \* 64 searches, cached queries and failed queries
    GroupSize      \* 10 listings per fetch

\* What a request is for.  Each has a policy of its own at the provider.
Goal == {"data", "search", "fetch"}

ASSUME ConstantsAssumption ==
    /\ Cap \in [Goal -> Nat \ {0}] /\ Window \in [Goal -> Nat \ {0}]
    /\ Waits \subseteq Nat \ {0}
    /\ {Interval, MaxWait, BadWait, FailLife, FailLimit, CacheLife, RetainLife,
        MetaLife, MaxKept, GroupSize} \subseteq Nat \ {0}
    /\ IsFiniteSet(Listings)
    /\ CacheLife <= RetainLife

VARIABLES
    gate,       \* Gate: "until", "next" and "rules"
    blocked,    \* the host refused access: no request is sent any more
    meta,       \* time left to the catalogue, 0 if there is none
    searches,   \* retained searches, oldest first
    cache,      \* query_cache, in order of insertion
    failed,     \* failed_queries, in order of insertion
    queue,      \* callers holding or awaiting the request lock
    searching,  \* callers holding or awaiting the search lock
    task,       \* [Clients -> what the suspended call remembers, or None]
    load,       \* provider: the requests inside its windows
    streak      \* ghost: failures in a row of a query, how long they count, and
                \* whether an answer without the expected form was among them

vars == <<gate, blocked, meta, searches, cache, failed, queue, searching, task,
          load, streak>>

\* A listing is "found" once the site has described it, "gone" if it answered
\* without it, and "lost" if it did so after it had described it: the description
\* is kept then, the row is not.
Row       == {"missing", "found", "gone", "lost"}
Described == {"found", "lost"}
Search == [id : SearchIds, age : 0 .. RetainLife + 1,
           row : [Listings -> Row \cup {None}]]
Task   == [op : {"search", "page", "detail", "stats"}, query : Queries \cup {None},
           id : SearchIds \cup {None}, goal : Goal, todo : Seq(Listings),
           failures : Nat, phase : {"queued", "waiting", "asleep", "sent"},
           attempt : {0, 1}, wake : Nat]

ASSUME NoneAssumption == None \notin Task

Streak == [count : Nat, left : 0 .. FailLife, misfit : BOOLEAN]

TypeOK ==
    /\ gate \in [until : Nat, next : 0 .. Interval, rule : [Goal -> [used : Nat, reset : Nat]]]
    /\ blocked \in BOOLEAN
    /\ meta \in 0 .. MetaLife
    /\ searches \in Seq(Search) /\ Len(searches) <= MaxKept
    /\ cache \in Seq([query : Queries, id : SearchIds]) /\ Len(cache) <= MaxKept
    /\ failed \in Seq([query : Queries, count : Nat, left : 0 .. FailLife])
    /\ Len(failed) <= MaxKept
    /\ queue \in Seq(Clients) /\ searching \in Seq(Clients)
    /\ task \in [Clients -> Task \cup {None}]
    /\ load \subseteq [goal : Goal, left : Nat, seen : BOOLEAN]
    /\ streak \in [Queries -> Streak]

-----------------------------------------------------------------------------
(* The gate *)

NoRule == [used |-> 0, reset |-> 0]

Latest(S) == Max(S \cup {0})

\* Mutant: a policy allows one more.
DelayLate(g) ==
    Latest({g.until, g.next}
             \cup {g.rule[p].reset : p \in {p \in Goal : g.rule[p].used > Cap[p]}})

\* Gate.delay: a rule past its reset is dropped.
Delay(g) ==
    Latest({g.until, g.next}
             \cup {g.rule[p].reset : p \in {p \in Goal : g.rule[p].used >= Cap[p]}})

\* Gate.consume counts the request against every rule it knows.
Consumed(g) ==
    [g EXCEPT !.next = Interval,
              !.rule = [p \in Goal |-> IF g.rule[p].reset = 0 THEN NoRule
                                       ELSE [g.rule[p] EXCEPT !.used = @ + 1]]]

\* Requests for p that the provider still counts.
Counted(p) == {r \in load : r.goal = p}

Until(g, wait) == [g EXCEPT !.until = Latest({@, wait})]

\* The headers of an answer that can be read: the state of its policy, or not,
\* and the time of a block or of Retry-After, 0 without either.
Headers == [state : BOOLEAN, wait : Waits \cup {0}]

\* Gate.observe
Observed(g, p, h) ==
    Until(IF h.state THEN [g EXCEPT !.rule[p] = [used |-> Cardinality(Counted(p)),
                                                 reset |-> Window[p]]]
                     ELSE g, h.wait)

\* The provider's state has shown the requests of this policy to the client.
Shown(p, h) ==
    IF h.state
      THEN (load \ Counted(p)) \cup {[r EXCEPT !.seen = TRUE] : r \in Counted(p)}
      ELSE load

-----------------------------------------------------------------------------
(* The caches *)

Kept(s) == \E i \in DOMAIN searches : searches[i].id = s
Entry(s) == searches[CHOOSE i \in DOMAIN searches : searches[i].id = s]

\* An id no suspended call and no cache refers to.
Fresh == {s \in SearchIds : /\ ~Kept(s)
                            /\ \A c \in Clients : task[c] # None => task[c].id # s}

\* Reusable results of q: younger than a minute.
Reusable(q) ==
    {s \in SearchIds : /\ Kept(s) /\ Entry(s).age < CacheLife
                       /\ [query |-> q, id |-> s] \in ToSet(cache)}

\* Where an OrderedDict has the key q: one place at most.
At(dict, q) == {i \in DOMAIN dict : dict[i].query = q}

\* An OrderedDict keeps the place of a key it already has.
Put(dict, value) ==
    IF At(dict, value.query) = {} THEN Append(dict, value)
    ELSE [i \in DOMAIN dict |-> IF dict[i].query = value.query THEN value ELSE dict[i]]

\* Mutant: nothing is dropped.
Untrimmed(dict) == dict

Trim(dict) == IF Len(dict) > MaxKept THEN Tail(dict) ELSE dict

Without(s, places) == IF places = {} THEN s ELSE RemoveAt(s, CHOOSE i \in places : TRUE)

Drop(dict, q) == Without(dict, At(dict, q))

\* Failures of q that still count.
Failures(q) ==
    LET young == {i \in At(failed, q) : failed[i].left > 0}
    IN  IF young = {} THEN 0 ELSE failed[CHOOSE i \in young : TRUE].count

-----------------------------------------------------------------------------
(* The course of a call *)

NoStreak == [count |-> 0, left |-> 0, misfit |-> FALSE]

\* The failures in a row of q, one more of them now.
OneMore(q, misfit) ==
    [streak EXCEPT ![q] = [count |-> @.count + 1, left |-> FailLife,
                           misfit |-> @.misfit \/ misfit]]

\* A search that gets a TradeError is remembered as failed, and may displace the
\* oldest failure.  "sent" tells whether a request has been made for it.
Failed(t, sent) ==
    LET dict  == Put(failed, [query |-> t.query, count |-> t.failures + 1, left |-> FailLife])
        grown == IF sent THEN OneMore(t.query, FALSE) ELSE streak
    IN  /\ failed' = Trim(dict)
        /\ streak' = [q \in Queries |-> IF Len(dict) > MaxKept /\ q = Head(dict).query
                                         THEN NoStreak ELSE grown[q]]

Init ==
    /\ gate = [until |-> 0, next |-> 0, rule |-> [p \in Goal |-> NoRule]]
    /\ blocked = FALSE
    /\ meta = 0
    /\ searches = <<>> /\ cache = <<>> /\ failed = <<>>
    /\ queue = <<>> /\ searching = <<>>
    /\ task = [c \in Clients |-> None]
    /\ load = {}
    /\ streak = [q \in Queries |-> NoStreak]

NewTask(op, query, s) ==
    [op |-> op, query |-> query, id |-> s, goal |-> "data", todo |-> <<>>,
     failures |-> 0, phase |-> "queued", attempt |-> 0, wake |-> 0]

\* A caller leaves a lock it holds or waits for.
Leave(lock, c) == Without(lock, {i \in DOMAIN lock : lock[i] = c})

\* The call t of c asks for the request lock, after "others" have it or wait.
Ask(c, t, goal, todo, others) ==
    /\ task' = [task EXCEPT ![c] = [t EXCEPT !.goal = goal, !.todo = todo,
                                             !.phase = "waiting", !.attempt = 0, !.wake = 0]]
    /\ queue' = Append(others, c)
    /\ UNCHANGED searching

\* Mutant: the search lock is not released.
ReturnLocked(c, others) ==
    /\ task' = [task EXCEPT ![c] = None]
    /\ queue' = others
    /\ UNCHANGED searching

\* The call of c returns, and a search releases its lock.
Return(c, others) ==
    /\ task' = [task EXCEPT ![c] = None]
    /\ queue' = others
    /\ searching' = Leave(searching, c)

\* Listings of a search that no fetch has answered.
Missing(entry, ids) == SetToSeq({l \in ids : entry.row[l] = "missing"})

\* A page is cut from the retained rows alone if the host is blocked or wants
\* the client to wait; g is the gate as the call finds it.
Wait(g) == IF g.until > 0 \/ Delay(g) > MaxWait THEN Latest({g.until, Delay(g)}) ELSE 0

GivePage(c, t, entry, ids, g, cachedOnly, others) ==
    LET missing == Missing(entry, ids)
        wanted  == [t EXCEPT !.id = entry.id]
    IN  IF cachedOnly \/ blocked \/ Wait(g) > 0 \/ missing = <<>>
          THEN Return(c, others)
          ELSE Ask(c, wanted, "fetch", missing, others)

Ids(entry) == {l \in Listings : entry.row[l] # None}

\* query reads the catalogue, and does not take a league, filter or stat that is
\* not in it.
QueryStep(c, t, catalogue, others) ==
    \/ /\ Ask(c, t, IF catalogue = 0 THEN "data" ELSE "search", <<>>, others)
       /\ UNCHANGED <<failed, streak>>
    \/ /\ catalogue > 0
       /\ Return(c, others)
       /\ Failed(t, FALSE)

\* search: the caller queues for the search lock.
SearchCall(c, q) ==
    /\ task[c] = None
    /\ task' = [task EXCEPT ![c] = NewTask("search", q, None)]
    /\ searching' = Append(searching, c)
    /\ UNCHANGED <<gate, blocked, meta, searches, cache, failed, queue, load, streak>>

\* Mutant: whoever wants the search lock has it.
InLine(c) == c \in ToSet(searching)

\* c has the search lock.
Serves(c) == searching # <<>> /\ Head(searching) = c

\* _search up to its first request: a young result is reused, a query that
\* failed twice is refused, and query() reads the catalogue first.
SearchBegin(c) ==
    /\ Serves(c) /\ task[c].phase = "queued"
    /\ LET t == task[c]
           n == Failures(t.query)
       IN  IF Reusable(t.query) # {}
             THEN /\ \E s \in Reusable(t.query) :
                       GivePage(c, t, Entry(s), Ids(Entry(s)), gate, FALSE, queue)
                  /\ UNCHANGED <<failed, streak>>
             ELSE IF n >= FailLimit
             THEN Return(c, queue) /\ UNCHANGED <<failed, streak>>
             ELSE QueryStep(c, [t EXCEPT !.failures = n], meta, queue)
    /\ UNCHANGED <<gate, blocked, meta, searches, cache, load>>

\* page of a retained search.
PageCall(c, s, ids, cachedOnly) ==
    /\ task[c] = None
    /\ Kept(s) /\ Entry(s).age <= RetainLife /\ ids \subseteq Ids(Entry(s))
    /\ UNCHANGED <<gate, blocked, meta, searches, cache, failed, load, streak>>
    /\ GivePage(c, NewTask("page", None, s), Entry(s), ids, gate, cachedOnly, queue)

\* detail of one listing fetches whatever the gate says, then reads the catalogue.
DetailCall(c, s, l) ==
    /\ task[c] = None
    /\ Kept(s) /\ Entry(s).age <= RetainLife /\ l \in Ids(Entry(s))
    /\ UNCHANGED <<gate, blocked, meta, searches, cache, failed, load, streak>>
    /\ LET t == NewTask("detail", None, s)
       IN  CASE Entry(s).row[l] = "missing"       -> Ask(c, t, "fetch", <<l>>, queue)
             [] Entry(s).row[l] \in Described /\ meta = 0 -> Ask(c, t, "data", <<>>, queue)
             [] OTHER                             -> Return(c, queue)

\* search_stats, as far as it needs the site: the catalogue is not at hand.
StatsCall(c) ==
    /\ task[c] = None
    /\ meta = 0
    /\ Ask(c, NewTask("stats", None, None), "data", <<>>, queue)
    /\ UNCHANGED <<gate, blocked, meta, searches, cache, failed, load, streak>>

-----------------------------------------------------------------------------
(* One request *)

Holds(c) == queue # <<>> /\ Head(queue) = c

\* A TradeError leaves the call.
Raise(c, sent) ==
    /\ Return(c, Tail(queue))
    /\ IF task[c].op = "search" /\ task[c].goal # "fetch"
         THEN Failed(task[c], sent) ELSE UNCHANGED <<failed, streak>>
    /\ UNCHANGED <<meta, searches, cache>>

\* The caller sleeps until the gate opens, or gives up if that is too long.
Attempt(c, g, n) ==
    IF Delay(g) > MaxWait
      THEN Raise(c, n = 1)
      ELSE /\ task' = [task EXCEPT ![c].phase = "asleep", ![c].wake = Delay(g), ![c].attempt = n]
           /\ UNCHANGED <<queue, searching, failed, streak, meta, searches, cache>>

Admit(c) ==
    /\ Holds(c) /\ task[c].phase = "waiting"
    /\ IF blocked THEN Raise(c, FALSE) ELSE Attempt(c, gate, 0)
    /\ UNCHANGED <<gate, blocked, load>>

Send(c) ==
    /\ Holds(c) /\ task[c].phase = "asleep" /\ task[c].wake = 0
    /\ gate' = Consumed(gate)
    /\ task' = [task EXCEPT ![c].phase = "sent"]
    /\ load' = load \cup {[goal |-> task[c].goal, left |-> Window[task[c].goal], seen |-> FALSE]}
    /\ UNCHANGED <<blocked, meta, searches, cache, failed, queue, searching, streak>>

\* The headers of an answer, or of what there was of it.
Heard(c, h) ==
    /\ gate' = Observed(gate, task[c].goal, h)
    /\ load' = Shown(task[c].goal, h)

\* No answer, a broken one, or a 5xx: one more attempt, at once.
Unanswered(c, h) ==
    /\ Heard(c, h)
    /\ IF task[c].attempt = 0 THEN Attempt(c, gate', 1) ELSE Raise(c, TRUE)
    /\ UNCHANGED blocked

\* 401, 403, or a page for humans: the host is left alone from now on.
Refused(c, h) ==
    /\ Heard(c, h)
    /\ blocked' = TRUE
    /\ Raise(c, TRUE)

\* 429 waits a second at least, an error that says the same a minute.
Limited(c, h) ==
    /\ \E wait \in {1, BadWait} : gate' = Until(Observed(gate, task[c].goal, h), wait)
    /\ load' = Shown(task[c].goal, h)
    /\ Raise(c, TRUE)
    /\ UNCHANGED blocked

\* 400, another status, or a body that is no answer.
Faulty(c, h) ==
    /\ Heard(c, h)
    /\ Raise(c, TRUE)
    /\ UNCHANGED blocked

\* Rate headers that cannot be read end the request before its status is looked at.
Unreadable(c) ==
    /\ gate' = Until(gate, BadWait)
    /\ Raise(c, TRUE)
    /\ UNCHANGED <<blocked, load>>

\* A part of the catalogue arrives.  The call asks for the next one or goes on.
DataArrives(c, h) ==
    /\ task[c].goal = "data"
    /\ Heard(c, h)
    /\ \/ /\ task[c].op = "search"
          /\ Ask(c, task[c], "data", <<>>, Tail(queue))
          /\ UNCHANGED <<meta, failed, streak>>
       \/ /\ meta' = MetaLife
          /\ IF task[c].op = "search" THEN QueryStep(c, task[c], meta', Tail(queue))
               ELSE Return(c, Tail(queue)) /\ UNCHANGED <<failed, streak>>
    /\ UNCHANGED <<blocked, searches, cache>>

\* The result of a search is retained, remembered for its query, and paged.
Found(c, h, s, ids) ==
    /\ task[c].goal = "search"
    /\ Heard(c, h)
    /\ LET q == task[c].query
           entry == [id |-> s, age |-> 0,
                     row |-> [l \in Listings |-> IF l \in ids THEN "missing" ELSE None]]
       IN  /\ searches' = Trim(Append(searches, entry))
           /\ cache' = Trim(Put(cache, [query |-> q, id |-> s]))
           /\ failed' = Drop(failed, q)
           /\ streak' = [streak EXCEPT ![q] = NoStreak]
           /\ UNCHANGED <<blocked, meta>>
           /\ GivePage(c, task[c], entry, ids, gate', FALSE, Tail(queue))

\* The answer to a search does not have the expected form.  The failures of the
\* query are forgotten before that is noticed.
Misfit(c, h) ==
    /\ task[c].goal = "search"
    /\ Heard(c, h)
    /\ failed' = Drop(failed, task[c].query)
    /\ streak' = OneMore(task[c].query, TRUE)
    /\ Return(c, Tail(queue))
    /\ UNCHANGED <<blocked, meta, searches, cache>>

Group(todo) == {todo[i] : i \in {j \in DOMAIN todo : j <= GroupSize}}
Rest(todo)  == SubSeq(todo, GroupSize + 1, Len(todo))

\* Whether the listing a detail call asked for has a description, of this answer
\* or an earlier one.  What a search held that was dropped meanwhile is not known.
Describes(t, found) ==
    IF found # {} THEN {TRUE}
    ELSE IF Kept(t.id) THEN {\E l \in Group(t.todo) : Entry(t.id).row[l] \in Described}
    ELSE BOOLEAN

\* A group of listings is answered.  The answer stands for all of them, those that
\* another fetch found meanwhile too.
RowsArrive(c, h, found) ==
    /\ task[c].goal = "fetch"
    /\ Heard(c, h)
    /\ LET t == task[c]
           group == Group(t.todo)
           answered(e) == [e EXCEPT !.row = [l \in Listings |->
                             IF l \notin group THEN @[l]
                             ELSE IF l \in found THEN "found"
                             ELSE IF @[l] \in Described THEN "lost" ELSE "gone"]]
       IN  /\ searches' = [i \in DOMAIN searches |->
                             IF searches[i].id = t.id THEN answered(searches[i]) ELSE searches[i]]
           /\ IF Rest(t.todo) # <<>> THEN Ask(c, t, "fetch", Rest(t.todo), Tail(queue))
              ELSE \E described \in Describes(t, found) :
                     IF t.op = "detail" /\ described /\ meta = 0
                       THEN Ask(c, t, "data", <<>>, Tail(queue))
                       ELSE Return(c, Tail(queue))
    /\ UNCHANGED <<blocked, meta, cache, failed, streak>>

\* A call can be cancelled wherever it is suspended, and remembers nothing.
Cancel(c) ==
    /\ task[c] # None
    /\ Return(c, Leave(queue, c))
    /\ UNCHANGED <<gate, blocked, meta, searches, cache, failed, load, streak>>

-----------------------------------------------------------------------------

Less(n) == IF n = 0 THEN 0 ELSE n - 1

\* One second passes.
Tick ==
    /\ gate' = [until |-> Less(gate.until), next |-> Less(gate.next),
                rule |-> [p \in Goal |-> IF gate.rule[p].reset <= 1 THEN NoRule
                                         ELSE [gate.rule[p] EXCEPT !.reset = @ - 1]]]
    /\ meta' = Less(meta)
    /\ searches' = [i \in DOMAIN searches |->
                      [searches[i] EXCEPT !.age = IF @ > RetainLife THEN @ ELSE @ + 1]]
    /\ failed' = [i \in DOMAIN failed |-> [failed[i] EXCEPT !.left = Less(@)]]
    /\ task' = [c \in Clients |-> IF task[c] = None THEN None
                                  ELSE [task[c] EXCEPT !.wake = Less(@)]]
    /\ load' = {[r EXCEPT !.left = @ - 1] : r \in {r \in load : r.left > 1}}
    /\ streak' = [q \in Queries |-> IF streak[q].left <= 1 THEN NoStreak
                                     ELSE [streak[q] EXCEPT !.left = @ - 1]]
    /\ UNCHANGED <<blocked, cache, queue, searching>>

Answer(c) ==
    /\ Holds(c) /\ task[c].phase = "sent"
    /\ \/ Unreadable(c)
       \/ \E h \in Headers :
            \/ Unanswered(c, h) \/ Refused(c, h) \/ Limited(c, h) \/ Faulty(c, h)
            \/ DataArrives(c, h) \/ Misfit(c, h)
            \/ \E s \in Fresh, ids \in SUBSET Listings : Found(c, h, s, ids)
            \/ \E found \in SUBSET Group(task[c].todo) : RowsArrive(c, h, found)

Call(c) ==
    \/ \E q \in Queries : SearchCall(c, q)
    \/ \E s \in SearchIds, ids \in SUBSET Listings, cachedOnly \in BOOLEAN :
         PageCall(c, s, ids, cachedOnly)
    \/ \E s \in SearchIds, l \in Listings : DetailCall(c, s, l)
    \/ StatsCall(c)

Next ==
    \/ \E c \in Clients : Call(c) \/ SearchBegin(c) \/ Admit(c) \/ Send(c) \/ Answer(c) \/ Cancel(c)
    \/ Tick

Spec == Init /\ [][Next]_vars

-----------------------------------------------------------------------------
(* Safety *)

\* Nobody waits for a lock that is not about to be released: whoever holds the
\* request lock can ask, sleeps for a bounded time or awaits an answer; whoever
\* holds the search lock can begin or is on its way to a request; and everybody
\* in between has a call to return from.
LocksMove ==
    /\ IsInjective(queue) /\ IsInjective(searching)
    /\ \A c \in Clients :
         LET t == task[c]
         IN  /\ c \in ToSet(queue) <=> t # None /\ t.phase # "queued"
             /\ c \in ToSet(searching) <=> t # None /\ t.op = "search"
             /\ t # None /\ t.phase = "queued" => t.op = "search"
             /\ t # None /\ t.phase \in {"asleep", "sent"} => Holds(c) /\ t.wake <= MaxWait
             /\ t # None /\ t.op = "search" /\ t.phase # "queued" => c = Head(searching)

-----------------------------------------------------------------------------
(* What a step may never do *)

Sending(c) == task[c] # None /\ task[c].phase = "asleep" /\ task'[c] # None /\ task'[c].phase = "sent"

\* A caller that waited for its turn does not send once the site has refused
\* access or asked for a pause, however long before that it was admitted.
StopsWhenTold ==
    [][\A c \in Clients : Sending(c) => ~blocked /\ gate.until = 0]_vars

\* The client alone never exceeds what a policy allows in the provider's own
\* window, if it has seen the state of that policy since its latest requests.
AllowanceKept ==
    [][\A c \in Clients : Sending(c) =>
         LET p == task[c].goal
         IN  (\A r \in Counted(p) : r.seen) => Cardinality(Counted(p)) < Cap[p]]_vars

\* Whatever is sent is sent when the site and the known allowances permit it.
SendsPermitted == StopsWhenTold /\ AllowanceKept

\* A search is not sent while a result of the same search is cached, retained and
\* younger than the life of the cache, however many callers want it at once.
SearchOnce ==
    [][\A c \in Clients : Sending(c) /\ task[c].goal = "search" =>
         ~ \E i \in DOMAIN searches :
             /\ [query |-> task[c].query, id |-> searches[i].id] \in ToSet(cache)
             /\ searches[i].age < CacheLife]_vars

\* A query whose requests failed FailLimit times in a row is not sent until that
\* has been forgotten, whoever asks: unless other failures have displaced it, or an
\* answer without the expected form was among them (see RetriesBounded).
FailuresBounded ==
    [][\A c \in Clients :
         Sending(c) /\ task[c].goal = "search" /\ task[c].attempt = 0 =>
           \/ streak[task[c].query].count < FailLimit
           \/ streak[task[c].query].misfit]_vars

\* No search is repeated needlessly, whether the one before succeeded or failed.
SearchesSpared == SearchOnce /\ FailuresBounded

\* What the documents say of a failing search: the same request is not sent again
\* and again, whatever it was that failed.
RetriesBounded ==
    [][\A c \in Clients :
         Sending(c) /\ task[c].goal = "search" /\ task[c].attempt = 0 =>
           streak[task[c].query].count < FailLimit]_vars

=============================================================================
