--------------------------- MODULE CharacterProvider ---------------------------
(* The provider process of character_provider.py: it serves one request at a   *)
(* time, asks poe.ninja, imports builds into the private directory and asks    *)
(* poe.ninja to refresh a character. One action per stretch of code between    *)
(* two awaits; a store is split at each atomic_write, because the process may  *)
(* die between two of them. A version and the document it names are fetched in *)
(* one action: only time passes between the two.                               *)
EXTENDS Naturals, FiniteSets, FiniteSetsExt

CONSTANTS
    Characters,       \* characters of the account of the requests
    Contents,         \* documents: a code with its metadata and its origin
    Attached,         \* the ones that come as an attachment: the code alone
    BuildIds,         \* fresh identifiers (16 random bytes each)
    None,
    Floor, Waits,     \* the least time between two refreshes, upstream waits
    MaxBuilds, MaxBytes, MaxNow

VARIABLES
    task,       \* the request that holds the lock, or None
    blocked,    \* blocked_until, in memory
    session,    \* "own" when session.json holds the account's cookie, else None
    deadline,   \* the persisted refresh deadlines
    builds,     \* the files of each build: [content, parts, current]
    index,      \* import-<digest>.json: the build that holds a content
    asked,      \* when the last refresh request of a character was sent
    told,       \* <<content, build>> that a caller was given
    now

providerVars == <<task, blocked, session, deadline, builds, index, asked, told, now>>

Parts(d) == IF d \in Attached THEN {"pob", "projection"}
            ELSE {"pob", "projection", "beasts", "origin"}
Awaiting == {"entries", "model", "answer", "after", "download"}
Writing == {"pob", "projection", "beasts", "origin", "index"}

ProviderTypeOK ==
    /\ task \in {None} \cup
         [op : {"list", "get", "refresh", "attach"}, who : Characters \cup {None},
          step : Awaiting \cup Writing, build : BuildIds \cup {None},
          content : Contents \cup {None}]
    /\ blocked \in Nat /\ now \in 0..MaxNow
    /\ session \in {None, "own"}
    /\ deadline \in [Characters -> Nat]
    /\ builds \in [BuildIds -> {None} \cup
         [content : Contents, parts : SUBSET (Writing \ {"index"}), current : BOOLEAN]]
    /\ index \in [Contents -> BuildIds \cup {None}]
    /\ asked \in [Characters -> Nat \cup {None}]
    /\ told \subseteq Contents \X BuildIds

\* A build stored by an older release may have a projection that this one rejects.
Init ==
    /\ task = None /\ blocked = 0 /\ now = 0
    /\ session \in {None, "own"}
    /\ deadline = [c \in Characters |-> 0]
    /\ asked = [c \in Characters |-> None]
    /\ told = {}
    /\ \/ builds = [b \in BuildIds |-> None] /\ index = [d \in Contents |-> None]
       \/ \E b \in BuildIds, d \in Contents \ Attached :
            /\ builds = [x \in BuildIds |-> IF x = b
                           THEN [content |-> d, parts |-> Parts(d), current |-> FALSE] ELSE None]
            /\ index = [x \in Contents |-> IF x = d THEN b ELSE None]

Stored == {b \in BuildIds : builds[b] # None}
WithPob == {b \in Stored : "pob" \in builds[b].parts}

\* The files whose sizes are summed up, one unit each.
Files == {f \in BuildIds \X {"pob", "beasts", "origin"} :
            builds[f[1]] # None /\ f[2] \in builds[f[1]].parts}
UsedBytes == Cardinality(Files)

At(step) == task # None /\ task.step = step
Go(step) == task' = [task EXCEPT !.step = step]
Done == task' = None

-------------------------------------------------------------------------------
(* Requests. While one holds the lock every other is answered                  *)
(* character_provider_busy, without a trace.                                   *)

Begin(op, who, step) ==
    /\ task = None
    /\ task' = [op |-> op, who |-> who, step |-> step, build |-> None, content |-> None]

List == Begin("list", None, "entries")
Get(c) == \E step \in {"entries", "model"} : Begin("get", c, step)
Attach == Begin("attach", None, "download")

\* Without the account's own session a refresh is refused before anything is asked.
Refresh(c) ==
    /\ session = "own"
    /\ \E step \in {"entries", "model"} : Begin("refresh", c, step)

Asks ==
    /\ List \/ Attach \/ \E c \in Characters : Get(c) \/ Refresh(c)
    /\ UNCHANGED <<blocked, session, deadline, builds, index, asked, told, now>>

-------------------------------------------------------------------------------
(* poe.ninja. *)

\* A 429 blocks every later call of this process until its wait is over.
Limited == \E wait \in Waits : blocked' = now + wait

\* Nothing is sent while the process is blocked.
Refused ==
    /\ \E step \in {"entries", "model", "after"} : At(step)
    /\ blocked > now
    /\ Done
    /\ UNCHANGED <<blocked, session, deadline, builds, index, asked, told, now>>

\* A refused login, a missing character, another schema, an identity that does
\* not match, a lost connection: the request ends with an error.
Fails ==
    /\ \E step \in Awaiting : At(step)
    /\ Done
    /\ UNCHANGED blocked \/ (task.step # "download" /\ blocked <= now /\ Limited)
    /\ UNCHANGED <<session, deadline, builds, index, asked, told, now>>

\* The account's characters: the end of a list, and the league of a request that
\* named none when exactly one character has that name.
Entries ==
    /\ At("entries") /\ blocked <= now
    /\ IF task.op = "list" THEN Done ELSE Go("model")
    /\ UNCHANGED <<blocked, session, deadline, builds, index, asked, told, now>>

-------------------------------------------------------------------------------
(* Refresh. *)

\* Mutant: the deadline is written only when the answer has come.
SubmitFirst ==
    /\ At("model") /\ task.op = "refresh" /\ blocked <= now
    /\ IF deadline[task.who] > now THEN Done /\ UNCHANGED asked
       ELSE Go("answer") /\ asked' = [asked EXCEPT ![task.who] = now]
    /\ UNCHANGED <<blocked, session, deadline, builds, index, told, now>>

\* The identity was confirmed by the public model. The deadline is persisted
\* before the request goes out.
Submit ==
    /\ At("model") /\ task.op = "refresh" /\ blocked <= now
    /\ IF deadline[task.who] > now THEN Done /\ UNCHANGED <<deadline, asked>>
       ELSE /\ deadline' = [deadline EXCEPT ![task.who] = now + Floor]
            /\ asked' = [asked EXCEPT ![task.who] = now]
            /\ Go("answer")
    /\ UNCHANGED <<blocked, session, builds, index, told, now>>

\* The answer's wait moves the deadline, never below the floor.
Accepted ==
    /\ At("answer")
    /\ \E wait \in Waits \cup {0}, success \in BOOLEAN :
         /\ deadline' = [deadline EXCEPT ![task.who] = now + Max({Floor, wait})]
         /\ IF success THEN Go("after") ELSE Done
    /\ UNCHANGED <<blocked, session, builds, index, asked, told, now>>

\* The snapshot after a refresh is asked for once; its failure is part of the reply.
Snapshot ==
    /\ At("after") /\ blocked <= now
    /\ Done
    /\ UNCHANGED <<blocked, session, deadline, builds, index, asked, told, now>>

-------------------------------------------------------------------------------
(* Store. *)

\* The index names a build whose projection loads and whose files hold what is
\* to be stored.
Reusable(d) ==
    /\ index[d] # None /\ builds[index[d]] # None
    /\ builds[index[d]].current
    /\ builds[index[d]].content = d /\ builds[index[d]].parts = Parts(d)

\* Every file counts, also those of a build that no index names.
Fits(d) ==
    /\ Cardinality(WithPob) < MaxBuilds
    /\ UsedBytes + Cardinality(Parts(d) \ {"projection"}) <= MaxBytes

Store(d) ==
    /\ \/ At("model") /\ task.op = "get" /\ d \notin Attached /\ blocked <= now
       \/ At("download") /\ d \in Attached
    /\ \/ /\ Reusable(d)
          /\ told' = told \cup {<<d, index[d]>>}
          /\ Done
       \/ ~Reusable(d) /\ ~Fits(d) /\ Done /\ UNCHANGED told
       \/ /\ ~Reusable(d) /\ Fits(d) /\ UNCHANGED told
          /\ \E b \in BuildIds : builds[b] = None /\ (\A e \in Contents : index[e] # b)
               /\ (\A t \in told : t[2] # b)
               /\ task' = [task EXCEPT !.step = "pob", !.build = b, !.content = d]
    /\ UNCHANGED <<blocked, session, deadline, builds, index, asked, now>>

\* Mutant: the index is written before the supplementary files.
NextWriteIndexFirst(d, part) ==
    CASE part = "pob" -> "projection"
      [] part = "projection" -> "index"
      [] OTHER -> "origin"

NextWrite(d, part) ==
    CASE part = "pob" -> "projection"
      [] part = "projection" -> IF d \in Attached THEN "index" ELSE "beasts"
      [] part = "beasts" -> "origin"
      [] OTHER -> "index"

\* One atomic_write of a file of the build: the code, its projection, and for an
\* import from poe.ninja the metadata and the origin.
Write(part) ==
    /\ At(part) /\ part # "index"
    /\ builds' = [builds EXCEPT ![task.build] =
          [content |-> task.content, current |-> TRUE,
           parts |-> {part} \cup IF @ = None THEN {} ELSE @.parts]]
    /\ Go(NextWrite(task.content, part))
    /\ UNCHANGED <<blocked, session, deadline, index, asked, told, now>>

\* The index last: only then can the build be found again.
Indexed ==
    /\ At("index")
    /\ index' = [index EXCEPT ![task.content] = task.build]
    /\ told' = told \cup {<<task.content, task.build>>}
    /\ Done
    /\ UNCHANGED <<blocked, session, deadline, builds, asked, now>>

\* A write fails: what the import wrote is removed.
WriteFails ==
    /\ \E part \in Writing : At(part)
    /\ builds' = [builds EXCEPT ![task.build] = None]
    /\ Done
    /\ UNCHANGED <<blocked, session, deadline, index, asked, told, now>>

-------------------------------------------------------------------------------
(* The process and its operator. *)

\* 55 s passed, or the process died and was started again: the disk stays.
TimesOut ==
    /\ \E step \in Awaiting : At(step)
    /\ Done
    /\ UNCHANGED <<blocked, session, deadline, builds, index, asked, told, now>>

Restart ==
    /\ Done
    /\ blocked' = 0
    /\ UNCHANGED <<session, deadline, builds, index, asked, told, now>>

\* --configure-session, a process of its own, may run at any time.
ConfigureSession ==
    /\ session' \in {None, "own"}
    /\ UNCHANGED <<task, blocked, deadline, builds, index, asked, told, now>>

Tick ==
    /\ now < MaxNow
    /\ now' = now + 1
    /\ UNCHANGED <<task, blocked, session, deadline, builds, index, asked, told>>

Steps ==
    \/ Refused \/ Fails \/ Entries \/ Submit \/ Accepted \/ Snapshot
    \/ \E d \in Contents : Store(d)
    \/ \E part \in Writing : Write(part)
    \/ Indexed \/ WriteFails \/ TimesOut

Next == Asks \/ Steps \/ Restart \/ ConfigureSession \/ Tick

Spec == Init /\ [][Next]_providerVars

-------------------------------------------------------------------------------
\* Two refresh requests of one character are at least Floor apart, through lost
\* answers, timeouts, rate limits and restarts: a request that may have
\* succeeded is never repeated within the deadline.
RefreshSpaced ==
    \A c \in Characters :
        asked'[c] # asked[c] /\ asked[c] # None => asked'[c] >= asked[c] + Floor
ProviderRefreshSpaced == [][RefreshSpaced]_providerVars

\* What a caller was given stays whole: neither a crash, a failed later import
\* nor its clean-up takes a file of a build somebody knows, and a reused build
\* holds exactly the content that was imported.
ToldIsWhole ==
    \A t \in told :
        /\ builds[t[2]] # None
        /\ builds[t[2]].content = t[1]
        /\ builds[t[2]].parts = Parts(t[1])

\* The private directory stays within its quota, counting the files that a crash
\* left without an index.
QuotaHolds == Cardinality(WithPob) <= MaxBuilds /\ UsedBytes <= MaxBytes

===============================================================================
