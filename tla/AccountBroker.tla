---------------------------- MODULE AccountBroker ----------------------------
(***************************************************************************)
(* The private account broker of one member: its SQLite store, the RPC and *)
(* browser handlers, the OAuth callback, the refresh loop and restarts.    *)
(*                                                                         *)
(* The broker is one asyncio process.  A handler runs without interruption *)
(* up to the point where it awaits the provider, so each action below is   *)
(* one such uninterrupted piece, and what a suspended handler remembers is *)
(* in "callback" (ui_callback) or "inflight" and "batch" (refresh_due).    *)
(***************************************************************************)
EXTENDS Integers, FiniteSets

CONSTANTS
    Principals,    \* verified Cloudflare identities that may call
    AccountIds,    \* row ids the store can allocate
    Names,         \* display names
    Subjects,      \* provider account UUIDs
    Providers,     \* "ggg" and "kakao", or a part of it
    Browsers,      \* browser bindings of the account page
    States,        \* OAuth state tokens
    IntentIds,     \* travel receipts
    None,          \* SQL NULL / Python None
    MaxAccounts, MaxAttempts, MaxIntents, EvictLimit,    \* 16, 16, 256, 64
    AttemptLife, IntentLife, IntentKeep, RefreshLife,    \* 600 s, 120 s, 1 d, 90 d
    MaxMargin, MaxJitter,                                \* 1 d, 300 s
    AccessLives,   \* values of expires_in the provider may answer
    RetryWaits,    \* values of Retry-After the provider may answer
    MaxClock, MaxEpoch, MaxVersion, MaxTokens, MaxRestarts   \* bounds of a run

ASSUME ConstantsAssumption ==
    /\ {MaxAccounts, MaxAttempts, MaxIntents, EvictLimit, AttemptLife, IntentLife,
        IntentKeep, RefreshLife, MaxMargin, MaxJitter} \subseteq Nat \ {0}
    /\ {MaxClock, MaxEpoch, MaxVersion, MaxTokens, MaxRestarts} \subseteq Nat
    /\ AccessLives \subseteq Nat \ {0}
    /\ RetryWaits \subseteq Nat \ {0}
    /\ Providers \subseteq {"ggg", "kakao"}
    /\ IntentLife <= IntentKeep

ASSUME NoneAssumption ==
    None \notin Nat \cup Principals \cup AccountIds \cup Subjects

VARIABLES
    owner,      \* the principal the store is bound to
    row,        \* accounts table: [AccountIds -> Row]
    linkGen,    \* metadata.link_generation
    attempt,    \* attempts table
    intent,     \* intents table
    callback,   \* the ui_callback holding callback_lock, or None
    batch,      \* rows refresh_due selected and has not reached yet
    inflight,   \* the token request refresh_due awaits, or None
    cooldown,   \* GGGOAuth.retry_at
    clock,
    issued,     \* provider: number of refresh tokens handed out
    submitted,  \* ghost: refresh tokens the provider may have consumed
    restarts

vars == <<owner, row, linkGen, attempt, intent, callback, batch, inflight,
          cooldown, clock, issued, submitted, restarts>>

Time == Nat \cup {None}

\* What is sealed under "credential:<id>:<version>"; token None when the grant
\* came without a refresh token.
Secret == [sub : Subjects, token : Nat \cup {None}, version : Nat]

Row == [provider : {"ggg", "kakao"}, name : Names \cup {None},
        ext : Subjects \cup {None}, verified : BOOLEAN, preferred : BOOLEAN,
        auto : BOOLEAN, epoch : Nat, version : Nat,
        status : {"absent", "unverified", "active", "reauth_required", "disconnected"},
        secret : Secret \cup {None}, accessExp : Time, refreshExp : Time,
        next : Time, refreshing : BOOLEAN]

Attempt == [browser : Browsers, expires : Nat, born : Nat]
Intent  == [account : AccountIds, epoch : Nat, created : Nat, expires : Nat,
            status : {"prepared", "cancelled"}]
Pending == [id : AccountIds, version : Nat, epoch : Nat, next : Nat,
            refreshExp : Nat, sub : Subjects, token : Nat]
Call    == [id : AccountIds, version : Nat, epoch : Nat, refreshExp : Nat,
            sub : Subjects, token : Nat, at : Nat]
Callback == [phase : {"exchange", "profile"}, gen : Nat, born : Nat, at : Nat,
             sub : Subjects \cup {None}, token : Nat \cup {None}, life : Nat]

ASSUME AbsentAssumption ==
    None \notin Secret \cup Attempt \cup Intent \cup Call \cup Callback

TypeOK ==
    /\ owner \in Principals \cup {None}
    /\ row \in [AccountIds -> Row]
    /\ linkGen \in Nat
    /\ attempt \in [States -> Attempt \cup {None}]
    /\ intent \in [IntentIds -> Intent \cup {None}]
    /\ callback \in Callback \cup {None}
    /\ batch \in SUBSET Pending
    /\ inflight \in Call \cup {None}
    /\ cooldown \in Nat
    /\ clock \in Nat
    /\ issued \in Nat
    /\ submitted \in SUBSET Nat
    /\ restarts \in Nat

-----------------------------------------------------------------------------
(* Reading the tables *)

AbsentRow(provider) ==
    [provider |-> provider, name |-> None, ext |-> None, verified |-> FALSE,
     preferred |-> FALSE, auto |-> TRUE, epoch |-> 1, version |-> 0,
     status |-> "absent", secret |-> None, accessExp |-> None,
     refreshExp |-> None, next |-> None, refreshing |-> FALSE]

NewRow(provider, name) ==
    [AbsentRow(provider) EXCEPT !.name = name, !.status = "unverified"]

Present == {a \in AccountIds : row[a].status # "absent"}
Linked  == {a \in Present : row[a].status # "disconnected"}

\* Ids an INSERT may take, none at the quota.
FreshIds == IF Cardinality(Present) < MaxAccounts THEN AccountIds \ Present ELSE {}

\* The rows register() answers instead of inserting.
Registered(provider, name) ==
    {a \in Linked : row[a].provider = provider /\ row[a].name = name}

\* Mutant: the row is looked up by display name only.
GrantTargetsByName(sub, name) ==
    LET named == {a \in Present : row[a].provider = "ggg" /\ row[a].name = name}
    IN  IF named # {} THEN named ELSE FreshIds

\* The row save_grant() writes: by UUID, else an unverified row of that name,
\* else whatever register() returns for the name.
GrantTargets(sub, name) ==
    LET ggg    == {a \in Present : row[a].provider = "ggg"}
        byUuid == {a \in ggg : row[a].ext = sub}
        byName == {a \in ggg : row[a].name = name /\ ~row[a].verified}
    IN  CASE byUuid # {} -> byUuid
          [] byUuid = {} /\ byName # {} -> byName
          [] byUuid = {} /\ byName = {} /\ Registered("ggg", name) # {} ->
                 Registered("ggg", name)
          [] OTHER -> FreshIds

Lesser(m, n)  == IF m <= n THEN m ELSE n
Greater(m, n) == IF m >= n THEN m ELSE n
Margin(life)  == Lesser(MaxMargin, Greater(1, life \div 10))

\* Mutant: nothing keeps a long jitter from reaching back before now.
UnclampedRefreshTimes(now, life) ==
    {now + life - Margin(life) - jitter : jitter \in 0 .. MaxJitter}

\* refresh_time: a margin before expiry, less a random jitter.
RefreshTimes(now, life) ==
    {now + Greater(1, life - Margin(life) - jitter) :
        jitter \in 0 .. Greater(1, Lesser(MaxJitter, Margin(life))) - 1}

\* view(): the status shown to the member, and the action it asks for.
Unexpired(t) == t # None /\ t > clock
ViewStatus(a) ==
    IF row[a].status = "active" /\ ~Unexpired(row[a].accessExp)
    THEN IF row[a].auto /\ Unexpired(row[a].refreshExp)
         THEN "refresh_pending" ELSE "reauth_required"
    ELSE row[a].status

\* intent(): the receipt shown for a stored intent.
Receipt(i) ==
    IF intent[i] = None THEN "not_found"
    ELSE IF intent[i].status = "cancelled" \/ row[intent[i].account].epoch # intent[i].epoch
         THEN "cancelled"
         ELSE IF intent[i].expires <= clock THEN "expired" ELSE "prepared"

-----------------------------------------------------------------------------
(* Building blocks of the handlers *)

\* refresh_due runs on without yielding while it has rows and no request out.
LoopFree == batch = {} \/ inflight # None

\* authorize(): the first principal binds the store, every other one is refused.
Authorized(p) == owner \in {None, p} /\ owner' = p

Request(p) == LoopFree /\ Authorized(p)

PurgedAttempts ==
    [s \in States |-> IF attempt[s] # None /\ attempt[s].expires <= clock
                      THEN None ELSE attempt[s]]
PurgedIntents ==
    [i \in IntentIds |-> IF intent[i] # None /\ intent[i].created < clock - IntentKeep
                         THEN None ELSE intent[i]]

\* Rows of the attempts and the intents table that are in use.
UsedStates(table)  == {s \in States : table[s] # None}
UsedIntents(table) == {i \in IntentIds : table[i] # None}

AttemptRoom(table) == Cardinality(UsedStates(table)) < MaxAttempts

\* Mutant: the receipts are left alone.
KeepIntents(a) == intent' = intent

CancelIntents(a) ==
    intent' = [i \in IntentIds |->
                 IF intent[i] # None /\ intent[i].account = a
                 THEN [intent[i] EXCEPT !.status = "cancelled"] ELSE intent[i]]

\* The row is still the one refresh_due read, in the same link.
SameLink(r) == row[r.id].version = r.version /\ row[r.id].epoch = r.epoch

\* Mutants: the claim stays set; the row stays schedulable.
StillClaimed(r) == [r EXCEPT !.status = "reauth_required", !.next = None]
Retried(r)      == [r EXCEPT !.refreshing = FALSE]

\* The outcome of a refresh is unknown: never submit that token again.
NeedsLogin(r) == [r EXCEPT !.refreshing = FALSE, !.status = "reauth_required", !.next = None]

\* A refresh that was certainly not performed is due again at time t.
Deferred(r, t) == [r EXCEPT !.refreshing = FALSE, !.next = t]

-----------------------------------------------------------------------------
(* RPC and browser requests *)

Init ==
    /\ owner = None
    /\ row = [a \in AccountIds |-> AbsentRow("ggg")]
    /\ linkGen = 0
    /\ attempt = [s \in States |-> None]
    /\ intent = [i \in IntentIds |-> None]
    /\ callback = None
    /\ batch = {}
    /\ inflight = None
    /\ cooldown = 0
    /\ clock = 0
    /\ issued = 0
    /\ submitted = {}
    /\ restarts = 0

\* list, status, link, result, ui_page and every refused request only bind the
\* store to its principal.
Read(p) ==
    /\ Request(p)
    /\ owner = None
    /\ UNCHANGED <<row, linkGen, attempt, intent, callback, batch, inflight,
                   cooldown, clock, issued, submitted, restarts>>

Register(p, provider, name) ==
    /\ Request(p)
    /\ Registered(provider, name) = {}
    /\ \E a \in FreshIds : row' = [row EXCEPT ![a] = NewRow(provider, name)]
    /\ UNCHANGED <<linkGen, attempt, intent, callback, batch, inflight,
                   cooldown, clock, issued, submitted, restarts>>

SetDefault(p, a) ==
    /\ Request(p)
    /\ a \in Linked
    /\ row' = [b \in AccountIds |-> [row[b] EXCEPT !.preferred = (b = a)]]
    /\ UNCHANGED <<linkGen, attempt, intent, callback, batch, inflight,
                   cooldown, clock, issued, submitted, restarts>>

RefreshSetting(p, a, enabled) ==
    /\ Request(p)
    /\ a \in Present
    /\ row' = [row EXCEPT ![a].auto = enabled]
    /\ UNCHANGED <<linkGen, attempt, intent, callback, batch, inflight,
                   cooldown, clock, issued, submitted, restarts>>

Disconnected(r) ==
    [provider |-> r.provider, name |-> r.name, ext |-> r.ext, verified |-> r.verified,
     preferred |-> FALSE, auto |-> r.auto, epoch |-> r.epoch + 1, version |-> r.version + 1,
     status |-> "disconnected", secret |-> None, accessExp |-> None, refreshExp |-> None,
     next |-> None, refreshing |-> FALSE]

Disconnect(p, a) ==
    /\ Request(p)
    /\ a \in Present
    /\ row[a].epoch < MaxEpoch
    /\ row' = [row EXCEPT ![a] = Disconnected(row[a])]
    /\ CancelIntents(a)
    /\ attempt' = [s \in States |-> None]
    /\ linkGen' = linkGen + 1
    /\ UNCHANGED <<callback, batch, inflight, cooldown, clock, issued, submitted, restarts>>

\* ui_start -> begin_attempt.  "born" is a ghost: the disconnects seen so far.
Start(p, browser) ==
    /\ Request(p)
    /\ intent' = PurgedIntents
    /\ \/ /\ AttemptRoom(PurgedAttempts)
          /\ \E s \in States \ UsedStates(PurgedAttempts) :
                attempt' = [PurgedAttempts EXCEPT ![s] =
                    [browser |-> browser, expires |-> clock + AttemptLife, born |-> linkGen]]
       \/ /\ ~AttemptRoom(PurgedAttempts)
          /\ attempt' = PurgedAttempts
    /\ UNCHANGED <<row, linkGen, callback, batch, inflight,
                   cooldown, clock, issued, submitted, restarts>>

-----------------------------------------------------------------------------
(* The OAuth callback *)

\* The callback takes its lock, spends the attempt and asks for the token.
\* Bound: a link starts early enough for its deadline to fall within MaxClock.
CallbackBegin(p, s, browser) ==
    /\ Request(p)
    /\ callback = None
    /\ attempt[s] # None
    /\ attempt[s].browser = browser
    /\ attempt[s].expires > clock
    /\ clock + RefreshLife <= MaxClock
    /\ attempt' = [attempt EXCEPT ![s] = None]
    /\ callback' = IF cooldown > clock THEN None
                   ELSE [phase |-> "exchange", gen |-> linkGen, born |-> attempt[s].born,
                         at |-> clock, sub |-> None, token |-> None, life |-> 0]
    /\ UNCHANGED <<row, linkGen, intent, batch, inflight,
                   cooldown, clock, issued, submitted, restarts>>

\* The provider answers the code; the profile request follows at once, unless
\* another request was told to back off in the meantime.
CallbackExchanged(sub, life, renewable) ==
    /\ LoopFree
    /\ callback # None /\ callback.phase = "exchange"
    /\ issued < MaxTokens
    /\ issued' = IF renewable THEN issued + 1 ELSE issued
    /\ callback' = IF cooldown > clock THEN None
                   ELSE [callback EXCEPT !.phase = "profile", !.sub = sub, !.life = life,
                                         !.token = IF renewable THEN issued + 1 ELSE None]
    /\ UNCHANGED <<owner, row, linkGen, attempt, intent, batch, inflight,
                   cooldown, clock, submitted, restarts>>

\* Either request fails: refused, unreadable, mismatched or of unknown outcome.
CallbackFailed ==
    /\ LoopFree
    /\ callback # None
    /\ callback' = None
    /\ UNCHANGED <<owner, row, linkGen, attempt, intent, batch, inflight,
                   cooldown, clock, issued, submitted, restarts>>

CallbackLimited(wait) ==
    /\ LoopFree
    /\ callback # None
    /\ callback' = None
    /\ cooldown' = clock + wait
    /\ UNCHANGED <<owner, row, linkGen, attempt, intent, batch, inflight,
                   clock, issued, submitted, restarts>>

\* Mutant: a refresh under way keeps its claim on the row.
GrantedUnderClaim(r, name, c, next) ==
    [r EXCEPT !.ext = c.sub, !.name = name, !.verified = TRUE, !.epoch = @ + 1,
              !.version = @ + 1, !.status = "active",
              !.secret = [sub |-> c.sub, token |-> c.token, version |-> r.version + 1],
              !.accessExp = c.at + c.life,
              !.refreshExp = IF c.token = None THEN None ELSE c.at + RefreshLife,
              !.next = IF c.token = None THEN None ELSE next]

\* save_grant's UPDATE.
Granted(r, name, c, next) ==
    [provider |-> r.provider, name |-> name, ext |-> c.sub, verified |-> TRUE,
     preferred |-> r.preferred, auto |-> r.auto, epoch |-> r.epoch + 1,
     version |-> r.version + 1, status |-> "active",
     secret |-> [sub |-> c.sub, token |-> c.token, version |-> r.version + 1],
     accessExp |-> c.at + c.life,
     refreshExp |-> IF c.token = None THEN None ELSE c.at + RefreshLife,
     next |-> IF c.token = None THEN None ELSE next,
     refreshing |-> FALSE]

\* save_grant on the row it found; a fresh row is registered first.
SaveGrant(a, name, next) ==
    LET r == IF row[a].status = "absent" THEN NewRow("ggg", name) ELSE row[a]
    IN  /\ r.epoch < MaxEpoch /\ r.version < MaxVersion
        /\ row' = [row EXCEPT ![a] = Granted(r, name, callback, next)]
        /\ CancelIntents(a)

\* Mutant: what happened since the callback began does not matter.
NoComparison == callback.gen \in Nat

\* Nothing was disconnected since the callback began.
NotCancelled == callback.gen = linkGen

\* The profile names the account; the grant is kept unless something was
\* disconnected since the callback began.
CallbackProfiled(name) ==
    /\ LoopFree
    /\ callback # None /\ callback.phase = "profile"
    /\ NotCancelled
    /\ \E a \in GrantTargets(callback.sub, name),
          next \in RefreshTimes(callback.at, callback.life) : SaveGrant(a, name, next)
    /\ callback' = None
    /\ UNCHANGED <<owner, linkGen, attempt, batch, inflight,
                   cooldown, clock, issued, submitted, restarts>>

\* link_cancelled, or limit_reached when no row is left for a new account.
CallbackRejected(name) ==
    /\ LoopFree
    /\ callback # None /\ callback.phase = "profile"
    /\ ~NotCancelled \/ GrantTargets(callback.sub, name) = {}
    /\ callback' = None
    /\ UNCHANGED <<owner, row, linkGen, attempt, intent, batch, inflight,
                   cooldown, clock, issued, submitted, restarts>>

-----------------------------------------------------------------------------
(* The refresh loop *)

Due(a) ==
    /\ row[a].status = "active" /\ row[a].auto /\ ~row[a].refreshing
    /\ row[a].next # None /\ row[a].next <= clock
    /\ Unexpired(row[a].refreshExp)

Snapshot(a) ==
    [id |-> a, version |-> row[a].version, epoch |-> row[a].epoch, next |-> row[a].next,
     refreshExp |-> row[a].refreshExp, sub |-> row[a].secret.sub,
     token |-> row[a].secret.token]

\* refresh_due takes its lock, cleans up and selects the due rows.
RefreshBegin ==
    /\ batch = {} /\ inflight = None
    /\ \E a \in AccountIds : Due(a)
    /\ attempt' = PurgedAttempts
    /\ intent' = PurgedIntents
    /\ batch' = {Snapshot(a) : a \in {b \in AccountIds : Due(b)}}
    /\ UNCHANGED <<owner, row, linkGen, callback, inflight,
                   cooldown, clock, issued, submitted, restarts>>

\* The next row in the order of next_refresh.
IsFirst(r) == r \in batch /\ \A q \in batch : r.next <= q.next

\* The compare-and-set that claims a row before any network I/O.
Claimable(r) ==
    /\ SameLink(r)
    /\ row[r.id].status = "active" /\ row[r.id].auto /\ ~row[r.id].refreshing

RefreshSkip(r) ==
    /\ inflight = None
    /\ IsFirst(r) /\ ~Claimable(r)
    /\ batch' = batch \ {r}
    /\ UNCHANGED <<owner, row, linkGen, attempt, intent, callback, inflight,
                   cooldown, clock, issued, submitted, restarts>>

\* The provider is in cooldown: the request is refused before it is sent.
RefreshHeld(r) ==
    /\ inflight = None
    /\ IsFirst(r) /\ Claimable(r) /\ cooldown > clock
    /\ batch' = batch \ {r}
    /\ row' = [row EXCEPT ![r.id] = Deferred(row[r.id], cooldown)]
    /\ UNCHANGED <<owner, linkGen, attempt, intent, callback, inflight,
                   cooldown, clock, issued, submitted, restarts>>

RefreshSend(r) ==
    /\ inflight = None
    /\ IsFirst(r) /\ Claimable(r) /\ cooldown <= clock
    /\ batch' = batch \ {r}
    /\ row' = [row EXCEPT ![r.id].refreshing = TRUE]
    /\ inflight' = [id |-> r.id, version |-> r.version, epoch |-> r.epoch,
                    refreshExp |-> r.refreshExp, sub |-> r.sub, token |-> r.token,
                    at |-> clock]
    /\ submitted' = submitted \cup {r.token}
    /\ UNCHANGED <<owner, linkGen, attempt, intent, callback,
                   cooldown, clock, issued, restarts>>

\* Mutant: the last stretch before the deadline is not scheduled.
RotatedEarlyStop(r, life, next) ==
    [r EXCEPT !.secret = [sub |-> inflight.sub, token |-> issued + 1,
                          version |-> inflight.version + 1],
              !.version = inflight.version + 1,
              !.accessExp = inflight.at + life,
              !.next = IF next + life < inflight.refreshExp THEN next ELSE None,
              !.refreshing = FALSE]

\* The new pair replaces the old one, under the deadline of the old one.
Rotated(r, life, next) ==
    [provider |-> r.provider, name |-> r.name, ext |-> r.ext, verified |-> r.verified,
     preferred |-> r.preferred, auto |-> r.auto, epoch |-> r.epoch,
     version |-> inflight.version + 1, status |-> r.status,
     secret |-> [sub |-> inflight.sub, token |-> issued + 1, version |-> inflight.version + 1],
     accessExp |-> inflight.at + life, refreshExp |-> r.refreshExp,
     next |-> IF next < inflight.refreshExp THEN next ELSE None,
     refreshing |-> FALSE]

RefreshAnswered(life, next) ==
    /\ inflight # None
    /\ inflight.version < MaxVersion /\ issued < MaxTokens
    /\ next \in RefreshTimes(inflight.at, life)
    /\ issued' = issued + 1
    /\ row' = IF SameLink(inflight) /\ row[inflight.id].refreshing
                 /\ row[inflight.id].status = "active"
              THEN [row EXCEPT ![inflight.id] = Rotated(row[inflight.id], life, next)]
              ELSE row
    /\ inflight' = None
    /\ UNCHANGED <<owner, linkGen, attempt, intent, callback, batch,
                   cooldown, clock, submitted, restarts>>

\* HTTP 429: the token was not consumed, every request waits.
RefreshLimited(wait) ==
    /\ inflight # None
    /\ cooldown' = clock + wait
    /\ row' = IF SameLink(inflight)
              THEN [row EXCEPT ![inflight.id] = Deferred(row[inflight.id], clock + wait)]
              ELSE row
    /\ submitted' = submitted \ {inflight.token}
    /\ inflight' = None
    /\ UNCHANGED <<owner, linkGen, attempt, intent, callback, batch,
                   clock, issued, restarts>>

\* Any other failure leaves it open whether the token was consumed.
RefreshRefused ==
    /\ inflight # None
    /\ row' = IF SameLink(inflight)
              THEN [row EXCEPT ![inflight.id] = NeedsLogin(row[inflight.id])]
              ELSE row
    /\ inflight' = None
    /\ UNCHANGED <<owner, linkGen, attempt, intent, callback, batch,
                   cooldown, clock, issued, submitted, restarts>>

-----------------------------------------------------------------------------
(* Travel receipts *)

\* The account a handoff is for: the one named, else the only one, else the default.
HandoffAccount(choice) ==
    IF choice # None THEN {choice} \cap Linked
    ELSE IF Cardinality(Linked) = 1 THEN Linked ELSE {a \in Linked : row[a].preferred}

\* Mutant: the oldest receipts go, expired or not.
EvictOldest(table) ==
    IF Cardinality(UsedIntents(table)) < MaxIntents THEN {{}}
    ELSE {{e} : e \in {i \in UsedIntents(table) :
                        \A k \in UsedIntents(table) : table[i].created <= table[k].created}}

\* At the quota the oldest expired receipts go, at most EvictLimit of them.
Evictions(table) ==
    LET expired == {i \in UsedIntents(table) : table[i].expires <= clock}
    IN  IF Cardinality(UsedIntents(table)) < MaxIntents THEN {{}}
        ELSE {E \in SUBSET expired :
                /\ Cardinality(E) = Lesser(EvictLimit, Cardinality(expired))
                /\ \A e \in E, k \in expired \ E : table[e].created <= table[k].created}

Prepare(p, choice) ==
    /\ Request(p)
    /\ \E a \in HandoffAccount(choice), E \in Evictions(PurgedIntents) :
         /\ row[a].provider = "ggg"
         /\ LET kept == [i \in IntentIds |-> IF i \in E THEN None ELSE PurgedIntents[i]]
            IN  IF Cardinality(UsedIntents(kept)) < MaxIntents
                THEN \E i \in IntentIds \ UsedIntents(PurgedIntents) :
                       intent' = [kept EXCEPT ![i] =
                           [account |-> a, epoch |-> row[a].epoch, created |-> clock,
                            expires |-> clock + IntentLife, status |-> "prepared"]]
                ELSE intent' = kept
    /\ attempt' = PurgedAttempts
    /\ UNCHANGED <<row, linkGen, callback, batch, inflight,
                   cooldown, clock, issued, submitted, restarts>>

-----------------------------------------------------------------------------
(* Time and restarts *)

\* Time passes while the process waits; an uninterrupted piece takes none.
Tick ==
    /\ LoopFree
    /\ clock < MaxClock
    /\ clock' = clock + 1
    /\ UNCHANGED <<owner, row, linkGen, attempt, intent, callback, batch, inflight,
                   cooldown, issued, submitted, restarts>>

\* The process dies at any point and starts again: suspended handlers and the
\* cooldown are gone, the tables stay, a claimed row needs a new login.
Restart ==
    /\ restarts < MaxRestarts
    /\ restarts' = restarts + 1
    /\ row' = [a \in AccountIds |->
                 IF row[a].refreshing THEN NeedsLogin(row[a]) ELSE row[a]]
    /\ callback' = None
    /\ batch' = {}
    /\ inflight' = None
    /\ cooldown' = 0
    /\ UNCHANGED <<owner, linkGen, attempt, intent, clock, issued, submitted>>

\* --invalidate-restored-sessions, run while the broker is stopped: every row is
\* disconnected, one by one.
InvalidateRestored ==
    /\ restarts < MaxRestarts
    /\ \A a \in Present : row[a].epoch < MaxEpoch
    /\ restarts' = restarts + 1
    /\ row' = [a \in AccountIds |-> IF a \in Present THEN Disconnected(row[a]) ELSE row[a]]
    /\ intent' = [i \in IntentIds |->
                    IF intent[i] # None THEN [intent[i] EXCEPT !.status = "cancelled"]
                    ELSE None]
    /\ attempt' = IF Present = {} THEN attempt ELSE [s \in States |-> None]
    /\ linkGen' = linkGen + Cardinality(Present)
    /\ callback' = None
    /\ batch' = {}
    /\ inflight' = None
    /\ cooldown' = 0
    /\ UNCHANGED <<owner, clock, issued, submitted>>

-----------------------------------------------------------------------------

Requests ==
    \E p \in Principals :
        \/ Read(p)
        \/ \E provider \in Providers, name \in Names : Register(p, provider, name)
        \/ \E a \in AccountIds : SetDefault(p, a) \/ Disconnect(p, a)
        \/ \E a \in AccountIds, enabled \in BOOLEAN : RefreshSetting(p, a, enabled)
        \/ \E browser \in Browsers : Start(p, browser)
        \/ \E s \in States, browser \in Browsers : CallbackBegin(p, s, browser)
        \/ \E choice \in AccountIds \cup {None} : Prepare(p, choice)

CallbackSteps ==
    \/ \E sub \in Subjects, life \in AccessLives, renewable \in BOOLEAN :
          CallbackExchanged(sub, life, renewable)
    \/ CallbackFailed
    \/ \E wait \in RetryWaits : CallbackLimited(wait)
    \/ \E name \in Names : CallbackProfiled(name) \/ CallbackRejected(name)

RefreshSteps ==
    \/ RefreshBegin
    \/ \E r \in batch : RefreshSkip(r) \/ RefreshHeld(r) \/ RefreshSend(r)
    \/ \E life \in AccessLives :
          inflight # None /\ \E next \in RefreshTimes(inflight.at, life) :
              RefreshAnswered(life, next)
    \/ \E wait \in RetryWaits : RefreshLimited(wait)
    \/ RefreshRefused

Next == Requests \/ CallbackSteps \/ RefreshSteps \/ Tick \/ Restart \/ InvalidateRestored

Spec == Init /\ [][Next]_vars

\* The maintenance task wakes every minute and every provider request ends
\* (a 10 s timeout); nothing is assumed of the member, of time or of crashes.
FairSpec == Spec /\ WF_vars(RefreshSteps)

-----------------------------------------------------------------------------
(* Safety of the tables *)

\* Accounts, login attempts and travel receipts stay within their quotas, also
\* when a finished login registers a row of its own.
Quotas ==
    /\ Cardinality(Present) <= MaxAccounts
    /\ Cardinality(UsedStates(attempt)) <= MaxAttempts
    /\ Cardinality(UsedIntents(intent)) <= MaxIntents

\* Two rows never hold the same provider UUID, so a login finds one row and the
\* UPDATE of save_grant cannot fail on UNIQUE(provider, external_id).
ExternalIdUnique ==
    \A a, b \in Present : row[a].ext # None /\ row[a].ext = row[b].ext => a = b

\* The tables: rows, attempts and receipts within their quotas, one row per UUID.
TablesSound == Quotas /\ ExternalIdUnique

\* Only a verified row has a session, and a disconnected one keeps neither the
\* credential nor a schedule, whatever answer arrives after the disconnect.
SessionOnlyWhenLinked ==
    \A a \in AccountIds :
        /\ row[a].status = "active" => row[a].verified /\ row[a].secret # None
        /\ row[a].status \in {"absent", "unverified", "disconnected"} =>
             /\ row[a].secret = None /\ row[a].accessExp = None
             /\ row[a].refreshExp = None /\ row[a].next = None

\* The durable flag "refreshing" is never left behind: it is set only while
\* refresh_due awaits the answer for this very version of the row.
ClaimHasCall ==
    \A a \in AccountIds : row[a].refreshing =>
        /\ row[a].status = "active"
        /\ inflight # None /\ inflight.id = a /\ SameLink(inflight)

\* A session and a claim both stand on a link that still is: neither outlives a
\* disconnect, a re-link or an answer that came too late.
LinkHeld == SessionOnlyWhenLinked /\ ClaimHasCall

\* The stored credential opens under the version the row has (it is sealed with
\* the version in its associated data) and belongs to the UUID of the row.
SecretOpens ==
    \A a \in AccountIds : row[a].secret # None =>
        /\ row[a].secret.version = row[a].version
        /\ row[a].secret.sub = row[a].ext

\* A refresh token the provider may have consumed is never the one a schedulable
\* row would submit next.
TokenUnused ==
    \A a \in AccountIds :
        row[a].status = "active" /\ ~row[a].refreshing /\ row[a].secret.token # None
            => row[a].secret.token \notin submitted

\* A member told to wait for the refresh is waiting for one that is scheduled or
\* under way: "refresh_pending" never hides an account nobody will refresh.
PendingIsScheduled ==
    \A a \in AccountIds :
        ViewStatus(a) = "refresh_pending" => row[a].next # None

\* The stored credential of a row can be used when its turn comes: it opens, its
\* token is one the provider has not consumed, and its turn will come.
CredentialUsable == SecretOpens /\ TokenUnused /\ PendingIsScheduled

\* A stored receipt that is not cancelled was made in the account's present link.
ReceiptsFollowLink ==
    \A i \in IntentIds : intent[i] # None /\ intent[i].status = "prepared" =>
        /\ intent[i].account \in Linked
        /\ row[intent[i].account].epoch = intent[i].epoch

-----------------------------------------------------------------------------
(* What a step may never do *)

\* A refresh token is submitted at most once, unless HTTP 429 said that it was
\* not consumed: not by a later pass, after a restart, or after a re-link.
NoReplay ==
    [][inflight' # None /\ inflight' # inflight => inflight'.token \notin submitted]_vars

\* The absolute deadline of a refresh token moves only with a new login or a
\* disconnect; a rotation inherits it.
DeadlineInherited ==
    [][\A a \in AccountIds :
         row'[a].refreshExp # row[a].refreshExp => row'[a].epoch > row[a].epoch]_vars

\* A rotation spends a token once and gains no time.
RotationSafe == NoReplay /\ DeadlineInherited

\* A login that began before a disconnect never links an account after it.
NotRevived ==
    [][\A a \in AccountIds :
         row'[a].epoch # row[a].epoch /\ row'[a].status = "active" =>
             callback # None /\ callback.born = linkGen]_vars

\* A receipt that still reads "prepared" is never dropped to make room.
LiveReceiptRetained ==
    [][\A i \in IntentIds : Receipt(i) = "prepared" => intent'[i] # None]_vars

-----------------------------------------------------------------------------
(* Liveness *)

\* A claimed account is released: answered, rescheduled or sent to a new login.
ClaimReleased == \A a \in AccountIds : row[a].refreshing ~> ~row[a].refreshing

\* An account due for a refresh does not stay due.
DueHandled == \A a \in AccountIds : Due(a) ~> ~Due(a)

\* The maintenance loop leaves no account claimed and none due.
RefreshProgress == ClaimReleased /\ DueHandled

-----------------------------------------------------------------------------
(* What the documents say and the code does not do *)

\* docs/account-sessions-and-travel.md: a verified account keeps its provider
\* UUID; the display name decides no ownership.
IdentityPinned ==
    [][\A a \in AccountIds : row[a].verified => row'[a].ext = row[a].ext]_vars

\* tests/test_accounts.py: an expired refresh token is never submitted.
NoExpiredSubmission ==
    [][inflight' # None /\ inflight' # inflight => inflight'.refreshExp > clock]_vars

=============================================================================
