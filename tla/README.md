# Formal models of the Path of Exile 2 companion

TLA+ modules, TLC configurations and TLAPS proofs for the Python service under
`src/src/poe2_companion` (paths below are relative to that directory unless they
start with `src/`). `PROJECT.json` maps every definition to the lines it models
and lists the components, the runs, the mutants, the hazards and the theorems.

Contents: [the system](#the-system), [the modules](#the-modules),
[the runs](#the-runs), [the proofs](#the-proofs),
[what the runs refute](#what-the-runs-refute),
[what is not modelled](#what-is-not-modelled), [plan](#plan).

## The system

The service is an MCP server (`server.py`) that a language-model client calls
for build calculations, market prices and plans. It is a single asyncio process
per member; the account broker, the engine worker and the character provider are
processes of their own behind Unix sockets. Within a process a handler runs
without interruption between two awaits, so what can go wrong is what happens
*while* a handler awaits a provider, another process, or a lock.

| Component | State | Operations | Talks to | What is hard | What makes it correct |
|---|---|---|---|---|---|
| Account broker (`account_store`, `account_broker`, `account_oauth`) | SQLite tables accounts, attempts, intents, metadata; refresh and callback locks; OAuth cool-down | bind owner, register, set default, set auto refresh, disconnect, start login, callback, refresh pass, prepare receipt, clean-up, restart, restore invalidation | OAuth provider, browser, MCP server | disconnect against a pending callback or refresh; crash after the durable claim; ambiguous token rotation; deadlines; quotas | no session after a disconnect, no token sent twice, credential and version agree, claims released, due accounts handled |
| Currency portfolio (`currency_portfolio` on `workflow_store`) | one document with holdings, events, valuation, revision | create, record, value, delete, expire | price cache | a copy held across a price request; retries; double execution | the balance is the opening plus the executed events, each once; a valuation is of the present holdings |
| Workflow telemetry (`workflow_telemetry`) | trace document, map of running tasks | start, run step, finish, cancel, page, delete | every inner tool | cancel joins a running step; budget at the last step; retries | budget and retry limits, a running step is alone on its document, cancellation closes and returns |
| Build plans (`workflow_store`, `workflows`, `observations`, `execution_plans`) | decisions in memory (shared by all owners) or encrypted on disk, observations, routes | create, transition, report, route, delete, expire, evict | engine | two commits of a report; a route drawn from a plan read before an await; eviction in a shared memory | a current ready route contradicts no report; a plan is applied as it was accepted; reports are listed |
| Purchase comparison (`purchases`) | comparison artifact | compare, page | price cache, trade client | copies of plans and bills held across two awaits, while their observations are lost and prices age | the frontier loses nothing, the primary is sound, an old price is flagged |
| Paged reads (the `page` functions) | a document and the client's offset | open, next page, revise | the client | pages cut to a byte limit; a revision between two pages | every row once; fragments under one digest are of one text |
| Trade client (`trade`) | rate gate per host, blocked flag, metadata, searches, query cache, failed queries | search, page, detail, recommend, search stats | official trade site | requests queued behind a lock while a limit or a block arrives; overlapping fetches; repeated failures | limits kept, blocked is final, one search per query, bounded retries |
| Recommendation (`engine`, `recommendation`) | one call | exclude, enumerate, batch, rank | trade client, engine | listings lost between a search and the enumeration; ties and budgets | the answer is the best of all affordable outfits |
| Character provider (`character_provider`, `characters`) | import index, private and projected files, refresh deadlines, busy lock | get character, list, refresh, import attachment | poe.ninja | crash between files, refresh repeated after a restart | an imported build stays whole, the quota holds, one refresh per deadline |
| Engine admission (`engine`, `engine_worker`) | client lock, worker lock, file lease, child process | batch, calculate, cancel, time out | native engine | cancellation while the child runs; two workers | one calculation, dead before the lease is free, nobody waits for ever |
| Static inspection (`private_inspection`) | cache with a byte total, process lock | inspect, profile, time out | native engine | a running total beside the entries; a process that outlives its query | total equals contents, the process is under the lock |
| Price cache (`scout`) | cache with time stamps, cool-down, rate lock | quote, rates, list | price site | a cool-down set while others wait; retries; stale fallback | stale answers marked and bounded, requests spaced |
| Access verifier (`access`) | key cache, expiry, retry floor, lock | verify | identity provider | unknown keys and failing fetches, rotation | a withdrawn key is refused in time, an honest caller is not refused for long |
| Passive tree (`catalog`, `passive_candidates`, `passive_execution`) | none | route, discover, order | engine | weapon-set nodes, refunds, ascendancies | shortest routes, true costs, an order whenever there is one |
| MCP server (`server`, `diagnostics`) | registered tools, error traces, receipts per owner | call, answer, refuse, cancel, travel handoff | all of the above | errors that must not leak; other owners' receipts; a listing that goes while it is asked for | only public codes, receipts are their owners', handoffs are of listings that some answer listed |
| Engine installation (`scripts/install_pob_engine.py`, `patch_*.py`) | the engine's source tree, marker files | fetch, overlay, patch, mark, patch again | upstream archive | fourteen scripts that anchor in each other's text; drifted sources | a marked tree has every edit once |
| Mac deployment (`scripts/mac.py`, `deployment`) | `deployment.json`, containers, login agents, token | start, stop, install-login, set-token, add-user, remove-user | docker, launchd | a command that fails between two steps; reboots | a retired friend stays out, namespaces stay one person's |
| Rollback and exports, guide provider, saved builds, engine records, equipment search, analyses, catalogues, account client and page, release checks | none, or files written once | parse, compute, render | as above | numeric detail | see [below](#what-is-not-modelled) |

## The modules

**`AccountBroker`** models the broker. `row`, `attempt`, `intent` and `linkGen`
are the four tables. What a suspended handler remembers is explicit: `callback`
is the one `ui_callback` that holds `callback_lock` (its phase is the provider
call it awaits), `batch` the rows a refresh pass selected and has not reached,
`inflight` the token request it awaits. `submitted` is a ghost: the refresh
tokens the provider may have consumed (an answer 429 is the one that says it was
not). Each action is one uninterrupted piece of a handler, from one await to the
next; `SameLink` and `NotCancelled` are the comparisons made after the await.
`RefreshTimes` is `refresh_time` with its random jitter and its clamp. `Restart`
is the store's constructor, which sends every claimed account to a new login,
and may follow any action, so a crash can fall between any two commits.
`MCAccountBroker` gives the model values and the symmetry.

The theorems about a module are in one that extends it: **`AccountBrokerProofs`**,
**`CurrencyPortfolioProofs`** and **`TradeClientProofs`** are each the proofs of one
component, **`BuildPlansProofs`** those of what `MCBuildPlans` puts together (plans and
store, passive tree, advice) and of their composition, **`CallsProofs`** those of
`MCWorkflowTelemetry` (trace, calculation engine, inspector) and of their composition,
**`ServicesProofs`** those of the three services of `MCServices`, **`StandaloneProofs`**
those of the server, the deployment, the purchase comparison, the paged reads and the
installation, which `MCStandalone` checks. **`Lists`** defines what the code does to
a list in a loop: the running sum taken by the trace (output of its calls), the portfolio
(amounts of its events), the inspector (bytes of its cache), a bill (its costs) and a page
(bytes of its rows), the store (bytes of its decisions) and a plan of purchases (its
prices); the entries kept by a purge or an eviction; and the queue of nodes that the
searches of the passive tree work off, in rounds. **`ListsProofs`** says what is true of
them for lists of every length and searches of any number of rounds.

**`CurrencyPortfolio`** models one portfolio. `stored` is the committed document,
`call` the requests that await a quote with their own copy, `used` and `acked`
the event identifiers a client has sent and the answers it has seen.
`RecordBegin`/`RecordEnd` is an event with an unknown currency (it awaits a
quote), `RecordAtOnce` one without, `RecordDuplicate` a retry, and the write
succeeds only at the revision that was read (`workflow_store.py:163-176`).
**`Ledger`** is what the portfolio promises: an account book in which a transfer
is entered once. `KeepsBook` is the refinement: the book is open when the
document exists, its entries are the executed events, its balance the holdings.

**`WorkflowTelemetry`** models one trace. `task` holds the request of each client:
a step that awaits its tool with the document it read, or a cancellation that
joins the step. `StepEnd`, `StepCancelled` and `StepUnsaved` are the ways a step
ends (the last when the store refuses the write).

**`BuildPlans`** models decisions, observations and routes. `plan`, `order`,
`report` and `kept` are the decision and observation tables with their insertion
order; `call` is the route that awaits the engine with the plan it read.
`CrashInReport` is a process that dies between the two commits of
`observations.py:118-128`. `adverse` is a ghost: the plans for which depletion or
death was ever reported.

**`TradeClient`** models the trade client. `gate` is the `Gate` (its pause, its
one-second spacing, one rule per policy), `searches`, `cache` and `failed` the
three ordered dictionaries, `queue` and `searching` the two asyncio locks with
their waiters in order, and `task` what each suspended call remembers. One action
is one uninterrupted piece between two awaits: `Admit` takes the request lock and
computes the delay, `Send` follows the sleep without another look at the gate, and
`Answer` has a disjunct per outcome of `_request`: unreadable rate headers, a lost
or 5xx answer with its one retry, a refusal that closes the client, a limit, a
faulty body, and the three kinds of useful answer. `Cancel` ends a call at any
await. `load` is the provider's own count of a policy's requests, and `streak` a
ghost: the failed sends of a query in a row. Deadlines are held as the time left
and creation times as ages, so that no last instant bounds a behaviour and the
whole state space is finite.

**`Recommendation`** is the call that uses it: which of the retained listings to
wear. `Enumerated` is the code's enumeration with its order and its cut-off,
`Judge` the ranking; `AdviceIsBest` states what they must amount to over the set
of all outfits the budget allows.

**`PassiveTree`** holds the three algorithms over the passive tree. A route is
followed node by node (`AskRoute`, `NextTarget`, `EndRoute`), an order of clicks
click by click. The reference of routes and end points is `Extensions`: every set of new
nodes that brings a target into the tree and leaves no ordinary node `Loose`. That of
orders is `HasOrder`: some order of the nodes keeps the tree connected at every click.

**`PurchaseComparison`** follows one comparison through its two awaits. `reports` are
the observations the candidates' plans list, `expired` those the store holds no more,
`loaded` those listed in the copies of the plans the comparison works on
(`purchases.py:84`): `Observe` and `Expire` may come at any time, but `Problem` resolves
only what is `loaded` (`execution_plans.py:93-106`). `time` ages the prices. A bill is
the list of its lines, and its total a sum over that list: two equal lines cost twice.

**`PagedReads`** has one action per kind of page function: rows dropped until the
page fits, a limit that is halved, a refusal, and fragments of a text under a
digest. A "text" stays as it was made (a plan, a comparison); a "ledger" (a portfolio, a
trace) is revised between its pages by `Revise`. Rows are numbers with sizes. The code that halves a limit calls itself; `Halves` is
the set of limits it can come to, of which it takes the largest that fits.

**`EngineAdmission`** is the way of a calculation through the client's lock
(`call`), the request in its worker (`work`), the worker's lock (`job`), the lease
file shared by all workers (`lease`) and the child process (`proc`). Every timer
may fire while it is set. **`StaticInspector`** is the worker's other half: queries
that only list a document, with their cache and its running byte total.

**`ScoutCache`**, **`AccessKeys`** and **`CharacterProvider`** are the services that
ask other servers. The first has one step per await of `_cached` and `_request`
(`lock`, `rate`, `pace`, `sent`, `backoff`); the second one lookup or fetch under
its lock, with the issuer's own rotation as the environment; the third splits an
import at each file it writes, because the process may die between two.

**`CompanionServer`** is `server.py` itself: the tools a configuration registers,
what happens to a call (`Refuse`, `Enter`, `Finish`, `Fail`, `Cancel`), which error
codes a client may see (`Shown` walks the chain of causes as the code does), the
receipts of `diagnostics.py` and the travel handoff over its two awaits. `search.rows` is
what the trade client keeps of the listings, `offered` a ghost: those an answer listed.

**`PatchScripts`** lists the fourteen scripts with their edits as data: file,
anchor, added block, guard (six kinds, from "strict", which wants the anchor once, over
"some", once or more, to "any"). **`EngineInstall`** runs them over a tree of files,
edit by edit, on reviewed sources and on drifted ones (an anchor lost or doubled), writes the markers, and lets scripts run again by hand.

**`MacDeployment`** makes a command a sequence of steps that may each fail, halfway
too; a reboot falls between any two. `cut` is a ghost: whose services a removal has
stopped.

Components that share no state are checked side by side: `MCBuildPlans` (plans,
store, tree, advice), `MCWorkflowTelemetry` (trace, engine, inspector),
`MCServices` (prices, access, characters) and `MCStandalone` (portfolio, purchase,
pages, server, installation, Mac) choose in the initial state which component
moves (`part`) and keep the others still. A property of a component is the named
conjunction of its module's own properties. Nothing is lost by this: a step of one
of them neither reads nor writes a variable of another, and where components do
meet, the meeting is inside one module (the engine's answer in `BuildPlans` and
`Recommendation`, the trade client's and the broker's in `CompanionServer`). For three
of the four compositions this is a theorem (`CallsStandAlone`, `ServicesStandAlone`,
`PlanningStandsAlone`).

## The runs

Every run disables deadlock checking because each system may come to rest: the
bounds of a run end its clock, versions or events.

| Run | Instance | Properties | Question |
|---|---|---|---|
| `account_links` | 2 accounts, 2 UUIDs, 2 names, 2 members, 2 OAuth states, 1 restart | `TypeOK`, `TablesSound`, `NotRevived` | quotas, one row per UUID, no revival of a cancelled login |
| `account_refresh` | 2 accounts due together, 3 tokens, clock to 2, deadline of 2 | `LinkHeld`, `RotationSafe` | claims, replays, inherited deadlines |
| `account_crash` | 1 account, 3 logins, clock and deadline of 3, a restart anywhere, fairness | `CredentialUsable`, `RefreshProgress` | the credential opens and is unused; claims are released, due accounts handled |
| `account_travel` | 2 accounts, a journal of 2 receipts over 3 ids | `ReceiptsFollowLink`, `LiveReceiptRetained` | receipts follow the link and are not evicted while live |
| `Telemetry` | trace: 2 requests, 3 step ids, 2 inputs, 3 calls, 5 bytes with a reserve of 2; engine: 3 calls, 2 workers; inspector: 3 documents, cache of 3; fairness | `CallsTypeOK`, `StepsSound`, `OneCalculation`, `InspectorSound`, `ClosedStays`, `CancelReturns`, `EngineReturns`, `EvictsOldest` | budget, retries, exclusion, cancellation; one calculation at a time and every caller answered; the cache's account |
| `Plans` | 1 plan of 2 edits, 2 observations, 1 route; 3 plans and 3 observations under quotas of 2 records and 3 bytes; trees of 5 nodes, some with a taken node that has a rule of its own; 2 listings for 2 slots | `TypeOK`, `RoutesSound`, `StoreSound`, `TreeAnswersRight`, `AdviceRight`, `PlanHistory` | routes against reports; quotas and the two commits of a report; algorithms against their definitions |
| `Trade` | 2 calls, 2 searches, 1 listing, 2 search ids, dictionaries of 1, allowances of 1 | `TypeOK`, `LocksMove`, `SendsPermitted`, `SearchesSpared` | pauses and refusals are heeded, allowances kept, no repeated search, bounded failures, locks free |
| `Services` | 2 price calls over 2 keys; 2 assertions, 2 key ids; 1 character, 3 build ids, quota of 2 | `PricesSound`, `AssertionsSound`, `ImportsSound`, `RequestsSpaced` | ages and single loads, rotation of keys, crashes between the writes of an import, distances between requests |
| `Standalone` | portfolio: 2 suspended requests, 3 currencies (2 may be held), 3 events; 2 candidates over 2 scenarios, 2 reports; tables of up to 3 rows; 2 tool calls, 2 receipts; 14 scripts on 3 drifting files, 2 hand runs; 2 friends of whom 1 active | `BookSound`, `AckedKept`, `KeepsBook`, `PurchaseSound`, `PagesSound`, `AnswersSound`, `InstallSound`, `InstalledKept`, `DeploymentSound` | reconciliation and refinement of `Ledger`; soundness of a comparison; lossless pages; errors and receipts; the installed tree; failures of an operator's command |
| `account_identity`, `account_expired`, `TradeRetries` | small instances | `IdentityPinned`, `NoExpiredSubmission`, `RetriesBounded` | see [below](#what-the-runs-refute) |

The properties that carry the most weight, by component:

- *Broker.* `LinkHeld`: a disconnected account keeps nothing, and a claimed one is
  the one whose call is in flight. `CredentialUsable`: the stored token opens and
  was never sent. `RotationSafe`: no token is sent twice, across crashes and lost
  answers, and a rotation inherits the deadline.
- *Portfolio.* `BookSound` (the holdings are the opening and the executed events,
  no proposal twice, the valuation of these holdings), `AckedKept` (what a client
  was told stays) and the refinement `KeepsBook`.
- *Trace.* `StepsSound`: a running step is alone on its document, within budget, no
  success repeated; `CancelReturns` is its liveness.
- *Plans.* `RoutesSound`: a current ready route contradicts no report made while it
  was drawn. `StoreSound`: an observation is listed by its plan unless the process
  died between the two commits, and the quotas of memory and disk hold.
- *Trade client.* `SendsPermitted`: at the moment of a send, neither a pause, a
  refusal nor a full allowance known to the gate forbids it. `LocksMove`: no cycle
  between the two locks, and neither is held by a call that has ended.
- *Engine.* `OneCalculation` over all workers through timeouts, crashes and
  abandoned calls; `EngineReturns` says that leases come back and callers are
  answered.
- *Services.* `AcceptedIsPublished` bounds how long a withdrawn key is accepted, and
  `RefusalEnds` how long the retry floor can refuse an honest caller; `ToldIsWhole`
  says that no crash or clean-up takes a file of a build somebody was told of;
  `AtMostOneLate` is what the price client really keeps of its cool-down.
- *Installation.* `MarkedIsWhole`: whatever the archive held, the markers are written
  on a tree in which each edit was made exactly once.
- *Deployment.* `RetiredIsGone` and `CutStaysCut` over every failure and reboot.

*Why the bounds suffice.* The interesting cases need two actors on one row and
one more step: a disconnect between a request and its answer needs one account;
a late row of a pass needs two; eviction needs one more record than the quota; a
budget is overrun by the last of two or three calls. Time constants keep their
order (attempt < receipt retention, access life < refresh life), which is all
the guards compare. Counters that only grow (`MaxEpoch`, `MaxVersion`,
`MaxTokens`, `MaxRevision`, `MaxClock`, `MaxRestarts`) are bounds of a run and
guard the action that would pass them; they are set so that a second login after
a disconnect, a second rotation and a restart still fit. In `Trade` a pause of two
seconds exceeds the longest sleep of one, a failure lives two seconds and a result
one, so that each can outlive or be outlived by the others, and a dictionary of one
entry displaces with every second query. With one listing a fetch has one group:
its loop over several groups is in the model and not exercised by the run.

The trees of `Plans` cover a line, two ways of equal length, a fork, a dead end, an
ascendancy and a taken node with a rule of its own, with nodes taken for both weapon
sets or for one; every target list and refund is asked of each. The installation starts
from the reviewed sources or from one drift at one place of one of three files; these hold
most of the shared anchors. A page of four units against rows of one, two and four makes a page too
small for its second row and, with its envelope, for a single one.

*Fairness.* `AccountBroker!FairSpec` assumes that the
maintenance loop, which wakes every sixty seconds (`account_broker.py:210-217`),
starts a pass when an account is due, and that an awaited provider call ends,
which the client's ten-second timeout guarantees. It assumes nothing of the
member, of time or of crashes. `WorkflowTelemetry!FairSpec` assumes that a step ends, which
`asyncio.timeout` with at most ninety seconds guarantees, and that the event loop
wakes the cancellation that joined it. `EngineAdmission!FairAdmission` assumes that a
worker gets on with its calculation, which its 85-second timer, the kill and the
wait for the dead process guarantee, that a stopped container is started again
(`restart: unless-stopped`), and that a request that reached a worker is taken up,
refused, dropped with its container, or its answer received: the handlers wait for
nothing but locks that they do not queue for. `CallsFair` is both, for the side-by-side run.

Every property of a passing run is paired in `PROJECT.json` with a mutant of a
definition (a dropped comparison, a claim left set, an eviction of the oldest
receipt, ...) under which TLC finds it violated.

## The proofs

Eight modules hold the proofs. A property is stated in the module the proofs extend
and checked on a small instance by the run named in the table above; the theorem
establishes it for every value of the constants.

| Module | Theorem | Property |
|---|---|---|
| `AccountBrokerProofs` | `TypeCorrect`, `DisconnectIsFinal`, `LinkIsHeld` | `TypeOK`, `NotRevived`, `LinkHeld` |
| | `CredentialIsUsable`, `RotationIsSafe` | `CredentialUsable`, `RotationSafe` |
| | `TablesAreSound`, `ReceiptsAreOfLink`, `LiveReceiptsStay` | `TablesSound`, `ReceiptsFollowLink`, `LiveReceiptRetained` |
| `CurrencyPortfolioProofs` | `PortfolioIsSound`, `AnsweredIsKept` | `BookSound`, `AckedKept` |
| | `PortfolioKeepsBook` | `KeepsBook`, the refinement of `Ledger` |
| `BuildPlansProofs` | `RoutesAreSound`, `PlansKeepHistory` | `RoutesSound`, `PlanHistory` |
| | `PlanTypes`, `StoreIsBounded` | `TypeOK`, `StoreSound` |
| | `ReportsAreListed` | `ReportsListed`, the part of `StoreSound` about the two commits |
| | `AdviceIsRight`, `TreeAnswersAreRight` | `AdviceRight`, `TreeAnswersRight` |
| | `PlanningStandsAlone` | a behaviour of the composition is one of the plans, of the tree and of the advice |
| `TradeClientProofs` | `TradeTypes`, `LocksAlwaysMove` | `TypeOK`, `LocksMove` |
| | `TradeSendsPermitted`, `TradeSearchesSpared` | `SendsPermitted`, `SearchesSpared` |
| `CallsProofs` | `TraceIsSound`, `ClosedForGood` | `StepsSound`, `ClosedStays` |
| | `CalculationsExclude` | `OneCalculation` |
| | `InspectorIsSound`, `OldestGoFirst` | `InspectorSound`, `EvictsOldest` |
| | `CallsTypes`, `CallsStandAlone` | `CallsTypeOK`; a behaviour of the composition is one of each part |
| `ServicesProofs` | `ImportsAreSound`, `AssertionsAreSound`, `PricesAreSound` | `ImportsSound`, `AssertionsSound`, `PricesSound` |
| | `RequestsAreSpaced`, `ServicesStandAlone` | `RequestsSpaced`; a behaviour of the composition is one of each service |
| `StandaloneProofs` | `AnswersAreSound`, `DeploymentIsSound` | `AnswersSound`, `DeploymentSound` |
| | `PurchasesAreSound`, `PagesAreSound` | `PurchaseSound`, `PagesSound` |
| | `InstallIsSound`, `InstalledIsKept` | `InstallSound`, `InstalledKept` |

Each argument below names the inductive invariant and why the property alone is not one.

**Account broker.** Five invariants, each inductive relative to the ones before.

- `SessionInv`: the types; every row is a `GoodRow` (the fields of a row agree
  with its status, the secret is sealed under the row's version and UUID, a row
  with a deadline has a schedule); the callback has the shape of its phase; and
  what a refresh pass remembers (`batch`, `inflight`) is not newer than the row
  it came from. The last part is what makes the comparison of version and epoch
  after the await sufficient: both only grow, so equality means that nothing
  happened in between. Each UPDATE has a lemma that it keeps a row good, and
  `SessionStep` has one case per action. `CredentialOpens`,
  `NothingAfterDisconnect`, `PendingRefreshComes` and `RotationInheritsDeadline`
  follow from it.
- `LoginInv`: outstanding attempts were made in the present link generation, and a
  callback remembers the generation it was born in. A disconnect deletes the
  attempts and advances the generation; `NotRevived` follows.
- `CallInv`: a claimed row is the one whose call is in flight (`ClaimIsHeld`), and
  tokens are held in at most one place (a row, the call, the callback, or spent).
  `TokenIsUnused` is not inductive without the uniqueness of tokens: a callback could
  otherwise bring back one that was submitted. Most actions are `Quiet` (they bring in
  no credential and claim nothing); the others have lemmas of their own.
- `AttemptInv` and `AccountInv`: the attempts and the accounts are finite, within
  their quotas, and no two rows have one UUID. Most updates of rows `Settle` them: they
  give no row a UUID and bring none into use; registering and a login are the others.
- `ReceiptInv`: receipts are within their quota, each expires a fixed time after it
  was made, and one that is not cancelled names the present epoch of its account. A
  purge looks at the age and not at the status; that no live receipt goes follows from
  `IntentLife <= IntentKeep`.

Assumptions: `ConstantsAssumption` (quotas and lifetimes are positive, bounds are
naturals, receipts are kept at least as long as they live), `NoneAssumption` and
`AbsentAssumption` (`None` is none of the values it stands in for).

**Currency portfolio.** `GoodBook` says what is true of one document: its balance is the
opening plus the amounts of its events, each id stands once, a proposal is executed
once and after it was made, a valuation is of these holdings. `BookInv` demands it of
the stored document and of the copy of every suspended request, and relates the two: a
copy is no newer than the stored document and *is* that document at the same revision.
So a write that passes the comparison of revisions adds its event to the document it
was checked against. `BookSound` by itself says nothing about copies and is not
inductive. The refinement maps the events of the stored document to the ledger's
entries; `BookStarts` takes the initial states, `BookSteps` has one case per action,
and each is a ledger step (open, enter, close) or a stutter. Assumptions: the requests
are of their type, as `execution_evidence` normalises them, openings hold nothing of a
currency they do not list, and `None` is no document.

**Workflow telemetry.** `StepInv` says that at most one step runs, that it started from
an active document, and that this document is still the stored one: whoever else
changes it does so only when no step runs. A document that was lost does not come back,
because a trace is begun once; without that part a step could meet a younger document
of the same revision. `StartInv` keeps what was checked before the tool was awaited
(`HasRoom`, `WorthTrying`), so that the result may be appended; `CallsInv` is the
budget and the frugality of the stored calls; `JoinInv` says that a waiting
cancellation waits for a marked step and, once woken, finds the document closed. A
result is at most `Reserve` long because the code replaces a longer one by an error.

**Build plans.** `PlansInv` is `DataTypes` and four parts. `PlanInv`: a plan's state agrees
with the edits reported for it, and only what was accepted gets any. `AdverseInv`: for a
plan with an adverse report, the list of its reports still names that report, or one
that is missed (evicted or expired); `Problem` refuses a route for either, so a report
that was evicted still counts. `RouteInv` carries the property across the await of the
engine: the revision a route was drawn for was sound when it was read, so a route whose
revision is still current is sound, whether it is stored or awaited. `ListedInv`: an
observation is in its plan's list unless a crash left it `orphaned`.

`StoreInv` is inductive relative to it: `OrderInv`, `DiskInv` and `KeptInv` say that each
table has its quota of records and the two with decisions their quota of bytes. The sizes
are added up in the one order of `Listed` (`Weighs`), so a sum of fewer decisions is no
larger (`WeighsLess`) and one more adds its size (`WeighsAdd`). An eviction ends with room
(`EvictedIs`) because the memory can be emptied and a record alone fits. `OrderInv` also
says that what is in memory is not on disk: without it a revision saved to disk could grow
a decision that memory still counts. Assumptions (`ConstantsAssumption`): limits are
positive, a record is no larger than the store, and the ids are a finite set.

**Passive tree.** `TreeInv` holds on any tree: finitely many numbered nodes, whose starts
are taken for both weapon sets and have no rule of their own (`TreesAssumption`).

- *Searches.* What a queue meets is the last of its `Waves`: after as many rounds as there
  are nodes no link leads out of it (`WavesClosed`), and it is the least such set
  (`WavesWithin`, `ReachLeast`). So the connection check, the route and the end points are
  all reasoned about as least closed sets.
- *Routes.* `TreeRouteInv`: the modes are those after the clicks so far, and after each of
  them nothing is loose. A node next to one that serves its weapon set can be taken
  (`LooseAdd`); the new part of a shortest path is a line of such nodes (`NewPartIs`,
  `NewClicks`), although it may start from the middle of a route taken before. For one
  target, a node first met in the k-th wave is brought in by k nodes (`WaveSets`), and a set
  that brings in a node from beyond the k-th wave has a node in each wave and one more
  (`BeyondWaves`): the two halves of "as short as any", and "no route" is the second one
  with as many rounds as nodes. They give the end points too (`ListedIsHad`,
  `HadIsListed`), whose points are the difference of two counts (`PointsAgree`).
- *Orders.* The code takes the smallest node that can be clicked, which could spoil an order
  that exists. It does not. For nodes to take: the first node of an order that is not
  clicked yet can be clicked, because what was clicked before only adds (`TakeGoesOn`). For
  nodes to give back: between a tree that hangs together and a larger one that does too,
  one node of the larger can be added to the smaller, one for both weapon sets first
  because only such nodes hold it (`OneMore`), and so one can be given back (`OneLess`,
  by the fewest nodes left). `ClickOrderInv` carries what was clicked and what is pending.

**Advice.** `AdviceInv` follows the listings from the searches to the enumeration: every
search before `reached` is settled (`FetchInv`): each listing it matched is offered or
excluded with a reason, and no listing is matched by two searches. Once the searches are
over, the plans are the outfits of the reference. The code drops what is too dear by
itself and enumerates the combinations of what is left; more than `MaxPlans` of them are
refused, never cut short. That nothing is lost (`WornIsFound`) rests on a plan costing at
least each of its changes (`CostCovers`, a sum of naturals), so that what the code drops
early is in no affordable outfit. Of finitely many affordable plans that are eligible the
ranking chooses one that none comes before. Assumption (`AdviceAssumption`): a request
names finitely many listings and slots, and prices and budgets are naturals.

**Trade client.** `TradeInv` has six parts. `GateInv`: the requests the provider counts and
has shown to the client are covered by the gate's rule, in number and in time.
`CallInv`: the types of the suspended calls and `LocksMove`, which for each action is one
of three moves of the queue (a call joins, leaves, or stays) given as lemmas about
sequences without repetition. `ReadyInv`: a call that sleeps before its send was given
its delay by the present gate, and nothing was blocked since: the request lock is
what keeps others from changing the gate meanwhile. `KeptInv` types the dictionaries;
`FailedInv` says that failures in a row are remembered as long as they count, unless an
answer without the expected form made the client forget them; `PursuitInv` says that
what a search found out under its lock (no young result, few failures) stays true while
it holds it. Every action is a move of the dictionaries (`Onward`) with lemmas of its
own. Assumptions: limits and lifetimes are positive, a result is cached no longer than
it is retained, the listings are a finite set, `None` is no task.

**Engine admission.** For any number of servers, workers and calls, under
`PlacedAssumption`: every call has a worker, and `NoOne` is neither a call nor a worker.
The mutual exclusion is not inductive by itself: `LeaseInv` adds that the worker's lock
and the shared lease are held together, by a request that is marked running and belongs
to that worker, and that a request exists only in a container that is up. So a crash of
one worker cannot free what another holds, and a request that is turned away frees
nothing.

**Static inspection.** `InspectorInv` adds one conjunct to the types, the account and the
lock: the key that is being listed is not in the cache. Without it, storing a result
could put a key into the cache twice: the code assigns `cache[key]` and adds the bytes
without looking for an entry to replace (`private_inspection.py:90-91`), which is right
because the miss purged the key before the await and only the holder of the lock brings
one in. What a purge and an eviction remove is described by `Picked`; that the bytes
kept and the bytes removed add up (`BytesSplit`) is the lemma the account rests on.
Assumptions: sizes and limits are naturals, and the absence of a key is no key.

**Services.** The three services are proved one by one; `ServicesStandAlone` carries the
results to the composition that the run checks.

- *Imports.* `ImportInv`: `WrittenSoFar` ties the files of a build that is being written
  to the step of the import, so that a crash before any write leaves either no build or
  a whole one; `RoomInv` reserves the room of the import under way in both quotas: the
  check is made before the writes and the clean-up runs between them. `RefreshInv` keeps
  the deadline of a character one floor after its last request; it is on disk before the
  request is sent. Files are counted one unit each.
- *Assertions.* `FetchInv` (the lock: one fetch, begun when the floor allowed it, over
  within `FetchTime`), `IssuerInv` (what is published was published now), `CopyInv` (a
  key in a copy was still published when the copy was fetched; a key published before a
  fetch began is in its answer). A fetch that outlived the floor would break the last
  part, hence the assumption `FetchTime < RetryFloor <= KeyLife`, which the code's five
  seconds, thirty seconds and five minutes satisfy.
- *Prices.* `LoaderInv` (of two calls for one key one waits for the key's lock),
  `HolderInv` (one call sleeps under the rate lock), `PaceInv` (the next request is an
  interval after the latest; the one who sleeps waits for it; after a late request nobody
  is left to be late in the same cool-down), `SavedInv` and `RowsInv`. Times are
  naturals, the keys a finite set; `ScoutCache`'s number of pages per key is any natural.

**Server.** `ServerInv` relates the calls under way to what is kept. `FamilyInv`: a call
made by a workflow step is a calculation of the step's owner, and the step waits for it;
so the identifier the answer leaves with the step (`ToldInv`) is of a receipt of that
owner. `KeptInv`: a receipt has the owner under whom its number was issued, which is
what lets a purge and an eviction move receipts about; that the loop of `retain` ends
with the new receipt in place (`OneFits`: one alone always fits) is `RetainedKeeps`.
`OfferInv`: a handoff that is being prepared is of a signed-in owner, and its listing is
`offered`: the row itself would not do, since two overlapping reads of an unread listing
both write it, and the later one may find the listing gone. `TraceInv` counts the error answers. Assumptions
(`ServerAssumption`): the store and the traces have room for one, and no call has the
name that stands for no call.

**Mac deployment.** `MacInv` says of the members on disk that no identifier, e-mail or
port stands twice, retired members included (`GoodList`), and of a command what is left
of it (`CommandInv`): its steps are the rest of those `main` takes, the settings it holds
are of the members on disk, and a removal that is about to remove a member's services has
none running, one that is about to retire the member has none left (`Cleared`). Without
`Cleared` a failure between two steps could leave a retired member with a service.
`OwnersInv` ties every volume and route to a member on the list. Assumption (`DeploymentAssumption`): one terminal at
a time, since `mac.py` takes no lock; two that run side by side can overwrite each
other's file.

**Purchase comparison.** `PurchaseInv`: once the comparison is over, what was saved is what
its candidates, budget and the problems of the loaded plans give at one of the rates. It is
inductive because the code copies the plans before its awaits and resolves the observations
they list when it decides, so nothing that enters the answer changes behind it
(`SavedStays`). The rest is about the
answer: a qualified candidate that is not on the frontier is beaten by one that is, since
a finite set has an element that none precedes (`FiniteMinimal`, by the number of those
that precede); a cost is an integer whatever the bill; the time of the recheck is the
least of finitely many (`RecheckIsEarly`). Assumptions (`PurchaseAssumption`): finitely
many candidates, whose bills and scores are of the types the request validates, and
integer budgets, rates and ages.

**Installation.** The scripts and the reviewed sources are constants; what varies is the
archive, the answers for the data files, where the installer stops and what is run again.
The proof is therefore in two parts.

- *The table.* `TableAssumption` states what the scripts of `PatchScripts` are like, edit by
  edit: an edit adds texts of its own before its anchor, behind it or in its place
  (`EditsAreFormed`); no text is added twice, and none is an anchor before it is added or
  after it is replaced (`TextsAreApart`); reviewed sources have every anchor once
  (`SourcesAreReviewed`); a script that can be run again has an edit that refuses before
  the first write, or passes over all its edits (`RunsAgain`). These are closed formulas
  about constants, which TLC evaluates in full in the run `Standalone`; the proof takes no
  other fact from the table but the number and the names of the scripts.
- *The texts.* For any sequences, what `Replaced` does to the number of each text
  (`ReplacedConcat` and the lemmas beside it, by a least counterexample over the prefixes),
  and that an edit which spares a piece of a text leaves it in one piece (`HasReplaced`).

`InstallInv`: during the first run the queue is the rest of the scripts, and every file,
the prepared text included, is what the edits done so far make of it (`TextFits`): each
anchor and text is there as often as it should be (`Counted`; the texts of an edit whose guard tolerates the
drift are excepted, `Loose`), what an edit put there and
later edits spare is there in one piece (`InOnePiece`), and no guarded edit was made where
the file had drifted (`Watched`). The markers mean `WholeTree`, the same for all edits.
When a script runs again, `AgainRun` says that an edit which refuses is still to come
(`Refuses`), so a script that writes at its end does not get there; the others pass over
every edit. `MarkedIsWhole` alone is not inductive: it says nothing about a tree that is
half patched. `Tolerates` says which guards let a drift pass: "any", and "some" an anchor
that is doubled. Assumption (`InstallAssumption`): a data file is requested at least once, and
the files that may drift are files of the table.

**Paged reads.** `ReadTo` says that what a client has are the first rows of the list up to
its offset, or all of them at the end. A page is an answer that continues the list and
brings the client further, or a refusal (`GoodPage`); that the row at the offset fits by
itself whenever some page holds it (`FirstRowFits`: a sum of naturals is no less than one
of them) makes a refusal depend on the row and not on the limit, which is the part a
bounded check says least about. For documents `TextRead` speaks of the digests seen: as
long as there is one, the text so far are the first characters of the section it seals; it
says nothing once there are two, and needs not, since a set of digests only grows.
Assumptions (`PagingAssumption`): sizes are naturals, an empty page fits, limits are
positive.

**Lists and searches of every length.** `ListsProofs` proves of `Total` that it is an integer, that
appending an amount adds it, that it grows with its amounts, and what replacing one of
them does to it (`TotalMono`, `TotalUpdate`); of `Picked`,
that it keeps exactly the chosen entries in their order (`InOrder`), and that a list's sum
is that of the entries picked and that of the rest (`TotalSplit`). Of `Waves` it proves
that there are such sets (`WavesIs`), that they grow and stay within any set that is closed
under the next nodes, and that the last is closed. The
library's induction theorems take a predicate, which the provers cannot instantiate;
`WFMin`, that a set has a minimal element, takes a set, so each induction is a least
counterexample (`LeastNatural`, `NaturalsIn`). Sums taken with the community modules'
folds have no such lemmas here, and other recursive functions none.

**Assumptions on constants** are named, in the module that declares the constants, and
evaluated by TLC in every passing run that extends it.

Checked by TLC and not proved: liveness under fairness (`RefreshProgress`, `CancelReturns`,
`EngineReturns`) and ENABLED, which the prover does not treat. Every other property of a
passing run is stated by a theorem.

## What the runs refute

- `account_identity`: a login is matched by UUID, then by the display name of an
  unverified row, and `register` answers any row of that name. A second UUID that
  logs in under the name of a verified account overwrites that account's UUID,
  although `src/docs/account-sessions-and-travel.md:84` and `:252` say that names
  decide no ownership and a different UUID of the same name is refused.
- `account_expired`: a pass selects up to sixteen rows with one reading of the
  clock and sends them one after another. When an earlier answer is slow, a later
  token is sent after its absolute deadline; `src/tests/test_accounts.py:208`
  says that an expired token is never submitted.
- `TradeRetries`: `_search` forgets the failures of a query (`trade.py:601`) before
  it looks at the form of the answer (602-606), and that error is not counted. A
  search that always fails in this way is sent again as often as it is asked for,
  although `src/docs/workflows.md:31` promises a bounded retry policy for repeated
  identical failures. `SendsPermitted` includes the bound for every other kind of failure.

Other places where the code and a text differ, or where the model shows how far a
promise goes. They have no run of their own; the model contains the behaviour and
the property beside it states what does hold:

- The trade gate learns a policy's allowance from the headers of answers, so requests
  whose answers were lost, or came without a state, are not counted against a rule it
  does not have yet, and the client may then send more than the provider allows. The
  provider answers 429, which the gate heeds. The allowance in `SendsPermitted` is
  conditional for this reason.
- `src/docs/tools.md:49` says that 429 responses apply cool-downs. A request that
  already sleeps under the price client's rate lock (`scout.py:184-190`) is sent
  although a cool-down was set meanwhile: one request per cool-down (`AtMostOneLate`).
- `engine.py:170-171` speaks of a bounded private queue of the inspection; the worker
  refuses a second listing with `engine_busy` at once (`StaticInspector!Busy`).
- Run again by hand, `patch_stonefist.py` writes its first text again before it
  refuses, because another of its edits separates that text from its anchor. The
  installer never runs a script twice; `InstalledKept` excepts this script and holds
  for the other seven that take a destination.
- `mac.py` reads `deployment.json` once and writes it at the end, without a lock. Two
  commands at once lose an update; `DeploymentSound` is checked for one terminal.
- `catalog.route` takes every taken node that serves the weapon set as the start of a path
  (`catalog.py:86-87`), those with a rule of their own included, which the connection check
  excepts (`catalog.py:74-76`). A path can therefore start from a special node that itself
  hangs on nothing, and its new nodes are then linked to no start, whereas
  `src/docs/workflows.md:21` says that unsupported special-allocation routes fail closed.
  `passive_candidates.discover` leaves such starts out (`passive_candidates.py:75`).
  `RouteIsShortest` counts taken special nodes among the starts, and the part of
  `CandidatesAgree` that says nothing is missing speaks of trees without them.
- `purchases.compare` copies its plans before it awaits the league and the rates
  (`purchases.py:84`), and resolves the observations of these copies afterwards (147). An
  outcome reported during the awaits is therefore not seen by the comparison that is under
  way, while one deleted or expired during them counts against its candidate.
  `PrimaryIsSound` speaks of the observations the copies list.
- `TradeClient.fetch` chooses the rows it asks for before the request (`trade.py:625`) and
  writes all of them after it (655-656). Of two overlapping reads the later decides: a row
  may turn from listed to gone while a handoff or a detail of it is under way.
  `HandoffsAreOffered` says that some answer had listed it.
- An exception of the price client or a time limit of a request becomes
  `internal_tool_error` for the member, because its class is not among the public ones
  (`CompanionServer!PublicClasses`).

## What is not modelled

In the modelled components: cryptography (sealing is modelled as the association
of a secret with an identity and a version, the PKCE verifier and the browser
binding as the equality they enforce), CSRF tokens, HTML, JSON shapes and
wording. A copied database is represented by `InvalidateRestored`, the command
`src/docs/accounts.md` requires before a restored broker runs; restoring without
it is outside the model. An answer 429 is taken to mean that the token was not
consumed. An uninterrupted piece of a handler takes no time. Portfolio
quantities are small integers: the rounding of decimals to floats is not
modelled. Byte quotas of the artifact table appear as a refused call, a lost
document or a route that cannot be stored. Two observations conflict when their
outcomes under one key differ. Of the trade client, the Korean catalogue (a second
gate and lock of the same class), `recommend` and the text of details are left out;
the three parts of the catalogue are one, which arrives in one request or several;
a policy has one window; and rate headers that cannot be read are taken to change
no rule.

Of the passive tree, masteries, jewel sockets and the loading of the catalogue. Of the
Mac, the configure commands, `status`, and the owner's own services, which no
command removes. Of the server, tool schemas, the HTTP transport and the body of each
tool. Of the installation, the Lua text but for what a later script anchors in.

The components without a module, and why:

- *Rollback, exports, dependencies, progression*: one answer computed without an await
  from one document; the store that retains them is in `BuildPlans`.
- *Analyses* (`value_`, `economy_`, `map_`, `risk_analysis`, `recovery`): floating-point
  arithmetic over a request, which TLC cannot express.
- *Equipment and support search*: enumerations of the kind `Recommendation` models, over
  the engine's floating-point answers.
- *Guide provider, saved builds, item and equipment parsing*: parsers of external
  formats without state of their own.
- *Engine records, catalogues, vocabulary, `beast_metadata.py`* (a table of 1156 lines):
  data and validators.
- *Account client and page*: a socket client and HTML; the handlers are modelled.
- *Metrics, health and release checks*: counters and one-shot scripts.

The map covers about a third of the implementation's lines; most of the rest is in
these components.

## Plan

What is left:

Rollback (`rollback_plans`) as one more pure algorithm beside `PassiveTree`.
