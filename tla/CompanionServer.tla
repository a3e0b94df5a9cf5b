---------------------------- MODULE CompanionServer ----------------------------
(* The MCP server (server.py): which tools it registers, how a tool call is    *)
(* checked, counted, run and answered, the calculation receipts it keeps for   *)
(* each owner (diagnostics.py), and the travel handoff, which asks the trade   *)
(* client and then the account broker. A handler that awaits lets other calls  *)
(* in between; one that does not is one step.                                  *)
EXTENDS FiniteSets, SequencesExt, Lists

CONSTANTS
    Calls,          \* tool calls under way at a time
    Owners,         \* principals, as issuer and subject, or the local session
    ServerConfigs,  \* which parts are configured: [access, http, accounts, characters, engine, trade, reader]
    Raised,         \* what a handler may raise: [class, safe, depth]
    ChainLimit,     \* causes looked at for a public code
    Capacity,       \* receipts kept
    SizeLimit,      \* their size together
    Sizes,          \* sizes of receipts
    ReceiptLife,    \* seconds a receipt is kept
    TraceLimit,     \* error traces kept
    Listings,       \* listings a retained search has returned
    MaxIssued,      \* bound: receipts issued
    MaxFailures,    \* bound: error answers
    MaxServerTime   \* bound: seconds

ASSUME ServerAssumption ==
    /\ Capacity \in Nat \ {0} /\ TraceLimit \in Nat \ {0} /\ "" \notin Calls
    /\ MaxFailures \in Nat /\ ReceiptLife \in Nat

VARIABLES
    config,     \* the configuration
    serving,    \* "no", "yes" or "refused"
    tasks,      \* each call: None or [tool, owner, parent, stage, about]
    reply,      \* the last answer: [owner, text, raised, receipt]
    error_traces, \* the last errors: [tool, number]
    receipts,   \* calculation receipts, oldest first: [id, owner, expiry, size]
    search,     \* the retained search: [alive, rows], a row "unread", "gone" or "listed"
    offered,    \* listings an answer of the trade site listed
    handoffs,   \* travel receipts the broker made: [owner, listing]
    issued,     \* the owner of every receipt there was
    failures,   \* error answers there were
    clock       \* seconds

serverVars == <<config, serving, tasks, reply, error_traces, receipts, search, offered, handoffs,
                issued, failures, clock>>

Nobody == "nobody"      \* no principal: an unauthenticated or local session
NoTask == [tool |-> "", owner |-> "", parent |-> "", stage |-> "", about |-> 0]
NoReply == [owner |-> "", text |-> "", raised |-> "", receipt |-> 0]

-------------------------------------------------------------------------------
(* One tool stands for each kind: how its arguments are checked and its errors *)
(* answered.                                                                   *)

OpenTools == {"search_game_terms", "get_currency_prices"}
CharacterTools == {"get_character"}
EngineTools == {"recalculate_build", "get_build_diagnostics", "run_workflow_step"}
ReaderTools == {"get_build_summary"}
AccountTools == {"prepare_hideout_travel"}

\* Tools exist when the parts that serve them are configured.
Registered(c) ==
    OpenTools \cup (IF c.characters THEN CharacterTools ELSE {}) \cup (IF c.engine THEN EngineTools ELSE {})
    \cup (IF c.reader THEN ReaderTools ELSE {}) \cup (IF c.accounts THEN AccountTools ELSE {})

ToolNames == OpenTools \cup CharacterTools \cup EngineTools \cup ReaderTools \cup AccountTools

Typed == EngineTools

\* What a refused argument is answered with; the price tools leave it to the
\* framework, whose exception is not shown.
Refusal(tool) ==
    CASE tool = "prepare_hideout_travel" -> "invalid_account_request"
      [] tool = "search_game_terms" -> "localization_request_unavailable"
      [] tool = "get_character" -> "invalid_character_request"
      [] tool = "get_build_summary" -> "invalid_build_request"
      [] tool \in Typed -> "invalid_arguments"
      [] OTHER -> "internal_tool_error"

\* What any other exception is answered with.
Fallback(tool) ==
    CASE tool \in Typed -> "tool_request_failed"
      [] tool = "get_build_summary" -> "build_projection_unavailable"
      [] OTHER -> Refusal(tool)

\* The classes whose own code may be shown.
PublicClasses(tool) ==
    CASE tool \in Typed -> {"WorkflowError", "EngineError", "TradeError", "BuildError"}
      [] tool = "get_character" -> {"CharacterError"}
      [] OTHER -> {}

Shown(tool, raised) ==
    raised.class \in PublicClasses(tool) /\ raised.safe /\ raised.depth <= ChainLimit

\* Errors of names that are not registered are traced as one.
TracedAs(tool) == IF tool \in Registered(config) THEN tool ELSE "unknown"

-------------------------------------------------------------------------------

Expired(row) == row.expiry <= clock

\* Mutant: a receipt is found by its identifier alone.
ReadableByAll(row, owner) == ~Expired(row)

Readable(row, owner) == ~Expired(row) /\ row.owner = owner

TotalSize(rows) == Total(0, [i \in DOMAIN rows |-> rows[i].size])

Fits(rows) == Len(rows) <= Capacity /\ (Len(rows) > 1 => TotalSize(rows) <= SizeLimit)

\* CalculationReceipts.retain: expired rows go, the new one comes last, the
\* oldest go until the rest fits.
Retained(row) ==
    LET live == Picked(receipts, {i \in DOMAIN receipts : ~Expired(receipts[i])})
        all == Append(live, row)
        kept == CHOOSE n \in 0..Len(all) :
                  /\ Fits(SubSeq(all, n + 1, Len(all)))
                  /\ \A m \in 0..(n - 1) : ~Fits(SubSeq(all, m + 1, Len(all)))
    IN  SubSeq(all, kept + 1, Len(all))

-------------------------------------------------------------------------------

ServerTypeOK ==
    /\ config \in ServerConfigs /\ serving \in {"no", "yes", "refused"}
    /\ \A c \in Calls : tasks[c] = NoTask \/
         (tasks[c].owner \in Owners \cup {Nobody} /\ tasks[c].parent \in Calls \cup {""})
    /\ failures \in 0..MaxFailures /\ Range(issued) \subseteq Owners \cup {Nobody}

ServerInit ==
    /\ config \in ServerConfigs /\ serving = "no"
    /\ tasks = [c \in Calls |-> NoTask] /\ reply = NoReply
    /\ error_traces = << >> /\ receipts = << >>
    /\ search = [alive |-> TRUE, rows |-> [l \in Listings |-> "unread"]]
    /\ offered = {} /\ handoffs = {} /\ issued = << >> /\ failures = 0 /\ clock = 0

\* main: Access needs HTTP, and the account pages need Access.
Serve ==
    /\ serving = "no"
    /\ serving' = IF (config.access => config.http) /\ (config.accounts => config.access) THEN "yes" ELSE "refused"
    /\ UNCHANGED <<config, tasks, reply, error_traces, receipts, search, offered, handoffs, issued, failures, clock>>

\* deque(maxlen): the oldest trace makes room.
Latest(traces, trace) ==
    IF Len(traces) < TraceLimit THEN Append(traces, trace) ELSE Append(Tail(traces), trace)

\* ProjectionMCP.call_tool, at its end: an error is traced.
Answer(c, task, text, raised, receipt, error) ==
    /\ tasks' = [d \in Calls |->
         IF d = c THEN NoTask
         ELSE IF d = task.parent THEN [tasks[d] EXCEPT !.about = receipt] ELSE tasks[d]]
    /\ reply' = [owner |-> task.owner, text |-> text, raised |-> raised, receipt |-> receipt]
    /\ IF error
       THEN /\ failures' = failures + 1
            /\ error_traces' = Latest(error_traces, [tool |-> TracedAs(task.tool), number |-> failures'])
       ELSE UNCHANGED <<error_traces, failures>>

Good(c, task, text, receipt) == Answer(c, task, text, "", receipt, FALSE)
Bad(c, task, text) == Answer(c, task, text, "", 0, TRUE)
Thrown(c, task, raised) ==
    IF Shown(task.tool, raised) THEN Answer(c, task, "own", raised, 0, TRUE) ELSE Bad(c, task, Fallback(task.tool))

Task(tool, owner, parent, stage, about) ==
    [tool |-> tool, owner |-> owner, parent |-> parent, stage |-> stage, about |-> about]

Free(c) == serving = "yes" /\ tasks[c] = NoTask /\ failures < MaxFailures

\* Arguments that do not fit, and tools that are not registered, reach no handler;
\* the arguments of a typed tool are looked at first, and names it does not have
\* are answered like any other exception.
Refuse(c, tool, owner) ==
    /\ Free(c)
    /\ \E text \in {Refusal(tool)} \cup
                      (IF tool \in Registered(config) \ Typed THEN {} ELSE {Fallback(tool)}) :
         Bad(c, Task(tool, owner, "", "", 0), text)
    /\ UNCHANGED <<config, serving, receipts, search, offered, handoffs, issued, clock>>

\* A handler that never awaits: a receipt is read, or a catalogue or projection.
Read(c, tool, owner, id) ==
    /\ Free(c) /\ tool \in Registered(config) \cap {"search_game_terms", "get_build_summary", "get_build_diagnostics"}
    /\ LET task == Task(tool, owner, "", "", id)
           rows == {r \in Range(receipts) : r.id = id /\ Readable(r, owner)}
       IN  IF tool # "get_build_diagnostics" THEN id = 0 /\ Good(c, task, "ok", 0)
           ELSE IF rows # {} THEN Good(c, task, "ok", id)
           ELSE Thrown(c, task, [class |-> "EngineError", safe |-> TRUE, depth |-> 2])
    /\ UNCHANGED <<config, serving, receipts, search, offered, handoffs, issued, clock>>

\* A handler that awaits a service or, for a workflow step, another call.
Enter(c, tool, owner) ==
    /\ Free(c)
    /\ tool \in Registered(config) \cap {"get_currency_prices", "get_character", "recalculate_build", "run_workflow_step"}
    /\ tasks' = [tasks EXCEPT ![c] = Task(tool, owner, "", "awaiting", 0)]
    /\ UNCHANGED <<config, serving, reply, error_traces, receipts, search, offered, handoffs, issued, failures, clock>>

\* The step calls the server itself, under the same owner.
Step(c, inner) ==
    /\ tasks[c].tool = "run_workflow_step" /\ tasks[c].stage = "awaiting" /\ Free(inner)
    /\ tasks' = [tasks EXCEPT ![c].stage = "stepping",
                              ![inner] = Task("recalculate_build", tasks[c].owner, c, "awaiting", 0)]
    /\ UNCHANGED <<config, serving, reply, error_traces, receipts, search, offered, handoffs, issued, failures, clock>>

\* The step's answer is embedded in the call's, an error too.
Stepped(c) ==
    /\ tasks[c].stage = "stepping" /\ \A d \in Calls : tasks[d].parent # c
    /\ Good(c, tasks[c], "ok", tasks[c].about)
    /\ UNCHANGED <<config, serving, receipts, search, offered, handoffs, issued, clock>>

\* The service answers; a calculation is retained under the call's owner.
Finish(c) ==
    /\ tasks[c].stage = "awaiting" /\ tasks[c].tool # "run_workflow_step"
    /\ IF tasks[c].tool = "recalculate_build"
       THEN /\ Len(issued) < MaxIssued /\ issued' = Append(issued, tasks[c].owner)
            /\ \E size \in Sizes : receipts' =
                 Retained([id |-> Len(issued'), owner |-> tasks[c].owner, expiry |-> clock + ReceiptLife, size |-> size])
            /\ Good(c, tasks[c], "ok", Len(issued'))
       ELSE Good(c, tasks[c], "ok", 0) /\ UNCHANGED <<issued, receipts>>
    /\ UNCHANGED <<config, serving, search, offered, handoffs, clock>>

\* The service fails, or run() gives up after ninety seconds.
Fail(c) ==
    /\ tasks[c].stage = "awaiting" /\ failures < MaxFailures
    /\ \E raised \in Raised : Thrown(c, tasks[c], raised)
    /\ UNCHANGED <<config, serving, receipts, search, offered, handoffs, issued, clock>>

\* The client goes away. No exception that call_tool would answer; a step's own
\* call is cancelled with it.
Cancel(c) ==
    /\ tasks[c].stage \in {"awaiting", "stepping"} /\ tasks[c].parent = ""
    /\ tasks' = [d \in Calls |-> IF d = c \/ tasks[d].parent = c THEN NoTask ELSE tasks[d]]
    /\ UNCHANGED <<config, serving, reply, error_traces, receipts, search, offered, handoffs, issued, failures, clock>>

-------------------------------------------------------------------------------
(* prepare_hideout_travel *)

\* Without a principal or a search there is no handoff; only a listing of the
\* retained search is asked about, and only when its row was not read before.
\* What is missing is decided here, before the answer is awaited.
Travel(c, owner, listing) ==
    /\ Free(c) /\ "prepare_hideout_travel" \in Registered(config)
    /\ LET stage == IF search.rows[listing] = "listed" THEN "preparing" ELSE "fetching"
           task == Task("prepare_hideout_travel", owner, "", stage, listing)
           refuse(status) == Good(c, task, status, 0)
       IN  IF owner = Nobody THEN refuse("authentication_required")
           ELSE IF ~config.trade \/ ~search.alive THEN refuse("search_unavailable")
           ELSE IF listing \notin DOMAIN search.rows \/ search.rows[listing] = "gone"
             THEN refuse("listing_unavailable")
           ELSE /\ tasks' = [tasks EXCEPT ![c] = task]
                /\ UNCHANGED <<reply, error_traces, failures>>
    /\ UNCHANGED <<config, serving, receipts, search, offered, handoffs, issued, clock>>

\* The fetch ends: the trade client refuses, or the answer is written over the
\* row, whatever an overlapping fetch has found meanwhile.
ListingFetched(c) ==
    /\ tasks[c].stage = "fetching"
    /\ \/ Good(c, tasks[c], "search_unavailable", 0) /\ UNCHANGED <<search, offered>>
       \/ /\ search' = [search EXCEPT !.rows[tasks[c].about] = "gone"]
          /\ Good(c, tasks[c], "listing_unavailable", 0) /\ UNCHANGED offered
       \/ /\ search' = [search EXCEPT !.rows[tasks[c].about] = "listed"]
          /\ offered' = offered \cup {tasks[c].about}
          /\ tasks' = [tasks EXCEPT ![c].stage = "preparing"] /\ UNCHANGED <<reply, error_traces, failures>>
    /\ UNCHANGED <<config, serving, receipts, handoffs, issued, clock>>

\* The broker makes the receipt, or says why not; its answer may be lost.
Prepared(c) ==
    /\ tasks[c].stage = "preparing"
    /\ \E made \in BOOLEAN, heard \in BOOLEAN :
         /\ handoffs' = IF made THEN handoffs \cup {[owner |-> tasks[c].owner, listing |-> tasks[c].about]} ELSE handoffs
         /\ Good(c, tasks[c], IF ~heard THEN "broker_unavailable"
                              ELSE IF made THEN "prepared" ELSE "account_unavailable", 0)
    /\ UNCHANGED <<config, serving, receipts, search, offered, issued, clock>>

Forget ==
    /\ search.alive /\ search' = [search EXCEPT !.alive = FALSE]
    /\ UNCHANGED <<config, serving, tasks, reply, error_traces, receipts, offered, handoffs, issued, failures, clock>>

Tick ==
    /\ clock < MaxServerTime /\ clock' = clock + 1
    /\ UNCHANGED <<config, serving, tasks, reply, error_traces, receipts, search, offered, handoffs, issued, failures>>

ServerNext ==
    \/ Serve \/ Tick \/ Forget
    \/ \E c \in Calls :
         \/ \E owner \in Owners \cup {Nobody} :
              \/ \E tool \in ToolNames : Refuse(c, tool, owner) \/ Enter(c, tool, owner)
              \/ \E tool \in ToolNames, id \in 0..MaxIssued : Read(c, tool, owner, id)
              \/ \E listing \in Listings : Travel(c, owner, listing)
         \/ \E inner \in Calls : Step(c, inner)
         \/ Stepped(c) \/ Finish(c) \/ Fail(c) \/ Cancel(c) \/ ListingFetched(c) \/ Prepared(c)

ServerSpec == ServerInit /\ [][ServerNext]_serverVars

-------------------------------------------------------------------------------
\* A receipt is read by the owner whose call retained it, and only by them, and
\* a call is told of receipts of its own owner, through a workflow step too.
ReceiptsAreTheirs ==
    /\ reply.receipt # 0 => issued[reply.receipt] = reply.owner
    /\ \A i \in DOMAIN receipts : receipts[i].owner = issued[receipts[i].id]

\* The store keeps within its bounds and never gives up the newest receipt, which
\* its caller has just been told of, before it expires.
ReceiptsHeld ==
    /\ Len(receipts) <= Capacity /\ (Len(receipts) > 1 => TotalSize(receipts) <= SizeLimit)
    /\ issued # << >> => receipts # << >> /\ Last(receipts).id = Len(issued)

\* The error traces are the latest errors, in order, whichever calls they ended.
TracesAreLatest ==
    /\ Len(error_traces) = IF failures < TraceLimit THEN failures ELSE TraceLimit
    /\ \A i \in DOMAIN error_traces : error_traces[i].number = failures - Len(error_traces) + i

\* An error shows a public code of a class its tool may show, from one of the
\* causes looked at; anything else is answered with the tool's fixed text.
AnswersArePublic ==
    reply.text = "own" =>
        /\ reply.raised.safe /\ reply.raised.depth <= ChainLimit
        /\ reply.raised.class \in {"WorkflowError", "EngineError", "TradeError", "BuildError", "CharacterError"}

\* A travel receipt is for a signed-in owner and a listing that an answer of the
\* trade site has listed, also when its row was read by another call, when the
\* search has gone or when a later answer wrote over the row.
HandoffsAreOffered ==
    \A h \in handoffs : h.owner \in Owners /\ h.listing \in offered

\* What the server answers and keeps, whatever order its calls take.
ServerSound ==
    /\ ServerTypeOK /\ ReceiptsAreTheirs /\ ReceiptsHeld
    /\ TracesAreLatest /\ AnswersArePublic /\ HandoffsAreOffered

===============================================================================
