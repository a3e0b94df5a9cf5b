------------------------------- MODULE BuildPlans -------------------------------
(***************************************************************************)
(* Build plans (experiments kept as decisions), the observations a member  *)
(* reports about them, and the routes drawn up to carry them out.          *)
(*                                                                         *)
(* The store keeps a decision or an observation in memory, bounded for all *)
(* owners together and evicted in order of insertion, or encrypted on disk *)
(* under a quota per owner.  Requests run to the end between awaits; only  *)
(* a route waits for the engine, with its own copy of the plan.            *)
(***************************************************************************)
EXTENDS FiniteSets, SequencesExt, Lists

CONSTANTS
    Plans,          \* experiment ids
    Owner,          \* [Plans -> the member that owns the plan]
    Edits,          \* the edits of a plan
    Traits,         \* what the engine found out about a plan
    Reports,        \* observation ids
    Contents,       \* what a member may observe
    Routes,         \* execution plan ids
    Clients,        \* route requests that can wait at the same time
    None,
    MaxRecords,     \* 100
    MaxBytes,       \* 16 MiB
    MaxRecordBytes, \* 512 KiB
    ReportLimit,    \* 32 observations per plan
    MaxRevision     \* bounds the reports of partial application

\* acceptable: valid change set and validation passed.  executable: nothing else
\* stands against a route.  needs: an unlock must be reported first.
Trait   == [acceptable : BOOLEAN, executable : BOOLEAN, needs : BOOLEAN]

ASSUME ConstantsAssumption ==
    /\ {MaxRecords, MaxBytes, MaxRecordBytes, ReportLimit, MaxRevision} \subseteq Nat \ {0}
    /\ MaxRecordBytes <= MaxBytes
    /\ DOMAIN Owner = Plans /\ IsFiniteSet(Plans)
    /\ IsFiniteSet(Edits) /\ Edits # {}
    /\ Traits \subseteq Trait
    /\ \A content \in Contents :
         content.outcome \in IF content.key = "unlock" THEN {"unlocked", "locked"}
                             ELSE {"stable", "adverse", "unknown"}

VARIABLES
    plan,       \* [Plans -> decision document, or None]
    order,      \* the decisions in memory, oldest first
    report,     \* [Reports -> observation, or None]
    kept,       \* the observations in memory, oldest first
    route,      \* [Routes -> execution plan, or None]
    call,       \* [Clients -> the route request that waits, or None]
    spent,      \* ids handed out: they are random and never return
    adverse,    \* ghost: plans with an accepted report of depletion or death
    orphaned    \* ghost: observations a crash left without their plan's entry

vars == <<plan, order, report, kept, route, call, spent, adverse, orphaned>>

Owners == {Owner[p] : p \in Plans}

PlanState == {"proposed", "accepted", "partially_applied", "applied", "observed",
              "rejected", "superseded"}
Document ==
    [persist : BOOLEAN, trait : Traits, state : PlanState, revision : Nat \ {0},
     edits : SUBSET Edits, reports : Seq(Reports)]
Observation == [owner : Owners, plan : Plans \cup {None}, content : Contents, persist : BOOLEAN]
Route == [plan : Plans, revision : Nat, ready : BOOLEAN, persist : BOOLEAN]

TypeOK ==
    /\ plan \in [Plans -> Document \cup {None}]
    /\ order \in Seq(Plans)
    /\ report \in [Reports -> Observation \cup {None}]
    /\ kept \in Seq(Reports)
    /\ route \in [Routes -> Route \cup {None}]
    /\ call \in [Clients -> [plan : Plans, base : Document, id : Routes, persist : BOOLEAN]
                            \cup {None}]
    /\ spent \subseteq Plans \cup Reports \cup Routes
    /\ adverse \subseteq Plans
    /\ orphaned \subseteq Reports

-----------------------------------------------------------------------------
(* The decision store *)

Size(d) == 1 + Len(d.reports)

\* The plans in one order, in which their sizes are added up.
Listed == SetToSeq(Plans)

Bytes(S) == Total(0, [i \in DOMAIN Listed |-> IF Listed[i] \in S THEN Size(plan[Listed[i]]) ELSE 0])

OnDisk == {p \in Plans : plan[p] # None /\ plan[p].persist}

\* There is room in memory for one more decision of this size.
Fits(queue, size) ==
    /\ Len(queue) < MaxRecords
    /\ Bytes(ToSet(queue)) + size <= MaxBytes

\* What is left of the memory when the oldest decisions have made room.
Evicted(queue, size) ==
    LET cuts == {k \in 1 .. Len(queue) + 1 :
                   k = Len(queue) + 1 \/ Fits(SubSeq(queue, k, Len(queue)), size)}
        first == CHOOSE k \in cuts : \A j \in cuts : k <= j
    IN  SubSeq(queue, first, Len(queue))

Without(list, x) == Picked(list, {i \in DOMAIN list : list[i] # x})

DiskRoom(p, d) ==
    LET mine == {q \in OnDisk : Owner[q] = Owner[p]}
    IN  /\ p \notin mine => Cardinality(mine) < MaxRecords
        /\ Bytes(mine \ {p}) + Size(d) <= MaxBytes

CanSave(p, d) ==
    /\ Size(d) <= MaxRecordBytes
    /\ d.persist => DiskRoom(p, d)

\* Saving a decision: a new revision of a decision in memory replaces the old
\* one before the others are evicted to make room.
Save(p, d) ==
    IF d.persist
    THEN plan' = [plan EXCEPT ![p] = d] /\ UNCHANGED order
    ELSE LET others == Evicted(Without(order, p), Size(d))
         IN  /\ order' = Append(others, p)
             /\ plan' = [q \in Plans |->
                           IF q = p THEN d
                           ELSE IF q \in ToSet(order) \ ToSet(others) THEN None
                           ELSE plan[q]]

\* What a restart leaves of the decisions and the routes.
ForgetMemory ==
    /\ plan' = [p \in Plans |-> IF p \in OnDisk THEN plan[p] ELSE None]
    /\ order' = << >>
    /\ route' = [r \in Routes |-> IF route[r] # None /\ route[r].persist THEN route[r] ELSE None]
    /\ call' = [c \in Clients |-> None]

Dropped(p) ==
    /\ plan' = [plan EXCEPT ![p] = None]
    /\ order' = Without(order, p)

\* An owner's observations on disk are limited, those in memory push out the
\* oldest ones.
ReportRoom(owner, persist) ==
    persist => Cardinality({o \in Reports : /\ report[o] # None /\ report[o].persist
                                            /\ report[o].owner = owner}) < MaxRecords

Pushed(persist) ==
    IF persist \/ Len(kept) < MaxRecords THEN {}
    ELSE ToSet(SubSeq(kept, 1, Len(kept) - MaxRecords + 1))

Stays(persist) ==
    IF persist \/ Len(kept) < MaxRecords THEN kept
    ELSE SubSeq(kept, Len(kept) - MaxRecords + 2, Len(kept))

KeepReport(o, value) ==
    /\ report' = [q \in Reports |-> IF q = o THEN value
                                    ELSE IF q \in Pushed(value.persist) THEN None
                                    ELSE report[q]]
    /\ kept' = IF value.persist THEN kept ELSE Append(Stays(FALSE), o)

\* The observation is saved and deleted again: what it pushed out stays out.
Mislaid(persist) ==
    /\ report' = [q \in Reports |-> IF q \in Pushed(persist) THEN None ELSE report[q]]
    /\ kept' = Stays(persist)

-----------------------------------------------------------------------------
(* Plans *)

Init ==
    /\ plan = [p \in Plans |-> None] /\ order = << >>
    /\ report = [o \in Reports |-> None] /\ kept = << >>
    /\ route = [r \in Routes |-> None]
    /\ call = [c \in Clients |-> None]
    /\ spent = {} /\ adverse = {} /\ orphaned = {}

\* The engine has evaluated an experiment and its result is retained.
Create(p, trait, persist) ==
    LET d == [persist |-> persist, trait |-> trait, state |-> "proposed", revision |-> 1,
              edits |-> {}, reports |-> << >>]
    IN  /\ p \notin spent
        /\ CanSave(p, d)
        /\ Save(p, d)
        /\ spent' = spent \cup {p}
        /\ UNCHANGED <<report, kept, route, call, adverse, orphaned>>

Allowed(state) ==
    CASE state = "proposed" -> {"accepted", "rejected", "superseded"}
      [] state \in {"accepted", "partially_applied"} ->
           {"partially_applied", "applied", "rejected", "superseded"}
      [] state \in {"applied", "observed"} -> {"superseded"}
      [] OTHER -> {}

\* Mutant: the reported edits need not be edits of the plan.
UncheckedEdits(state) ==
    CASE state = "applied" -> {Edits}
      [] state = "partially_applied" -> (SUBSET (Edits \cup {None})) \ {{}, Edits}
      [] OTHER -> {{}}

\* The edits that may be reported along with a state.
ReportedEdits(state) ==
    CASE state = "applied" -> {Edits}
      [] state = "partially_applied" -> (SUBSET Edits) \ {{}, Edits}
      [] OTHER -> {{}}

Transition(p, state, edits) ==
    LET d == [plan[p] EXCEPT
                !.state = state, !.revision = @ + 1,
                !.edits = IF state \in {"applied", "partially_applied"} THEN edits ELSE @]
    IN  /\ plan[p] # None
        /\ plan[p].revision < MaxRevision
        /\ state \in Allowed(plan[p].state)
        /\ state = "accepted" => plan[p].trait.acceptable
        /\ edits \in ReportedEdits(state)
        /\ CanSave(p, d)
        /\ Save(p, d)
        /\ UNCHANGED <<report, kept, route, call, spent, adverse, orphaned>>

DeletePlan(p) ==
    /\ plan[p] # None
    /\ Dropped(p)
    /\ UNCHANGED <<report, kept, route, call, spent, adverse, orphaned>>

(* Observations *)

\* Mutant: an observation does not change the plan's revision.
Unrevised(d, o, content, after) == [d EXCEPT !.reports = Append(@, o)]

\* The plan with the observation noted; an outcome observed after the last
\* application report makes it an observed plan.
Noted(d, o, content, after) ==
    [d EXCEPT !.reports = Append(@, o), !.revision = @ + 1,
              !.state = IF /\ d.state \in {"applied", "partially_applied"}
                           /\ after /\ content.key # "unlock"
                        THEN "observed" ELSE @]

\* record() saves the observation first and then its plan.
Report(o, p, content, persist, after) ==
    LET d == Noted(plan[p], o, content, after)
    IN  /\ o \notin spent
        /\ plan[p] # None
        /\ ReportRoom(Owner[p], persist)
        /\ Len(plan[p].reports) < ReportLimit
        /\ CanSave(p, d)
        /\ KeepReport(o, [owner |-> Owner[p], plan |-> p, content |-> content,
                          persist |-> persist])
        /\ Save(p, d)
        /\ spent' = spent \cup {o}
        /\ adverse' = adverse \cup IF content.outcome = "adverse" THEN {p} ELSE {}
        /\ UNCHANGED <<route, call, orphaned>>

\* Mutant: the observation stays although its plan does not know it.
LeftBehind(o, value) == KeepReport(o, value)

\* The plan does not take the observation, and it is deleted again.
Withdraw(o, value) == Mislaid(value.persist)

ReportRefused(o, p, content, persist, after) ==
    LET d == Noted(plan[p], o, content, after)
    IN  /\ o \notin spent
        /\ plan[p] # None
        /\ ReportRoom(Owner[p], persist)
        /\ Len(plan[p].reports) >= ReportLimit \/ ~CanSave(p, d)
        /\ Withdraw(o, [owner |-> Owner[p], plan |-> p, content |-> content,
                        persist |-> persist])
        /\ spent' = spent \cup {o}
        /\ UNCHANGED <<plan, order, route, call, adverse, orphaned>>

\* An observation that names no plan.
ReportAlone(o, owner, content, persist) ==
    /\ o \notin spent
    /\ ReportRoom(owner, persist)
    /\ KeepReport(o, [owner |-> owner, plan |-> None, content |-> content,
                      persist |-> persist])
    /\ spent' = spent \cup {o}
    /\ UNCHANGED <<plan, order, route, call, adverse, orphaned>>

\* Deleted by the member or expired.
ReportLost(o) ==
    /\ report[o] # None
    /\ report' = [report EXCEPT ![o] = None]
    /\ kept' = Without(kept, o)
    /\ UNCHANGED <<plan, order, route, call, spent, adverse, orphaned>>

\* The process dies between the two commits of record().
CrashInReport(o, p, content) ==
    /\ o \notin spent
    /\ p \in OnDisk
    /\ ReportRoom(Owner[p], TRUE)
    /\ spent' = spent \cup {o}
    /\ orphaned' = orphaned \cup {o}
    /\ report' = [q \in Reports |->
                    IF q = o THEN [owner |-> Owner[p], plan |-> p, content |-> content,
                                   persist |-> TRUE]
                    ELSE IF q \in ToSet(kept) THEN None ELSE report[q]]
    /\ kept' = << >>
    /\ ForgetMemory
    /\ UNCHANGED adverse

Restart ==
    /\ report' = [q \in Reports |-> IF q \in ToSet(kept) THEN None ELSE report[q]]
    /\ kept' = << >>
    /\ ForgetMemory
    /\ UNCHANGED <<spent, adverse, orphaned>>

-----------------------------------------------------------------------------
(* Routes *)

Considered(d, extra) == ToSet(d.reports) \cup extra
Live(d, extra) == {o \in Considered(d, extra) : report[o] # None}

Conflicting(d, extra) ==
    \E o, q \in Live(d, extra) :
      /\ report[o].content.key = report[q].content.key
      /\ report[o].content # report[q].content

\* Mutant: an observation that is no longer available is passed over.
PassedOver(p, d, extra) ==
    \/ Conflicting(d, extra)
    \/ \E o \in Live(d, extra) : report[o].plan = p /\ report[o].content.outcome = "adverse"

\* The problems execution_plans.observations() finds.
Problem(p, d, extra) ==
    \/ Live(d, extra) # Considered(d, extra)
    \/ Conflicting(d, extra)
    \/ \E o \in Live(d, extra) : report[o].plan = p /\ report[o].content.outcome = "adverse"

Blocked(p, d, extra) ==
    \/ Problem(p, d, extra)
    \/ ~d.trait.executable
    \/ d.state \in {"rejected", "superseded"}
    \/ d.trait.needs /\ ~\E o \in Live(d, extra) : report[o].content.outcome = "unlocked"

\* A blocked route holds prerequisites only and is kept without an await.
RouteBlocked(r, p, extra, persist) ==
    /\ r \notin spent
    /\ plan[p] # None
    /\ Blocked(p, plan[p], extra)
    /\ route' = [route EXCEPT ![r] = [plan |-> p, revision |-> plan[p].revision,
                                      ready |-> FALSE, persist |-> persist]]
    /\ spent' = spent \cup {r}
    /\ UNCHANGED <<plan, order, report, kept, call, adverse, orphaned>>

\* The engine is asked for the order of the passives and for the labels.
RouteBegin(c, r, p, extra, persist) ==
    /\ call[c] = None
    /\ r \notin spent
    /\ plan[p] # None
    /\ ~Blocked(p, plan[p], extra)
    /\ call' = [call EXCEPT ![c] = [plan |-> p, base |-> plan[p], id |-> r,
                                    persist |-> persist]]
    /\ spent' = spent \cup {r}
    /\ UNCHANGED <<plan, order, report, kept, route, adverse, orphaned>>

RouteEnd(c, verified) ==
    /\ call[c] # None
    /\ call' = [call EXCEPT ![c] = None]
    /\ route' = [route EXCEPT ![call[c].id] =
                   [plan |-> call[c].plan, revision |-> call[c].base.revision,
                    ready |-> verified, persist |-> call[c].persist]]
    /\ UNCHANGED <<plan, order, report, kept, spent, adverse, orphaned>>

\* The engine or the store refuses.
RouteFailed(c) ==
    /\ call[c] # None
    /\ call' = [call EXCEPT ![c] = None]
    /\ UNCHANGED <<plan, order, report, kept, route, spent, adverse, orphaned>>

\* Deleted, expired, or pushed out of memory.
RouteLost(r) ==
    /\ route[r] # None
    /\ route' = [route EXCEPT ![r] = None]
    /\ UNCHANGED <<plan, order, report, kept, call, spent, adverse, orphaned>>

PlanNext ==
    \E p \in Plans :
      \/ \E trait \in Traits, persist \in BOOLEAN : Create(p, trait, persist)
      \/ \E state \in PlanState, edits \in SUBSET (Edits \cup {None}) :
           Transition(p, state, edits)
      \/ DeletePlan(p)

ReportNext ==
    \E o \in Reports :
      \/ \E p \in Plans, content \in Contents, persist, after \in BOOLEAN :
           Report(o, p, content, persist, after) \/ ReportRefused(o, p, content, persist, after)
      \/ \E owner \in Owners, content \in Contents, persist \in BOOLEAN :
           ReportAlone(o, owner, content, persist)
      \/ \E p \in Plans, content \in Contents : CrashInReport(o, p, content)
      \/ ReportLost(o)

RouteNext ==
    \/ \E r \in Routes, p \in Plans, persist \in BOOLEAN :
         \E extra \in {{}} \cup {{o} : o \in Reports \cap spent} :
           \/ RouteBlocked(r, p, extra, persist)
           \/ \E c \in Clients : RouteBegin(c, r, p, extra, persist)
    \/ \E c \in Clients : (\E verified \in BOOLEAN : RouteEnd(c, verified)) \/ RouteFailed(c)
    \/ \E r \in Routes : RouteLost(r)

Next == PlanNext \/ ReportNext \/ RouteNext \/ Restart

Spec == Init /\ [][Next]_vars

-----------------------------------------------------------------------------
(* Safety *)

\* A ready route that is shown as drawn from the current revision belongs to a
\* plan that may be carried out: nobody reported depletion or death for it, it
\* is not rejected or superseded.  This holds whether the report itself has
\* expired, was evicted, or came while the route waited for the engine.
UnflaggedRouteIsSound ==
    \A r \in Routes :
      LET p == route[r].plan
      IN  route[r] # None /\ route[r].ready /\ plan[p] # None
          /\ plan[p].revision = route[r].revision =>
            /\ p \notin adverse
            /\ plan[p].state \notin {"rejected", "superseded"}
            /\ plan[p].trait.executable

\* A plan whose application was reported had passed validation when it was
\* accepted, and the state agrees with the edits reported.
AppliedAsAccepted ==
    \A p \in Plans : plan[p] # None =>
      /\ plan[p].state \in {"accepted", "partially_applied", "applied", "observed"} =>
           plan[p].trait.acceptable
      /\ plan[p].edits # {} => plan[p].trait.acceptable
      /\ plan[p].state = "applied" => plan[p].edits = Edits
      /\ plan[p].state = "partially_applied" => plan[p].edits \notin {{}, Edits}
      /\ plan[p].state = "observed" => plan[p].edits # {}
      /\ plan[p].state \in {"proposed", "accepted"} => plan[p].edits = {}

\* What a player is told to do: ready routes and applied plans are those of plans
\* that were sound when they were drawn and that no report speaks against.
RoutesSound == UnflaggedRouteIsSound /\ AppliedAsAccepted

\* An observation about a plan is listed by the plan, unless the process died
\* between the two commits.
ReportsListed ==
    \A o \in Reports \ orphaned :
      report[o] # None /\ report[o].plan # None /\ plan[report[o].plan] # None =>
        o \in ToSet(plan[report[o].plan].reports)

\* The bounds of the store hold after every request, however documents grow.
StoreBounded ==
    /\ Len(order) <= MaxRecords /\ Bytes(ToSet(order)) <= MaxBytes
    /\ Len(kept) <= MaxRecords
    /\ \A owner \in Owners :
         LET mine == {p \in OnDisk : Owner[p] = owner}
         IN  Cardinality(mine) <= MaxRecords /\ Bytes(mine) <= MaxBytes

\* The store after every request: its bounds hold and no observation is orphaned.
StoreSound == ReportsListed /\ StoreBounded

\* Whatever changes in a plan shows in its revision, reports are never taken
\* back, and a decided plan is never revived.
PlanHistory ==
    [][\A p \in Plans : plan[p] # None /\ plan'[p] # None /\ plan'[p] # plan[p] =>
         /\ plan'[p].revision = plan[p].revision + 1
         /\ IsPrefix(plan[p].reports, plan'[p].reports)
         /\ plan[p].state \in {"rejected", "superseded"} => plan'[p].state = plan[p].state
         /\ plan[p].state # "proposed" => plan'[p].state # "proposed"]_vars

=============================================================================
