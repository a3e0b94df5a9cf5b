---------------------------- MODULE BuildPlansProofs ----------------------------
(* A route that is shown as current is sound and a decision has one history,    *)
(* for any plans, reports, routes, clients and quotas of the store; the advice  *)
(* is the best the budget allows, for any listings, prices and verdicts; and    *)
(* routes, end points and orders of clicks are right on any passive tree.       *)
EXTENDS MCBuildPlans, ListsProofs, FiniteSetTheorems, SequenceTheorems

-------------------------------------------------------------------------------
(* The list of a plan's reports *)

LEMMA AppendIs ==
    ASSUME NEW S, NEW s \in Seq(S), NEW x \in S
    PROVE  /\ Append(s, x) \in Seq(S) /\ ToSet(Append(s, x)) = ToSet(s) \cup {x}
           /\ IsPrefix(s, Append(s, x))
<1>1. /\ Append(s, x) \in Seq(S) /\ Len(s) \in Nat /\ DOMAIN s = 1 .. Len(s)
      /\ Len(Append(s, x)) = Len(s) + 1 /\ DOMAIN Append(s, x) = 1 .. Len(s) + 1
      /\ Append(s, x)[Len(s) + 1] = x
      /\ \A i \in 1 .. Len(s) : Append(s, x)[i] = s[i]
  OBVIOUS
<1>2. ToSet(Append(s, x)) = ToSet(s) \cup {x}
  <2>1. ASSUME NEW y \in ToSet(Append(s, x)) PROVE y \in ToSet(s) \cup {x}
    <3>1. PICK i \in 1 .. Len(s) + 1 : y = Append(s, x)[i]
      BY <1>1 DEF ToSet
    <3>2. i \in 1 .. Len(s) \/ i = Len(s) + 1
      BY <1>1
    <3> QED
      BY <1>1, <3>1, <3>2 DEF ToSet
  <2>2. ASSUME NEW y \in ToSet(s) \cup {x} PROVE y \in ToSet(Append(s, x))
    <3>1. y = x \/ \E i \in 1 .. Len(s) : y = s[i]
      BY <1>1 DEF ToSet
    <3>2. \A i \in 1 .. Len(s) : i \in 1 .. Len(s) + 1
      BY <1>1
    <3>3. Len(s) + 1 \in 1 .. Len(s) + 1
      BY <1>1
    <3> QED
      BY <1>1, <3>1, <3>2, <3>3 DEF ToSet
  <2> QED
    BY <2>1, <2>2
<1>3. SubSeq(s, 1, Len(s)) = SubSeq(Append(s, x), 1, Len(s))
  BY <1>1
<1> QED
  BY <1>1, <1>2, <1>3 DEF IsPrefix

LEMMA SamePrefix ==
    ASSUME NEW S, NEW s \in Seq(S)
    PROVE  IsPrefix(s, s)
BY DEF IsPrefix

-------------------------------------------------------------------------------
(* The inductive invariant *)

Call == [plan : Plans, base : Document, id : Routes, persist : BOOLEAN]

DataTypes ==
    /\ plan \in [Plans -> Document \cup {None}]
    /\ report \in [Reports -> Observation \cup {None}]
    /\ route \in [Routes -> Route \cup {None}]
    /\ call \in [Clients -> Call \cup {None}]

\* A decision agrees with the edits that were reported for it.
Decided(d) ==
    /\ d.state \in {"accepted", "partially_applied", "applied", "observed"} => d.trait.acceptable
    /\ d.edits # {} => d.trait.acceptable
    /\ d.state = "applied" => d.edits = Edits
    /\ d.state = "partially_applied" => d.edits \notin {{}, Edits}
    /\ d.state = "observed" => d.edits # {}
    /\ d.state \in {"proposed", "accepted"} => d.edits = {}

\* What a plan lists was handed out before, and so was the plan.
PlanInv ==
    \A p \in Plans : plan[p] # None =>
      p \in spent /\ Decided(plan[p]) /\ ToSet(plan[p].reports) \subseteq spent

\* The plan lists the report of depletion or death, which is still what it was, or
\* which is missed.
Flagged(p) ==
    \E o \in ToSet(plan[p].reports) :
      \/ report[o] = None
      \/ report[o].plan = p /\ report[o].content.outcome = "adverse"

AdverseInv ==
    /\ adverse \subseteq spent
    /\ \A p \in Plans : p \in adverse /\ plan[p] # None => Flagged(p)

Sound(p) ==
    /\ p \notin adverse
    /\ plan[p].state \notin {"rejected", "superseded"}
    /\ plan[p].trait.executable

\* The plan of that revision was sound; a later one may not be.
Current(p, revision) ==
    /\ p \in spent
    /\ plan[p] # None =>
         revision <= plan[p].revision /\ (revision = plan[p].revision => Sound(p))

\* Finished and awaited routes.
RouteInv ==
    /\ \A r \in Routes : route[r] # None /\ route[r].ready =>
         Current(route[r].plan, route[r].revision)
    /\ \A c \in Clients : call[c] # None => Current(call[c].plan, call[c].base.revision)

\* An observation of a plan is in the plan's list, unless a crash left it alone.
ListedInv ==
    /\ \A o \in Reports : report[o] # None =>
         o \in spent /\ (report[o].plan # None => report[o].plan \in spent)
    /\ ReportsListed

PlansInv == DataTypes /\ PlanInv /\ AdverseInv /\ RouteInv /\ ListedInv

LEMMA DocumentFields ==
    ASSUME NEW d \in Document
    PROVE  /\ d.persist \in BOOLEAN /\ d.trait \in Traits /\ d.state \in PlanState
           /\ d.revision \in Nat /\ d.revision > 0
           /\ d.edits \in SUBSET Edits /\ d.reports \in Seq(Reports)
BY DEF Document

-------------------------------------------------------------------------------
(* What a step does to the plans and to the reports *)

\* Saving p evicts others or leaves them alone.
LEMMA SaveIs ==
    ASSUME plan \in [Plans -> Document \cup {None}], NEW p \in Plans, NEW d \in Document,
           Save(p, d)
    PROVE  /\ plan' \in [Plans -> Document \cup {None}]
           /\ plan'[p] = d
           /\ \A q \in Plans : q # p => plan'[q] \in {None, plan[q]}
<1>1. CASE d.persist
  BY <1>1 DEF Save
<1>2. CASE ~d.persist
  <2> DEFINE others == Evicted(Without(order, p), Size(d))
             new == [q \in Plans |-> IF q = p THEN d
                                     ELSE IF q \in ToSet(order) \ ToSet(others) THEN None
                                     ELSE plan[q]]
  <2>1. plan' = new
    BY <1>2 DEF Save
  <2> HIDE DEF others
  <2> QED
    BY <2>1
<1> QED
  BY <1>1, <1>2

\* Every plan is lost, or as before and not spoken against, or a new revision, or new.
PlansMove ==
    \A p \in Plans :
      \/ plan'[p] = None
      \/ plan'[p] = plan[p] /\ (p \in adverse' => p \in adverse)
      \/ plan[p] # None /\ plan'[p].revision = plan[p].revision + 1
      \/ p \notin spent

LEMMA CurrentMoves ==
    ASSUME DataTypes, PlansMove, spent \subseteq spent', NEW p \in Plans, NEW n \in Nat,
           Current(p, n)
    PROVE  Current(p, n)'
<1>1. p \in spent /\ p \in spent'
  BY DEF Current
<1>2. ASSUME plan'[p] # None
      PROVE  n <= plan'[p].revision /\ (n = plan'[p].revision => Sound(p)')
  <2>1. CASE plan'[p] = plan[p] /\ (p \in adverse' => p \in adverse)
    BY <1>2, <2>1 DEF Current, Sound
  <2>2. CASE plan[p] # None /\ plan'[p].revision = plan[p].revision + 1
    <3>1. plan[p].revision \in Nat
      BY <2>2, DocumentFields DEF DataTypes
    <3>2. n <= plan[p].revision
      BY <2>2 DEF Current
    <3>3. n < plan'[p].revision
      BY <2>2, <3>1, <3>2
    <3> QED
      BY <2>2, <3>1, <3>3
  <2> QED
    BY <1>1, <1>2, <2>1, <2>2 DEF PlansMove
<1> QED
  BY <1>1, <1>2 DEF Current

LEMMA RoutesMove ==
    ASSUME DataTypes, RouteInv, PlansMove, spent \subseteq spent',
           \A r \in Routes : \/ route'[r] \in {None, route[r]}
                             \/ route'[r].ready => Current(route[r].plan, route[r].revision)',
           \A c \in Clients : \/ call'[c] \in {None, call[c]}
                              \/ Current(call[c].plan, call[c].base.revision)'
    PROVE  RouteInv'
<1>1. ASSUME NEW r \in Routes, route'[r] # None, route'[r].ready
      PROVE  Current(route[r].plan, route[r].revision)'
  <2> SUFFICES ASSUME route'[r] = route[r]
               PROVE  Current(route[r].plan, route[r].revision)'
    BY <1>1
  <2>1. route'[r] = route[r] /\ route[r] \in Route
    BY <1>1 DEF DataTypes
  <2>2. route[r].plan \in Plans /\ route[r].revision \in Nat
    BY <2>1 DEF Route
  <2>3. \A p \in Plans, n \in Nat : Current(p, n) => Current(p, n)'
    BY CurrentMoves
  <2>4. Current(route[r].plan, route[r].revision)
    BY <1>1, <2>1 DEF RouteInv
  <2>5. \A p, n : p = route[r].plan /\ n = route[r].revision => Current(p, n)'
    BY <2>2, <2>3, <2>4
  <2> QED
    BY <2>1, <2>5 DEF Current, Sound
<1>2. ASSUME NEW c \in Clients, call'[c] # None
      PROVE  Current(call[c].plan, call[c].base.revision)'
  <2> SUFFICES ASSUME call'[c] = call[c]
               PROVE  Current(call[c].plan, call[c].base.revision)'
    BY <1>2
  <2>1. call'[c] = call[c] /\ call[c] \in Call
    BY <1>2 DEF DataTypes
  <2>2. call[c].plan \in Plans /\ call[c].base.revision \in Nat
    BY <2>1, DocumentFields DEF Call
  <2>3. \A p \in Plans, n \in Nat : Current(p, n) => Current(p, n)'
    BY CurrentMoves
  <2>4. Current(call[c].plan, call[c].base.revision)
    BY <1>2, <2>1 DEF RouteInv
  <2>5. \A p, n : p = call[c].plan /\ n = call[c].base.revision => Current(p, n)'
    BY <2>2, <2>3, <2>4
  <2> QED
    BY <2>1, <2>5 DEF Current, Sound
<1> QED
  BY <1>1, <1>2 DEF RouteInv

\* Every plan is lost, or its list has only grown, or it is new.
ListsMove ==
    \A p \in Plans :
      \/ plan'[p] = None
      \/ plan[p] # None /\ ToSet(plan[p].reports) \subseteq ToSet(plan'[p].reports)
      \/ p \notin spent

\* Every observation is lost, or what it was, or new.
ReportsMove == \A o \in Reports : report'[o] \in {None, report[o]} \/ o \notin spent

\* A new observation is handed out, and in the list of its plan.
NewListed ==
    \A o \in Reports : o \notin spent /\ report'[o] # None =>
      /\ o \in spent'
      /\ report'[o].plan # None =>
           /\ report'[o].plan \in spent'
           /\ o \notin orphaned' /\ plan'[report'[o].plan] # None =>
                o \in ToSet(plan'[report'[o].plan].reports)

LEMMA PlansKept ==
    ASSUME PlanInv, spent \subseteq spent',
           \A p \in Plans :
             \/ plan'[p] \in {None, plan[p]}
             \/ p \in spent' /\ Decided(plan'[p]) /\ ToSet(plan'[p].reports) \subseteq spent'
    PROVE  PlanInv'
BY DEF PlanInv, Decided

LEMMA ReportsKept ==
    ASSUME PlansInv, ListsMove, ReportsMove, NewListed,
           spent \subseteq spent', orphaned \subseteq orphaned', adverse' \subseteq spent',
           \A p \in Plans : p \in adverse' /\ p \notin adverse /\ plan'[p] # None => Flagged(p)'
    PROVE  AdverseInv' /\ ListedInv'
<1>1. ASSUME NEW p \in Plans, p \in adverse, plan'[p] # None
      PROVE  Flagged(p)'
  <2>1. p \in spent
    BY <1>1 DEF PlansInv, AdverseInv
  <2>2. plan[p] # None /\ ToSet(plan[p].reports) \subseteq ToSet(plan'[p].reports)
    BY <1>1, <2>1 DEF ListsMove
  <2>3. PICK o \in ToSet(plan[p].reports) :
          report[o] = None \/ (report[o].plan = p /\ report[o].content.outcome = "adverse")
    BY <1>1, <2>2 DEF PlansInv, AdverseInv, Flagged
  <2>4. o \in spent
    BY <2>2 DEF PlansInv, PlanInv
  <2>5. o \in Reports
    <3>1. plan[p].reports \in Seq(Reports)
      BY <2>2, DocumentFields DEF PlansInv, DataTypes
    <3> QED
      BY <3>1 DEF ToSet
  <2>6. report'[o] \in {None, report[o]}
    BY <2>4, <2>5 DEF ReportsMove
  <2> QED
    BY <2>2, <2>3, <2>6 DEF Flagged
<1>2. AdverseInv'
  BY <1>1 DEF AdverseInv
<1>3. ASSUME NEW o \in Reports, report'[o] # None
      PROVE  /\ o \in spent' /\ (report'[o].plan # None => report'[o].plan \in spent')
             /\ o \notin orphaned' /\ report'[o].plan # None /\ plan'[report'[o].plan] # None =>
                  o \in ToSet(plan'[report'[o].plan].reports)
  <2>1. CASE o \notin spent
    BY <1>3, <2>1 DEF NewListed
  <2>2. CASE o \in spent
    <3>1. report'[o] = report[o]
      BY <1>3, <2>2 DEF ReportsMove
    <3>2. o \in spent' /\ (report'[o].plan # None => report'[o].plan \in spent')
      BY <1>3, <3>1 DEF PlansInv, ListedInv
    <3>3. ASSUME o \notin orphaned', report'[o].plan # None, plan'[report'[o].plan] # None
          PROVE  o \in ToSet(plan'[report'[o].plan].reports)
      <4> DEFINE p == report[o].plan
      <4>1. p \in Plans
        BY <1>3, <3>1, <3>3 DEF PlansInv, DataTypes, Observation
      <4>2. p \in spent
        BY <1>3, <3>1, <3>3 DEF PlansInv, ListedInv
      <4>3. plan[p] # None /\ ToSet(plan[p].reports) \subseteq ToSet(plan'[p].reports)
        BY <3>1, <3>3, <4>1, <4>2 DEF ListsMove
      <4>4. o \in ToSet(plan[p].reports)
        BY <1>3, <3>1, <3>3, <4>3 DEF PlansInv, ListedInv, ReportsListed
      <4> QED
        BY <3>1, <4>3, <4>4
    <3> QED
      BY <3>2, <3>3
  <2> QED
    BY <2>1, <2>2
<1>4. ListedInv'
  BY <1>3 DEF ListedInv, ReportsListed
<1> QED
  BY <1>2, <1>4

\* A step that leaves the plans that stay as they are, and brings no observation.
LEMMA PlansQuiet ==
    ASSUME PlansInv, DataTypes', RouteInv', spent \subseteq spent', UNCHANGED <<adverse, orphaned>>,
           \A p \in Plans : plan'[p] \in {None, plan[p]},
           \A o \in Reports : report'[o] \in {None, report[o]}
    PROVE  PlansInv'
<1>1. PlanInv'
  BY PlansKept DEF PlansInv
<1>2. ListsMove /\ ReportsMove
  BY DEF ListsMove, ReportsMove
<1>3. NewListed
  BY DEF NewListed, PlansInv, ListedInv
<1>4. AdverseInv' /\ ListedInv'
  BY <1>2, <1>3, ReportsKept DEF PlansInv, AdverseInv
<1> QED
  BY <1>1, <1>4 DEF PlansInv

-------------------------------------------------------------------------------
(* The steps *)

LEMMA CreateStep ==
    ASSUME PlansInv, NEW p \in Plans, NEW trait \in Traits, NEW persist \in BOOLEAN,
           Create(p, trait, persist)
    PROVE  PlansInv'
<1> DEFINE d == [persist |-> persist, trait |-> trait, state |-> "proposed", revision |-> 1,
                 edits |-> {}, reports |-> << >>]
<1>1. /\ p \notin spent /\ Save(p, d) /\ spent' = spent \cup {p}
      /\ UNCHANGED <<report, kept, route, call, adverse, orphaned>>
  BY DEF Create
<1>2. d \in Document
  BY DEF Document, PlanState
<1>3. /\ Decided(d) /\ ToSet(d.reports) = {}
  BY DEF Decided, ToSet
<1> HIDE DEF d
<1>4. /\ plan' \in [Plans -> Document \cup {None}] /\ plan'[p] = d
      /\ \A q \in Plans : q # p => plan'[q] \in {None, plan[q]}
  BY <1>1, <1>2, SaveIs DEF PlansInv, DataTypes
<1>5. DataTypes'
  BY <1>1, <1>4 DEF PlansInv, DataTypes
<1>6. PlanInv'
  BY <1>1, <1>3, <1>4, PlansKept DEF PlansInv
<1>7. PlansMove /\ ListsMove /\ ReportsMove
  BY <1>1, <1>4 DEF PlansMove, ListsMove, ReportsMove
<1>8. RouteInv'
  BY <1>1, <1>7, RoutesMove DEF PlansInv
<1>9. NewListed
  BY <1>1 DEF NewListed, PlansInv, ListedInv
<1>10. AdverseInv' /\ ListedInv'
  BY <1>1, <1>7, <1>9, ReportsKept DEF PlansInv, AdverseInv
<1> QED
  BY <1>5, <1>6, <1>8, <1>10 DEF PlansInv

\* A new revision of a plan replaces it.
LEMMA RevisedStep ==
    ASSUME PlansInv, NEW p \in Plans, plan[p] # None, NEW d \in Document, Save(p, d),
           d.revision = plan[p].revision + 1, Decided(d),
           ToSet(plan[p].reports) \subseteq ToSet(d.reports), ToSet(d.reports) \subseteq spent',
           spent \subseteq spent', UNCHANGED <<route, call, orphaned>>,
           report' \in [Reports -> Observation \cup {None}], ReportsMove,
           adverse' \subseteq adverse \cup {p},
           p \in adverse' /\ p \notin adverse =>
             \E o \in ToSet(d.reports) :
               \/ report'[o] = None
               \/ report'[o].plan = p /\ report'[o].content.outcome = "adverse",
           \A o \in Reports : o \notin spent /\ report'[o] # None =>
             o \in spent' /\ report'[o].plan = p /\ o \in ToSet(d.reports)
    PROVE  PlansInv'
<1>1. /\ plan' \in [Plans -> Document \cup {None}] /\ plan'[p] = d
      /\ \A q \in Plans : q # p => plan'[q] \in {None, plan[q]}
  BY SaveIs DEF PlansInv, DataTypes
<1>2. p \in spent
  BY DEF PlansInv, PlanInv
<1>3. DataTypes'
  BY <1>1 DEF PlansInv, DataTypes
<1>4. PlanInv'
  BY <1>1, <1>2, PlansKept DEF PlansInv
<1>5. PlansMove
  BY <1>1 DEF PlansMove
<1>6. ListsMove
  BY <1>1 DEF ListsMove
<1>7. RouteInv'
  BY <1>5, RoutesMove DEF PlansInv
<1>8. NewListed
  BY <1>1, <1>2 DEF NewListed
<1>9. AdverseInv' /\ ListedInv'
  <2>1. adverse' \subseteq spent'
    BY <1>2 DEF PlansInv, AdverseInv
  <2>2. \A q \in Plans : q \in adverse' /\ q \notin adverse /\ plan'[q] # None => Flagged(q)'
    BY <1>1 DEF Flagged
  <2> QED
    BY <1>6, <1>8, <2>1, <2>2, ReportsKept
<1> QED
  BY <1>3, <1>4, <1>7, <1>9 DEF PlansInv

\* What a transition saves.
LEMMA TransitionIs ==
    ASSUME PlansInv, NEW p \in Plans, NEW state \in PlanState,
           NEW edits \in SUBSET (Edits \cup {None}), Transition(p, state, edits)
    PROVE  \E d \in Document :
             /\ Save(p, d) /\ d.revision = plan[p].revision + 1 /\ d.state = state
             /\ d.reports = plan[p].reports /\ Decided(d)
             /\ CanSave(p, d) /\ d.persist = plan[p].persist
<1> DEFINE after == IF state \in {"applied", "partially_applied"} THEN edits ELSE plan[p].edits
           d == [plan[p] EXCEPT !.state = state, !.revision = @ + 1, !.edits = after]
<1>1. /\ plan[p] # None /\ state \in Allowed(plan[p].state)
      /\ state = "accepted" => plan[p].trait.acceptable
      /\ edits \in ReportedEdits(state) /\ Save(p, d) /\ CanSave(p, d)
  BY DEF Transition
<1>2. plan[p] \in Document /\ Decided(plan[p])
  BY <1>1 DEF PlansInv, DataTypes, PlanInv
<1>3. /\ state = "applied" => edits = Edits
      /\ state = "partially_applied" => edits \in SUBSET Edits /\ edits \notin {{}, Edits}
  BY <1>1 DEF ReportedEdits
<1>4. /\ state # "proposed"
      /\ state = "accepted" => plan[p].state = "proposed"
      /\ state \in {"applied", "partially_applied"} =>
           plan[p].state \in {"accepted", "partially_applied"}
      /\ state # "observed"
  BY <1>1 DEF Allowed
<1>5. /\ after \in SUBSET Edits
      /\ state \in {"applied", "partially_applied"} => after = edits
      /\ state \notin {"applied", "partially_applied"} => after = plan[p].edits
  BY <1>2, <1>3, DocumentFields
<1>6. plan[p].revision + 1 \in Nat \ {0}
  BY <1>2, DocumentFields
<1> HIDE DEF after
<1>7. /\ d \in Document /\ d.revision = plan[p].revision + 1 /\ d.state = state
      /\ d.trait = plan[p].trait /\ d.reports = plan[p].reports /\ d.edits = after
      /\ d.persist = plan[p].persist
  BY <1>2, <1>5, <1>6 DEF Document
<1> HIDE DEF d
<1>8. Decided(d)
  BY <1>1, <1>2, <1>3, <1>4, <1>5, <1>7 DEF Decided
<1> QED
  BY <1>1, <1>7, <1>8

\* A plan that changes keeps to what was accepted.
LEMMA TransitionStep ==
    ASSUME PlansInv, NEW p \in Plans, NEW state \in PlanState,
           NEW edits \in SUBSET (Edits \cup {None}), Transition(p, state, edits)
    PROVE  PlansInv'
<1>1. PICK d \in Document :
        /\ Save(p, d) /\ d.revision = plan[p].revision + 1 /\ d.reports = plan[p].reports
        /\ Decided(d)
  BY TransitionIs
<1>2. plan[p] # None /\ UNCHANGED <<report, kept, route, call, spent, adverse, orphaned>>
  BY DEF Transition
<1>3. ToSet(plan[p].reports) \subseteq spent
  BY <1>2 DEF PlansInv, PlanInv
<1>4. ReportsMove
  BY <1>2 DEF ReportsMove
<1>5. \A o \in Reports : report[o] # None => o \in spent
  BY DEF PlansInv, ListedInv
<1> QED
  BY <1>1, <1>2, <1>3, <1>4, <1>5, RevisedStep DEF PlansInv, DataTypes

LEMMA DeletePlanStep ==
    ASSUME PlansInv, NEW p \in Plans, DeletePlan(p)
    PROVE  PlansInv'
<1>1. /\ plan' = [plan EXCEPT ![p] = None]
      /\ UNCHANGED <<report, kept, route, call, spent, adverse, orphaned>>
  BY DEF DeletePlan, Dropped
<1>2. \A q \in Plans : plan'[q] \in {None, plan[q]}
  BY <1>1 DEF PlansInv, DataTypes
<1>3. DataTypes'
  BY <1>1 DEF PlansInv, DataTypes
<1>4. PlansMove
  BY <1>1, <1>2 DEF PlansMove
<1>5. RouteInv'
  BY <1>1, <1>4, RoutesMove DEF PlansInv
<1> QED
  BY <1>1, <1>2, <1>3, <1>5, PlansQuiet

\* What a report saves.
LEMMA ReportIs ==
    ASSUME PlansInv, NEW o \in Reports, NEW p \in Plans, NEW content \in Contents,
           NEW persist \in BOOLEAN, NEW after \in BOOLEAN, Report(o, p, content, persist, after)
    PROVE  \E d \in Document :
             /\ Save(p, d) /\ d.revision = plan[p].revision + 1
             /\ d.reports = Append(plan[p].reports, o) /\ Decided(d)
             /\ \/ d.state = plan[p].state
                \/ d.state = "observed" /\ plan[p].state \in {"applied", "partially_applied"}
             /\ CanSave(p, d) /\ d.persist = plan[p].persist
<1> DEFINE state == IF /\ plan[p].state \in {"applied", "partially_applied"}
                       /\ after /\ content.key # "unlock"
                    THEN "observed" ELSE plan[p].state
           list == Append(plan[p].reports, o)
           d == [plan[p] EXCEPT !.reports = list, !.revision = @ + 1, !.state = state]
<1>1. plan[p] # None /\ Save(p, d) /\ CanSave(p, d)
  BY DEF Report, Noted
<1>2. plan[p] \in Document /\ Decided(plan[p])
  BY <1>1 DEF PlansInv, DataTypes, PlanInv
<1>3. list \in Seq(Reports) /\ plan[p].revision + 1 \in Nat \ {0}
  BY <1>2, DocumentFields, AppendIs
<1>4. /\ state \in PlanState
      /\ \/ state = plan[p].state
         \/ state = "observed" /\ plan[p].state \in {"applied", "partially_applied"}
  BY <1>2, DocumentFields DEF PlanState
<1> HIDE DEF state, list
<1>5. /\ d \in Document /\ d.revision = plan[p].revision + 1 /\ d.state = state
      /\ d.trait = plan[p].trait /\ d.reports = list /\ d.edits = plan[p].edits
      /\ d.persist = plan[p].persist
  BY <1>2, <1>3, <1>4 DEF Document
<1> HIDE DEF d
<1>6. Decided(d)
  BY <1>2, <1>4, <1>5, ConstantsAssumption DEF Decided
<1> QED
  BY <1>1, <1>4, <1>5, <1>6 DEF list

LEMMA ReportStep ==
    ASSUME PlansInv, NEW o \in Reports, NEW p \in Plans, NEW content \in Contents,
           NEW persist \in BOOLEAN, NEW after \in BOOLEAN, Report(o, p, content, persist, after)
    PROVE  PlansInv'
<1> DEFINE value == [owner |-> Owner[p], plan |-> p, content |-> content, persist |-> persist]
<1>1. /\ o \notin spent /\ plan[p] # None /\ KeepReport(o, value)
      /\ spent' = spent \cup {o}
      /\ adverse' = adverse \cup IF content.outcome = "adverse" THEN {p} ELSE {}
      /\ UNCHANGED <<route, call, orphaned>>
  BY DEF Report
<1>2. PICK d \in Document :
        /\ Save(p, d) /\ d.revision = plan[p].revision + 1
        /\ d.reports = Append(plan[p].reports, o) /\ Decided(d)
  BY ReportIs
<1>3. /\ ToSet(plan[p].reports) \subseteq spent
      /\ ToSet(d.reports) = ToSet(plan[p].reports) \cup {o}
  BY <1>1, <1>2, DocumentFields, AppendIs DEF PlansInv, DataTypes, PlanInv
<1>4. value \in Observation /\ value.plan = p /\ value.content = content
  BY DEF Observation, Owners
<1> HIDE DEF value
<1>5. /\ report' \in [Reports -> Observation \cup {None}] /\ report'[o] = value
      /\ \A q \in Reports : q # o => report'[q] \in {None, report[q]}
  BY <1>1, <1>4 DEF KeepReport, PlansInv, DataTypes
<1>6. ReportsMove
  BY <1>1, <1>5 DEF ReportsMove
<1>7. /\ o \in ToSet(d.reports) /\ ToSet(plan[p].reports) \subseteq ToSet(d.reports)
      /\ ToSet(d.reports) \subseteq spent' /\ spent \subseteq spent'
  BY <1>1, <1>3
<1>8. \A q \in Reports : q \notin spent /\ report'[q] # None =>
          q \in spent' /\ report'[q].plan = p /\ q \in ToSet(d.reports)
  <2>1. \A q \in Reports : report[q] # None => q \in spent
    BY DEF PlansInv, ListedInv
  <2> QED
    BY <1>1, <1>4, <1>5, <1>7, <2>1
<1>9. adverse' \subseteq adverse \cup {p}
  BY <1>1
<1>10. p \in adverse' /\ p \notin adverse =>
         report'[o].plan = p /\ report'[o].content.outcome = "adverse"
  BY <1>1, <1>4, <1>5
<1> QED
  BY <1>1, <1>2, <1>5, <1>6, <1>7, <1>8, <1>9, <1>10, RevisedStep

\* A step that only loses plans and reports, or brings a report of no plan's list.
LEMMA ReportedStep ==
    ASSUME PlansInv, NEW o \in Reports, o \notin spent, spent' = spent \cup {o},
           UNCHANGED adverse, orphaned \subseteq orphaned',
           \A p \in Plans : plan'[p] \in {None, plan[p]},
           plan' \in [Plans -> Document \cup {None}],
           report' \in [Reports -> Observation \cup {None}],
           \A q \in Reports : q # o => report'[q] \in {None, report[q]},
           report'[o] # None /\ report'[o].plan # None =>
             o \in orphaned' /\ report'[o].plan \in spent,
           route' \in [Routes -> Route \cup {None}], call' \in [Clients -> Call \cup {None}],
           \A r \in Routes : route'[r] \in {None, route[r]},
           \A c \in Clients : call'[c] \in {None, call[c]}
    PROVE  PlansInv'
<1>1. DataTypes'
  BY DEF DataTypes
<1>2. spent \subseteq spent'
  OBVIOUS
<1>3. PlanInv'
  BY <1>2, PlansKept DEF PlansInv
<1>4. PlansMove /\ ListsMove /\ ReportsMove
  BY DEF PlansMove, ListsMove, ReportsMove
<1>5. RouteInv'
  BY <1>2, <1>4, RoutesMove DEF PlansInv
<1>6. NewListed
  BY DEF NewListed, PlansInv, ListedInv
<1>7. AdverseInv' /\ ListedInv'
  BY <1>2, <1>4, <1>6, ReportsKept DEF PlansInv, AdverseInv
<1> QED
  BY <1>1, <1>3, <1>5, <1>7 DEF PlansInv

LEMMA ReportRefusedStep ==
    ASSUME PlansInv, NEW o \in Reports, NEW p \in Plans, NEW content \in Contents,
           NEW persist \in BOOLEAN, NEW after \in BOOLEAN,
           ReportRefused(o, p, content, persist, after)
    PROVE  PlansInv'
<1>1. /\ o \notin spent /\ spent' = spent \cup {o}
      /\ report' = [q \in Reports |-> IF q \in Pushed(persist) THEN None ELSE report[q]]
      /\ UNCHANGED <<plan, order, route, call, adverse, orphaned>>
  BY DEF ReportRefused, Withdraw, Mislaid
<1>2. report[o] = None
  BY <1>1 DEF PlansInv, ListedInv
<1>3. /\ \A q \in Reports : report'[q] \in {None, report[q]}
      /\ report' \in [Reports -> Observation \cup {None}]
  BY <1>1 DEF PlansInv, DataTypes
<1>4. report'[o] = None
  BY <1>2, <1>3
<1> QED
  BY <1>1, <1>3, <1>4, ReportedStep DEF PlansInv, DataTypes

LEMMA ReportAloneStep ==
    ASSUME PlansInv, NEW o \in Reports, NEW owner \in Owners, NEW content \in Contents,
           NEW persist \in BOOLEAN, ReportAlone(o, owner, content, persist)
    PROVE  PlansInv'
<1> DEFINE value == [owner |-> owner, plan |-> None, content |-> content, persist |-> persist]
<1>1. /\ o \notin spent /\ KeepReport(o, value) /\ spent' = spent \cup {o}
      /\ UNCHANGED <<plan, order, route, call, adverse, orphaned>>
  BY DEF ReportAlone
<1>2. value \in Observation /\ value.plan = None
  BY DEF Observation
<1> HIDE DEF value
<1>3. /\ report' \in [Reports -> Observation \cup {None}] /\ report'[o] = value
      /\ \A q \in Reports : q # o => report'[q] \in {None, report[q]}
  BY <1>1, <1>2 DEF KeepReport, PlansInv, DataTypes
<1> QED
  BY <1>1, <1>2, <1>3, ReportedStep DEF PlansInv, DataTypes

\* What a restart leaves.
LEMMA ForgetIs ==
    ASSUME DataTypes, ForgetMemory
    PROVE  /\ plan' \in [Plans -> Document \cup {None}]
           /\ \A p \in Plans : plan'[p] \in {None, plan[p]}
           /\ route' \in [Routes -> Route \cup {None}]
           /\ \A r \in Routes : route'[r] \in {None, route[r]}
           /\ call' \in [Clients -> Call \cup {None}]
           /\ \A c \in Clients : call'[c] \in {None, call[c]}
BY DEF DataTypes, ForgetMemory

LEMMA CrashInReportStep ==
    ASSUME PlansInv, NEW o \in Reports, NEW p \in Plans, NEW content \in Contents,
           CrashInReport(o, p, content)
    PROVE  PlansInv'
<1> DEFINE value == [owner |-> Owner[p], plan |-> p, content |-> content, persist |-> TRUE]
<1>1. /\ o \notin spent /\ p \in OnDisk /\ spent' = spent \cup {o}
      /\ orphaned' = orphaned \cup {o} /\ UNCHANGED adverse /\ ForgetMemory
      /\ report' = [q \in Reports |-> IF q = o THEN value
                                      ELSE IF q \in ToSet(kept) THEN None ELSE report[q]]
  BY DEF CrashInReport
<1>2. value \in Observation /\ value.plan = p
  BY DEF Observation, Owners
<1> HIDE DEF value
<1>3. /\ report' \in [Reports -> Observation \cup {None}] /\ report'[o] = value
      /\ \A q \in Reports : q # o => report'[q] \in {None, report[q]}
  BY <1>1, <1>2 DEF PlansInv, DataTypes
<1>4. p \in spent
  BY <1>1 DEF OnDisk, PlansInv, PlanInv
<1> QED
  BY <1>1, <1>2, <1>3, <1>4, ForgetIs, ReportedStep DEF PlansInv

LEMMA ReportLostStep ==
    ASSUME PlansInv, NEW o \in Reports, ReportLost(o)
    PROVE  PlansInv'
<1>1. /\ report' = [report EXCEPT ![o] = None]
      /\ UNCHANGED <<plan, order, route, call, spent, adverse, orphaned>>
  BY DEF ReportLost
<1>2. \A q \in Reports : report'[q] \in {None, report[q]}
  BY <1>1 DEF PlansInv, DataTypes
<1>3. DataTypes'
  BY <1>1 DEF PlansInv, DataTypes
<1>4. PlansMove
  BY <1>1 DEF PlansMove
<1>5. RouteInv'
  BY <1>1, <1>4, RoutesMove DEF PlansInv
<1> QED
  BY <1>1, <1>2, <1>3, <1>5, PlansQuiet

LEMMA RestartStep ==
    ASSUME PlansInv, Restart
    PROVE  PlansInv'
<1>1. /\ report' = [q \in Reports |-> IF q \in ToSet(kept) THEN None ELSE report[q]]
      /\ ForgetMemory /\ UNCHANGED <<spent, adverse, orphaned>>
  BY DEF Restart
<1>2. /\ \A q \in Reports : report'[q] \in {None, report[q]}
      /\ report' \in [Reports -> Observation \cup {None}]
  BY <1>1 DEF PlansInv, DataTypes
<1>3. DataTypes'
  BY <1>1, <1>2, ForgetIs DEF PlansInv, DataTypes
<1>4. \A p \in Plans : plan'[p] \in {None, plan[p]}
  BY <1>1, ForgetIs DEF PlansInv
<1>5. PlansMove
  BY <1>1, <1>4 DEF PlansMove
<1>6. RouteInv'
  BY <1>1, <1>5, ForgetIs, RoutesMove DEF PlansInv
<1> QED
  BY <1>1, <1>2, <1>3, <1>4, <1>6, PlansQuiet

\* A route that is not blocked belongs to a plan that nobody has spoken against,
\* whether or not the report is still there.
LEMMA UnblockedIsSound ==
    ASSUME PlansInv, NEW p \in Plans, plan[p] # None, NEW extra, ~Blocked(p, plan[p], extra)
    PROVE  Sound(p)
<1>1. plan[p].trait.executable /\ plan[p].state \notin {"rejected", "superseded"}
  BY DEF Blocked
<1>2. p \notin adverse
  <2> SUFFICES ASSUME p \in adverse PROVE FALSE
    OBVIOUS
  <2>1. PICK o \in ToSet(plan[p].reports) :
          report[o] = None \/ (report[o].plan = p /\ report[o].content.outcome = "adverse")
    BY DEF PlansInv, AdverseInv, Flagged
  <2>2. o \in Considered(plan[p], extra)
    BY DEF Considered
  <2>3. CASE report[o] = None
    BY <2>2, <2>3 DEF Blocked, Problem, Live
  <2>4. CASE report[o] # None
    BY <2>1, <2>2, <2>4 DEF Blocked, Problem, Live
  <2> QED
    BY <2>3, <2>4
<1> QED
  BY <1>1, <1>2 DEF Sound

\* A step of a route leaves plans and reports alone.
LEMMA RouteStep ==
    ASSUME PlansInv, UNCHANGED <<plan, report, adverse, orphaned>>, spent \subseteq spent',
           route' \in [Routes -> Route \cup {None}], call' \in [Clients -> Call \cup {None}],
           \A r \in Routes : \/ route'[r] \in {None, route[r]}
                             \/ route'[r].ready => Current(route[r].plan, route[r].revision)',
           \A c \in Clients : \/ call'[c] \in {None, call[c]}
                              \/ Current(call[c].plan, call[c].base.revision)'
    PROVE  PlansInv'
<1>1. DataTypes'
  BY DEF PlansInv, DataTypes
<1>2. PlansMove
  BY DEF PlansMove
<1>3. RouteInv'
  BY <1>2, RoutesMove DEF PlansInv
<1> QED
  BY <1>1, <1>3, PlansQuiet

LEMMA RouteBlockedStep ==
    ASSUME PlansInv, NEW r \in Routes, NEW p \in Plans, NEW extra, NEW persist \in BOOLEAN,
           RouteBlocked(r, p, extra, persist)
    PROVE  PlansInv'
<1> DEFINE new == [plan |-> p, revision |-> plan[p].revision, ready |-> FALSE, persist |-> persist]
<1>1. /\ plan[p] # None /\ route' = [route EXCEPT ![r] = new] /\ spent' = spent \cup {r}
      /\ UNCHANGED <<plan, order, report, kept, call, adverse, orphaned>>
  BY DEF RouteBlocked
<1>2. plan[p].revision \in Nat
  BY <1>1, DocumentFields DEF PlansInv, DataTypes
<1>3. new \in Route /\ new.ready = FALSE
  BY <1>2 DEF Route
<1> HIDE DEF new
<1>4. /\ route' \in [Routes -> Route \cup {None}] /\ route'[r] = new
      /\ \A q \in Routes : q # r => route'[q] = route[q]
  BY <1>1, <1>3 DEF PlansInv, DataTypes
<1>5. call' \in [Clients -> Call \cup {None}]
  BY <1>1 DEF PlansInv, DataTypes
<1> QED
  BY <1>1, <1>3, <1>4, <1>5, RouteStep

LEMMA RouteBeginStep ==
    ASSUME PlansInv, NEW c \in Clients, NEW r \in Routes, NEW p \in Plans, NEW extra,
           NEW persist \in BOOLEAN, RouteBegin(c, r, p, extra, persist)
    PROVE  PlansInv'
<1> DEFINE new == [plan |-> p, base |-> plan[p], id |-> r, persist |-> persist]
<1>1. /\ plan[p] # None /\ ~Blocked(p, plan[p], extra) /\ call' = [call EXCEPT ![c] = new]
      /\ spent' = spent \cup {r}
      /\ UNCHANGED <<plan, order, report, kept, route, adverse, orphaned>>
  BY DEF RouteBegin
<1>2. plan[p] \in Document /\ plan[p].revision \in Nat /\ p \in spent
  BY <1>1, DocumentFields DEF PlansInv, DataTypes, PlanInv
<1>3. new \in Call /\ new.plan = p /\ new.base = plan[p]
  BY <1>2 DEF Call
<1> HIDE DEF new
<1>4. /\ call' \in [Clients -> Call \cup {None}] /\ call'[c] = new
      /\ \A d \in Clients : d # c => call'[d] = call[d]
  BY <1>1, <1>3 DEF PlansInv, DataTypes
<1>5. Sound(p)
  BY <1>1, UnblockedIsSound
<1>6. Current(call[c].plan, call[c].base.revision)'
  BY <1>1, <1>2, <1>3, <1>4, <1>5 DEF Current, Sound
<1>7. \A d \in Clients : \/ call'[d] \in {None, call[d]}
                         \/ Current(call[d].plan, call[d].base.revision)'
  BY <1>4, <1>6
<1>8. route' \in [Routes -> Route \cup {None}]
  BY <1>1 DEF PlansInv, DataTypes
<1> QED
  BY <1>1, <1>4, <1>7, <1>8, RouteStep

LEMMA RouteEndStep ==
    ASSUME PlansInv, NEW c \in Clients, NEW verified \in BOOLEAN, RouteEnd(c, verified)
    PROVE  PlansInv'
<1>1. call[c] # None /\ call[c] \in Call
  BY DEF RouteEnd, PlansInv, DataTypes
<1>2. PICK r \in Routes, p \in Plans, n \in Nat :
        r = call[c].id /\ p = call[c].plan /\ n = call[c].base.revision
  BY <1>1, DocumentFields DEF Call
<1> DEFINE new == [plan |-> p, revision |-> n, ready |-> verified, persist |-> call[c].persist]
<1>3. /\ call' = [call EXCEPT ![c] = None] /\ route' = [route EXCEPT ![r] = new]
      /\ UNCHANGED <<plan, order, report, kept, spent, adverse, orphaned>>
  BY <1>2 DEF RouteEnd
<1>4. new \in Route /\ new.plan = p /\ new.revision = n
  BY <1>1 DEF Route, Call
<1>5. Current(p, n)
  BY <1>1, <1>2 DEF PlansInv, RouteInv
<1> HIDE DEF new
<1>6. /\ route' \in [Routes -> Route \cup {None}] /\ route'[r] = new
      /\ \A q \in Routes : q # r => route'[q] = route[q]
  BY <1>3, <1>4 DEF PlansInv, DataTypes
<1>7. Current(route[r].plan, route[r].revision)'
  <2>1. Current(p, n)'
    BY <1>3, <1>5 DEF Current, Sound
  <2> QED
    BY <1>4, <1>6, <2>1 DEF Current, Sound
<1>8. \A q \in Routes : \/ route'[q] \in {None, route[q]}
                        \/ route'[q].ready => Current(route[q].plan, route[q].revision)'
  BY <1>6, <1>7
<1>9. /\ call' \in [Clients -> Call \cup {None}]
      /\ \A d \in Clients : call'[d] \in {None, call[d]}
  BY <1>3 DEF PlansInv, DataTypes
<1> QED
  BY <1>3, <1>6, <1>8, <1>9, RouteStep

LEMMA RouteGoneStep ==
    ASSUME PlansInv, (\E c \in Clients : RouteFailed(c)) \/ (\E r \in Routes : RouteLost(r))
    PROVE  PlansInv'
<1>1. /\ UNCHANGED <<plan, report, spent, adverse, orphaned>>
      /\ route' \in [Routes -> Route \cup {None}] /\ call' \in [Clients -> Call \cup {None}]
      /\ \A r \in Routes : route'[r] \in {None, route[r]}
      /\ \A c \in Clients : call'[c] \in {None, call[c]}
  BY DEF RouteFailed, RouteLost, PlansInv, DataTypes
<1> QED
  BY <1>1, RouteStep

-------------------------------------------------------------------------------
(* The theorems *)

LEMMA PlansInit ==
    ASSUME Init
    PROVE  PlansInv
<1>1. /\ \A p \in Plans : plan[p] = None
      /\ \A o \in Reports : report[o] = None
      /\ \A r \in Routes : route[r] = None
      /\ \A c \in Clients : call[c] = None
      /\ adverse = {}
  BY DEF Init
<1>2. DataTypes
  BY DEF Init, DataTypes
<1>3. PlanInv /\ AdverseInv /\ RouteInv
  BY <1>1 DEF PlanInv, AdverseInv, RouteInv
<1>4. ListedInv
  BY <1>1 DEF ListedInv, ReportsListed
<1> QED
  BY <1>2, <1>3, <1>4 DEF PlansInv

LEMMA PlansStep ==
    ASSUME PlansInv, [Next]_vars
    PROVE  PlansInv'
<1>1. CASE PlanNext
  BY <1>1, CreateStep, TransitionStep, DeletePlanStep DEF PlanNext
<1>2. CASE ReportNext
  BY <1>2, ReportStep, ReportRefusedStep, ReportAloneStep, CrashInReportStep, ReportLostStep
  DEF ReportNext
<1>3. CASE RouteNext
  BY <1>3, RouteBlockedStep, RouteBeginStep, RouteEndStep, RouteGoneStep DEF RouteNext
<1>4. CASE Restart
  BY <1>4, RestartStep
<1>5. CASE UNCHANGED vars
  <2>1. /\ UNCHANGED <<plan, report, route, call, spent, adverse, orphaned>>
        /\ route \in [Routes -> Route \cup {None}] /\ call \in [Clients -> Call \cup {None}]
    BY <1>5 DEF vars, PlansInv, DataTypes
  <2> QED
    BY <2>1, RouteStep
<1> QED
  BY <1>1, <1>2, <1>3, <1>4, <1>5 DEF Next

\* The inductive invariant of plans, reports and routes.
THEOREM PlansInvariant == Spec => []PlansInv
<1>1. Init => PlansInv
  BY PlansInit
<1>2. PlansInv /\ [Next]_vars => PlansInv'
  BY PlansStep
<1> QED
  BY <1>1, <1>2, PTL DEF Spec

\* A ready route shown as current belongs to a plan that may be carried out, and an
\* applied plan is one that was accepted: although reports expire or are evicted,
\* the process dies between two commits, and the plan changes while a route waits.
THEOREM RoutesAreSound == Spec => []RoutesSound
<1>1. PlansInv => UnflaggedRouteIsSound
  <2> SUFFICES ASSUME PlansInv, NEW r \in Routes, route[r] # None, route[r].ready,
                      plan[route[r].plan] # None,
                      plan[route[r].plan].revision = route[r].revision
               PROVE  Sound(route[r].plan)
    BY DEF UnflaggedRouteIsSound, Sound
  <2> QED
    BY DEF PlansInv, RouteInv, Current
<1>2. PlansInv => AppliedAsAccepted
  BY DEF PlansInv, PlanInv, Decided, AppliedAsAccepted
<1> QED
  BY <1>1, <1>2, PlansInvariant, PTL DEF RoutesSound

\* An observation about a plan is in the plan's list, unless the process died between
\* the two commits of record().
THEOREM ReportsAreListed == Spec => []ReportsListed
<1>1. PlansInv => ReportsListed
  BY DEF PlansInv, ListedInv
<1> QED
  BY <1>1, PlansInvariant, PTL

\* Every change of a plan is a new revision, reports are only added, and a plan that
\* was decided is neither revived nor proposed again.
THEOREM PlansKeepHistory == Spec => PlanHistory
<1> DEFINE Kept(p) == plan[p] # None /\ plan'[p] # None /\ plan'[p] # plan[p] =>
              /\ plan'[p].revision = plan[p].revision + 1
              /\ IsPrefix(plan[p].reports, plan'[p].reports)
              /\ plan[p].state \in {"rejected", "superseded"} => plan'[p].state = plan[p].state
              /\ plan[p].state # "proposed" => plan'[p].state # "proposed"
<1>1. ASSUME PlansInv, [Next]_vars, NEW p \in Plans PROVE Kept(p)
  <2> SUFFICES ASSUME plan[p] # None, plan'[p] # None, plan'[p] # plan[p]
               PROVE  /\ plan'[p].revision = plan[p].revision + 1
                      /\ IsPrefix(plan[p].reports, plan'[p].reports)
                      /\ plan[p].state \in {"rejected", "superseded"} =>
                           plan'[p].state = plan[p].state
                      /\ plan[p].state # "proposed" => plan'[p].state # "proposed"
    OBVIOUS
  <2>1. /\ plan \in [Plans -> Document \cup {None}] /\ plan[p] \in Document
        /\ plan[p].reports \in Seq(Reports) /\ p \in spent
    BY <1>1, DocumentFields DEF PlansInv, DataTypes, PlanInv
  <2>2. ASSUME NEW q \in Plans, NEW d \in Document, Save(q, d) PROVE p = q /\ plan'[p] = d
    BY <2>1, <2>2, SaveIs
  <2>3. CASE PlanNext
    <3>1. ASSUME NEW q \in Plans, NEW trait \in Traits, NEW persist \in BOOLEAN,
                 Create(q, trait, persist)
          PROVE  FALSE
      <4> DEFINE d == [persist |-> persist, trait |-> trait, state |-> "proposed",
                       revision |-> 1, edits |-> {}, reports |-> << >>]
      <4>1. Save(q, d) /\ q \notin spent
        BY <3>1 DEF Create
      <4>2. d \in Document
        BY DEF Document, PlanState
      <4> HIDE DEF d
      <4> QED
        BY <2>1, <2>2, <4>1, <4>2
    <3>2. ASSUME NEW q \in Plans, DeletePlan(q) PROVE FALSE
      BY <2>1, <3>2 DEF DeletePlan, Dropped
    <3>3. ASSUME NEW q \in Plans, NEW state \in PlanState,
                 NEW edits \in SUBSET (Edits \cup {None}), Transition(q, state, edits)
          PROVE  Kept(p)
      <4>1. PICK d \in Document :
              /\ Save(q, d) /\ d.revision = plan[q].revision + 1 /\ d.state = state
              /\ d.reports = plan[q].reports
        BY <1>1, <3>3, TransitionIs
      <4>2. q = p /\ plan'[p] = d
        BY <2>2, <4>1
      <4>3. state \in Allowed(plan[p].state)
        BY <3>3, <4>2 DEF Transition
      <4>4. state # "proposed" /\ plan[p].state \notin {"rejected", "superseded"}
        BY <4>3 DEF Allowed
      <4>5. IsPrefix(plan[p].reports, plan'[p].reports)
        BY <2>1, <4>1, <4>2, SamePrefix
      <4> QED
        BY <4>1, <4>2, <4>4, <4>5
    <3> QED
      BY <2>3, <3>1, <3>2, <3>3 DEF PlanNext
  <2>4. CASE ReportNext
    <3>1. ASSUME NEW o \in Reports, NEW q \in Plans, NEW content \in Contents,
                 NEW persist \in BOOLEAN, NEW after \in BOOLEAN,
                 Report(o, q, content, persist, after)
          PROVE  Kept(p)
      <4>1. PICK d \in Document :
              /\ Save(q, d) /\ d.revision = plan[q].revision + 1
              /\ d.reports = Append(plan[q].reports, o)
              /\ \/ d.state = plan[q].state
                 \/ d.state = "observed" /\ plan[q].state \in {"applied", "partially_applied"}
        BY <1>1, <3>1, ReportIs
      <4>2. q = p /\ plan'[p] = d
        BY <2>2, <4>1
      <4>3. IsPrefix(plan[p].reports, Append(plan[p].reports, o))
        BY <2>1, AppendIs
      <4>4. plan'[p].reports = Append(plan[p].reports, o)
        BY <4>1, <4>2
      <4>5. IsPrefix(plan[p].reports, plan'[p].reports)
        BY <4>3, <4>4
      <4> QED
        BY <4>1, <4>2, <4>5
    <3>2. ASSUME NEW o \in Reports, NEW q \in Plans, NEW content \in Contents,
                 CrashInReport(o, q, content)
          PROVE  FALSE
      BY <1>1, <3>2, ForgetIs DEF CrashInReport, PlansInv
    <3>3. ASSUME NEW o \in Reports, NEW q \in Plans, NEW content \in Contents,
                 NEW persist \in BOOLEAN, NEW after \in BOOLEAN,
                 ReportRefused(o, q, content, persist, after)
          PROVE  FALSE
      BY <3>3 DEF ReportRefused
    <3>4. ASSUME NEW o \in Reports, NEW owner \in Owners, NEW content \in Contents,
                 NEW persist \in BOOLEAN, ReportAlone(o, owner, content, persist)
          PROVE  FALSE
      BY <3>4 DEF ReportAlone
    <3>5. ASSUME NEW o \in Reports, ReportLost(o) PROVE FALSE
      BY <3>5 DEF ReportLost
    <3> HIDE DEF Kept
    <3>6. Kept(p)
      BY <2>4, <3>1, <3>2, <3>3, <3>4, <3>5 DEF ReportNext
    <3> QED
      BY <3>6 DEF Kept
  <2>5. ~RouteNext
    BY DEF RouteNext, RouteBlocked, RouteBegin, RouteEnd, RouteFailed, RouteLost
  <2>6. ~Restart
    BY <1>1, ForgetIs DEF Restart, PlansInv
  <2>7. ~UNCHANGED vars
    BY DEF vars
  <2> QED
    BY <1>1, <2>3, <2>4, <2>5, <2>6, <2>7 DEF Next
<1>2. PlansInv /\ [Next]_vars => [\A p \in Plans : Kept(p)]_vars
  BY <1>1
<1> QED
  BY <1>2, PlansInvariant, PTL DEF Spec, PlanHistory

-------------------------------------------------------------------------------
(* The bounds of the store: adding up sizes *)

LEMMA ListedIs ==
    /\ Listed \in Seq(Plans)
    /\ \A p \in Plans : \E k \in 1 .. Len(Listed) :
         Listed[k] = p /\ \A i \in 1 .. Len(Listed) : Listed[i] = p => i = k
<1> DEFINE n == Cardinality(Plans)
<1>1. IsFiniteSet(Plans)
  BY ConstantsAssumption
<1>2. n \in Nat /\ ExistsBijection(1 .. n, Plans)
  BY <1>1, FS_CardinalityType
<1>3. \E f \in [1 .. n -> Plans] : IsInjective(f)
  BY <1>2 DEF ExistsBijection, Bijection, Injection
<1>4. Listed \in [1 .. n -> Plans] /\ IsInjective(Listed)
  BY <1>3 DEF Listed, SetToSeq
<1>5. IsFiniteSet(1 .. n) /\ Cardinality(1 .. n) = n
  BY <1>2, FS_Interval
<1>6. Listed \in Surjection(1 .. n, Plans)
  <2>1. Listed \in Injection(1 .. n, Plans)
    BY <1>4 DEF Injection
  <2> QED
    BY <1>1, <1>5, <2>1, FS_Injection
<1> HIDE DEF n
<1>7. Listed \in Seq(Plans) /\ Len(Listed) = n /\ DOMAIN Listed = 1 .. n
  BY <1>2, <1>4
<1>8. ASSUME NEW p \in Plans
      PROVE  \E k \in 1 .. n : Listed[k] = p /\ \A i \in 1 .. n : Listed[i] = p => i = k
  <2>1. PICK k \in 1 .. n : Listed[k] = p
    BY <1>6 DEF Surjection
  <2> QED
    BY <1>4, <1>7, <2>1 DEF IsInjective
<1> QED
  BY <1>7, <1>8

\* Bytes, of any documents.
Weights(data, S) == [i \in DOMAIN Listed |-> IF Listed[i] \in S THEN Size(data[Listed[i]]) ELSE 0]
Weighs(data, S) == Total(0, Weights(data, S))

Documents(data, S) == S \subseteq Plans /\ \A q \in S : data[q] \in Document

LEMMA SizeIs ==
    ASSUME NEW d \in Document
    PROVE  Size(d) \in Nat /\ Size(d) > 0
BY DocumentFields DEF Size

LEMMA BytesAre ==
    ASSUME NEW S
    PROVE  Bytes(S) = Weighs(plan, S)
BY DEF Bytes, Weighs, Weights

LEMMA WeightsAre ==
    ASSUME NEW data, NEW S, Documents(data, S)
    PROVE  /\ Weights(data, S) \in Seq(Int) /\ Len(Weights(data, S)) = Len(Listed)
           /\ Len(Listed) \in Nat
           /\ \A i \in 1 .. Len(Listed) :
                Weights(data, S)[i] = IF Listed[i] \in S THEN Size(data[Listed[i]]) ELSE 0
<1> DEFINE w == Weights(data, S)
           n == Len(Listed)
<1>1. n \in Nat /\ DOMAIN Listed = 1 .. n
  BY ListedIs
<1> HIDE DEF n
<1>2. w = [i \in 1 .. n |-> IF Listed[i] \in S THEN Size(data[Listed[i]]) ELSE 0]
  BY <1>1 DEF Weights
<1> HIDE DEF w
<1>3. \A q \in S : Size(data[q]) \in Int
  BY SizeIs DEF Documents
<1>4. w \in [1 .. n -> Int]
  BY <1>2, <1>3
<1>5. w \in Seq(Int) /\ Len(w) = n
  BY <1>1, <1>4
<1> QED
  BY <1>1, <1>2, <1>5 DEF w, n

LEMMA WeighsType ==
    ASSUME NEW data, NEW S, Documents(data, S)
    PROVE  Weighs(data, S) \in Int
BY WeightsAre, TotalType DEF Weighs

LEMMA WeighsNone ==
    ASSUME NEW data
    PROVE  Weighs(data, {}) = 0
<1>1. Documents(data, {})
  BY DEF Documents
<1>2. /\ Weights(data, {}) \in Seq(Int)
      /\ \A i \in 1 .. Len(Weights(data, {})) : Weights(data, {})[i] = 0
  BY <1>1, WeightsAre
<1> QED
  BY <1>2, TotalZero DEF Weighs

\* Less weighs less.
LEMMA WeighsLess ==
    ASSUME NEW data, NEW next, NEW S, NEW T, Documents(data, T), S \subseteq T,
           \A q \in S : next[q] = data[q]
    PROVE  Documents(next, S) /\ Weighs(next, S) <= Weighs(data, T)
<1> DEFINE low == Weights(next, S)
           high == Weights(data, T)
<1>1. Documents(next, S)
  BY DEF Documents
<1>2. /\ low \in Seq(Int) /\ high \in Seq(Int) /\ Len(low) = Len(high) /\ Len(low) = Len(Listed)
      /\ \A i \in 1 .. Len(Listed) :
           /\ low[i] = IF Listed[i] \in S THEN Size(next[Listed[i]]) ELSE 0
           /\ high[i] = IF Listed[i] \in T THEN Size(data[Listed[i]]) ELSE 0
  BY <1>1, WeightsAre
<1>3. \A q \in T : Size(data[q]) \in Nat
  BY SizeIs DEF Documents
<1> HIDE DEF low, high
<1>4. ASSUME NEW i \in 1 .. Len(low) PROVE low[i] <= high[i]
  <2>1. /\ low[i] = IF Listed[i] \in S THEN Size(next[Listed[i]]) ELSE 0
        /\ high[i] = IF Listed[i] \in T THEN Size(data[Listed[i]]) ELSE 0
    BY <1>2
  <2>2. CASE Listed[i] \in S
    <3>1. Listed[i] \in T /\ next[Listed[i]] = data[Listed[i]]
      BY <2>2
    <3>2. low[i] = high[i] /\ high[i] \in Nat
      BY <1>3, <2>1, <2>2, <3>1
    <3> QED BY <3>2
  <2>3. CASE Listed[i] \notin S
    <3>1. low[i] = 0 /\ high[i] \in Nat
      BY <1>3, <2>1, <2>3
    <3> QED BY <3>1
  <2> QED BY <2>2, <2>3
<1>5. Total(0, low) <= Total(0, high)
  BY <1>2, <1>4, TotalMono
<1> QED
  BY <1>1, <1>5 DEF low, high, Weighs

\* One document more.
LEMMA WeighsAdd ==
    ASSUME NEW data, NEW next, NEW S, NEW p \in Plans, p \notin S, Documents(data, S),
           next[p] \in Document, \A q \in S : next[q] = data[q]
    PROVE  /\ Documents(next, S \cup {p})
           /\ Weighs(next, S \cup {p}) = Weighs(data, S) + Size(next[p])
<1> DEFINE old == Weights(data, S)
           more == S \cup {p}
           new == Weights(next, more)
<1>1. Documents(next, more)
  BY DEF Documents
<1>2. /\ old \in Seq(Int) /\ new \in Seq(Int) /\ Len(old) = Len(new) /\ Len(old) = Len(Listed)
      /\ \A i \in 1 .. Len(Listed) :
           /\ old[i] = IF Listed[i] \in S THEN Size(data[Listed[i]]) ELSE 0
           /\ new[i] = IF Listed[i] \in more THEN Size(next[Listed[i]]) ELSE 0
  <2> HIDE DEF more
  <2>1. /\ old \in Seq(Int) /\ Len(old) = Len(Listed)
        /\ \A i \in 1 .. Len(Listed) : old[i] = IF Listed[i] \in S THEN Size(data[Listed[i]]) ELSE 0
    BY WeightsAre
  <2>2. /\ new \in Seq(Int) /\ Len(new) = Len(Listed)
        /\ \A i \in 1 .. Len(Listed) : new[i] = IF Listed[i] \in more THEN Size(next[Listed[i]]) ELSE 0
    BY <1>1, WeightsAre
  <2> HIDE DEF old, new
  <2> QED
    BY <2>1, <2>2
<1>3. PICK k \in 1 .. Len(Listed) :
        Listed[k] = p /\ \A i \in 1 .. Len(Listed) : Listed[i] = p => i = k
  BY ListedIs
<1> HIDE DEF old, new
<1>4. k \in 1 .. Len(old) /\ \A i \in 1 .. Len(old) : i # k => new[i] = old[i]
  BY <1>2, <1>3
<1>5. old[k] = 0 /\ new[k] = Size(next[p])
  BY <1>2, <1>3
<1>6. Total(0, new) = Total(0, old) - old[k] + new[k]
  BY <1>2, <1>4, TotalUpdate
<1>7. Total(0, old) \in Int /\ Size(next[p]) \in Int
  <2>1. Total(0, old) \in Int
    BY <1>2, 0 \in Int, TotalType
  <2> QED
    BY <2>1, SizeIs
<1> QED
  BY <1>1, <1>5, <1>6, <1>7 DEF old, new, more, Weighs

-------------------------------------------------------------------------------
(* The bounds of the store: what stays of a list *)

LEMMA WithoutIs ==
    ASSUME NEW T, NEW list \in Seq(T), NEW x
    PROVE  /\ Without(list, x) \in Seq(T) /\ Len(Without(list, x)) <= Len(list)
           /\ ToSet(Without(list, x)) \subseteq ToSet(list) \ {x}
<1> DEFINE places == {i \in DOMAIN list : list[i] # x}
           short == Picked(list, places)
           at == Places(Len(list), places)
<1>1. /\ InOrder(at, places, Len(list)) /\ short \in Seq(T) /\ Len(short) <= Len(list)
      /\ DOMAIN short = DOMAIN at
      /\ \A i \in DOMAIN short : at[i] \in DOMAIN list /\ short[i] = list[at[i]]
  BY PickedEntries
<1> HIDE DEF short, at
<1>2. \A i \in DOMAIN short : at[i] \in places
  BY <1>1 DEF InOrder
<1>3. \A i \in DOMAIN short : short[i] \in ToSet(list) \ {x}
  BY <1>1, <1>2 DEF ToSet
<1>4. short = Without(list, x)
  BY DEF short, Without
<1> QED
  BY <1>1, <1>3, <1>4 DEF ToSet

\* The end of a list.
LEMMA TailIs ==
    ASSUME NEW T, NEW list \in Seq(T), NEW k \in 1 .. Len(list) + 1
    PROVE  /\ SubSeq(list, k, Len(list)) \in Seq(T)
           /\ Len(SubSeq(list, k, Len(list))) = Len(list) - k + 1
           /\ ToSet(SubSeq(list, k, Len(list))) \subseteq ToSet(list)
<1> DEFINE n == Len(list)
           rest == SubSeq(list, k, n)
<1>1. n \in Nat /\ DOMAIN list = 1 .. n /\ \A i \in 1 .. n : list[i] \in T
  OBVIOUS
<1> HIDE DEF n
<1>2. k \in 1 .. n + 1
  BY DEF n
<1>3. /\ rest \in Seq(T) /\ Len(rest) = IF k <= n THEN n - k + 1 ELSE 0
      /\ \A i \in 1 .. n - k + 1 : rest[i] = list[k + i - 1]
  <2>1. \A i \in k .. n : list[i] \in T
    BY <1>1, <1>2
  <2>2. k \in Int /\ n \in Int
    BY <1>1, <1>2
  <2> QED
    BY <2>1, <2>2, SubSeqProperties
<1> HIDE DEF rest
<1>4. Len(rest) = n - k + 1 /\ DOMAIN rest = 1 .. Len(rest)
  BY <1>1, <1>2, <1>3
<1>5. \A i \in DOMAIN rest : rest[i] = list[k + i - 1] /\ k + i - 1 \in 1 .. n
  BY <1>1, <1>2, <1>3, <1>4
<1>6. ToSet(rest) \subseteq ToSet(list)
  BY <1>1, <1>5 DEF ToSet
<1> QED
  BY <1>3, <1>4, <1>6 DEF rest, n

\* An eviction ends with room for one more, because the memory can be emptied.
LEMMA EvictedIs ==
    ASSUME NEW queue \in Seq(Plans), NEW size \in Nat, size <= MaxBytes
    PROVE  LET rest == Evicted(queue, size)
           IN  /\ rest \in Seq(Plans) /\ Len(rest) < MaxRecords
               /\ ToSet(rest) \subseteq ToSet(queue)
               /\ Weighs(plan, ToSet(rest)) + size <= MaxBytes
<1> DEFINE n == Len(queue)
           End(k) == SubSeq(queue, k, n)
           cuts == {k \in 1 .. n + 1 : k = n + 1 \/ Fits(End(k), size)}
           first == CHOOSE k \in cuts : \A j \in cuts : k <= j
           rest == Evicted(queue, size)
<1>1. n \in Nat /\ cuts \in SUBSET Nat /\ n + 1 \in cuts
  OBVIOUS
<1>2. rest = End(first)
  BY DEF Evicted
<1>3. \E k \in cuts : \A j \in cuts : k <= j
  <2> HIDE DEF cuts
  <2> QED
    BY <1>1, LeastNatural
<1>4. first \in cuts
  BY <1>3
<1> HIDE DEF first, rest
<1>5. first \in 1 .. n + 1 /\ (first = n + 1 \/ Fits(End(first), size))
  BY <1>4
<1>6. /\ End(first) \in Seq(Plans) /\ Len(End(first)) = n - first + 1
      /\ ToSet(End(first)) \subseteq ToSet(queue)
  BY <1>5, TailIs
<1> HIDE DEF End, cuts
<1>7. CASE first = n + 1
  <2>1. Len(rest) = 0 /\ rest \in Seq(Plans)
    BY <1>1, <1>2, <1>6, <1>7
  <2>2. ToSet(rest) = {}
    BY <2>1 DEF ToSet
  <2>3. Weighs(plan, ToSet(rest)) = 0
    BY <2>2, WeighsNone
  <2>4. 0 < MaxRecords /\ MaxBytes \in Nat
    BY ConstantsAssumption
  <2> QED
    BY <1>2, <1>6, <2>1, <2>3, <2>4 DEF rest
<1>8. CASE Fits(End(first), size)
  <2>1. Len(rest) < MaxRecords /\ Bytes(ToSet(rest)) + size <= MaxBytes
    BY <1>2, <1>8 DEF Fits
  <2>2. Bytes(ToSet(rest)) = Weighs(plan, ToSet(rest))
    BY BytesAre
  <2> QED
    BY <1>2, <1>6, <2>1, <2>2 DEF rest
<1> QED
  BY <1>5, <1>7, <1>8

\* What stays of the observations in memory leaves room for one more.
LEMMA StaysIs ==
    ASSUME NEW persist \in BOOLEAN, kept \in Seq(Reports), Len(kept) <= MaxRecords
    PROVE  /\ Stays(persist) \in Seq(Reports)
           /\ Len(Stays(persist)) <= MaxRecords
           /\ ~persist => Len(Stays(persist)) < MaxRecords
<1>1. MaxRecords \in Nat \ {0} /\ Len(kept) \in Nat
  BY ConstantsAssumption
<1>2. CASE persist \/ Len(kept) < MaxRecords
  BY <1>1, <1>2 DEF Stays
<1>3. CASE ~persist /\ Len(kept) >= MaxRecords
  <2> DEFINE n == Len(kept)
             k == n - MaxRecords + 2
  <2>1. k \in 1 .. n + 1
    BY <1>1, <1>3
  <2>2. /\ SubSeq(kept, k, n) \in Seq(Reports)
        /\ Len(SubSeq(kept, k, n)) = n - k + 1
    BY <2>1, TailIs
  <2>3. Stays(persist) = SubSeq(kept, k, n)
    BY <1>1, <1>3 DEF Stays
  <2> QED
    BY <1>1, <1>3, <2>2, <2>3
<1> QED
  BY <1>1, <1>2, <1>3

-------------------------------------------------------------------------------
(* The bounds of the store: the invariant *)

\* The decisions in memory are there, and kept in memory only.
OrderInv ==
    /\ order \in Seq(Plans) /\ Len(order) <= MaxRecords
    /\ \A p \in ToSet(order) : p \in spent /\ plan[p] \in Document /\ ~plan[p].persist
    /\ Weighs(plan, ToSet(order)) <= MaxBytes

DiskOf(owner) == {p \in OnDisk : Owner[p] = owner}

DiskInv ==
    \A owner \in Owners :
      Cardinality(DiskOf(owner)) <= MaxRecords /\ Weighs(plan, DiskOf(owner)) <= MaxBytes

KeptInv == kept \in Seq(Reports) /\ Len(kept) <= MaxRecords

StoreInv == OrderInv /\ DiskInv /\ KeptInv

LEMMA OnDiskIs ==
    ASSUME plan \in [Plans -> Document \cup {None}], NEW S, S \subseteq OnDisk
    PROVE  Documents(plan, S) /\ IsFiniteSet(S)
<1>1. Documents(plan, S)
  BY DEF Documents, OnDisk
<1>2. IsFiniteSet(Plans) /\ S \in SUBSET Plans
  BY ConstantsAssumption DEF OnDisk
<1> QED
  BY <1>1, <1>2, FS_Subset

\* Decisions that are lost leave room.
LEMMA DiskFrame ==
    ASSUME DataTypes, DiskInv, \A p \in OnDisk' : p \in OnDisk /\ plan'[p] = plan[p]
    PROVE  DiskInv'
<1> SUFFICES ASSUME NEW owner \in Owners
             PROVE  /\ Cardinality(DiskOf(owner)') <= MaxRecords
                    /\ Weighs(plan', DiskOf(owner)') <= MaxBytes
  BY DEF DiskInv
<1> DEFINE S == DiskOf(owner)'
           T == DiskOf(owner)
<1>1. S \subseteq T /\ \A q \in S : plan'[q] = plan[q]
  BY DEF DiskOf
<1>2. Documents(plan, T) /\ IsFiniteSet(T)
  BY OnDiskIs DEF DataTypes, DiskOf
<1>3. Cardinality(T) <= MaxRecords /\ Weighs(plan, T) <= MaxBytes
  BY DEF DiskInv
<1> HIDE DEF S, T
<1>4. Cardinality(S) <= Cardinality(T) /\ Cardinality(S) \in Nat /\ Cardinality(T) \in Nat
  BY <1>1, <1>2, FS_Subset, FS_CardinalityType
<1>5. Documents(plan', S) /\ Weighs(plan', S) <= Weighs(plan, T)
  BY <1>1, <1>2, WeighsLess
<1>6. Weighs(plan, T) \in Int /\ Weighs(plan', S) \in Int
  BY <1>2, <1>5, WeighsType
<1>7. MaxRecords \in Nat /\ MaxBytes \in Nat
  BY ConstantsAssumption
<1> QED
  BY <1>3, <1>4, <1>5, <1>6, <1>7 DEF S

LEMMA OrderFrame ==
    ASSUME OrderInv, order' \in Seq(Plans), Len(order') <= Len(order),
           ToSet(order') \subseteq ToSet(order), spent \subseteq spent',
           \A p \in ToSet(order') : plan'[p] = plan[p]
    PROVE  OrderInv'
<1> DEFINE S == ToSet(order')
           T == ToSet(order)
<1>1. \A p \in S : p \in spent' /\ plan'[p] \in Document /\ ~plan'[p].persist
  BY DEF OrderInv
<1>2. Documents(plan, T)
  BY DEF OrderInv, Documents, ToSet
<1>3. Weighs(plan, T) <= MaxBytes
  BY DEF OrderInv
<1>4. S \subseteq T /\ \A q \in S : plan'[q] = plan[q]
  OBVIOUS
<1> HIDE DEF S, T
<1>5. Documents(plan', S) /\ Weighs(plan', S) <= Weighs(plan, T)
  BY <1>2, <1>4, WeighsLess
<1>6. Weighs(plan, T) \in Int /\ Weighs(plan', S) \in Int /\ MaxBytes \in Nat
  BY <1>2, <1>5, WeighsType, ConstantsAssumption
<1>7. Weighs(plan', S) <= MaxBytes
  BY <1>3, <1>5, <1>6
<1>8. Len(order) \in Nat /\ Len(order') \in Nat /\ MaxRecords \in Nat /\ Len(order) <= MaxRecords
  BY ConstantsAssumption DEF OrderInv
<1> QED
  BY <1>1, <1>7, <1>8 DEF OrderInv, S

\* Saving a decision to disk.
LEMMA SaveToDisk ==
    ASSUME DataTypes, OrderInv, DiskInv, NEW p \in Plans, NEW d \in Document, d.persist,
           CanSave(p, d), Save(p, d), spent \subseteq spent', p \notin ToSet(order)
    PROVE  OrderInv' /\ DiskInv'
<1>1. plan' = [plan EXCEPT ![p] = d] /\ order' = order /\ DiskRoom(p, d)
  BY DEF Save, CanSave
<1>2. /\ plan' \in [Plans -> Document \cup {None}] /\ plan'[p] = d
      /\ \A q \in Plans : q # p => plan'[q] = plan[q]
  BY <1>1 DEF DataTypes
<1>3. OrderInv'
  <2>1. order \in Seq(Plans) /\ Len(order) \in Nat /\ ToSet(order) \subseteq Plans
    BY DEF OrderInv, ToSet
  <2> QED
    BY <1>1, <1>2, <2>1, OrderFrame
<1>4. ASSUME NEW owner \in Owners
      PROVE  /\ Cardinality(DiskOf(owner)') <= MaxRecords
             /\ Weighs(plan', DiskOf(owner)') <= MaxBytes
  <2> DEFINE S == DiskOf(owner)'
             T == DiskOf(owner)
  <2>1. Documents(plan, T) /\ IsFiniteSet(T)
    BY OnDiskIs DEF DataTypes, DiskOf
  <2>2. Cardinality(T) <= MaxRecords /\ Weighs(plan, T) <= MaxBytes /\ Cardinality(T) \in Nat
    BY <2>1, FS_CardinalityType DEF DiskInv
  <2>3. MaxRecords \in Nat /\ MaxBytes \in Nat
    BY ConstantsAssumption
  <2>4. \A q \in Plans : q # p => (q \in S <=> q \in T)
    BY <1>2 DEF DiskOf, OnDisk
  <2>5. S \subseteq Plans /\ T \subseteq Plans
    BY DEF DiskOf, OnDisk
  <2>6. CASE Owner[p] # owner
    <3>1. S \subseteq T /\ \A q \in S : plan'[q] = plan[q]
      BY <1>2, <2>4, <2>5, <2>6 DEF DiskOf
    <3> HIDE DEF S, T
    <3>2. Cardinality(S) <= Cardinality(T) /\ Cardinality(S) \in Nat
      BY <2>1, <3>1, FS_Subset, FS_CardinalityType
    <3>3. Documents(plan', S) /\ Weighs(plan', S) <= Weighs(plan, T)
      BY <2>1, <3>1, WeighsLess
    <3>4. Weighs(plan, T) \in Int /\ Weighs(plan', S) \in Int
      BY <2>1, <3>3, WeighsType
    <3> QED
      BY <2>2, <2>3, <3>2, <3>3, <3>4 DEF S
  <2>7. CASE Owner[p] = owner
    <3> DEFINE U == T \ {p}
               V == U \cup {p}
    <3>1. /\ p \notin T => Cardinality(T) < MaxRecords
          /\ Weighs(plan, U) + Size(d) <= MaxBytes
      BY <1>1, <2>7, BytesAre DEF DiskRoom, DiskOf
    <3>2. S \subseteq V
      BY <2>4, <2>5
    <3>3. Documents(plan, U) /\ p \notin U /\ \A q \in U : plan'[q] = plan[q]
      BY <1>2, <2>1 DEF Documents
    <3> HIDE DEF S, T, U
    <3>4. Documents(plan', V) /\ Weighs(plan', V) = Weighs(plan, U) + Size(d)
      BY <1>2, <3>3, WeighsAdd
    <3>5. IsFiniteSet(V) /\ Cardinality(V) <= MaxRecords /\ Cardinality(V) \in Nat
      <4>1. V = T \cup {p}
        BY DEF U
      <4>2. /\ IsFiniteSet(T \cup {p})
            /\ Cardinality(T \cup {p}) = IF p \in T THEN Cardinality(T) ELSE Cardinality(T) + 1
        BY <2>1, FS_AddElement
      <4>3. IsFiniteSet(V)
        BY <4>1, <4>2, Zenon
      <4>4. Cardinality(V) = IF p \in T THEN Cardinality(T) ELSE Cardinality(T) + 1
        BY <4>1, <4>2, Zenon
      <4> HIDE DEF V
      <4>5. Cardinality(V) <= MaxRecords /\ Cardinality(V) \in Nat
        BY <2>2, <2>3, <3>1, <4>4
      <4> QED
        BY <4>3, <4>5
    <3> HIDE DEF V
    <3>6. Cardinality(S) <= Cardinality(V) /\ Cardinality(S) \in Nat
      BY <3>2, <3>5, FS_Subset, FS_CardinalityType
    <3>7. Documents(plan', S) /\ Weighs(plan', S) <= Weighs(plan', V)
      BY <3>2, <3>4, WeighsLess
    <3>8. Weighs(plan', S) \in Int /\ Weighs(plan', V) \in Int
      BY <3>4, <3>7, WeighsType
    <3> QED
      BY <2>3, <3>1, <3>4, <3>5, <3>6, <3>7, <3>8 DEF S
  <2> QED
    BY <2>6, <2>7
<1> QED
  BY <1>3, <1>4 DEF DiskInv

\* Saving a decision in memory, where others make room.
LEMMA SaveInMemory ==
    ASSUME DataTypes, OrderInv, DiskInv, NEW p \in Plans, NEW d \in Document, ~d.persist,
           CanSave(p, d), Save(p, d), spent \subseteq spent', p \in spent'
    PROVE  OrderInv' /\ DiskInv'
<1> DEFINE queue == Without(order, p)
           rest == Evicted(queue, Size(d))
           S == ToSet(rest)
<1>1. /\ order' = Append(rest, p)
      /\ plan' = [q \in Plans |-> IF q = p THEN d
                                  ELSE IF q \in ToSet(order) \ S THEN None
                                  ELSE plan[q]]
  BY DEF Save
<1>2. order \in Seq(Plans)
  BY DEF OrderInv
<1>3. queue \in Seq(Plans) /\ ToSet(queue) \subseteq ToSet(order) \ {p}
  BY <1>2, WithoutIs
<1>4. /\ Size(d) \in Nat /\ Size(d) <= MaxBytes
      /\ MaxRecords \in Nat /\ MaxBytes \in Nat
  <2>1. Size(d) \in Nat /\ Size(d) <= MaxRecordBytes
    BY SizeIs DEF CanSave
  <2>2. MaxRecordBytes \in Nat /\ MaxBytes \in Nat /\ MaxRecords \in Nat
    BY ConstantsAssumption
  <2>3. MaxRecordBytes <= MaxBytes
    BY ConstantsAssumption
  <2> QED
    BY <2>1, <2>2, <2>3
<1> HIDE DEF queue
<1>5. /\ rest \in Seq(Plans) /\ Len(rest) < MaxRecords /\ S \subseteq ToSet(queue)
      /\ Weighs(plan, S) + Size(d) <= MaxBytes
  BY <1>3, <1>4, EvictedIs
<1> HIDE DEF rest
<1>6. /\ order' \in Seq(Plans) /\ Len(order') = Len(rest) + 1 /\ Len(rest) \in Nat
      /\ ToSet(order') = S \cup {p}
  BY <1>1, <1>5, AppendIs
<1>7. /\ S \subseteq ToSet(order) /\ p \notin S /\ S \subseteq Plans /\ ToSet(order) \subseteq Plans
      /\ \A q \in ToSet(order) : q \in spent /\ plan[q] \in Document /\ ~plan[q].persist
  <2>1. S \subseteq ToSet(order) /\ p \notin S
    BY <1>3, <1>5
  <2>2. ToSet(order) \subseteq Plans
    BY <1>2 DEF ToSet
  <2>3. \A q \in ToSet(order) : q \in spent /\ plan[q] \in Document /\ ~plan[q].persist
    BY DEF OrderInv
  <2> QED
    BY <2>1, <2>2, <2>3
<1> HIDE DEF S
<1>8. plan'[p] = d /\ \A q \in S : plan'[q] = plan[q]
  BY <1>1, <1>7
<1>9. OrderInv'
  <2>1. Documents(plan, S)
    BY <1>7 DEF Documents
  <2>2. Weighs(plan', S \cup {p}) = Weighs(plan, S) + Size(d)
    <3>1. plan'[p] \in Document
      BY <1>8
    <3>2. Weighs(plan', S \cup {p}) = Weighs(plan, S) + Size(plan'[p])
      <4>1. p \notin S /\ \A q \in S : plan'[q] = plan[q]
        BY <1>7, <1>8
      <4> QED
        BY <2>1, <3>1, <4>1, WeighsAdd
    <3> QED
      BY <1>8, <3>2
  <2>3. \A q \in S \cup {p} : q \in spent' /\ plan'[q] \in Document /\ ~plan'[q].persist
    BY <1>7, <1>8
  <2> QED
    BY <1>4, <1>5, <1>6, <2>2, <2>3 DEF OrderInv
<1>10. \A q \in OnDisk' : q \in OnDisk /\ plan'[q] = plan[q]
  BY <1>1 DEF OnDisk
<1>11. DiskInv'
  BY <1>10, DiskFrame
<1> QED
  BY <1>9, <1>11

\* A new revision of a decision is kept where the old one is.
LEMMA RevisedStore ==
    ASSUME PlansInv, StoreInv, NEW p \in Plans, plan[p] # None, NEW d \in Document,
           d.persist = plan[p].persist, CanSave(p, d), Save(p, d), spent \subseteq spent'
    PROVE  OrderInv' /\ DiskInv'
<1>1. p \in spent'
  BY DEF PlansInv, PlanInv
<1>2. d.persist => p \notin ToSet(order)
  BY DEF StoreInv, OrderInv
<1> QED
  BY <1>1, <1>2, SaveToDisk, SaveInMemory DEF PlansInv, StoreInv

LEMMA CreateStore ==
    ASSUME PlansInv, StoreInv, NEW p \in Plans, NEW trait \in Traits, NEW persist \in BOOLEAN,
           Create(p, trait, persist)
    PROVE  StoreInv'
<1> DEFINE d == [persist |-> persist, trait |-> trait, state |-> "proposed", revision |-> 1,
                 edits |-> {}, reports |-> << >>]
<1>1. /\ p \notin spent /\ CanSave(p, d) /\ Save(p, d) /\ spent' = spent \cup {p}
      /\ kept' = kept
  BY DEF Create
<1>2. d \in Document
  BY DEF Document, PlanState
<1> HIDE DEF d
<1>3. p \notin ToSet(order)
  BY <1>1 DEF StoreInv, OrderInv
<1>4. OrderInv' /\ DiskInv'
  BY <1>1, <1>2, <1>3, SaveToDisk, SaveInMemory DEF PlansInv, StoreInv
<1> QED
  BY <1>1, <1>4 DEF StoreInv, KeptInv

LEMMA TransitionStore ==
    ASSUME PlansInv, StoreInv, NEW p \in Plans, NEW state \in PlanState,
           NEW edits \in SUBSET (Edits \cup {None}), Transition(p, state, edits)
    PROVE  StoreInv'
<1>1. PICK d \in Document : Save(p, d) /\ CanSave(p, d) /\ d.persist = plan[p].persist
  BY TransitionIs
<1>2. plan[p] # None /\ spent' = spent /\ kept' = kept
  BY DEF Transition
<1>3. OrderInv' /\ DiskInv'
  BY <1>1, <1>2, RevisedStore
<1> QED
  BY <1>2, <1>3 DEF StoreInv, KeptInv

LEMMA DeleteStore ==
    ASSUME PlansInv, StoreInv, NEW p \in Plans, DeletePlan(p)
    PROVE  StoreInv'
<1>1. /\ plan' = [plan EXCEPT ![p] = None] /\ order' = Without(order, p)
      /\ spent' = spent /\ kept' = kept
  BY DEF DeletePlan, Dropped
<1>2. plan \in [Plans -> Document \cup {None}] /\ order \in Seq(Plans)
  BY DEF PlansInv, DataTypes, StoreInv, OrderInv
<1>3. /\ order' \in Seq(Plans) /\ Len(order') <= Len(order)
      /\ ToSet(order') \subseteq ToSet(order) \ {p} /\ ToSet(order) \subseteq Plans
  <2>1. /\ Without(order, p) \in Seq(Plans) /\ Len(Without(order, p)) <= Len(order)
        /\ ToSet(Without(order, p)) \subseteq ToSet(order) \ {p}
    BY <1>2, WithoutIs
  <2>2. ToSet(order) \subseteq Plans
    BY <1>2 DEF ToSet
  <2> QED
    BY <1>1, <2>1, <2>2
<1>4. \A q \in ToSet(order') : plan'[q] = plan[q]
  BY <1>1, <1>2, <1>3
<1>5. OrderInv'
  BY <1>1, <1>3, <1>4, OrderFrame DEF StoreInv
<1>6. \A q \in OnDisk' : q \in OnDisk /\ plan'[q] = plan[q]
  BY <1>1, <1>2 DEF OnDisk
<1>7. DiskInv'
  BY <1>6, DiskFrame DEF PlansInv, StoreInv
<1> QED
  BY <1>1, <1>5, <1>7 DEF StoreInv, KeptInv

\* The observations kept after one of them was saved, and perhaps deleted again.
LEMMA KeptMoves ==
    ASSUME KeptInv, NEW o \in Reports, NEW persist \in BOOLEAN,
           kept' = Stays(persist) \/ kept' = IF persist THEN kept ELSE Append(Stays(FALSE), o)
    PROVE  KeptInv'
<1>1. /\ kept \in Seq(Reports) /\ Len(kept) <= MaxRecords /\ MaxRecords \in Nat
  BY ConstantsAssumption DEF KeptInv
<1>2. CASE kept' = Stays(persist)
  BY <1>1, <1>2, StaysIs DEF KeptInv
<1>3. CASE kept' = IF persist THEN kept ELSE Append(Stays(FALSE), o)
  <2> DEFINE left == Stays(FALSE)
  <2>1. left \in Seq(Reports) /\ Len(left) < MaxRecords
    BY <1>1, StaysIs
  <2> HIDE DEF left
  <2>2. Append(left, o) \in Seq(Reports) /\ Len(Append(left, o)) <= MaxRecords
    BY <1>1, <2>1
  <2>3. kept' = IF persist THEN kept ELSE Append(left, o)
    BY <1>3 DEF left
  <2> QED
    BY <1>1, <2>2, <2>3 DEF KeptInv
<1> QED
  BY <1>2, <1>3

LEMMA ReportStore ==
    ASSUME PlansInv, StoreInv, NEW o \in Reports, NEW p \in Plans, NEW content \in Contents,
           NEW persist \in BOOLEAN, NEW after \in BOOLEAN, Report(o, p, content, persist, after)
    PROVE  StoreInv'
<1>1. PICK d \in Document : Save(p, d) /\ CanSave(p, d) /\ d.persist = plan[p].persist
  BY ReportIs
<1>2. /\ plan[p] # None /\ spent' = spent \cup {o}
      /\ kept' = IF persist THEN kept ELSE Append(Stays(FALSE), o)
  BY DEF Report, KeepReport
<1>3. OrderInv' /\ DiskInv'
  BY <1>1, <1>2, RevisedStore
<1>4. KeptInv'
  BY <1>2, KeptMoves DEF StoreInv
<1> QED
  BY <1>3, <1>4 DEF StoreInv

\* Plans that are left alone.
LEMMA SameStore ==
    ASSUME PlansInv, StoreInv, UNCHANGED <<plan, order>>, spent \subseteq spent', KeptInv'
    PROVE  StoreInv'
<1>1. OrderInv'
  BY DEF StoreInv, OrderInv
<1>2. \A q \in OnDisk' : q \in OnDisk /\ plan'[q] = plan[q]
  BY DEF OnDisk
<1>3. DiskInv'
  BY <1>2, DiskFrame DEF PlansInv, StoreInv
<1> QED
  BY <1>1, <1>3 DEF StoreInv

\* A restart empties the memory.
LEMMA ForgetStore ==
    ASSUME PlansInv, StoreInv, ForgetMemory, kept' = << >>, spent \subseteq spent'
    PROVE  StoreInv'
<1>1. /\ order' = << >>
      /\ plan' = [p \in Plans |-> IF p \in OnDisk THEN plan[p] ELSE None]
  BY DEF ForgetMemory
<1>2. \A q \in OnDisk' : q \in OnDisk /\ plan'[q] = plan[q]
  BY <1>1 DEF OnDisk
<1>3. DiskInv'
  BY <1>2, DiskFrame DEF PlansInv, StoreInv
<1>4. ToSet(order') = {} /\ order' \in Seq(Plans) /\ Len(order') = 0
  BY <1>1 DEF ToSet
<1>5. Weighs(plan', ToSet(order')) = 0
  BY <1>4, WeighsNone
<1>6. MaxRecords \in Nat /\ MaxBytes \in Nat
  BY ConstantsAssumption
<1>7. OrderInv' /\ KeptInv'
  BY <1>4, <1>5, <1>6 DEF OrderInv, KeptInv
<1> QED
  BY <1>3, <1>7 DEF StoreInv

LEMMA ReportsStore ==
    ASSUME PlansInv, StoreInv, ReportNext
    PROVE  StoreInv'
<1>1. ASSUME NEW o \in Reports, NEW p \in Plans, NEW content \in Contents,
             NEW persist \in BOOLEAN, NEW after \in BOOLEAN,
             ReportRefused(o, p, content, persist, after)
      PROVE  StoreInv'
  <2>1. UNCHANGED <<plan, order>> /\ spent \subseteq spent' /\ kept' = Stays(persist)
    BY <1>1 DEF ReportRefused, Withdraw, Mislaid
  <2> QED
    BY <2>1, KeptMoves, SameStore DEF StoreInv
<1>2. ASSUME NEW o \in Reports, NEW owner \in Owners, NEW content \in Contents,
             NEW persist \in BOOLEAN, ReportAlone(o, owner, content, persist)
      PROVE  StoreInv'
  <2>1. /\ UNCHANGED <<plan, order>> /\ spent \subseteq spent'
        /\ kept' = IF persist THEN kept ELSE Append(Stays(FALSE), o)
    BY <1>2 DEF ReportAlone, KeepReport
  <2> QED
    BY <2>1, KeptMoves, SameStore DEF StoreInv
<1>3. ASSUME NEW o \in Reports, ReportLost(o)
      PROVE  StoreInv'
  <2>1. UNCHANGED <<plan, order, spent>> /\ kept' = Without(kept, o)
    BY <1>3 DEF ReportLost
  <2>2. kept \in Seq(Reports) /\ Len(kept) <= MaxRecords /\ MaxRecords \in Nat
    BY ConstantsAssumption DEF StoreInv, KeptInv
  <2>3. kept' \in Seq(Reports) /\ Len(kept') <= Len(kept)
    BY <2>1, <2>2, WithoutIs
  <2>4. KeptInv'
    BY <2>2, <2>3 DEF KeptInv
  <2> QED
    BY <2>1, <2>4, SameStore
<1>4. ASSUME NEW o \in Reports, NEW p \in Plans, NEW content \in Contents,
             CrashInReport(o, p, content)
      PROVE  StoreInv'
  BY <1>4, ForgetStore DEF CrashInReport
<1> QED
  BY <1>1, <1>2, <1>3, <1>4, ReportStore DEF ReportNext

LEMMA StoreStep ==
    ASSUME PlansInv, StoreInv, [Next]_vars
    PROVE  StoreInv'
<1>1. CASE PlanNext
  BY <1>1, CreateStore, TransitionStore, DeleteStore DEF PlanNext
<1>2. CASE ReportNext
  BY <1>2, ReportsStore
<1>3. CASE RouteNext \/ UNCHANGED vars
  <2>1. UNCHANGED <<plan, order, kept>> /\ spent \subseteq spent'
    BY <1>3 DEF RouteNext, RouteBlocked, RouteBegin, RouteEnd, RouteFailed, RouteLost, vars
  <2>2. KeptInv'
    BY <2>1 DEF StoreInv, KeptInv
  <2> QED
    BY <2>1, <2>2, SameStore
<1>4. CASE Restart
  BY <1>4, ForgetStore DEF Restart
<1> QED
  BY <1>1, <1>2, <1>3, <1>4 DEF Next

LEMMA StoreInit ==
    ASSUME Init
    PROVE  StoreInv
<1>1. plan = [p \in Plans |-> None] /\ order = << >> /\ kept = << >>
  BY DEF Init
<1>2. ToSet(order) = {} /\ OnDisk = {}
  BY <1>1 DEF ToSet, OnDisk
<1>3. \A S : S = {} => Weighs(plan, S) = 0 /\ Cardinality(S) = 0
  BY WeighsNone, FS_EmptySet
<1>4. \A owner \in Owners : DiskOf(owner) = {}
  BY <1>2 DEF DiskOf
<1>5. MaxRecords \in Nat /\ MaxBytes \in Nat
  BY ConstantsAssumption
<1>6. order \in Seq(Plans) /\ kept \in Seq(Reports) /\ Len(order) = 0 /\ Len(kept) = 0
  BY <1>1
<1>7. OrderInv /\ KeptInv
  BY <1>2, <1>3, <1>5, <1>6 DEF OrderInv, KeptInv
<1>8. DiskInv
  BY <1>3, <1>4, <1>5 DEF DiskInv
<1> QED
  BY <1>7, <1>8 DEF StoreInv

\* The inductive invariant of the store.
THEOREM StoreInvariant == Spec => []StoreInv
<1>1. Init => StoreInv
  BY StoreInit
<1>2. PlansInv /\ StoreInv /\ [Next]_vars => StoreInv'
  BY StoreStep
<1> QED
  BY <1>1, <1>2, PlansInvariant, PTL DEF Spec

\* Whatever is created, revised, reported, withdrawn or lost, and however often the
\* process restarts: the memory and each owner's share of the disk stay within their
\* quotas of records and bytes, and an observation is listed by its plan.
THEOREM StoreIsBounded == Spec => []StoreSound
<1>1. StoreInv => StoreBounded
  BY BytesAre DEF StoreInv, OrderInv, DiskInv, KeptInv, DiskOf, StoreBounded
<1>2. StoreBounded /\ ReportsListed => StoreSound
  BY DEF StoreSound
<1> QED
  BY <1>1, <1>2, StoreInvariant, ReportsAreListed, PTL

\* The ids that were handed out, and the ghosts.
IdsInv ==
    /\ spent \subseteq Plans \cup Reports \cup Routes
    /\ adverse \subseteq Plans /\ orphaned \subseteq Reports

LEMMA IdsStep ==
    ASSUME IdsInv, [Next]_vars
    PROVE  IdsInv'
<1>1. CASE PlanNext
  BY <1>1 DEF PlanNext, Create, Transition, DeletePlan, IdsInv
<1>2. CASE ReportNext
  <2>1. ASSUME NEW o \in Reports, NEW p \in Plans, NEW content \in Contents,
               NEW persist \in BOOLEAN, NEW after \in BOOLEAN,
               Report(o, p, content, persist, after) \/ ReportRefused(o, p, content, persist, after)
        PROVE  IdsInv'
    <3>1. /\ spent' = spent \cup {o} /\ adverse' \subseteq adverse \cup {p}
          /\ orphaned' = orphaned
      BY <2>1 DEF Report, ReportRefused
    <3> QED
      BY <3>1 DEF IdsInv
  <2>2. ASSUME NEW o \in Reports, NEW owner \in Owners, NEW content \in Contents,
               NEW persist \in BOOLEAN, ReportAlone(o, owner, content, persist)
        PROVE  IdsInv'
    BY <2>2 DEF ReportAlone, IdsInv
  <2>3. ASSUME NEW o \in Reports, NEW p \in Plans, NEW content \in Contents,
               CrashInReport(o, p, content)
        PROVE  IdsInv'
    BY <2>3 DEF CrashInReport, IdsInv
  <2>4. ASSUME NEW o \in Reports, ReportLost(o) PROVE IdsInv'
    BY <2>4 DEF ReportLost, IdsInv
  <2> QED
    BY <1>2, <2>1, <2>2, <2>3, <2>4 DEF ReportNext
<1>3. CASE RouteNext
  BY <1>3 DEF RouteNext, RouteBlocked, RouteBegin, RouteEnd, RouteFailed, RouteLost, IdsInv
<1>4. CASE Restart \/ UNCHANGED vars
  BY <1>4 DEF Restart, vars, IdsInv
<1> QED
  BY <1>1, <1>2, <1>3, <1>4 DEF Next

\* Documents, observations, routes and waiting requests have their types, and both
\* lists of what is in memory hold ids only.
THEOREM PlanTypes == Spec => []TypeOK
<1>1. Init => IdsInv
  BY DEF Init, IdsInv
<1>2. IdsInv /\ [Next]_vars => IdsInv'
  BY IdsStep
<1>3. Spec => []IdsInv
  BY <1>1, <1>2, PTL DEF Spec
<1>4. PlansInv /\ StoreInv /\ IdsInv => TypeOK
  BY DEF PlansInv, DataTypes, Call, StoreInv, OrderInv, KeptInv, IdsInv, TypeOK
<1> QED
  BY <1>3, <1>4, PlansInvariant, StoreInvariant, PTL

-------------------------------------------------------------------------------
(* The advice on equipment: what a plan costs *)

LEMMA AdviceCardinality ==
    ASSUME NEW S
    PROVE  Advice!Cardinality(S) = Cardinality(S)
BY DEF Advice!Cardinality, Cardinality

LEMMA AdviceTotal ==
    ASSUME NEW base, NEW amounts
    PROVE  Advice!Total(base, amounts) = Total(base, amounts)
BY DEF Advice!Total, Total

Priced(p) == IsFiniteSet(p) /\ \A c \in p : c.cost \in Nat

\* One order of a plan's changes has each of them.
LEMMA AdviceListing ==
    ASSUME NEW p, Priced(p)
    PROVE  \E n \in Nat :
             /\ Advice!SetToSeq(p) \in [1 .. n -> p]
             /\ \A c \in p : \E k \in 1 .. n : Advice!SetToSeq(p)[k] = c
<1> DEFINE n == Cardinality(p)
           listed == Advice!SetToSeq(p)
<1>1. n \in Nat /\ ExistsBijection(1 .. n, p) /\ IsFiniteSet(p)
  BY FS_CardinalityType DEF Priced
<1>2. \E f \in [1 .. n -> p] : Advice!IsInjective(f)
  BY <1>1 DEF ExistsBijection, Bijection, Injection, IsInjective, Advice!IsInjective
<1>3. listed \in [1 .. n -> p] /\ Advice!IsInjective(listed)
  BY <1>2, AdviceCardinality DEF Advice!SetToSeq
<1> HIDE DEF listed
<1>4. IsFiniteSet(1 .. n) /\ Cardinality(1 .. n) = n
  BY <1>1, FS_Interval
<1>5. listed \in Injection(1 .. n, p)
  BY <1>3 DEF Injection, IsInjective, Advice!IsInjective
<1>6. listed \in Surjection(1 .. n, p)
  BY <1>1, <1>4, <1>5, FS_Injection
<1> QED BY <1>1, <1>3, <1>6 DEF Surjection, listed

\* A plan costs as much as any of its changes, at the least.
LEMMA CostCovers ==
    ASSUME NEW p, Priced(p)
    PROVE  Advice!Cost(p) \in Nat /\ \A c \in p : c.cost <= Advice!Cost(p)
<1> DEFINE listed == Advice!SetToSeq(p)
           high == [i \in DOMAIN listed |-> listed[i].cost]
<1>1. PICK n \in Nat : /\ listed \in [1 .. n -> p]
                       /\ \A c \in p : \E k \in 1 .. n : listed[k] = c
  BY AdviceListing
<1>2. Advice!Cost(p) = Total(0, high)
  BY AdviceTotal DEF Advice!Cost
<1> HIDE DEF listed
<1>3. high \in [1 .. n -> Nat]
  BY <1>1 DEF Priced
<1>4. high \in Seq(Nat) /\ high \in Seq(Int) /\ Len(high) = n
  BY <1>3
<1>5. \A k \in 1 .. n : high[k] = listed[k].cost
  BY <1>1
<1> HIDE DEF high
<1>6. Total(0, high) \in Nat
  BY <1>4, TotalNat
<1>7. ASSUME NEW c \in p PROVE c.cost <= Total(0, high)
  <2>1. PICK k \in 1 .. n : listed[k] = c
    BY <1>1
  <2> DEFINE zero == [i \in 1 .. n |-> 0]
             low == [i \in 1 .. n |-> IF i = k THEN high[k] ELSE 0]
  <2>2. /\ zero \in Seq(Int) /\ low \in Seq(Int) /\ Len(zero) = n /\ Len(low) = n
        /\ \A i \in 1 .. n : zero[i] = 0 /\ low[i] = IF i = k THEN high[k] ELSE 0
    <3>1. zero \in [1 .. n -> Int] /\ low \in [1 .. n -> Int]
      BY <1>3
    <3> QED BY <3>1
  <2> HIDE DEF zero, low
  <2>3. Total(0, zero) = 0
    BY <2>2, TotalZero
  <2>4. Total(0, low) = Total(0, zero) - zero[k] + low[k]
    BY <2>2, TotalUpdate
  <2>5. Total(0, low) = c.cost
    BY <1>3, <1>5, <2>1, <2>2, <2>3, <2>4
  <2>6. \A i \in 1 .. Len(low) : low[i] <= high[i]
    BY <1>3, <2>2
  <2>7. Total(0, low) <= Total(0, high)
    BY <1>4, <2>2, <2>6, TotalMono
  <2> QED BY <2>5, <2>7
<1> QED BY <1>2, <1>6, <1>7

LEMMA NothingIsFree ==
    Advice!Cost({}) = 0
<1> DEFINE listed == Advice!SetToSeq({})
           high == [i \in DOMAIN listed |-> listed[i].cost]
<1>1. Priced({})
  BY FS_EmptySet DEF Priced
<1>2. PICK n \in Nat : listed \in [1 .. n -> {}]
  BY <1>1, AdviceListing
<1>3. Advice!Cost({}) = Total(0, high)
  BY AdviceTotal DEF Advice!Cost
<1> HIDE DEF listed
<1>4. n = 0
  BY <1>2
<1>5. high = << >>
  BY <1>2, <1>4
<1> QED BY <1>3, <1>5, TotalEmpty

-------------------------------------------------------------------------------
(* The advice on equipment: the plans sent are the outfits *)

Request == advice.request
Adviced == [request : Advices, market : Markets, worn : Worn, verdict : Verdicts \cup {None}]
Offers == UNION Advice!ToSet(offered)
Worth(r) == IF r = None THEN 0 ELSE advice.market[r].price

\* What is offered is one of the listings asked for, with a price.
OffersSound ==
    /\ advice \in Adviced
    /\ \A o \in Offers :
         /\ o.ref \in Request.refs /\ advice.market[o.ref].price # None
         /\ o.slots \subseteq UNION {Request.entries[k].slots : k \in DOMAIN Request.entries}

Fitting(r, s) == \E o \in Offers : o.ref = r /\ s \in o.slots
Change(s, r) == [slot |-> s, ref |-> r, cost |-> Worth(r)]
Wears(s, r) == IF r = None THEN s \in advice.worn \cap Request.unequip ELSE Fitting(r, s)
OutfitSlots == advice.worn \cup (UNION {o.slots : o \in Offers})
Changes(f) == {Change(s, f[s]) : s \in DOMAIN f}

LEMMA RequestIs ==
    ASSUME advice \in Adviced
    PROVE  /\ Request \in Advices /\ advice.market \in Markets /\ advice.worn \in Worn
           /\ Len(Request.entries) \in Nat
           /\ DOMAIN Request.entries = 1 .. Len(Request.entries)
           /\ IsFiniteSet(UNION {Request.entries[k].slots : k \in DOMAIN Request.entries})
           /\ IsFiniteSet(Request.refs) /\ None \notin Request.refs
           /\ Request.spend \in Nat /\ Request.max_changes \in Nat
           /\ \A r \in Request.refs : advice.market[r].price \in Nat \cup {None}
           /\ IsFiniteSet(advice.worn)
<1>1. Request \in Advices /\ advice.market \in Markets /\ advice.worn \in Worn
  BY DEF Adviced, Request
<1> QED BY <1>1, AdviceAssumption

LEMMA OutfitSlotsFinite ==
    ASSUME OffersSound
    PROVE  IsFiniteSet(OutfitSlots)
<1> DEFINE named == UNION {Request.entries[k].slots : k \in DOMAIN Request.entries}
           fitted == UNION {o.slots : o \in Offers}
<1>1. IsFiniteSet(named) /\ IsFiniteSet(advice.worn)
  BY RequestIs DEF OffersSound
<1>2. fitted \subseteq named
  BY DEF OffersSound
<1> HIDE DEF named
<1>3. IsFiniteSet(fitted)
  BY <1>1, <1>2, FS_Subset
<1> HIDE DEF fitted
<1>4. IsFiniteSet(advice.worn \cup fitted)
  BY <1>1, <1>3, FS_Union
<1> QED BY <1>4 DEF OutfitSlots, fitted

\* The outfits, in the words of this module.
Wearable(f) ==
    /\ Cardinality(DOMAIN f) <= Request.max_changes
    /\ \A s \in DOMAIN f : Wears(s, f[s])
    /\ \A s, t \in DOMAIN f : f[s] = f[t] /\ f[s] # None => s = t
    /\ Advice!Cost(Changes(f)) <= Request.spend
Dressed == UNION {[S -> Request.refs \cup {None}] : S \in SUBSET OutfitSlots}

LEMMA OutfitsAre ==
    Advice!Outfits = {Changes(f) : f \in {g \in Dressed : Wearable(g)}}
BY AdviceCardinality DEF Advice!Outfits, Wearable, Dressed, Changes, Change, Worth, Wears, Fitting,
   OutfitSlots, Offers, Request

LEMMA WorthIs ==
    ASSUME OffersSound, NEW s, NEW r, Wears(s, r)
    PROVE  Worth(r) \in Nat
<1>1. CASE r = None
  BY <1>1 DEF Worth
<1>2. CASE r # None
  <2>1. PICK o \in Offers : o.ref = r
    BY <1>2 DEF Wears, Fitting
  <2>2. r \in Request.refs /\ advice.market[r].price # None
    BY <2>1 DEF OffersSound
  <2>3. advice.market[r].price \in Nat
    BY <2>2, RequestIs DEF OffersSound
  <2> QED BY <1>2, <2>3 DEF Worth
<1> QED BY <1>1, <1>2

\* What a function from slots to references changes.
LEMMA ChangesAre ==
    ASSUME OffersSound, NEW f \in Dressed, \A s \in DOMAIN f : Wears(s, f[s])
    PROVE  /\ IsFiniteSet(DOMAIN f) /\ DOMAIN f \subseteq OutfitSlots
           /\ Priced(Changes(f))
           /\ {c.slot : c \in Changes(f)} = DOMAIN f
<1>1. DOMAIN f \subseteq OutfitSlots
  BY DEF Dressed
<1>2. IsFiniteSet(DOMAIN f)
  BY <1>1, OutfitSlotsFinite, FS_Subset
<1> DEFINE g == [s \in DOMAIN f |-> Change(s, f[s])]
<1>3. g \in Surjection(DOMAIN f, Changes(f))
  BY DEF Surjection, Changes
<1>4. IsFiniteSet(Changes(f))
  BY <1>2, <1>3, FS_Surjection
<1>5. \A c \in Changes(f) : c.cost \in Nat
  BY WorthIs DEF Changes, Change
<1>6. {c.slot : c \in Changes(f)} = DOMAIN f
  <2>1. ASSUME NEW s \in DOMAIN f PROVE s \in {c.slot : c \in Changes(f)}
    <3>1. Change(s, f[s]) \in Changes(f) /\ Change(s, f[s]).slot = s
      BY DEF Changes, Change
    <3> QED BY <3>1
  <2>2. ASSUME NEW c \in Changes(f) PROVE c.slot \in DOMAIN f
    <3>1. PICK s \in DOMAIN f : c = Change(s, f[s])
      BY DEF Changes
    <3> QED BY <3>1 DEF Change
  <2> QED BY <2>1, <2>2
<1> QED BY <1>1, <1>2, <1>4, <1>5, <1>6 DEF Priced

\* What is enumerated, in the words of this module.
Dear == {o \in Offers : advice.market[o.ref].price > Request.spend}
Options == Advice!Purchases(Offers \ Dear) \cup Advice!Removals(Request, advice.worn)
Found == {p \in Advice!Combinations(Options) : Advice!DistinctRefs(p) /\ Advice!Cost(p) <= Request.spend}

LEMMA OptionsAre ==
    ASSUME OffersSound
    PROVE  /\ \A c \in Options : /\ Wears(c.slot, c.ref) /\ c = Change(c.slot, c.ref)
                                 /\ c.ref \in Request.refs \cup {None}
           /\ \A s, r : Wears(s, r) /\ Worth(r) <= Request.spend => Change(s, r) \in Options
<1>1. Request.spend \in Nat /\ None \notin Request.refs
  BY RequestIs DEF OffersSound
<1>2. ASSUME NEW c \in Options
      PROVE  /\ Wears(c.slot, c.ref) /\ c = Change(c.slot, c.ref) /\ c.ref \in Request.refs \cup {None}
  <2>1. CASE c \in Advice!Removals(Request, advice.worn)
    <3>1. PICK s \in advice.worn \cap Request.unequip : c = [slot |-> s, ref |-> None, cost |-> 0]
      BY <2>1 DEF Advice!Removals
    <3>2. c.slot = s /\ c.ref = None
      BY <3>1
    <3> QED BY <3>1, <3>2 DEF Wears, Change, Worth
  <2>2. CASE c \in Advice!Purchases(Offers \ Dear)
    <3>1. PICK o \in Offers : \E s \in o.slots :
            c = [slot |-> s, ref |-> o.ref, cost |-> advice.market[o.ref].price]
      BY <2>2 DEF Advice!Purchases
    <3>2. PICK s \in o.slots :
            c = [slot |-> s, ref |-> o.ref, cost |-> advice.market[o.ref].price]
      BY <3>1
    <3>3. o.ref \in Request.refs /\ o.ref # None
      BY <1>1 DEF OffersSound
    <3>4. c.slot = s /\ c.ref = o.ref
      BY <3>2
    <3> QED BY <3>2, <3>3, <3>4 DEF Wears, Fitting, Change, Worth
  <2> QED BY <2>1, <2>2 DEF Options
<1>3. ASSUME NEW s, NEW r, Wears(s, r), Worth(r) <= Request.spend
      PROVE  Change(s, r) \in Options
  <2>1. CASE r = None
    <3>1. Change(s, r) \in Advice!Removals(Request, advice.worn)
      BY <1>3, <2>1 DEF Wears, Change, Worth, Advice!Removals
    <3> QED BY <3>1 DEF Options
  <2>2. CASE r # None
    <3>1. PICK o \in Offers : o.ref = r /\ s \in o.slots
      BY <1>3, <2>2 DEF Wears, Fitting
    <3>2. Worth(r) = advice.market[r].price /\ Worth(r) \in Nat
      BY <1>3, <2>2, WorthIs DEF Worth
    <3>3. o \notin Dear
      BY <1>1, <1>3, <3>1, <3>2 DEF Dear
    <3>4. Change(s, r) \in Advice!Purchases(Offers \ Dear)
      BY <3>1, <3>2, <3>3 DEF Change, Advice!Purchases
    <3> QED BY <3>4 DEF Options
  <2> QED BY <2>1, <2>2
<1> QED BY <1>2, <1>3

\* A combination changes some slots, each of them once.
LEMMA CombinationsAre ==
    ASSUME NEW p
    PROVE  p \in Advice!Combinations(Options) <=>
             /\ p \subseteq Options /\ Advice!OnePerSlot(p)
             /\ Cardinality({c.slot : c \in p}) \in 1 .. Request.max_changes
<1> DEFINE slots == {c.slot : c \in p}
           all == {o.slot : o \in Options}
<1>1. p \subseteq Options => slots \subseteq all
  OBVIOUS
<1> DEFINE choices(S) == {q \in SUBSET Options : {c.slot : c \in q} = S /\ Advice!OnePerSlot(q)}
           sizes == {T \in SUBSET all : Advice!Cardinality(T) \in 1 .. Request.max_changes}
<1>2. Advice!Combinations(Options) = UNION {choices(S) : S \in sizes}
  BY DEF Advice!Combinations, Request
<1>3. p \in Advice!Combinations(Options) <=> \E S \in sizes : p \in choices(S)
  <2> HIDE DEF choices, sizes
  <2> QED BY <1>2
<1>4. \A S : p \in choices(S) <=> p \subseteq Options /\ slots = S /\ Advice!OnePerSlot(p)
  OBVIOUS
<1>5. slots \in sizes <=> slots \subseteq all /\ Cardinality(slots) \in 1 .. Request.max_changes
  BY AdviceCardinality
<1> HIDE DEF choices, sizes, slots, all
<1>6. p \in Advice!Combinations(Options) <=>
        p \subseteq Options /\ Advice!OnePerSlot(p) /\ slots \in sizes
  BY <1>3, <1>4
<1> QED BY <1>1, <1>5, <1>6 DEF slots

\* Every plan that is enumerated is an outfit.
LEMMA FoundIsWorn ==
    ASSUME OffersSound, NEW p \in Found
    PROVE  p \in Advice!Outfits
<1> DEFINE S == {c.slot : c \in p}
           f == [s \in S |-> (CHOOSE c \in p : c.slot = s).ref]
<1>1. /\ p \subseteq Options /\ Advice!OnePerSlot(p) /\ Cardinality(S) <= Request.max_changes
      /\ Advice!DistinctRefs(p) /\ Advice!Cost(p) <= Request.spend
  <2>1. Cardinality(S) \in 1 .. Request.max_changes
    BY CombinationsAre DEF Found
  <2> HIDE DEF S
  <2>2. Cardinality(S) <= Request.max_changes
    BY <2>1
  <2> QED BY <2>2, CombinationsAre DEF Found
<1>2. ASSUME NEW c \in p
      PROVE  /\ c.slot \in S /\ f[c.slot] = c.ref /\ c = Change(c.slot, f[c.slot])
             /\ Wears(c.slot, c.ref) /\ c.ref \in Request.refs \cup {None}
  <2>1. (CHOOSE d \in p : d.slot = c.slot) = c
    BY <1>1 DEF Advice!OnePerSlot
  <2>2. f[c.slot] = c.ref
    BY <2>1
  <2> HIDE DEF f
  <2> QED BY <1>1, <2>2, OptionsAre
<1>3. ASSUME NEW s \in S PROVE \E c \in p : c.slot = s /\ f[s] = c.ref
  BY <1>2
<1>4. DOMAIN f = S
  OBVIOUS
<1> HIDE DEF f
<1>5. Changes(f) = p
  <2>1. ASSUME NEW c \in p PROVE c \in Changes(f)
    BY <1>2, <1>4 DEF Changes
  <2>2. ASSUME NEW c \in Changes(f) PROVE c \in p
    <3>1. PICK s \in S : c = Change(s, f[s])
      BY <1>4 DEF Changes
    <3>2. PICK d \in p : d.slot = s
      BY <1>3
    <3>3. d = Change(s, f[s])
      BY <1>2, <3>2
    <3> QED BY <3>1, <3>3
  <2> QED BY <2>1, <2>2
<1>6. \A s \in S : Wears(s, f[s]) /\ f[s] \in Request.refs \cup {None}
  BY <1>2, <1>3
<1>7. \A s \in S : s \in OutfitSlots
  BY <1>6 DEF Wears, Fitting, OutfitSlots
<1>8. f \in Dressed
  <2>1. f \in [S -> Request.refs \cup {None}]
    <3>1. f = [s \in S |-> f[s]]
      BY DEF f
    <3> QED BY <1>4, <1>6, <3>1
  <2> HIDE DEF S
  <2> QED BY <1>7, <2>1 DEF Dressed
<1>9. ASSUME NEW s \in S, NEW t \in S, f[s] = f[t], f[s] # None PROVE s = t
  <2>1. PICK c \in p : c.slot = s /\ f[s] = c.ref
    BY <1>3
  <2>2. PICK d \in p : d.slot = t /\ f[t] = d.ref
    BY <1>3
  <2>3. c = d
    BY <1>1, <1>9, <2>1, <2>2 DEF Advice!DistinctRefs
  <2> QED BY <2>1, <2>2, <2>3
<1> HIDE DEF S
<1>10. Wearable(f)
  BY <1>1, <1>4, <1>5, <1>6, <1>9 DEF Wearable
<1> QED BY <1>5, <1>8, <1>10, OutfitsAre

\* Every outfit is enumerated, or changes nothing: a listing that is too dear alone
\* is too dear with others.
LEMMA WornIsFound ==
    ASSUME OffersSound, NEW p \in Advice!Outfits
    PROVE  p \in Found \cup {{}}
<1>1. PICK f \in Dressed : Wearable(f) /\ p = Changes(f)
  BY OutfitsAre
<1>2. /\ Cardinality(DOMAIN f) <= Request.max_changes
      /\ \A s \in DOMAIN f : Wears(s, f[s])
      /\ \A s, t \in DOMAIN f : f[s] = f[t] /\ f[s] # None => s = t
      /\ Advice!Cost(p) <= Request.spend
  BY <1>1 DEF Wearable
<1>3. IsFiniteSet(DOMAIN f) /\ Priced(p) /\ {c.slot : c \in p} = DOMAIN f
  BY <1>1, <1>2, ChangesAre
<1>4. Advice!Cost(p) \in Nat /\ \A c \in p : c.cost \in Nat /\ c.cost <= Advice!Cost(p)
  BY <1>3, CostCovers DEF Priced
<1>5. Request.spend \in Nat /\ Request.max_changes \in Nat
  BY RequestIs DEF OffersSound
<1>6. ASSUME NEW c \in p
      PROVE  \E s \in DOMAIN f : c = Change(s, f[s]) /\ c.slot = s /\ c.ref = f[s] /\ c \in Options
  <2>1. PICK s \in DOMAIN f : c = Change(s, f[s])
    BY <1>1 DEF Changes
  <2>2. c.slot = s /\ c.ref = f[s] /\ c.cost = Worth(f[s])
    BY <2>1 DEF Change
  <2>3. c.cost \in Nat /\ c.cost <= Advice!Cost(p)
    BY <1>4
  <2>4. Worth(f[s]) <= Request.spend
    BY <1>2, <1>4, <1>5, <2>2, <2>3
  <2> QED BY <1>2, <2>1, <2>2, <2>4, OptionsAre
<1>7. CASE p = {}
  BY <1>7
<1>8. CASE p # {}
  <2>1. Cardinality(DOMAIN f) \in Nat /\ Cardinality(DOMAIN f) # 0
    <3>1. DOMAIN f # {}
      BY <1>6, <1>8
    <3> QED BY <1>3, <3>1, FS_CardinalityType, FS_EmptySet
  <2>2. Cardinality({c.slot : c \in p}) \in 1 .. Request.max_changes
    BY <1>2, <1>3, <1>5, <2>1
  <2>3. p \subseteq Options
    BY <1>6
  <2>4. Advice!OnePerSlot(p)
    BY <1>6 DEF Advice!OnePerSlot
  <2>5. Advice!DistinctRefs(p)
    BY <1>2, <1>6 DEF Advice!DistinctRefs
  <2>6. p \in Advice!Combinations(Options)
    BY <2>2, <2>3, <2>4, CombinationsAre
  <2> QED BY <1>2, <2>5, <2>6 DEF Found
<1> QED BY <1>7, <1>8

LEMMA PlansAreOutfits ==
    ASSUME OffersSound
    PROVE  /\ Found \cup {{}} = Advice!Outfits
           /\ \A p \in Advice!Outfits : \A c \in p : c.cost \in Nat
<1>1. {} \in Advice!Outfits
  <2> DEFINE f == [s \in {} |-> None]
  <2>1. f \in Dressed /\ DOMAIN f = {} /\ Changes(f) = {}
    BY DEF Dressed, Changes
  <2> HIDE DEF f
  <2>2. Cardinality(DOMAIN f) = 0 /\ Request.max_changes \in Nat /\ Request.spend \in Nat
    BY <2>1, FS_EmptySet, RequestIs DEF OffersSound
  <2>3. Wearable(f)
    BY <2>1, <2>2, NothingIsFree DEF Wearable
  <2> QED BY <2>1, <2>3, OutfitsAre
<1>2. ASSUME NEW p \in Advice!Outfits PROVE \A c \in p : c.cost \in Nat
  <2>1. PICK f \in Dressed : Wearable(f) /\ p = Changes(f)
    BY OutfitsAre
  <2>2. \A s \in DOMAIN f : Wears(s, f[s])
    BY <2>1 DEF Wearable
  <2> QED BY <2>1, <2>2, ChangesAre DEF Priced
<1> QED BY <1>1, <1>2, FoundIsWorn, WornIsFound

-------------------------------------------------------------------------------
(* The advice on equipment: from the searches to the answer *)

Out(r) == r \in DOMAIN excluded /\ excluded[r] # "over_budget"
Offer == [ref : Request.refs, slots : SUBSET UNION {Request.entries[k].slots : k \in DOMAIN Request.entries}]

\* A search that was fetched has offered or excluded each of its listings.
Settled(k) ==
    /\ \A o \in offered[k] : o.ref \in Advice!Matched(k) /\ advice.market[o.ref].price # None
    /\ \A r \in Advice!Matched(k) : Out(r) <=> ~\E o \in offered[k] : o.ref = r

FetchInv ==
    /\ reached \in Nat /\ offered \in Seq(SUBSET Offer) /\ Len(offered) = reached
    /\ stage # "new" => reached <= Len(Request.entries)
    /\ stage \in {"rates", "second", "answered"} => reached = Len(Request.entries)
    /\ \A k \in 1 .. reached : Settled(k)
    /\ \A r \in DOMAIN excluded :
         excluded[r] \in Advice!Reasons /\ \E k \in 1 .. reached : r \in Advice!Matched(k)
    /\ stage \in {"new", "initial", "fetching", "rates"} =>
         \A r \in DOMAIN excluded : excluded[r] # "over_budget"

AdviceInv ==
    /\ stage \in Advice!Ended \cup {"new", "initial", "fetching", "rates", "second"}
    /\ epoch \in 0 .. MaxAdviceTime
    /\ stage = "new" => reached = 0 /\ offered = << >> /\ excluded = << >>
    /\ stage # "new" => advice \in Adviced
    /\ stage \notin {"new", "engine_unknown_candidate"} => Request.refs \subseteq Advice!Ids(Request)
    /\ FetchInv
    /\ stage \in {"new", "initial", "fetching", "rates", "engine_unknown_candidate"} => plans = {}
    /\ plans \in {{}, Advice!Outfits}
    /\ stage \in {"second", "answered"} => plans = Advice!Outfits
    /\ Advice!AdviceIsBest

\* The first of the tests that applies is the reason, and all are reasons of a search.
LEMMA ReasonIs ==
    ASSUME NEW l, NEW slots
    PROVE  \/ Advice!Reason(l, slots) = None /\ l.price # None
           \/ /\ Advice!Reason(l, slots) # None
              /\ Advice!Reason(l, slots) \in Advice!Reasons \ {"over_budget"}
<1> DEFINE hit == {k \in 1 .. 6 : Advice!Tests(l, slots)[k]}
           first == CHOOSE k \in hit : \A j \in hit : k <= j
<1>1. CASE hit = {}
  <2>1. ~Advice!Tests(l, slots)[4]
    BY <1>1
  <2>2. Advice!Tests(l, slots)[4] = (l.price = None)
    BY DEF Advice!Tests
  <2> QED BY <1>1, <2>1, <2>2 DEF Advice!Reason
<1>2. CASE hit # {}
  <2>1. hit \in SUBSET Nat /\ hit \subseteq 1 .. 6
    OBVIOUS
  <2> HIDE DEF hit
  <2>2. first \in 1 .. 6
    BY <1>2, <2>1, LeastNatural
  <2>3. Advice!Reason(l, slots) = Advice!Grounds[first]
    BY <1>2 DEF Advice!Reason, hit
  <2> HIDE DEF first
  <2>4. Advice!Grounds[first] \in Advice!Reasons \ {"over_budget"}
    BY <2>2 DEF Advice!Grounds, Advice!Reasons
  <2>5. None \notin Advice!Reasons
    BY AdviceAssumption
  <2> QED BY <2>3, <2>4, <2>5
<1> QED BY <1>1, <1>2

\* No two searches are asked for one listing, and one of them is for each.
LEMMA MatchedOnce ==
    ASSUME advice \in Adviced
    PROVE  /\ \A j, k \in Nat \ {0} : \A r : r \in Advice!Matched(j) /\ r \in Advice!Matched(k) => j = k
           /\ Request.refs \subseteq Advice!Ids(Request) =>
                \A r \in Request.refs : \E k \in 1 .. Len(Request.entries) : r \in Advice!Matched(k)
           /\ \A k : Advice!Matched(k) \subseteq Request.refs
<1>1. ASSUME NEW j \in Nat \ {0}, NEW k \in Nat \ {0}, NEW r, r \in Advice!Matched(j), j < k
      PROVE  r \notin Advice!Matched(k)
  <2>1. r \in Advice!ToSet(Request.entries[j].ids) /\ j \in 1 .. k - 1
    BY <1>1 DEF Advice!Matched, Request
  <2> QED BY <2>1 DEF Advice!Matched, Request
<1>2. ASSUME Request.refs \subseteq Advice!Ids(Request), NEW r \in Request.refs
      PROVE  \E k \in 1 .. Len(Request.entries) : r \in Advice!Matched(k)
  <2> DEFINE len == Len(Request.entries)
             T == {k \in 1 .. len : r \in Advice!ToSet(Request.entries[k].ids)}
  <2>1. len \in Nat /\ DOMAIN Request.entries = 1 .. len
    BY RequestIs
  <2>2. T # {} /\ T \in SUBSET Nat
    BY <1>2, <2>1 DEF Advice!Ids
  <2> HIDE DEF len
  <2>3. PICK k \in T : \A j \in T : k <= j
    BY <2>2, LeastNatural
  <2>4. \A j \in 1 .. k - 1 : j \notin T
    BY <2>1, <2>3
  <2>5. \A j \in 1 .. k - 1 : r \notin Advice!ToSet(Request.entries[j].ids)
    BY <2>1, <2>3, <2>4
  <2>6. r \in Advice!Matched(k)
    BY <2>3, <2>5 DEF Advice!Matched, Request
  <2> QED BY <2>3, <2>6 DEF len
<1>3. \A j, k \in Nat \ {0} : \A r : r \in Advice!Matched(j) /\ r \in Advice!Matched(k) => j = k
  BY <1>1
<1>4. \A k : Advice!Matched(k) \subseteq Request.refs
  BY DEF Advice!Matched, Request
<1> QED BY <1>2, <1>3, <1>4

\* What is offered is sound, when the searches are settled.
LEMMA OffersAreSound ==
    ASSUME FetchInv, advice \in Adviced
    PROVE  OffersSound
<1>1. offered \in Seq(SUBSET Offer) /\ DOMAIN offered = 1 .. reached
  BY DEF FetchInv
<1>2. ASSUME NEW o \in Offers
      PROVE  o \in Offer /\ advice.market[o.ref].price # None
  <2>1. PICK k \in 1 .. reached : o \in offered[k]
    BY <1>1, <1>2 DEF Offers, Advice!ToSet
  <2>2. Settled(k) /\ offered[k] \subseteq Offer
    BY <1>1, <2>1 DEF FetchInv
  <2> QED BY <2>1, <2>2 DEF Settled
<1> QED BY <1>2 DEF OffersSound, Offer

\* The request, the market and the worn slots stay.
SameAdvice ==
    advice'.request = advice.request /\ advice'.market = advice.market /\ advice'.worn = advice.worn

LEMMA AdviceFrame ==
    ASSUME SameAdvice
    PROVE  /\ Request' = Request /\ Offer' = Offer
           /\ \A k : Advice!Matched(k)' = Advice!Matched(k)
           /\ Advice!Ids(Request)' = Advice!Ids(Request)
           /\ offered' = offered => Advice!Outfits' = Advice!Outfits
<1>1. Request' = Request
  BY DEF SameAdvice, Request
<1>2. Offer' = Offer
  BY <1>1 DEF Offer
<1>3. \A k : Advice!Matched(k)' = Advice!Matched(k)
  BY DEF Advice!Matched, SameAdvice
<1>4. Advice!Ids(Request)' = Advice!Ids(Request)
  BY <1>1 DEF Advice!Ids
<1>5. offered' = offered => Advice!Outfits' = Advice!Outfits
  BY DEF SameAdvice, Advice!Outfits
<1> QED BY <1>1, <1>2, <1>3, <1>4, <1>5

\* Nothing is fetched and nothing is excluded.
LEMMA FetchSame ==
    ASSUME FetchInv, SameAdvice, UNCHANGED <<reached, offered, excluded>>,
           stage' # "new" => stage # "new",
           stage' \in {"rates", "second", "answered"} => stage \in {"rates", "second", "answered"},
           stage' \in {"new", "initial", "fetching", "rates"} =>
             stage \in {"new", "initial", "fetching", "rates"}
    PROVE  FetchInv'
<1>1. Request' = Request /\ Offer' = Offer /\ \A k : Advice!Matched(k)' = Advice!Matched(k)
  BY AdviceFrame
<1>2. \A r : Out(r)' = Out(r)
  BY DEF Out
<1>3. \A k : Settled(k)' = Settled(k)
  BY <1>1, <1>2 DEF Settled, SameAdvice
<1> QED BY <1>1, <1>3 DEF FetchInv

LEMMA AskedStep ==
    ASSUME AdviceInv, NEW request \in Advices, NEW market \in Markets, NEW worn \in Worn,
           Advice!Asked(request, market, worn)
    PROVE  AdviceInv'
<1>1. /\ stage = "new" /\ reached = 0 /\ offered = << >> /\ excluded = << >> /\ plans = {}
      /\ UNCHANGED <<reached, offered, excluded, plans, chosen, epoch>>
      /\ stage' = IF request.refs \subseteq Advice!Ids(request) THEN "initial"
                  ELSE "engine_unknown_candidate"
      /\ advice' = [request |-> request, market |-> market, worn |-> worn, verdict |-> None]
  BY DEF AdviceInv, Advice!Asked
<1>2. advice' \in Adviced /\ Request' = request
  BY <1>1 DEF Adviced, Request
<1>3. stage' = "initial" => Request'.refs \subseteq Advice!Ids(request)
  BY <1>1, <1>2
<1>4. Advice!Ids(Request)' = Advice!Ids(request)
  BY <1>2 DEF Advice!Ids
<1>5. Len(request.entries) \in Nat
  BY AdviceAssumption
<1>6. FetchInv'
  <2>1. /\ reached' = 0 /\ offered' = << >> /\ excluded' = << >> /\ stage' \notin {"rates", "second", "answered"}
    BY <1>1
  <2>2. reached' <= Len(Request'.entries)
    BY <1>2, <1>5, <2>1
  <2>3. offered' \in Seq(SUBSET Offer') /\ Len(offered') = 0
    BY <2>1
  <2>4. DOMAIN excluded' = {} /\ 1 .. reached' = {}
    BY <2>1
  <2> QED BY <2>1, <2>2, <2>3, <2>4 DEF FetchInv
<1>7. Advice!AdviceIsBest'
  BY <1>1 DEF Advice!AdviceIsBest
<1> QED BY <1>1, <1>2, <1>3, <1>4, <1>6, <1>7 DEF AdviceInv, Advice!Ended

\* The call goes on to the next stage, or fails, or time passes.
LEMMA AdviceQuietStep ==
    ASSUME AdviceInv, Advice!Initial \/ Advice!Fail \/ Advice!AdviceTick
    PROVE  AdviceInv'
<1>1. /\ UNCHANGED <<advice, reached, offered, excluded, plans, chosen>>
      /\ epoch' \in 0 .. MaxAdviceTime
      /\ \/ stage' = stage
         \/ stage' = "failed"
         \/ stage = "initial" /\ stage' = "fetching"
      /\ stage \notin {"new", "engine_unknown_candidate"} \/ stage' = stage
      /\ stage' # "answered"
  <2>1. MaxAdviceTime \in Nat /\ epoch \in 0 .. MaxAdviceTime
    BY AdviceAssumption DEF AdviceInv
  <2>2. CASE Advice!Initial
    BY <2>1, <2>2 DEF Advice!Initial
  <2>3. CASE Advice!Fail
    BY <2>1, <2>3 DEF Advice!Fail
  <2>4. CASE Advice!AdviceTick
    BY <2>1, <2>4 DEF Advice!AdviceTick, Advice!Ended
  <2> QED BY <2>2, <2>3, <2>4
<1>2. SameAdvice
  BY <1>1 DEF SameAdvice
<1>3. FetchInv'
  BY <1>1, <1>2, FetchSame DEF AdviceInv
<1>4. Advice!AdviceIsBest'
  BY <1>1 DEF Advice!AdviceIsBest
<1>5. Advice!Outfits' = Advice!Outfits /\ Advice!Ids(Request)' = Advice!Ids(Request) /\ Request' = Request
  BY <1>1, <1>2, AdviceFrame
<1>6. stage' \in Advice!Ended \cup {"new", "initial", "fetching", "rates", "second"}
  BY <1>1 DEF AdviceInv, Advice!Ended
<1>7. /\ stage' = "new" => stage = "new"
      /\ stage' \notin {"new", "engine_unknown_candidate"} =>
           stage \notin {"new", "engine_unknown_candidate"}
      /\ stage' # "new" => stage # "new"
      /\ stage' \in {"new", "initial", "fetching", "rates", "engine_unknown_candidate"} =>
           stage \in {"new", "initial", "fetching", "rates", "engine_unknown_candidate"}
      /\ stage' \in {"second", "answered"} => stage \in {"second", "answered"}
  BY <1>1
<1> QED BY <1>1, <1>3, <1>4, <1>5, <1>6, <1>7 DEF AdviceInv

\* One search more is settled: what it offers is usable, and what it excludes was
\* matched by no search before.
LEMMA FetchedStep ==
    ASSUME AdviceInv, Advice!Fetched
    PROVE  AdviceInv'
<1> DEFINE k == reached + 1
           slots == Request.entries[k].slots
           why(r) == Advice!Reason(advice.market[r], slots)
           out == {r \in Advice!Matched(k) : why(r) # None}
           new == {[ref |-> r, slots |-> slots] : r \in Advice!Matched(k) \ out}
<1>1. /\ stage = "fetching" /\ k \in DOMAIN Request.entries
      /\ reached' = k
      /\ excluded' = [r \in DOMAIN excluded \cup out |-> IF r \in out THEN why(r) ELSE excluded[r]]
      /\ offered' = Append(offered, new)
      /\ stage' = IF k = Len(Request.entries) THEN "rates" ELSE "fetching"
      /\ UNCHANGED <<advice, plans, chosen, epoch>>
  BY DEF Advice!Fetched, Request
<1>2. /\ advice \in Adviced /\ FetchInv /\ Request.refs \subseteq Advice!Ids(Request)
      /\ plans = {} /\ epoch \in 0 .. MaxAdviceTime
  BY <1>1 DEF AdviceInv
<1>3. /\ reached \in Nat /\ offered \in Seq(SUBSET Offer) /\ Len(offered) = reached
      /\ Len(Request.entries) \in Nat /\ k \in 1 .. Len(Request.entries)
  BY <1>1, <1>2, RequestIs DEF FetchInv
<1>4. SameAdvice
  BY <1>1 DEF SameAdvice
<1>5. /\ Request' = Request /\ Offer' = Offer /\ \A j : Advice!Matched(j)' = Advice!Matched(j)
      /\ Advice!Ids(Request)' = Advice!Ids(Request)
  BY <1>4, AdviceFrame
<1>6. Advice!Matched(k) \subseteq Request.refs
  BY <1>2, MatchedOnce
<1>7. new \in SUBSET Offer
  <2>1. slots \subseteq UNION {Request.entries[j].slots : j \in DOMAIN Request.entries}
    BY <1>1
  <2> HIDE DEF slots, out
  <2> QED BY <1>6, <2>1 DEF Offer
<1>8. \A r \in Advice!Matched(k) : r \notin DOMAIN excluded
  <2>1. ASSUME NEW r \in Advice!Matched(k), r \in DOMAIN excluded PROVE FALSE
    <3>1. PICK j \in 1 .. reached : r \in Advice!Matched(j)
      BY <1>2, <2>1 DEF FetchInv
    <3>2. j \in Nat \ {0} /\ k \in Nat \ {0} /\ j # k
      BY <1>3, <3>1
    <3> QED BY <1>2, <2>1, <3>1, <3>2, MatchedOnce
  <2> QED BY <2>1
<1>9. \A r \in out : why(r) \in Advice!Reasons \ {"over_budget"}
  BY ReasonIs
<1>10. \A r \in Advice!Matched(k) \ out : advice.market[r].price # None
  BY ReasonIs
<1>11. out \subseteq Advice!Matched(k) /\ DOMAIN excluded' = DOMAIN excluded \cup out
  BY <1>1
<1>12. \A r : r \in out => excluded'[r] = why(r)
  BY <1>1
<1>13. \A r : r \in DOMAIN excluded => excluded'[r] = excluded[r]
  BY <1>1, <1>8, <1>11
<1>14. \A o \in new : o.ref \in Advice!Matched(k) \ out
  OBVIOUS
<1>15. \A r \in Advice!Matched(k) \ out : \E o \in new : o.ref = r
  <2>1. ASSUME NEW r \in Advice!Matched(k) \ out PROVE \E o \in new : o.ref = r
    <3>1. [ref |-> r, slots |-> slots] \in new /\ [ref |-> r, slots |-> slots].ref = r
      OBVIOUS
    <3> QED BY <3>1
  <2> QED BY <2>1
<1> HIDE DEF out, new, why, slots
<1>16. /\ offered' \in Seq(SUBSET Offer) /\ Len(offered') = k
       /\ offered'[k] = new /\ \A j \in 1 .. reached : offered'[j] = offered[j]
  BY <1>1, <1>3, <1>7
<1>17. ASSUME NEW j \in 1 .. k PROVE Settled(j)'
  <2>1. CASE j = k
    <3>1. \A r \in Advice!Matched(k) : Out(r)' <=> r \in out
      BY <1>8, <1>9, <1>11, <1>12 DEF Out
    <3>2. \A r \in Advice!Matched(k) : r \in out <=> ~\E o \in new : o.ref = r
      BY <1>14, <1>15
    <3>3. \A r \in Advice!Matched(k) : Out(r)' <=> ~\E o \in new : o.ref = r
      BY <3>1, <3>2
    <3>4. \A o \in new : o.ref \in Advice!Matched(k) /\ advice.market[o.ref].price # None
      BY <1>10, <1>14
    <3> QED BY <1>1, <1>5, <1>16, <2>1, <3>3, <3>4 DEF Settled
  <2>2. CASE j # k
    <3>1. j \in 1 .. reached /\ Settled(j) /\ offered'[j] = offered[j]
      BY <1>2, <1>3, <1>16, <2>2 DEF FetchInv
    <3>2. \A r \in Advice!Matched(j) : r \notin out
      <4>1. j \in Nat \ {0} /\ k \in Nat \ {0}
        BY <1>3
      <4> QED BY <1>2, <1>11, <2>2, <4>1, MatchedOnce
    <3>3. \A r \in Advice!Matched(j) : Out(r)' <=> Out(r)
      BY <1>11, <1>13, <3>2 DEF Out
    <3> QED BY <1>1, <1>5, <3>1, <3>3 DEF Settled
  <2> QED BY <2>1, <2>2
<1>18. ASSUME NEW r \in DOMAIN excluded'
       PROVE  /\ excluded'[r] \in Advice!Reasons /\ excluded'[r] # "over_budget"
              /\ \E j \in 1 .. k : r \in Advice!Matched(j)
  <2>1. CASE r \in out
    <3>1. k \in 1 .. k /\ r \in Advice!Matched(k)
      BY <1>3, <1>11, <2>1
    <3> QED BY <1>9, <1>12, <2>1, <3>1
  <2>2. CASE r \in DOMAIN excluded
    <3>1. /\ excluded'[r] = excluded[r] /\ excluded[r] \in Advice!Reasons /\ excluded[r] # "over_budget"
          /\ \E j \in 1 .. reached : r \in Advice!Matched(j)
      BY <1>1, <1>2, <1>13, <2>2 DEF FetchInv
    <3>2. 1 .. reached \subseteq 1 .. k
      BY <1>3
    <3> QED BY <3>1, <3>2
  <2> QED BY <1>11, <1>18, <2>1, <2>2
<1>19. k \in Nat /\ k <= Len(Request.entries) /\ (stage' = "rates" => k = Len(Request.entries))
  BY <1>1, <1>3
<1>20. stage' \in {"rates", "fetching"}
  BY <1>1
<1> HIDE DEF k
<1>21. FetchInv'
  BY <1>1, <1>5, <1>16, <1>17, <1>18, <1>19, <1>20 DEF FetchInv
<1>22. Advice!AdviceIsBest'
  BY <1>20 DEF Advice!AdviceIsBest
<1> QED BY <1>1, <1>2, <1>5, <1>20, <1>21, <1>22 DEF AdviceInv

\* The plans that are sent are the outfits, and what is too dear alone is excluded.
LEMMA EnumeratedStep ==
    ASSUME AdviceInv, Advice!Enumerated
    PROVE  AdviceInv'
<1>1. /\ stage = "rates"
      /\ excluded' = [r \in DOMAIN excluded \cup {o.ref : o \in Dear} |->
                        IF r \in DOMAIN excluded THEN excluded[r] ELSE "over_budget"]
      /\ plans' = Found \cup {{}}
      /\ stage' \in {"engine_candidate_space_too_large", "second"}
      /\ UNCHANGED <<advice, reached, offered, chosen, epoch>>
  BY DEF Advice!Enumerated, Dear, Offers, Options, Found, Request
<1>2. advice \in Adviced /\ FetchInv /\ Request.refs \subseteq Advice!Ids(Request)
  BY <1>1 DEF AdviceInv
<1>3. OffersSound
  BY <1>2, OffersAreSound
<1>4. SameAdvice
  BY <1>1 DEF SameAdvice
<1>5. /\ Request' = Request /\ Offer' = Offer /\ \A j : Advice!Matched(j)' = Advice!Matched(j)
      /\ Advice!Ids(Request)' = Advice!Ids(Request) /\ Advice!Outfits' = Advice!Outfits
  BY <1>1, <1>4, AdviceFrame
<1>6. plans' = Advice!Outfits'
  BY <1>1, <1>3, <1>5, PlansAreOutfits
<1>7. /\ \A r \in DOMAIN excluded : r \in DOMAIN excluded' /\ excluded'[r] = excluded[r]
      /\ \A r \in DOMAIN excluded' : r \in DOMAIN excluded \/
           (excluded'[r] = "over_budget" /\ \E o \in Dear : o.ref = r)
  BY <1>1
<1>8. \A r : Out(r)' <=> Out(r)
  BY <1>7 DEF Out
<1>9. \A j : Settled(j) => Settled(j)'
  BY <1>1, <1>5, <1>8 DEF Settled
<1>10. ASSUME NEW o \in Dear PROVE \E k \in 1 .. reached : o.ref \in Advice!Matched(k)
  <2>1. DOMAIN offered = 1 .. reached
    BY <1>2 DEF FetchInv
  <2>2. PICK k \in 1 .. reached : o \in offered[k]
    BY <2>1 DEF Dear, Offers, Advice!ToSet
  <2>3. Settled(k)
    BY <1>2 DEF FetchInv
  <2> QED BY <2>2, <2>3 DEF Settled
<1>11. ASSUME NEW r \in DOMAIN excluded'
       PROVE  excluded'[r] \in Advice!Reasons /\ \E k \in 1 .. reached : r \in Advice!Matched(k)
  <2>1. CASE r \in DOMAIN excluded
    BY <1>2, <1>7, <2>1 DEF FetchInv
  <2>2. CASE r \notin DOMAIN excluded
    BY <1>7, <1>10, <1>11, <2>2 DEF Advice!Reasons
  <2> QED BY <2>1, <2>2
<1>12. FetchInv'
  <2>1. reached' = Len(Request.entries) /\ reached' <= Len(Request'.entries)
    BY <1>1, <1>2, <1>5 DEF FetchInv
  <2>2. \A j \in 1 .. reached' : Settled(j)'
    BY <1>1, <1>2, <1>9 DEF FetchInv
  <2>3. reached' \in Nat /\ offered' \in Seq(SUBSET Offer') /\ Len(offered') = reached'
    BY <1>1, <1>2, <1>5 DEF FetchInv
  <2>4. stage' \notin {"new", "initial", "fetching", "rates"}
    BY <1>1
  <2> QED BY <1>1, <1>5, <1>11, <2>1, <2>2, <2>3, <2>4 DEF FetchInv
<1>13. Advice!AdviceIsBest'
  BY <1>1 DEF Advice!AdviceIsBest
<1> QED BY <1>1, <1>2, <1>5, <1>6, <1>12, <1>13 DEF AdviceInv, Advice!Ended

\* The answer is a best one of the outfits, whatever the worker finds.
LEMMA JudgeStep ==
    ASSUME AdviceInv, NEW answer \in Verdicts, Advice!Judge(answer)
    PROVE  AdviceInv'
<1>1. /\ stage = "second" /\ advice' = [advice EXCEPT !.verdict = answer]
      /\ UNCHANGED <<reached, offered, excluded, plans, epoch>>
      /\ stage' \in {"engine_missing_metric", "answered"}
      /\ stage' = "answered" =>
           IF Advice!Eligible(answer) = {}
           THEN chosen' = [plan |-> {}, feasible |-> FALSE]
           ELSE \E p \in Advice!First(answer) : chosen' = [plan |-> p, feasible |-> TRUE]
  BY DEF Advice!Judge
<1>2. /\ advice \in Adviced /\ FetchInv /\ Request.refs \subseteq Advice!Ids(Request)
      /\ plans = Advice!Outfits
  BY <1>1 DEF AdviceInv
<1>3. SameAdvice /\ advice' \in Adviced /\ advice'.verdict = answer
  BY <1>1, <1>2 DEF SameAdvice, Adviced
<1>4. /\ Request' = Request /\ Advice!Ids(Request)' = Advice!Ids(Request)
      /\ Advice!Outfits' = Advice!Outfits
  BY <1>1, <1>3, AdviceFrame
<1>5. FetchInv'
  BY <1>1, <1>2, <1>3, FetchSame
<1>6. \A p : Advice!Status(answer, p)' = Advice!Status(answer, p)
  BY <1>3 DEF Advice!Status, Advice!Repair, SameAdvice
<1>7. \A p, q : Advice!Before(answer, p, q)' <=> Advice!Before(answer, p, q)
  BY <1>3 DEF Advice!Before, Advice!Gain, Advice!Repair, SameAdvice
<1>8. ASSUME stage' = "answered"
      PROVE  IF chosen'.feasible
             THEN /\ chosen'.plan \in Advice!Outfits
                  /\ Advice!Status(answer, chosen'.plan) = "eligible"
                  /\ \A p \in Advice!Outfits : Advice!Status(answer, p) = "eligible" =>
                       ~Advice!Before(answer, p, chosen'.plan)
             ELSE \A p \in Advice!Outfits : Advice!Status(answer, p) # "eligible"
  <2>1. \A p : p \in Advice!Eligible(answer) <=>
               p \in Advice!Outfits /\ Advice!Status(answer, p) = "eligible"
    BY <1>2 DEF Advice!Eligible
  <2>2. CASE Advice!Eligible(answer) = {}
    <3>1. ~chosen'.feasible
      BY <1>1, <1>8, <2>2
    <3> QED BY <2>1, <2>2, <3>1
  <2>3. CASE Advice!Eligible(answer) # {}
    <3>1. PICK p \in Advice!First(answer) : chosen' = [plan |-> p, feasible |-> TRUE]
      BY <1>1, <1>8, <2>3
    <3>2. p \in Advice!Eligible(answer) /\ \A q \in Advice!Eligible(answer) : ~Advice!Before(answer, q, p)
      BY DEF Advice!First
    <3>3. chosen'.feasible /\ chosen'.plan = p
      BY <3>1
    <3> QED BY <2>1, <3>2, <3>3
  <2> QED BY <2>2, <2>3
<1>9. Advice!AdviceIsBest'
  BY <1>3, <1>4, <1>6, <1>7, <1>8 DEF Advice!AdviceIsBest
<1> QED BY <1>1, <1>2, <1>3, <1>4, <1>5, <1>9 DEF AdviceInv, Advice!Ended

LEMMA AdviceStep ==
    ASSUME AdviceInv, [Advice!Next]_(Advice!adviceVars)
    PROVE  AdviceInv'
<1>1. CASE UNCHANGED Advice!adviceVars
  <2>1. /\ UNCHANGED <<advice, stage, reached, offered, excluded, plans, chosen, epoch>>
        /\ SameAdvice
    BY <1>1 DEF Advice!adviceVars, SameAdvice
  <2>2. FetchInv'
    BY <2>1, FetchSame DEF AdviceInv
  <2>3. /\ Request' = Request /\ Advice!Ids(Request)' = Advice!Ids(Request)
        /\ Advice!Outfits' = Advice!Outfits
    BY <2>1, AdviceFrame
  <2>4. Advice!AdviceIsBest'
    <3>1. \A v, p : Advice!Status(v, p)' = Advice!Status(v, p)
      BY <2>1 DEF Advice!Status, Advice!Repair
    <3>2. \A v, p, q : Advice!Before(v, p, q)' <=> Advice!Before(v, p, q)
      BY <2>1 DEF Advice!Before, Advice!Gain, Advice!Repair
    <3>3. Advice!AdviceIsBest
      BY DEF AdviceInv
    <3> QED BY <2>1, <2>3, <3>1, <3>2, <3>3 DEF Advice!AdviceIsBest
  <2> QED BY <2>1, <2>2, <2>3, <2>4 DEF AdviceInv
<1>2. CASE Advice!Next
  BY <1>2, AskedStep, AdviceQuietStep, FetchedStep, EnumeratedStep, JudgeStep DEF Advice!Next
<1> QED BY <1>1, <1>2

LEMMA AdviceInit ==
    ASSUME Advice!Init
    PROVE  AdviceInv
<1>1. /\ stage = "new" /\ reached = 0 /\ offered = << >> /\ excluded = << >> /\ plans = {}
      /\ epoch = 0
  BY DEF Advice!Init
<1>2. epoch \in 0 .. MaxAdviceTime
  BY <1>1, AdviceAssumption
<1>3. FetchInv
  <2>1. offered \in Seq(SUBSET Offer) /\ Len(offered) = 0
    BY <1>1
  <2>2. DOMAIN excluded = {} /\ 1 .. reached = {}
    BY <1>1
  <2> QED BY <1>1, <2>1, <2>2 DEF FetchInv
<1> QED BY <1>1, <1>2, <1>3 DEF AdviceInv, Advice!AdviceIsBest

\* Each listing the client named is offered by one search.
LEMMA ListingsAre ==
    ASSUME AdviceInv
    PROVE  Advice!ListingsAccounted
<1> SUFFICES ASSUME stage \in {"second", "answered"}, NEW r \in Request.refs
             PROVE  LET offers == {k \in DOMAIN offered : \E o \in offered[k] : o.ref = r}
                    IN  IF r \in DOMAIN excluded /\ excluded[r] # "over_budget"
                        THEN offers = {} ELSE Cardinality(offers) = 1
  BY AdviceCardinality DEF Advice!ListingsAccounted, Request
<1> DEFINE offers == {k \in DOMAIN offered : \E o \in offered[k] : o.ref = r}
<1>1. /\ advice \in Adviced /\ FetchInv /\ Request.refs \subseteq Advice!Ids(Request)
      /\ reached = Len(Request.entries) /\ DOMAIN offered = 1 .. reached /\ reached \in Nat
  BY DEF AdviceInv, FetchInv
<1>2. PICK k \in 1 .. reached : r \in Advice!Matched(k)
  BY <1>1, MatchedOnce
<1>3. \A j \in 1 .. reached : Settled(j)
  BY <1>1 DEF FetchInv
<1>4. ASSUME NEW j \in offers PROVE j = k
  <2>1. PICK o \in offered[j] : o.ref = r
    BY <1>4
  <2>2. r \in Advice!Matched(j) /\ j \in 1 .. reached
    BY <1>1, <1>3, <2>1 DEF Settled
  <2>3. j \in Nat \ {0} /\ k \in Nat \ {0}
    BY <1>1, <2>2
  <2> QED BY <1>1, <1>2, <2>2, <2>3, MatchedOnce
<1>5. Out(r) <=> k \notin offers
  BY <1>1, <1>2, <1>3 DEF Settled
<1> HIDE DEF offers
<1>6. CASE Out(r)
  <2>1. offers = {}
    BY <1>4, <1>5, <1>6
  <2> QED BY <1>6, <2>1 DEF Out, offers
<1>7. CASE ~Out(r)
  <2>1. offers = {k}
    BY <1>4, <1>5, <1>7
  <2>2. Cardinality(offers) = 1
    BY <2>1, FS_Singleton
  <2> QED BY <1>7, <2>2 DEF Out, offers
<1> QED BY <1>6, <1>7

\* Whatever is searched, whatever the market and the worker answer: no listing the
\* client named is lost between its search and the enumeration, the plans that are
\* calculated are all the outfits the budget allows, and the advice is one that no
\* eligible outfit comes before.
THEOREM AdviceIsRight == Advice!Spec => []AdviceRight
<1>1. AdviceInv => AdviceRight
  <2> SUFFICES ASSUME AdviceInv PROVE AdviceRight
    OBVIOUS
  <2>1. OffersSound \/ plans = {}
    BY OffersAreSound DEF AdviceInv
  <2>2. \A p \in plans : \A c \in p : c.cost \in Nat
    BY <2>1, PlansAreOutfits DEF AdviceInv
  <2>3. \A r \in DOMAIN excluded : excluded[r] \in Advice!Reasons
    BY DEF AdviceInv, FetchInv
  <2>4. Advice!AdviceTypeOK
    BY <2>2, <2>3 DEF AdviceInv, Advice!AdviceTypeOK
  <2> QED BY <2>4, ListingsAre DEF AdviceInv, AdviceRight
<1>2. AdviceInv /\ [Advice!Next]_(Advice!adviceVars) => AdviceInv'
  BY AdviceStep
<1> QED BY <1>1, <1>2, AdviceInit, PTL DEF Advice!Spec

\* The parts side by side: a behaviour of all of them is one of each, so what is
\* proved of each holds of it.
THEOREM PlanningStandsAlone == PlanningSpec => Spec /\ Passives!Spec /\ Advice!Spec
<1>1. PlanningInit => Init /\ Passives!Init /\ Advice!Init
  BY DEF PlanningInit
<1>2. [PlanningNext]_planningVars => [Next]_vars
  BY DEF PlanningNext, planningVars, vars
<1>3. [PlanningNext]_planningVars => [Passives!Next]_(Passives!treeVars)
  BY DEF PlanningNext, planningVars, treeVars, Passives!treeVars
<1>4. [PlanningNext]_planningVars => [Advice!Next]_(Advice!adviceVars)
  BY DEF PlanningNext, planningVars, adviceVars, Advice!adviceVars
<1> QED BY <1>1, <1>2, <1>3, <1>4, PTL DEF PlanningSpec, Spec, Passives!Spec, Advice!Spec

-------------------------------------------------------------------------------
(* The passive tree: what is reached. *)

Modes == [Passives!Nodes -> {None, 0, 1, 2}]

GoodTree ==
    /\ Passives!Nodes \subseteq Nat /\ IsFiniteSet(Passives!Nodes)
    /\ tree.special \subseteq Passives!Nodes /\ tree.roots \subseteq Passives!Nodes \ tree.special
    /\ tree.mode \in Modes
    /\ \A n \in tree.roots : tree.mode[n] = 0

LEMMA TreesAreGood ==
    ASSUME tree \in Trees PROVE GoodTree
BY TreesAssumption DEF GoodTree, Modes, Passives!Nodes

LEMMA NoneIsNoMode == None \notin {0, 1, 2}
<1>1. None \notin 0 .. 2
  BY TreesAssumption
<1> QED
  BY <1>1

LEMMA NoneIsNoWord ==
    /\ None # "disconnected_after_refund" /\ None # "unsupported_node_rule" /\ None # "no_route"
    /\ None # "no_order_within_requested_nodes"
BY TreesAssumption

LEMMA PassivesCardinality ==
    ASSUME NEW S PROVE Passives!Cardinality(S) = Cardinality(S)
BY DEF Passives!Cardinality, Cardinality

LEMMA PassivesWaves ==
    ASSUME NEW from, NEW next, NEW rounds
    PROVE  Passives!Waves(from, next, rounds) = Waves(from, next, rounds)
BY DEF Passives!Waves, Waves

\* One step of a search through nodes of weapon set w or of both.
Passes(m, w, p, n) ==
    Passives!Linked(p, n) /\ tree.asc[p] = tree.asc[n] /\ Passives!Serves(m, w, n)

LEMMA ReachIs ==
    ASSUME GoodTree, NEW m, NEW w, NEW from \in SUBSET Passives!Nodes
    PROVE  /\ from \subseteq Passives!Reachable(m, w, from)
           /\ Passives!Reachable(m, w, from) \subseteq Passives!Nodes
           /\ \A p \in Passives!Reachable(m, w, from), n \in Passives!Nodes :
                Passes(m, w, p, n) => n \in Passives!Reachable(m, w, from)
<1> DEFINE next == [p \in Passives!Nodes |-> {n \in Passives!Nodes : Passes(m, w, p, n)}]
           met == Waves(from, next, Cardinality(Passives!Nodes))[Cardinality(Passives!Nodes)]
<1>1. Passives!Reachable(m, w, from) = met
  BY PassivesWaves, PassivesCardinality DEF Passives!Reachable, Passives!Met, Passes
<1>2. IsFiniteSet(Passives!Nodes) /\ \A p \in Passives!Nodes : next[p] \subseteq Passives!Nodes
  BY DEF GoodTree
<1>3. from \subseteq met /\ met \subseteq Passives!Nodes /\ \A p \in met : next[p] \subseteq met
  <2> HIDE DEF next
  <2> QED
    BY <1>2, WavesClosed
<1> HIDE DEF met
<1> QED
  BY <1>1, <1>3

\* It is the least such set.
LEMMA ReachLeast ==
    ASSUME GoodTree, NEW m, NEW w, NEW from \in SUBSET Passives!Nodes, NEW U, from \subseteq U,
           \A p \in U \cap Passives!Reachable(m, w, from), n \in Passives!Nodes :
             Passes(m, w, p, n) => n \in U
    PROVE  Passives!Reachable(m, w, from) \subseteq U
<1> DEFINE next == [p \in Passives!Nodes |-> {n \in Passives!Nodes : Passes(m, w, p, n)}]
           count == Cardinality(Passives!Nodes)
           V == U \cap Passives!Reachable(m, w, from)
<1>1. Passives!Reachable(m, w, from) = Waves(from, next, count)[count]
  BY PassivesWaves, PassivesCardinality DEF Passives!Reachable, Passives!Met, Passes
<1>2. count \in Nat
  BY FS_CardinalityType DEF GoodTree
<1>3. from \subseteq V /\ \A p \in V : next[p] \subseteq V
  BY ReachIs
<1> HIDE DEF next, count, V
<1>4. Waves(from, next, count)[count] \subseteq V
  <2>1. \A k \in 0 .. count : Waves(from, next, count)[k] \subseteq V
    BY ONLY <1>2, <1>3, WavesWithin
  <2> QED
    BY <1>2, <2>1
<1> QED
  BY <1>1, <1>4 DEF V

LEMMA ReachMono ==
    ASSUME GoodTree, NEW m, NEW w, NEW from \in SUBSET Passives!Nodes,
           NEW more, NEW v, NEW wider \in SUBSET Passives!Nodes, from \subseteq wider,
           \A n \in Passives!Nodes : Passives!Serves(m, w, n) => Passives!Serves(more, v, n)
    PROVE  Passives!Reachable(m, w, from) \subseteq Passives!Reachable(more, v, wider)
<1>1. /\ from \subseteq Passives!Reachable(more, v, wider)
      /\ \A p \in Passives!Reachable(more, v, wider), n \in Passives!Nodes :
           Passes(m, w, p, n) => n \in Passives!Reachable(more, v, wider)
  BY ReachIs DEF Passes
<1> QED
  BY <1>1, ReachLeast

\* What is reached is a start or serves the weapon set.
LEMMA ReachServes ==
    ASSUME GoodTree, NEW m, NEW w, NEW from \in SUBSET Passives!Nodes
    PROVE  \A n \in Passives!Reachable(m, w, from) : n \in from \/ Passives!Serves(m, w, n)
<1> DEFINE U == {n \in Passives!Nodes : n \in from \/ Passives!Serves(m, w, n)}
<1>1. /\ from \subseteq U
      /\ \A p \in U \cap Passives!Reachable(m, w, from), n \in Passives!Nodes :
           Passes(m, w, p, n) => n \in U
  BY DEF Passes
<1> HIDE DEF U
<1>2. Passives!Reachable(m, w, from) \subseteq U
  BY <1>1, ReachLeast
<1> QED
  BY <1>2 DEF U

-------------------------------------------------------------------------------
(* What holds a node. *)

Starts(m, w) == tree.roots \cup {s \in tree.special : Passives!Serves(m, w, s)}

LEMMA LooseIs ==
    ASSUME NEW m
    PROVE  Passives!Loose(m) =
             {n \in Passives!Nodes \ (tree.roots \cup tree.special) :
                m[n] # None /\ n \notin Passives!Reachable(m, m[n], Starts(m, m[n]))}
BY DEF Passives!Loose, Passives!Allocated, Starts

LEMMA DisconnectedIs ==
    ASSUME NEW m
    PROVE  Passives!Disconnected(m) =
             {n \in Passives!Nodes \ tree.roots :
                m[n] # None /\ n \notin Passives!Reachable(m, m[n], tree.roots)}
BY DEF Passives!Disconnected, Passives!Allocated

\* Ordinary nodes that the starts hold are not loose.
LEMMA DisconnectedLoose ==
    ASSUME GoodTree, NEW m \in Modes, Passives!Disconnected(m) \subseteq tree.special
    PROVE  Passives!Loose(m) = {}
<1> SUFFICES ASSUME NEW n \in Passives!Nodes \ (tree.roots \cup tree.special), m[n] # None
             PROVE  n \in Passives!Reachable(m, m[n], Starts(m, m[n]))
  BY LooseIs
<1>1. n \in Passives!Reachable(m, m[n], tree.roots)
  BY DisconnectedIs
<1>2. /\ tree.roots \in SUBSET Passives!Nodes /\ Starts(m, m[n]) \in SUBSET Passives!Nodes
      /\ tree.roots \subseteq Starts(m, m[n])
  BY DEF GoodTree, Starts
<1>3. Passives!Reachable(m, m[n], tree.roots) \subseteq Passives!Reachable(m, m[n], Starts(m, m[n]))
  BY <1>2, ReachMono
<1> QED
  BY <1>1, <1>3

\* A node that is taken next to one that serves its weapon set is not loose, and
\* makes no other node loose.
LEMMA LooseAdd ==
    ASSUME GoodTree, NEW m \in Modes, Passives!Loose(m) = {}, NEW w \in {0, 1, 2},
           NEW n \in Passives!Nodes, m[n] = None, n \notin tree.roots \cup tree.special,
           NEW p \in Passives!Nodes, m[p] \in {0, w}, tree.asc[p] = tree.asc[n],
           Passives!Linked(p, n)
    PROVE  Passives!Loose(Passives!With(m, {n}, w)) = {}
<1> DEFINE more == Passives!With(m, {n}, w)
<1>1. more \in Modes /\ more[n] = w /\ \A q \in Passives!Nodes : q # n => more[q] = m[q]
  BY DEF Modes, Passives!With
<1> HIDE DEF more
<1>2. None \notin {0, 1, 2}
  BY NoneIsNoMode
<1>3. p # n
  BY <1>2
<1>4. ASSUME NEW v \in {0, 1, 2}
      PROVE  /\ \A q \in Passives!Nodes : Passives!Serves(m, v, q) => Passives!Serves(more, v, q)
             /\ Starts(m, v) \in SUBSET Passives!Nodes /\ Starts(more, v) \in SUBSET Passives!Nodes
             /\ Starts(m, v) \subseteq Starts(more, v)
  <2>1. \A q \in Passives!Nodes : Passives!Serves(m, v, q) => Passives!Serves(more, v, q)
    BY <1>1, <1>2 DEF Passives!Serves
  <2> QED
    BY <2>1 DEF Starts, GoodTree
<1>5. ASSUME NEW v \in {0, 1, 2}
      PROVE  Passives!Reachable(m, v, Starts(m, v)) \subseteq Passives!Reachable(more, v, Starts(more, v))
  BY <1>4, ReachMono
<1>6. ASSUME NEW q \in Passives!Nodes \ (tree.roots \cup tree.special), q # n, more[q] # None
      PROVE  q \in Passives!Reachable(more, more[q], Starts(more, more[q]))
  <2>1. more[q] = m[q] /\ m[q] \in {0, 1, 2}
    BY <1>1, <1>6 DEF Modes
  <2>2. q \in Passives!Reachable(m, m[q], Starts(m, m[q]))
    BY <1>6, <2>1, LooseIs
  <2> QED
    BY <1>5, <2>1, <2>2
<1>7. p \in Passives!Reachable(more, w, Starts(more, w))
  <2>1. CASE p \in tree.roots \cup tree.special
    <3>1. p \in Starts(m, w)
      BY <2>1 DEF Starts, Passives!Serves
    <3> QED
      BY <1>4, <3>1, ReachIs
  <2>2. CASE p \notin tree.roots \cup tree.special
    <3>1. m[p] # None /\ m[p] \in {0, 1, 2}
      BY <1>2
    <3>2. p \in Passives!Reachable(m, m[p], Starts(m, m[p]))
      BY <2>2, <3>1, LooseIs
    <3>3. p \in Passives!Reachable(more, m[p], Starts(more, m[p]))
      BY <1>5, <3>1, <3>2
    <3>4. \A q \in Passives!Nodes : Passives!Serves(more, m[p], q) => Passives!Serves(more, w, q)
      BY DEF Passives!Serves
    <3>5. Starts(more, m[p]) \subseteq Starts(more, w)
      BY <3>4 DEF Starts, GoodTree
    <3>6. Passives!Reachable(more, m[p], Starts(more, m[p])) \subseteq Passives!Reachable(more, w, Starts(more, w))
      BY <1>4, <3>1, <3>4, <3>5, ReachMono
    <3> QED
      BY <3>3, <3>6
  <2> QED
    BY <2>1, <2>2
<1>8. n \in Passives!Reachable(more, w, Starts(more, w))
  <2>1. Passes(more, w, p, n)
    BY <1>1 DEF Passes, Passives!Serves
  <2> QED
    BY <1>4, <1>7, <2>1, ReachIs
<1>9. Passives!Loose(more) = {}
  BY <1>1, <1>6, <1>8, LooseIs
<1> QED
  BY <1>9 DEF more

\* Two trees that hang together do so when they are put together.
LEMMA DisconnectedJoin ==
    ASSUME GoodTree, NEW m \in Modes, NEW n \in Modes, NEW both \in Modes,
           Passives!Disconnected(m) = {}, Passives!Disconnected(n) = {},
           \A q \in Passives!Nodes :
             /\ m[q] # None => both[q] = m[q]
             /\ n[q] # None => both[q] = n[q]
             /\ both[q] # None => m[q] # None \/ n[q] # None
    PROVE  Passives!Disconnected(both) = {}
<1>1. tree.roots \in SUBSET Passives!Nodes /\ None \notin {0, 1, 2}
  BY NoneIsNoMode DEF GoodTree
<1>2. ASSUME NEW part1 \in Modes, NEW q \in Passives!Nodes \ tree.roots, part1[q] # None,
             Passives!Disconnected(part1) = {},
             \A r \in Passives!Nodes : part1[r] # None => both[r] = part1[r]
      PROVE  q \in Passives!Reachable(both, both[q], tree.roots)
  <2>1. q \in Passives!Reachable(part1, part1[q], tree.roots) /\ both[q] = part1[q]
    BY <1>2, DisconnectedIs
  <2>2. part1[q] \in {0, 1, 2}
    BY <1>2 DEF Modes
  <2>3. \A r \in Passives!Nodes : Passives!Serves(part1, part1[q], r) => Passives!Serves(both, part1[q], r)
    BY <1>1, <1>2, <2>2 DEF Passives!Serves
  <2>4. Passives!Reachable(part1, part1[q], tree.roots) \subseteq Passives!Reachable(both, part1[q], tree.roots)
    BY <1>1, <2>3, ReachMono
  <2> QED
    BY <2>1, <2>4
<1>3. ASSUME NEW q \in Passives!Nodes \ tree.roots, both[q] # None
      PROVE  q \in Passives!Reachable(both, both[q], tree.roots)
  <2>1. CASE m[q] # None
    BY <1>2, <2>1
  <2>2. CASE n[q] # None
    BY <1>2, <2>2
  <2> QED
    BY <1>3, <2>1, <2>2
<1> QED
  BY <1>3, DisconnectedIs

-------------------------------------------------------------------------------
(* Orders of clicks. *)

Kept(m, X) == [n \in Passives!Nodes |-> IF n \in X THEN m[n] ELSE None]

\* Between a tree that hangs together and a larger one that does too there is one
\* node of the larger that can be taken to the smaller. A node for both weapon sets
\* comes first, if there is one, because only such nodes hold it.
LEMMA OneMore ==
    ASSUME GoodTree, NEW m \in Modes, NEW T \in SUBSET Passives!Nodes, \A n \in T : m[n] # None,
           NEW X \in SUBSET T, X # T, (T \ X) \cap tree.roots = {},
           Passives!Disconnected(Kept(m, T)) = {}, Passives!Disconnected(Kept(m, X)) = {}
    PROVE  \E z \in T \ X : Passives!Disconnected(Kept(m, X \cup {z})) = {}
<1> DEFINE whole == Kept(m, T)
           small == Kept(m, X)
<1>1. None \notin {0, 1, 2} /\ tree.roots \in SUBSET Passives!Nodes
  BY NoneIsNoMode DEF GoodTree
<1>2. /\ whole \in Modes /\ small \in Modes
      /\ \A n \in Passives!Nodes : /\ whole[n] = IF n \in T THEN m[n] ELSE None
                                   /\ small[n] = IF n \in X THEN m[n] ELSE None
  BY DEF Kept, Modes
<1> HIDE DEF whole, small
<1>3. PICK y \in T \ X : m[y] = 0 \/ \A n \in T \ X : m[n] # 0
  OBVIOUS
<1>4. m[y] \in {0, 1, 2} /\ y \in Passives!Reachable(whole, m[y], tree.roots)
  <2>1. m[y] \in {0, 1, 2} /\ whole[y] = m[y] /\ y \notin tree.roots /\ y \in Passives!Nodes
    BY <1>2 DEF Modes
  <2>2. Passives!Disconnected(whole) = {}
    BY DEF whole
  <2> QED
    BY <1>1, <2>1, <2>2, DisconnectedIs
<1> DEFINE Reached == Passives!Reachable(whole, m[y], tree.roots)
           U == X \cup tree.roots
<1>5. PICK p \in U \cap Reached : \E n \in Passives!Nodes : Passes(whole, m[y], p, n) /\ n \notin U
  <2>1. y \notin U /\ y \in Reached
    BY <1>4
  <2>2. SUFFICES ASSUME \A p \in U \cap Reached, n \in Passives!Nodes : Passes(whole, m[y], p, n) => n \in U
                 PROVE  Reached \subseteq U
    BY <2>1
  <2>3. tree.roots \subseteq U
    OBVIOUS
  <2> HIDE DEF U
  <2> QED
    BY <1>1, <2>2, <2>3, ReachLeast
<1>6. PICK z \in Passives!Nodes : Passes(whole, m[y], p, z) /\ z \notin U
  BY <1>5
<1>7. z \in T \ X /\ m[z] \in {0, m[y]} /\ m[z] \in {0, 1, 2}
  <2>1. whole[z] \in {0, m[y]}
    BY <1>6 DEF Passes, Passives!Serves
  <2> QED
    BY <1>1, <1>2, <1>4, <1>6, <2>1
<1> DEFINE next == Kept(m, X \cup {z})
<1>8. /\ next \in Modes /\ next[z] = m[z]
      /\ \A n \in Passives!Nodes : n # z => next[n] = small[n]
      /\ \A n \in Passives!Nodes : next[n] # None => n \in X \cup {z} /\ next[n] = m[n]
  BY <1>2, <1>7 DEF Kept, Modes
<1> HIDE DEF next
<1>9. ASSUME NEW v \in {0, 1, 2}
      PROVE  Passives!Reachable(small, v, tree.roots) \subseteq Passives!Reachable(next, v, tree.roots)
  <2>1. \A n \in Passives!Nodes : Passives!Serves(small, v, n) => Passives!Serves(next, v, n)
    BY <1>1, <1>2, <1>7, <1>8 DEF Passives!Serves
  <2> QED
    BY <1>1, <2>1, ReachMono
<1>10. ASSUME NEW n \in X \ tree.roots PROVE n \in Passives!Reachable(next, m[n], tree.roots)
  <2>1. n \in Passives!Nodes /\ m[n] \in {0, 1, 2} /\ small[n] = m[n]
    BY <1>2 DEF Modes
  <2>2. n \in Passives!Reachable(small, m[n], tree.roots)
    <3>1. Passives!Disconnected(small) = {}
      BY DEF small
    <3> QED
      BY <1>1, <2>1, <3>1, DisconnectedIs
  <2> QED
    BY <1>9, <2>1, <2>2
<1>11. p \in Passives!Reachable(next, m[z], tree.roots)
  <2>1. CASE p \in tree.roots
    BY <1>1, <2>1, ReachIs
  <2>2. CASE p \notin tree.roots
    <3>1. p \in X /\ p \in Passives!Nodes /\ p \in Passives!Reachable(next, m[p], tree.roots)
      BY <1>5, <1>10, <2>2
    <3>2. m[p] \in {0, m[y]}
      <4>1. Passives!Serves(whole, m[y], p)
        BY <1>1, <1>5, <2>2, ReachServes
      <4> QED
        BY <1>2, <3>1, <4>1 DEF Passives!Serves
    <3>3. m[p] \in {0, m[z]}
      BY <1>3, <1>7, <3>2
    <3>4. \A n \in Passives!Nodes : Passives!Serves(next, m[p], n) => Passives!Serves(next, m[z], n)
      BY <3>3 DEF Passives!Serves
    <3>5. Passives!Reachable(next, m[p], tree.roots) \subseteq Passives!Reachable(next, m[z], tree.roots)
      BY <1>1, <3>4, ReachMono
    <3> QED
      BY <3>1, <3>5
  <2> QED
    BY <2>1, <2>2
<1>12. z \in Passives!Reachable(next, m[z], tree.roots)
  <2>1. Passes(next, m[z], p, z)
    BY <1>6, <1>8 DEF Passes, Passives!Serves
  <2> QED
    BY <1>1, <1>11, <2>1, ReachIs
<1>13. Passives!Disconnected(next) = {}
  <2>1. \A n \in Passives!Nodes \ tree.roots :
          next[n] # None => n \in Passives!Reachable(next, next[n], tree.roots)
    BY <1>8, <1>10, <1>12
  <2> QED
    BY <2>1, DisconnectedIs
<1> QED
  BY <1>7, <1>13 DEF next

\* So one node of the larger tree can be given back.
LEMMA OneLess ==
    ASSUME GoodTree, NEW m \in Modes, NEW T \in SUBSET Passives!Nodes, \A n \in T : m[n] # None,
           NEW B \in SUBSET T, B # T, (T \ B) \cap tree.roots = {},
           Passives!Disconnected(Kept(m, T)) = {}, Passives!Disconnected(Kept(m, B)) = {}
    PROVE  \E y \in T \ B : Passives!Disconnected(Kept(m, T \ {y})) = {}
<1> DEFINE Between == {X \in SUBSET T : B \subseteq X /\ X # T /\ Passives!Disconnected(Kept(m, X)) = {}}
           Sizes == {Cardinality(T \ X) : X \in Between}
<1>1. IsFiniteSet(T)
  BY FS_Subset DEF GoodTree
<1>2. \A X \in SUBSET T : IsFiniteSet(T \ X) /\ Cardinality(T \ X) \in Nat
  <2> SUFFICES ASSUME NEW X \in SUBSET T PROVE IsFiniteSet(T \ X) /\ Cardinality(T \ X) \in Nat
    OBVIOUS
  <2>1. T \ X \in SUBSET T
    OBVIOUS
  <2> QED
    BY <1>1, <2>1, FS_Subset, FS_CardinalityType
<1>3. B \in Between
  OBVIOUS
<1>4. Sizes \in SUBSET Nat /\ Sizes # {}
  BY <1>2, <1>3
<1>5. PICK X \in Between : \A Y \in Between : Cardinality(T \ X) <= Cardinality(T \ Y)
  <2>1. PICK k \in Sizes : \A l \in Sizes : k <= l
    <3> HIDE DEF Sizes
    <3> QED
      BY <1>4, LeastNatural
  <2>2. PICK X \in Between : k = Cardinality(T \ X)
    OBVIOUS
  <2>3. ASSUME NEW Y \in Between PROVE Cardinality(T \ X) <= Cardinality(T \ Y)
    <3>1. Cardinality(T \ Y) \in Sizes
      OBVIOUS
    <3> HIDE DEF Sizes
    <3> QED
      BY <2>1, <2>2, <3>1
  <2> QED
    BY <2>3
<1>6. PICK z \in T \ X : Passives!Disconnected(Kept(m, X \cup {z})) = {}
  <2>1. X \in SUBSET T /\ X # T /\ (T \ X) \cap tree.roots = {} /\ Passives!Disconnected(Kept(m, X)) = {}
    BY <1>5
  <2> QED
    BY <2>1, OneMore
<1>7. X \cup {z} = T
  <2> SUFFICES ASSUME X \cup {z} # T PROVE FALSE
    OBVIOUS
  <2>1. X \cup {z} \in Between
    BY <1>5, <1>6
  <2>2. T \ (X \cup {z}) = (T \ X) \ {z}
    OBVIOUS
  <2>3. Cardinality((T \ X) \ {z}) = Cardinality(T \ X) - 1
    BY <1>2, <1>5, <1>6, FS_RemoveElement
  <2>4. Cardinality(T \ X) <= Cardinality(T \ (X \cup {z}))
    BY <1>5, <2>1
  <2>5. Cardinality(T \ X) \in Nat
    BY <1>2, <1>5
  <2>6. Cardinality(T \ X) <= Cardinality(T \ X) - 1
    BY <2>2, <2>3, <2>4
  <2> QED
    BY <2>5, <2>6
<1>8. X = T \ {z}
  BY <1>6, <1>7
<1> QED
  BY <1>5, <1>6, <1>8

Actions == [give : BOOLEAN, nodes : SUBSET Passives!Nodes, mode : {0, 1, 2}]

LEMMA AppliedIs ==
    ASSUME NEW m \in Modes, NEW action \in Actions, NEW D \in SUBSET action.nodes
    PROVE  /\ Passives!Applied(m, action, D) \in Modes
           /\ \A n \in Passives!Nodes :
                Passives!Applied(m, action, D)[n] =
                  IF n \in D THEN IF action.give THEN None ELSE action.mode ELSE m[n]
BY DEF Passives!Applied, Modes, Actions

LEMMA AppliedNothing ==
    ASSUME NEW m \in Modes, NEW action \in Actions
    PROVE  Passives!Applied(m, action, {}) = m
BY DEF Passives!Applied, Modes

LEMMA AppliedTwice ==
    ASSUME NEW m \in Modes, NEW action \in Actions, NEW D \in SUBSET action.nodes, NEW x \in action.nodes
    PROVE  Passives!Applied(Passives!Applied(m, action, D), action, {x}) = Passives!Applied(m, action, D \cup {x})
<1>1. \A n \in Passives!Nodes :
        (IF n \in {x} THEN IF action.give THEN None ELSE action.mode ELSE Passives!Applied(m, action, D)[n]) =
        (IF n \in D \cup {x} THEN IF action.give THEN None ELSE action.mode ELSE m[n])
  BY AppliedIs
<1> QED
  BY <1>1 DEF Passives!Applied

IsOrder(f, m, action) ==
    /\ f \in [1 .. Cardinality(action.nodes) -> action.nodes]
    /\ \A n \in action.nodes : \E k \in DOMAIN f : f[k] = n
    /\ \A k \in DOMAIN f :
         Passives!Disconnected(Passives!Applied(m, action, {f[i] : i \in 1 .. k})) = {}

LEMMA OrderOf ==
    ASSUME NEW m, NEW action, Passives!HasOrder(m, action)
    PROVE  \E f : IsOrder(f, m, action)
<1>1. PICK f \in [1 .. Passives!Cardinality(action.nodes) -> action.nodes] :
        /\ \A n \in action.nodes : \E k \in DOMAIN f : f[k] = n
        /\ \A k \in DOMAIN f :
             Passives!Disconnected(Passives!Applied(m, action, {f[i] : i \in 1 .. k})) = {}
  BY DEF Passives!HasOrder
<1>2. f \in [1 .. Cardinality(action.nodes) -> action.nodes]
  BY <1>1, PassivesCardinality
<1>3. IsOrder(f, m, action)
  BY <1>1, <1>2 DEF IsOrder
<1> QED
  BY <1>3

\* The first node of an order that is not clicked yet can be clicked: what was
\* clicked before it in the order is taken, and the rest does no harm.
LEMMA TakeGoesOn ==
    ASSUME GoodTree, NEW m \in Modes, NEW action \in Actions,
           \A n \in action.nodes : m[n] = None /\ ~action.give,
           NEW D \in SUBSET action.nodes, D # action.nodes,
           Passives!Disconnected(Passives!Applied(m, action, D)) = {},
           Passives!HasOrder(m, action)
    PROVE  \E x \in action.nodes \ D : Passives!Disconnected(Passives!Applied(m, action, D \cup {x})) = {}
<1>1. PICK f : IsOrder(f, m, action)
  BY OrderOf
<1>2. action.nodes \in SUBSET Passives!Nodes /\ action.mode \in {0, 1, 2}
  BY DEF Actions
<1>3. Cardinality(action.nodes) \in Nat
  BY <1>2, FS_Subset, FS_CardinalityType DEF GoodTree
<1> DEFINE Left == {k \in DOMAIN f : f[k] \notin D}
<1>4. DOMAIN f = 1 .. Cardinality(action.nodes) /\ Left \in SUBSET Nat /\ Left # {}
  <2>1. DOMAIN f = 1 .. Cardinality(action.nodes)
    BY <1>1 DEF IsOrder
  <2>2. PICK n \in action.nodes : n \notin D
    OBVIOUS
  <2>3. \E k \in DOMAIN f : f[k] = n
    BY <1>1 DEF IsOrder
  <2> QED
    BY <1>3, <2>1, <2>2, <2>3
<1>5. PICK k \in Left : \A l \in Left : k <= l
  <2> HIDE DEF Left
  <2> QED
    BY <1>4, LeastNatural
<1> DEFINE P == {f[i] : i \in 1 .. k}
           x == f[k]
<1>6. x \in action.nodes \ D /\ x \in P /\ P \subseteq D \cup {x} /\ P \subseteq action.nodes
  <2>1. ASSUME NEW i \in 1 .. k PROVE f[i] \in D \cup {x} /\ f[i] \in action.nodes
    <3>1. i \in Nat /\ k \in Nat /\ k \in DOMAIN f /\ 1 <= i /\ i <= k
      BY <1>4, <1>5
    <3>2. i \in DOMAIN f
      BY <1>3, <1>4, <3>1
    <3>3. i = k \/ i \notin Left
      BY <1>5, <3>1
    <3> QED
      BY <1>1, <3>2, <3>3 DEF IsOrder
  <2>2. k \in 1 .. k
    BY <1>4, <1>5
  <2> QED
    BY <1>1, <1>5, <2>1, <2>2 DEF IsOrder
<1>7. Passives!Disconnected(Passives!Applied(m, action, P)) = {}
  BY <1>1, <1>5 DEF IsOrder
<1> DEFINE before == Passives!Applied(m, action, P)
           now == Passives!Applied(m, action, D)
           then == Passives!Applied(m, action, D \cup {x})
<1> HIDE DEF P, x
<1>8. /\ before \in Modes /\ now \in Modes /\ then \in Modes
      /\ \A n \in Passives!Nodes :
           /\ before[n] = IF n \in P THEN action.mode ELSE m[n]
           /\ now[n] = IF n \in D THEN action.mode ELSE m[n]
           /\ then[n] = IF n \in D \cup {x} THEN action.mode ELSE m[n]
  BY <1>6, AppliedIs
<1> HIDE DEF before, now, then
<1>9. None # action.mode
  BY <1>2, NoneIsNoMode
<1>10. \A q \in Passives!Nodes :
         /\ before[q] # None => then[q] = before[q]
         /\ now[q] # None => then[q] = now[q]
         /\ then[q] # None => before[q] # None \/ now[q] # None
  BY <1>2, <1>6, <1>8, <1>9
<1>11. Passives!Disconnected(then) = {}
  <2>1. Passives!Disconnected(before) = {} /\ Passives!Disconnected(now) = {}
    BY <1>7 DEF before, now
  <2> QED
    BY <1>8, <1>10, <2>1, DisconnectedJoin
<1> QED
  BY <1>6, <1>11 DEF then

LEMMA GiveGoesOn ==
    ASSUME GoodTree, NEW m \in Modes, NEW action \in Actions, action.give,
           \A n \in action.nodes : m[n] # None, action.nodes \cap tree.roots = {},
           NEW D \in SUBSET action.nodes, D # action.nodes,
           Passives!Disconnected(Passives!Applied(m, action, D)) = {},
           Passives!HasOrder(m, action)
    PROVE  \E x \in action.nodes \ D : Passives!Disconnected(Passives!Applied(m, action, D \cup {x})) = {}
<1>1. PICK f : IsOrder(f, m, action)
  BY OrderOf
<1>2. action.nodes \in SUBSET Passives!Nodes
  BY DEF Actions
<1> DEFINE N == Cardinality(action.nodes)
           Taken == {n \in Passives!Nodes : m[n] # None}
           T == Taken \ D
           B == Taken \ action.nodes
<1>3. N \in Nat
  BY <1>2, FS_Subset, FS_CardinalityType DEF GoodTree
<1>4. N \in DOMAIN f /\ {f[i] : i \in 1 .. N} = action.nodes
  <2>1. DOMAIN f = 1 .. N /\ \E k \in DOMAIN f : TRUE
    BY <1>1 DEF IsOrder
  <2> HIDE DEF N
  <2>2. N \in 1 .. N
    BY <1>3, <2>1
  <2> QED
    BY <1>1, <2>1, <2>2 DEF IsOrder, N
<1>5. \A X \in SUBSET action.nodes : Passives!Applied(m, action, X) = Kept(m, Taken \ X)
  BY DEF Passives!Applied, Kept
<1>6. Passives!Disconnected(Kept(m, T)) = {} /\ Passives!Disconnected(Kept(m, B)) = {}
  <2>1. Passives!Disconnected(Passives!Applied(m, action, action.nodes)) = {}
    BY <1>1, <1>4 DEF IsOrder
  <2> QED
    BY <1>5, <2>1
<1>7. /\ T \in SUBSET Passives!Nodes /\ B \in SUBSET T /\ B # T
      /\ (T \ B) \cap tree.roots = {} /\ \A n \in T : m[n] # None
      /\ T \ B \subseteq action.nodes \ D
  BY <1>2
<1>8. PICK y \in T \ B : Passives!Disconnected(Kept(m, T \ {y})) = {}
  <2> HIDE DEF T, B
  <2> QED
    BY <1>6, <1>7, OneLess
<1>9. D \cup {y} \in SUBSET action.nodes /\ Taken \ (D \cup {y}) = T \ {y}
  BY <1>7, <1>8
<1>10. Passives!Applied(m, action, D \cup {y}) = Kept(m, T \ {y})
  BY <1>5, <1>9
<1> QED
  BY <1>7, <1>8, <1>10

LEMMA PassivesMin ==
    ASSUME NEW S \in SUBSET Nat, S # {}
    PROVE  Passives!Min(S) \in S /\ \A k \in S : Passives!Min(S) <= k
<1>1. \E m \in S : \A k \in S : m <= k
  BY LeastNatural
<1> QED
  BY <1>1 DEF Passives!Min

\* The state of a question that was not asked.
Fresh ==
    query = None => /\ mode = tree.mode /\ since = tree.mode /\ steps = << >>
                    /\ pending = {} /\ verdict = None

\* An action under way: the nodes clicked so far are those that are not pending.
Midway(action) ==
    /\ pending \subseteq action.nodes
    /\ mode = Passives!Applied(since, action, action.nodes \ pending)
    /\ \A n \in action.nodes : action.give <=> since[n] # None

IsOrdering == query # None /\ query.op = "order"

ClickOrderInv ==
    IsOrdering =>
      /\ todo \in Seq(Actions) /\ mode \in Modes /\ since \in Modes
      /\ verdict = "unsupported_node_rule" \/ \A k \in DOMAIN todo : todo[k].nodes \cap tree.roots = {}
      /\ Passives!Disconnected(mode) = {} \/ (steps = << >> /\ pending = {} /\ verdict # None)
      /\ pending # {} => todo # << >> /\ verdict # "unsupported_node_rule" /\ Midway(Head(todo))
      /\ verdict = "no_order_within_requested_nodes" /\ pending # {} => ~Passives!HasOrder(since, Head(todo))

LEMMA SeqHeadTail ==
    ASSUME NEW S, NEW s \in Seq(S), s # << >>
    PROVE  /\ Head(s) \in S /\ Head(s) = s[1] /\ 1 \in DOMAIN s /\ Tail(s) \in Seq(S)
           /\ \A k \in DOMAIN Tail(s) : k + 1 \in DOMAIN s /\ Tail(s)[k] = s[k + 1]
           /\ Len(Tail(s)) = Len(s) - 1 /\ Len(s) \in Nat /\ Len(s) >= 1
OBVIOUS

LEMMA AskOrderKeeps ==
    ASSUME GoodTree, tree \in Trees, Fresh, NEW actions \in Clicks, Passives!AskOrder(actions)
    PROVE  Fresh' /\ ClickOrderInv' /\ query' # None /\ query'.op = "order"
<1>1. /\ query = None /\ query' = [op |-> "order", actions |-> actions] /\ todo' = actions
      /\ UNCHANGED <<tree, mode, pending, since, steps>>
  BY DEF Passives!AskOrder
<1>2. query' # None /\ query'.op = "order"
  <2>1. query' \in [op : {"order"}, actions : Clicks]
    BY <1>1
  <2>2. None \notin [op : {"order"}, actions : Clicks]
    BY TreesAssumption
  <2> QED
    BY <1>1, <2>1, <2>2
<1>3. actions \in Seq(Actions)
  <2>1. Actions = [give : BOOLEAN, nodes : SUBSET DOMAIN tree.asc, mode : 0..2]
    <3>1. {0, 1, 2} = 0..2
      OBVIOUS
    <3> QED
      BY <3>1 DEF Actions, Passives!Nodes
  <2>2. Clicks \subseteq Seq([give : BOOLEAN, nodes : SUBSET DOMAIN tree.asc, mode : 0..2])
    BY TreesAssumption
  <2> QED
    BY <2>1, <2>2
<1>4. mode = tree.mode /\ since = tree.mode /\ steps = << >> /\ pending = {} /\ tree.mode \in Modes
  BY <1>1 DEF Fresh, GoodTree
<1>5. verdict' = "unsupported_node_rule" \/ \A k \in DOMAIN actions : actions[k].nodes \cap tree.roots = {}
  <2>1. verdict' = "unsupported_node_rule"
          \/ (UNION {actions[k].nodes : k \in DOMAIN actions}) \cap tree.roots = {}
    BY DEF Passives!AskOrder
  <2> QED
    BY <2>1
<1>6. Passives!Disconnected(mode) = {} \/ verdict' # None
  <2>1. Passives!Disconnected(mode) # {} =>
          verdict' = "unsupported_node_rule" \/ verdict' = "no_order_within_requested_nodes"
    <3> DEFINE hanging == Passives!Disconnected(mode) # {}
               unruly == \/ ((UNION {actions[k].nodes : k \in DOMAIN actions})
                               \cup (Passives!Allocated(mode) \ tree.roots)) \cap tree.special # {}
                         \/ (UNION {actions[k].nodes : k \in DOMAIN actions}) \cap tree.roots # {}
    <3>1. verdict' = IF unruly THEN "unsupported_node_rule"
                     ELSE IF hanging THEN "no_order_within_requested_nodes" ELSE None
      BY DEF Passives!AskOrder
    <3> HIDE DEF hanging, unruly
    <3>2. hanging => verdict' = "unsupported_node_rule" \/ verdict' = "no_order_within_requested_nodes"
      BY <3>1
    <3> QED
      BY <3>2 DEF hanging
  <2>2. None # "unsupported_node_rule" /\ None # "no_order_within_requested_nodes"
    BY NoneIsNoWord
  <2> QED
    BY <2>1, <2>2
<1>7. /\ Modes' = Modes /\ Actions' = Actions /\ tree' = tree
      /\ Passives!Disconnected(mode)' = Passives!Disconnected(mode)
  BY <1>1 DEF Modes, Actions, Passives!Nodes, Passives!Disconnected, Passives!Allocated,
     Passives!Reachable, Passives!Met, Passives!Linked, Passives!Serves
<1> QED
  BY <1>1, <1>2, <1>3, <1>4, <1>5, <1>6, <1>7 DEF Fresh, ClickOrderInv, IsOrdering

\* A step that leaves the tree alone.
LEMMA SameTree ==
    ASSUME UNCHANGED tree
    PROVE  /\ Modes' = Modes /\ Actions' = Actions /\ GoodTree' = GoodTree
           /\ \A m : Passives!Disconnected(m)' = Passives!Disconnected(m)
           /\ \A m : Passives!Loose(m)' = Passives!Loose(m)
           /\ \A m, a : Passives!HasOrder(m, a)' = Passives!HasOrder(m, a)
           /\ \A m, a, D : Passives!Applied(m, a, D)' = Passives!Applied(m, a, D)
<1>1. Passives!Nodes' = Passives!Nodes
  BY DEF Passives!Nodes
<1>2. \A m, w, from : Passives!Reachable(m, w, from)' = Passives!Reachable(m, w, from)
  BY <1>1 DEF Passives!Reachable, Passives!Met, Passives!Linked, Passives!Serves
<1>3. \A m : Passives!Disconnected(m)' = Passives!Disconnected(m)
  BY <1>1, <1>2 DEF Passives!Disconnected, Passives!Allocated
<1>4. \A m : Passives!Loose(m)' = Passives!Loose(m)
  BY <1>1, <1>2 DEF Passives!Loose, Passives!Allocated, Passives!Serves
<1>5. \A m, a, D : Passives!Applied(m, a, D)' = Passives!Applied(m, a, D)
  BY <1>1 DEF Passives!Applied
<1>6. \A m, a : Passives!HasOrder(m, a)' = Passives!HasOrder(m, a)
  BY <1>1, <1>3, <1>5 DEF Passives!HasOrder
<1> QED
  BY <1>1, <1>3, <1>4, <1>5, <1>6 DEF Modes, Actions, GoodTree

LEMMA BeginActionKeeps ==
    ASSUME GoodTree, ClickOrderInv, Passives!BeginAction
    PROVE  ClickOrderInv'
<1>1. /\ IsOrdering /\ verdict = None /\ todo # << >> /\ pending = {}
      /\ UNCHANGED <<tree, query, mode, todo, steps>>
  BY DEF Passives!BeginAction, Passives!Ordering, IsOrdering
<1>2. /\ todo \in Seq(Actions) /\ mode \in Modes /\ since \in Modes
      /\ \A k \in DOMAIN todo : todo[k].nodes \cap tree.roots = {}
      /\ Passives!Disconnected(mode) = {}
  BY <1>1, NoneIsNoWord DEF ClickOrderInv
<1>3. Head(todo) \in Actions
  BY <1>1, <1>2, SeqHeadTail
<1>4. \/ /\ Passives!Coherent(Head(todo)) /\ pending' = Head(todo).nodes /\ since' = mode /\ verdict' = None
      \/ verdict' = "engine_invalid_request" /\ pending' = {} /\ since' = since
  BY <1>1 DEF Passives!BeginAction
<1>5. pending' # {} => Midway(Head(todo))'
  <2> SUFFICES ASSUME Passives!Coherent(Head(todo)), pending' = Head(todo).nodes, since' = mode
               PROVE  Midway(Head(todo))'
    BY <1>4
  <2>1. \A n \in Head(todo).nodes : Head(todo).give <=> mode[n] # None
    BY DEF Passives!Coherent
  <2>2. mode = Passives!Applied(mode, Head(todo), {})
    BY <1>2, <1>3, AppliedNothing
  <2>3. Passives!Applied(mode, Head(todo), {})' = Passives!Applied(mode, Head(todo), {})
    BY <1>1 DEF Passives!Applied, Passives!Nodes
  <2> QED
    BY <1>1, <2>1, <2>2, <2>3 DEF Midway, Passives!Applied, Passives!Nodes
<1>6. since' \in Modes /\ verdict' # "unsupported_node_rule" /\ verdict' # "no_order_within_requested_nodes"
  BY <1>2, <1>4, NoneIsNoWord
<1>7. Modes' = Modes /\ Actions' = Actions /\ Passives!Disconnected(mode)' = Passives!Disconnected(mode)
  BY <1>1, SameTree DEF Passives!Disconnected, Passives!Allocated,
     Passives!Reachable, Passives!Met, Passives!Linked, Passives!Serves, Passives!Nodes
<1> QED
  BY <1>1, <1>2, <1>5, <1>6, <1>7 DEF ClickOrderInv, IsOrdering

\* What is said of the next state's modes is said in the same tree.
LEMMA SameTreeNext ==
    ASSUME UNCHANGED tree
    PROVE  /\ Passives!Disconnected(mode)' = Passives!Disconnected(mode')
           /\ Passives!Applied(since, Head(todo), Head(todo).nodes \ pending)' =
                Passives!Applied(since', Head(todo'), Head(todo').nodes \ pending')
           /\ Passives!HasOrder(since, Head(todo))' = Passives!HasOrder(since', Head(todo'))
<1>1. Passives!Nodes' = Passives!Nodes
  BY DEF Passives!Nodes
<1>2. Passives!Disconnected(mode)' = Passives!Disconnected(mode')
  BY <1>1 DEF Passives!Disconnected, Passives!Allocated, Passives!Reachable, Passives!Met,
     Passives!Linked, Passives!Serves
<1>3. Passives!Applied(since, Head(todo), Head(todo).nodes \ pending)' =
        Passives!Applied(since', Head(todo'), Head(todo').nodes \ pending')
  BY <1>1 DEF Passives!Applied
<1>4. Passives!HasOrder(since, Head(todo))' = Passives!HasOrder(since', Head(todo'))
  BY <1>1 DEF Passives!HasOrder, Passives!Disconnected, Passives!Allocated, Passives!Reachable, Passives!Met,
     Passives!Linked, Passives!Serves, Passives!Applied
<1> QED
  BY <1>2, <1>3, <1>4

LEMMA ClickKeeps ==
    ASSUME GoodTree, ClickOrderInv, Passives!Click
    PROVE  ClickOrderInv'
<1> DEFINE action == Head(todo)
           done == action.nodes \ pending
           ready == {n \in pending : Passives!Clickable(mode, action, n)}
<1>1. /\ IsOrdering /\ verdict = None /\ pending # {} /\ UNCHANGED <<tree, query, since>>
      /\ IF ready = {}
         THEN /\ verdict' = "no_order_within_requested_nodes" /\ UNCHANGED <<mode, steps, todo, pending>>
         ELSE /\ mode' = Passives!Applied(mode, action, {Passives!Min(ready)})
              /\ pending' = pending \ {Passives!Min(ready)}
              /\ todo' = IF pending' = {} THEN Tail(todo) ELSE todo
              /\ verdict' = verdict
  BY DEF Passives!Click, Passives!Ordering, IsOrdering
<1>2. /\ todo \in Seq(Actions) /\ todo # << >> /\ mode \in Modes /\ since \in Modes
      /\ \A k \in DOMAIN todo : todo[k].nodes \cap tree.roots = {}
      /\ Passives!Disconnected(mode) = {} /\ Midway(action)
  BY <1>1, NoneIsNoWord DEF ClickOrderInv
<1>3. /\ action \in Actions /\ action.nodes \cap tree.roots = {} /\ Tail(todo) \in Seq(Actions)
      /\ \A k \in DOMAIN Tail(todo) : Tail(todo)[k].nodes \cap tree.roots = {}
  <2>1. /\ action \in Actions /\ action = todo[1] /\ 1 \in DOMAIN todo /\ Tail(todo) \in Seq(Actions)
        /\ \A k \in DOMAIN Tail(todo) : k + 1 \in DOMAIN todo /\ Tail(todo)[k] = todo[k + 1]
    BY <1>2, SeqHeadTail
  <2> HIDE DEF action
  <2> QED
    BY <1>2, <2>1
<1> HIDE DEF action
<1>4. /\ pending \subseteq action.nodes /\ mode = Passives!Applied(since, action, done)
      /\ \A n \in action.nodes : action.give <=> since[n] # None
      /\ done \in SUBSET action.nodes /\ action.nodes \in SUBSET Passives!Nodes /\ action.give \in BOOLEAN
  BY <1>2, <1>3 DEF Midway, Actions
<1>5. ASSUME NEW n \in pending
      PROVE  Passives!Applied(mode, action, {n}) = Passives!Applied(since, action, done \cup {n})
  BY <1>2, <1>3, <1>4, AppliedTwice
<1>6. /\ Modes' = Modes /\ Actions' = Actions
      /\ \A m : Passives!Disconnected(m)' = Passives!Disconnected(m)
      /\ \A m, a : Passives!HasOrder(m, a)' = Passives!HasOrder(m, a)
      /\ \A m, a, D : Passives!Applied(m, a, D)' = Passives!Applied(m, a, D)
  BY <1>1, SameTree
<1>7. CASE ready = {}
  <2>1. ~Passives!HasOrder(since, action)
    <3> SUFFICES ASSUME Passives!HasOrder(since, action) PROVE FALSE
      OBVIOUS
    <3>1. done # action.nodes /\ Passives!Disconnected(Passives!Applied(since, action, done)) = {}
      BY <1>1, <1>2, <1>4
    <3>2. \E x \in action.nodes \ done :
            Passives!Disconnected(Passives!Applied(since, action, done \cup {x})) = {}
      <4>1. CASE action.give
        <5>1. \A n \in action.nodes : since[n] # None
          BY <1>4, <4>1
        <5> HIDE DEF done
        <5> QED
          BY <1>2, <1>3, <1>4, <3>1, <4>1, <5>1, GiveGoesOn
      <4>2. CASE ~action.give
        <5>1. \A n \in action.nodes : since[n] = None /\ ~action.give
          BY <1>4, <4>2
        <5> HIDE DEF done
        <5> QED
          BY <1>2, <1>3, <1>4, <3>1, <5>1, TakeGoesOn
      <4> QED
        BY <1>4, <4>1, <4>2
    <3>3. PICK x \in pending : Passives!Disconnected(Passives!Applied(since, action, done \cup {x})) = {}
      BY <1>4, <3>2
    <3>4. Passives!Clickable(mode, action, x)
      BY <1>5, <3>3 DEF Passives!Clickable
    <3> QED
      BY <1>7, <3>4
  <2>2. /\ UNCHANGED <<tree, query, since, mode, steps, todo, pending>>
        /\ verdict' = "no_order_within_requested_nodes"
    BY <1>1, <1>7
  <2>3. (Passives!Disconnected(mode) = {})' /\ Midway(Head(todo))'
        /\ (~Passives!HasOrder(since, Head(todo)))'
    <3>1. (Passives!Disconnected(mode) = {})'
      BY <1>2, <2>2, SameTreeNext
    <3>2. Midway(Head(todo))'
      BY <1>2, <2>2 DEF Midway, Passives!Applied, Passives!Nodes, action
    <3>3. (~Passives!HasOrder(since, Head(todo)))'
      BY <2>1, <2>2, SameTreeNext DEF action
    <3> QED
      BY <3>1, <3>2, <3>3
  <2> QED
    BY <1>1, <1>2, <1>6, <2>2, <2>3 DEF ClickOrderInv, IsOrdering
<1>8. CASE ready # {}
  <2> DEFINE x == Passives!Min(ready)
  <2>1. x \in pending /\ Passives!Disconnected(Passives!Applied(mode, action, {x})) = {}
    <3>1. ready \in SUBSET Nat
      BY <1>4 DEF GoodTree
    <3>2. x \in ready
      <4> HIDE DEF ready
      <4> QED
        BY <1>8, <3>1, PassivesMin
    <3> QED
      BY <3>2 DEF Passives!Clickable
  <2>2. /\ mode' = Passives!Applied(mode, action, {x}) /\ pending' = pending \ {x}
        /\ todo' = IF pending' = {} THEN Tail(todo) ELSE todo
        /\ verdict' = None /\ UNCHANGED <<tree, query, since>>
    BY <1>1, <1>8
  <2> HIDE DEF x
  <2>3. action.nodes \ (pending \ {x}) = done \cup {x} /\ done \cup {x} \in SUBSET action.nodes
    BY <1>4, <2>1
  <2>4. mode' = Passives!Applied(since, action, action.nodes \ pending') /\ mode' \in Modes
    BY <1>2, <1>3, <1>5, <2>1, <2>2, <2>3, AppliedIs
  <2>5. (Passives!Disconnected(mode) = {})'
    <3>1. Passives!Disconnected(mode') = {}
      BY <2>1, <2>2
    <3> QED
      BY <2>2, <3>1, SameTreeNext
  <2>6. pending' # {} => todo' = todo /\ Midway(Head(todo))'
    <3> SUFFICES ASSUME pending' # {} PROVE todo' = todo /\ Midway(Head(todo))'
      OBVIOUS
    <3>1. todo' = todo /\ Head(todo)' = action /\ pending' \subseteq action.nodes
      BY <1>4, <2>2 DEF action
    <3>2. mode' = Passives!Applied(since, Head(todo), Head(todo).nodes \ pending)'
      BY <2>2, <2>4, <3>1, SameTreeNext DEF action
    <3>3. \A n \in action.nodes : action.give <=> since'[n] # None
      BY <1>4, <2>2
    <3> QED
      BY <3>1, <3>2, <3>3 DEF Midway, action
  <2>7. todo' \in Seq(Actions) /\ \A k \in DOMAIN todo' : todo'[k].nodes \cap tree.roots = {}
    BY <1>2, <1>3, <2>2
  <2> QED
    BY <1>1, <1>2, <1>6, <2>2, <2>4, <2>5, <2>6, <2>7, NoneIsNoWord DEF ClickOrderInv, IsOrdering
<1> QED
  BY <1>7, <1>8

LEMMA EndOrderKeeps ==
    ASSUME ClickOrderInv, Passives!EndOrder
    PROVE  ClickOrderInv'
<1>1. /\ IsOrdering /\ verdict = None /\ todo = << >> /\ verdict' = "verified"
      /\ UNCHANGED <<tree, query, mode, todo, pending, since, steps>>
  BY DEF Passives!EndOrder, Passives!Ordering, IsOrdering
<1>2. /\ todo \in Seq(Actions) /\ mode \in Modes /\ since \in Modes /\ pending = {}
      /\ \A k \in DOMAIN todo : todo[k].nodes \cap tree.roots = {}
      /\ Passives!Disconnected(mode) = {}
  BY <1>1, NoneIsNoWord DEF ClickOrderInv
<1>3. Modes' = Modes /\ Actions' = Actions /\ Passives!Disconnected(mode)' = Passives!Disconnected(mode)
  BY <1>1, SameTree, SameTreeNext
<1> QED
  BY <1>1, <1>2, <1>3 DEF ClickOrderInv, IsOrdering

-------------------------------------------------------------------------------
(* Sets of new nodes and the waves of a search. *)

\* A set that brings in a node from beyond the k-th wave has a node of every wave
\* up to it, and the node itself.
LEMMA BeyondWaves ==
    ASSUME GoodTree, NEW m, NEW w, NEW S \in SUBSET Passives!Nodes,
           NEW starts \in SUBSET (Passives!Nodes \ S),
           NEW from, NEW next, NEW rounds \in Nat, NEW k \in 0 .. rounds, NEW goal \in S,
           goal \in Passives!Reachable(m, w, starts),
           goal \notin Waves(from, next, rounds)[k],
           \A p \in Passives!Reachable(m, w, starts), n \in S :
             Passes(m, w, p, n) => n \in next[p] /\ (p \in S \/ p \in from)
    PROVE  Cardinality(S) > k
<1> DEFINE wave == Waves(from, next, rounds)
           Reached == Passives!Reachable(m, w, starts)
           I == {i \in Nat : i <= k => Cardinality(S \cap wave[i]) >= i}
<1>1. /\ wave[0] = from
      /\ \A i \in 0 .. rounds : i + 1 <= rounds => wave[i + 1] = Beyond(next, wave[i])
      /\ \A i \in 0 .. k : from \subseteq wave[i] /\ wave[i] \subseteq wave[k]
  <2>1. \A i \in 0 .. k : wave[0] \subseteq wave[i] /\ wave[i] \subseteq wave[k]
    BY WavesGrow
  <2> QED
    BY <2>1, WavesIs
<1> HIDE DEF wave
<1>2. IsFiniteSet(S)
  BY FS_Subset DEF GoodTree
<1>3. \A i \in Nat : IsFiniteSet(S \cap wave[i]) /\ Cardinality(S \cap wave[i]) \in Nat
  BY <1>2, FS_Subset, FS_CardinalityType
<1>4. 0 \in I
  <2>1. Cardinality(S \cap wave[0]) \in Nat
    BY <1>3
  <2> QED
    BY <2>1
<1>5. ASSUME NEW i \in Nat, i \in I PROVE i + 1 \in I
  <2> SUFFICES ASSUME i + 1 <= k PROVE Cardinality(S \cap wave[i + 1]) >= i + 1
    OBVIOUS
  <2>1. i \in 0 .. k /\ i \in 0 .. rounds /\ i + 1 <= rounds /\ Cardinality(S \cap wave[i]) >= i
    BY <1>5
  <2>2. wave[i + 1] = Beyond(next, wave[i]) /\ from \subseteq wave[i] /\ wave[i] \subseteq wave[k]
    BY <1>1, <2>1
  <2>3. S \cap wave[i] # S \cap wave[i + 1]
    <3> SUFFICES ASSUME S \cap wave[i] = S \cap wave[i + 1] PROVE FALSE
      OBVIOUS
    <3> DEFINE U == {n \in Reached : n \in S => n \in wave[i]}
    <3>1. starts \subseteq U
      BY ReachIs
    <3>2. ASSUME NEW p \in U \cap Reached, NEW n \in Passives!Nodes, Passes(m, w, p, n) PROVE n \in U
      <4>1. n \in Reached
        BY <3>2, ReachIs
      <4>2. ASSUME n \in S PROVE n \in wave[i]
        <5>1. p \in wave[i] /\ n \in next[p]
          BY <2>2, <3>2, <4>2
        <5>2. n \in wave[i + 1]
          BY <2>2, <5>1 DEF Beyond
        <5> QED
          BY <4>2, <5>2
      <4> QED
        BY <4>1, <4>2
    <3>3. Reached \subseteq U
      <4> HIDE DEF U
      <4> QED
        BY <3>1, <3>2, ReachLeast
    <3> QED
      BY <2>2, <3>3 DEF wave
  <2>4. S \cap wave[i] \in SUBSET (S \cap wave[i + 1]) /\ i + 1 \in Nat
    BY <2>2 DEF Beyond
  <2>5. /\ Cardinality(S \cap wave[i]) <= Cardinality(S \cap wave[i + 1])
        /\ Cardinality(S \cap wave[i + 1]) = Cardinality(S \cap wave[i]) => S \cap wave[i + 1] = S \cap wave[i]
    BY <1>3, <2>4, FS_Subset
  <2>6. Cardinality(S \cap wave[i]) \in Nat /\ Cardinality(S \cap wave[i + 1]) \in Nat
    BY <1>3, <2>4
  <2> QED
    BY <2>1, <2>3, <2>5, <2>6
<1> HIDE DEF I
<1>6. k \in I
  BY <1>4, <1>5, NaturalsIn, SMTT(60)
<1>7. Cardinality(S \cap wave[k]) >= k /\ k \in Nat
  BY <1>6 DEF I
<1>8. (S \cap wave[k]) \cup {goal} \in SUBSET S /\ goal \notin S \cap wave[k]
  BY DEF wave
<1>9. Cardinality((S \cap wave[k]) \cup {goal}) = Cardinality(S \cap wave[k]) + 1
  BY <1>3, <1>7, <1>8, FS_AddElement
<1>10. Cardinality((S \cap wave[k]) \cup {goal}) <= Cardinality(S) /\ Cardinality(S) \in Nat
  BY <1>2, <1>8, FS_Subset, FS_CardinalityType
<1> QED
  BY <1>3, <1>7, <1>9, <1>10

\* A search for weapon set w over nodes that are not taken.
Searches(m, w, from, next, rounds) ==
    /\ \A p \in from : m[p] \in {0, w}
    /\ \A p \in Passives!Nodes : \A n \in next[p] :
         /\ n \in Passives!Nodes /\ Passives!Linked(p, n)
         /\ n \in from \/ (m[n] = None /\ n \notin tree.roots \cup tree.special)
    /\ \A p, n \in Waves(from, next, rounds)[rounds] : tree.asc[p] = tree.asc[n]

\* The node n is brought in by k new nodes of the k-th wave.
Brings(m, w, from, met, k, n) ==
    \E S \in SUBSET (met \ from) :
      /\ IsFiniteSet(S) /\ Cardinality(S) = k /\ n \in S /\ Passives!Loose(Passives!With(m, S, w)) = {}

\* A node of the k-th wave and of none before is brought in by k new nodes.
LEMMA WaveSets ==
    ASSUME GoodTree, NEW m \in Modes, Passives!Loose(m) = {}, NEW w \in {0, 1, 2},
           NEW from \in SUBSET Passives!Nodes, NEW next, NEW rounds \in Nat,
           Searches(m, w, from, next, rounds),
           NEW j \in 1 .. rounds, NEW z \in Waves(from, next, rounds)[j] \ Waves(from, next, rounds)[j - 1]
    PROVE  Brings(m, w, from, Waves(from, next, rounds)[j], j, z)
<1>0. /\ \A p \in from : m[p] \in {0, w}
      /\ \A p \in Passives!Nodes : \A q \in next[p] :
           /\ q \in Passives!Nodes /\ Passives!Linked(p, q)
           /\ q \in from \/ (m[q] = None /\ q \notin tree.roots \cup tree.special)
      /\ \A p, q \in Waves(from, next, rounds)[rounds] : tree.asc[p] = tree.asc[q]
  BY DEF Searches
<1> DEFINE wave == Waves(from, next, rounds)
           Has(l, q, S) == /\ S \in SUBSET (wave[l] \ from) /\ IsFiniteSet(S) /\ Cardinality(S) = l /\ q \in S
                            /\ Passives!Loose(Passives!With(m, S, w)) = {}
           I == {k \in Nat : k + 1 <= rounds => \A n \in wave[k + 1] \ wave[k] : \E S : Has(k + 1, n, S)}
<1>1. /\ wave[0] = from
      /\ \A i \in 0 .. rounds : i + 1 <= rounds => wave[i + 1] = Beyond(next, wave[i])
      /\ \A i \in 0 .. rounds : from \subseteq wave[i] /\ wave[i] \subseteq wave[rounds]
      /\ \A i \in 0 .. rounds : wave[i] \subseteq Passives!Nodes
  <2>1. \A i \in 0 .. rounds : wave[0] \subseteq wave[i] /\ wave[i] \subseteq wave[rounds]
    BY WavesGrow
  <2>2. \A i \in 0 .. rounds : wave[i] \subseteq Passives!Nodes
    BY <1>0, WavesWithin
  <2> QED
    BY <2>1, <2>2, WavesIs
<1>2. \A p, n \in wave[rounds] : tree.asc[p] = tree.asc[n]
  BY <1>0
<1> HIDE DEF wave
<1>3. ASSUME NEW k \in Nat, k + 1 <= rounds, NEW n \in wave[k + 1] \ wave[k],
             NEW S \in SUBSET (wave[k] \ from), IsFiniteSet(S), Cardinality(S) = k,
             NEW p \in wave[k], n \in next[p], p \in from \cup S,
             Passives!Loose(Passives!With(m, S, w)) = {}
      PROVE  Has(k + 1, n, S \cup {n})
  <2>1. k \in 0 .. rounds /\ k + 1 \in 0 .. rounds
    BY <1>3
  <2>2. /\ wave[k] \subseteq wave[k + 1] /\ wave[k + 1] \subseteq wave[rounds] /\ from \subseteq wave[k]
        /\ wave[k + 1] \subseteq Passives!Nodes
    BY <1>1, <2>1 DEF Beyond
  <2>3. /\ n \in Passives!Nodes /\ n \notin from /\ n \notin S /\ p \in Passives!Nodes
        /\ Passives!Linked(p, n) /\ m[n] = None /\ n \notin tree.roots \cup tree.special
        /\ tree.asc[p] = tree.asc[n]
    BY <1>0, <1>2, <1>3, <2>2
  <2>4. IsFiniteSet(S \cup {n}) /\ Cardinality(S \cup {n}) = k + 1
    BY <1>3, <2>3, FS_AddElement
  <2> DEFINE more == Passives!With(m, S, w)
  <2>5. /\ more \in Modes /\ more[n] = None /\ more[p] \in {0, w}
        /\ Passives!With(more, {n}, w) = Passives!With(m, S \cup {n}, w)
    BY <1>0, <1>3, <2>3 DEF Modes, Passives!With
  <2> HIDE DEF more
  <2>6. Passives!Loose(more) = {}
    BY <1>3 DEF more
  <2>7. Passives!Loose(Passives!With(more, {n}, w)) = {}
    BY <2>3, <2>5, <2>6, LooseAdd
  <2>8. S \cup {n} \in SUBSET (wave[k + 1] \ from)
    BY <2>2, <2>3
  <2> QED
    BY <2>4, <2>5, <2>7, <2>8
<1>4. 0 \in I
  <2> SUFFICES ASSUME 0 + 1 <= rounds, NEW n \in wave[0 + 1] \ wave[0] PROVE \E S : Has(0 + 1, n, S)
    OBVIOUS
  <2>1. PICK p \in wave[0] : n \in next[p]
    <3>1. wave[0 + 1] = Beyond(next, wave[0])
      BY <1>1
    <3> QED
      BY <3>1 DEF Beyond
  <2>2. Passives!With(m, {}, w) = m
    BY DEF Modes, Passives!With
  <2>3. {} \in SUBSET (wave[0] \ from) /\ IsFiniteSet({}) /\ Cardinality({}) = 0 /\ p \in from \cup {}
    BY <1>1, FS_EmptySet
  <2>4. Has(0 + 1, n, {} \cup {n})
    <3> HIDE DEF Has
    <3> QED
      BY <1>3, <2>1, <2>2, <2>3
  <2> QED
    BY <2>4
<1>5. ASSUME NEW k \in Nat, k \in I PROVE k + 1 \in I
  <2> SUFFICES ASSUME (k + 1) + 1 <= rounds, NEW n \in wave[(k + 1) + 1] \ wave[k + 1]
               PROVE  \E S : Has((k + 1) + 1, n, S)
    OBVIOUS
  <2>1. k \in 0 .. rounds /\ k + 1 \in 0 .. rounds /\ k + 1 <= rounds /\ k + 1 \in Nat
    OBVIOUS
  <2>2. wave[(k + 1) + 1] = Beyond(next, wave[k + 1]) /\ wave[k + 1] = Beyond(next, wave[k])
    BY <1>1, <2>1
  <2>3. PICK p \in wave[k + 1] : n \in next[p]
    BY <2>2 DEF Beyond
  <2>4. p \notin wave[k]
    BY <2>2, <2>3 DEF Beyond
  <2>5. PICK S : Has(k + 1, p, S)
    BY <1>5, <2>1, <2>3, <2>4
  <2>6. Has((k + 1) + 1, n, S \cup {n})
    <3>1. /\ S \in SUBSET (wave[k + 1] \ from) /\ IsFiniteSet(S) /\ Cardinality(S) = k + 1 /\ p \in S
          /\ Passives!Loose(Passives!With(m, S, w)) = {}
      BY <2>5
    <3> HIDE DEF Has
    <3> QED
      BY <1>3, <2>1, <2>3, <3>1
  <2> QED
    BY <2>6
<1>6. Nat \subseteq I
  <2> HIDE DEF I
  <2> QED
    BY <1>4, <1>5, NaturalsIn
<1>7. ASSUME NEW k \in 1 .. rounds, NEW n \in wave[k] \ wave[k - 1] PROVE \E S : Has(k, n, S)
  <2>1. k - 1 \in Nat /\ (k - 1) + 1 = k /\ k <= rounds
    OBVIOUS
  <2>2. k - 1 \in I
    BY <1>6, <2>1
  <2> QED
    BY <1>7, <2>1, <2>2
<1>8. z \in wave[j] \ wave[j - 1]
  BY DEF wave
<1>9. PICK S : Has(j, z, S)
  BY <1>7, <1>8
<1> QED
  BY <1>9 DEF wave, Brings

-------------------------------------------------------------------------------
(* End points. *)

Endings(m, w) == {n \in Passives!Allocated(m) \ tree.special : Passives!Serves(m, w, n) /\ tree.asc[n] = None}
Opens(m, w, n) ==
    /\ n \notin tree.special \cup tree.roots /\ m[n] = None
    /\ tree.asc[n] = None /\ ~Passives!Barred(w, n)
Onward(m, w) == [p \in Passives!Nodes |-> {n \in Passives!Nodes : Passives!Linked(p, n) /\ Opens(m, w, n)}]
Hopped(m, w) == Waves(Endings(m, w), Onward(m, w), Hops)

LEMMA DiscoverableIs ==
    ASSUME NEW m, NEW w
    PROVE  Passives!Discoverable(m, w, Hops) =
             {row \in [node : {n \in Passives!Nodes : tree.kind[n] = "Normal"}, d : 1..Hops] :
                row.node \in Hopped(m, w)[row.d] \ Hopped(m, w)[row.d - 1]}
BY PassivesWaves DEF Passives!Discoverable, Hopped, Onward, Opens, Endings

LEMMA ExtensionsIs ==
    ASSUME NEW m, NEW w, NEW goal, NEW S
    PROVE  S \in Passives!Extensions(m, w, goal) <=>
             /\ \A n \in S : /\ n \in Passives!Nodes \ (tree.roots \cup tree.special)
                             /\ m[n] = None /\ ~Passives!Barred(w, n) /\ tree.asc[n] = tree.asc[goal]
             /\ goal \in S /\ Passives!Loose(Passives!With(m, S, w)) = {}
BY DEF Passives!Extensions

LEMMA HoppedIs ==
    ASSUME GoodTree, NEW m \in Modes, NEW w \in {0, 1, 2}
    PROVE  /\ Endings(m, w) \in SUBSET Passives!Nodes
           /\ \A p \in Passives!Nodes : \A n \in Onward(m, w)[p] :
                n \in Passives!Nodes /\ Passives!Linked(p, n) /\ Opens(m, w, n)
           /\ \A k \in 0 .. Hops : \A n \in Hopped(m, w)[k] :
                n \in Endings(m, w) \/ (n \in Passives!Nodes /\ Opens(m, w, n))
<1> DEFINE U == {n \in Passives!Nodes : n \in Endings(m, w) \/ Opens(m, w, n)}
<1>1. Hops \in Nat
  BY TreesAssumption
<1>2. Endings(m, w) \in SUBSET Passives!Nodes
  BY DEF Endings, Passives!Allocated
<1>3. \A p \in Passives!Nodes : \A n \in Onward(m, w)[p] :
        n \in Passives!Nodes /\ Passives!Linked(p, n) /\ Opens(m, w, n)
  BY DEF Onward
<1>4. Endings(m, w) \subseteq U /\ \A p \in U : Onward(m, w)[p] \subseteq U
  BY <1>2, <1>3
<1>5. \A k \in 0 .. Hops : Hopped(m, w)[k] \subseteq U
  <2> HIDE DEF U
  <2> QED
    BY <1>1, <1>4, WavesWithin DEF Hopped
<1> QED
  BY <1>2, <1>3, <1>5

\* A listed end point is brought in by as many nodes as it says.
LEMMA ListedIsHad ==
    ASSUME GoodTree, NEW m \in Modes, NEW w \in {0, 1, 2}, Passives!Loose(m) = {},
           NEW d \in 1 .. Hops, NEW goal \in Hopped(m, w)[d] \ Hopped(m, w)[d - 1]
    PROVE  \E S \in Passives!Extensions(m, w, goal) : Cardinality(S) = d
<1>1. Hops \in Nat
  BY TreesAssumption
<1>2. \A n \in Endings(m, w) : m[n] \in {0, w}
  BY DEF Endings, Passives!Serves
<1>3. \A p \in Passives!Nodes : \A n \in Onward(m, w)[p] :
        /\ n \in Passives!Nodes /\ Passives!Linked(p, n)
        /\ n \in Endings(m, w) \/ (m[n] = None /\ n \notin tree.roots \cup tree.special)
  BY HoppedIs DEF Opens
<1>4. \A k \in 0 .. Hops : \A n \in Hopped(m, w)[k] : tree.asc[n] = None
  BY HoppedIs DEF Opens, Endings
<1>5. PICK S \in SUBSET (Hopped(m, w)[d] \ Endings(m, w)) :
        IsFiniteSet(S) /\ Cardinality(S) = d /\ goal \in S /\ Passives!Loose(Passives!With(m, S, w)) = {}
  <2>1. \A p, n \in Hopped(m, w)[Hops] : tree.asc[p] = tree.asc[n]
    BY <1>1, <1>4
  <2>2. Endings(m, w) \in SUBSET Passives!Nodes
    BY HoppedIs
  <2>3. Searches(m, w, Endings(m, w), Onward(m, w), Hops)
    BY <1>2, <1>3, <2>1 DEF Searches, Hopped
  <2>4. goal \in Waves(Endings(m, w), Onward(m, w), Hops)[d] \ Waves(Endings(m, w), Onward(m, w), Hops)[d - 1]
    BY DEF Hopped
  <2>5. Brings(m, w, Endings(m, w), Hopped(m, w)[d], d, goal)
    BY <1>1, <2>2, <2>3, <2>4, WaveSets DEF Hopped
  <2> QED
    BY <2>5 DEF Brings
<1>6. d \in 0 .. Hops
  BY <1>1
<1>7. \A n \in S : n \in Passives!Nodes /\ Opens(m, w, n)
  BY <1>5, <1>6, HoppedIs
<1>8. S \in Passives!Extensions(m, w, goal)
  BY <1>5, <1>7, ExtensionsIs DEF Opens
<1> QED
  BY <1>5, <1>8

\* Where no node with a rule of its own is taken, a set that brings an ordinary node
\* in has at least as many nodes as the search needs rounds.
LEMMA HadIsListed ==
    ASSUME GoodTree, NEW m \in Modes, NEW w \in {0, 1, 2}, \A n \in tree.roots : m[n] = 0,
           Passives!Allocated(m) \cap tree.special = {},
           NEW goal \in Passives!Nodes, tree.asc[goal] = None,
           NEW S \in Passives!Extensions(m, w, goal), Cardinality(S) <= Hops
    PROVE  \E d \in 1 .. Hops : d <= Cardinality(S) /\ goal \in Hopped(m, w)[d] \ Hopped(m, w)[d - 1]
<1>1. Hops \in Nat /\ None \notin {0, 1, 2}
  BY TreesAssumption, NoneIsNoMode
<1>2. /\ \A n \in S : /\ n \in Passives!Nodes \ (tree.roots \cup tree.special)
                      /\ m[n] = None /\ ~Passives!Barred(w, n) /\ tree.asc[n] = None
      /\ goal \in S /\ Passives!Loose(Passives!With(m, S, w)) = {}
  BY ExtensionsIs
<1>3. IsFiniteSet(S) /\ Cardinality(S) \in Nat /\ S \in SUBSET Passives!Nodes
  <2>1. S \in SUBSET Passives!Nodes
    BY <1>2
  <2> QED
    BY <2>1, FS_Subset, FS_CardinalityType DEF GoodTree
<1> DEFINE more == Passives!With(m, S, w)
           starts == Starts(more, w)
<1>4. more \in Modes /\ \A n \in Passives!Nodes : more[n] = IF n \in S THEN w ELSE m[n]
  BY DEF Modes, Passives!With
<1>5. starts \in SUBSET (Passives!Nodes \ S)
  BY <1>2 DEF Starts, GoodTree
<1>6. goal \in Passives!Reachable(more, w, starts)
  <2>1. more[goal] = w /\ more[goal] # None /\ goal \in Passives!Nodes \ (tree.roots \cup tree.special)
    BY <1>1, <1>2, <1>4
  <2> HIDE DEF more
  <2> QED
    BY <1>2, <2>1, LooseIs DEF more
<1> HIDE DEF more
<1>7. ASSUME NEW p \in Passives!Reachable(more, w, starts), NEW n \in S, Passes(more, w, p, n)
      PROVE  n \in Onward(m, w)[p] /\ (p \in S \/ p \in Endings(m, w))
  <2>1. p \in Passives!Nodes /\ (p \in starts \/ Passives!Serves(more, w, p))
    BY <1>5, ReachIs, ReachServes
  <2>2. n \in Onward(m, w)[p]
    BY <1>2, <1>7, <2>1 DEF Onward, Opens, Passes
  <2>3. ASSUME p \notin S PROVE p \in Endings(m, w)
    <3>1. m[p] \in {0, w}
      <4>1. CASE p \in tree.roots
        BY <4>1
      <4>2. CASE p \notin tree.roots
        <5>1. Passives!Serves(more, w, p)
          BY <2>1, <4>2 DEF Starts
        <5> QED
          BY <1>4, <2>1, <2>3, <5>1 DEF Passives!Serves
      <4> QED
        BY <4>1, <4>2
    <3>2. p \in Passives!Allocated(m)
      BY <1>1, <2>1, <3>1 DEF Passives!Allocated
    <3>3. tree.asc[p] = None
      BY <1>2, <1>7 DEF Passes
    <3> QED
      BY <3>1, <3>2, <3>3 DEF Endings, Passives!Serves
  <2> QED
    BY <2>2, <2>3
<1> DEFINE near == {k \in 0 .. Hops : goal \in Hopped(m, w)[k]}
<1>8. Cardinality(S) \in near
  <2> SUFFICES ASSUME goal \notin Hopped(m, w)[Cardinality(S)] PROVE FALSE
    BY <1>3
  <2>1. Cardinality(S) \in 0 .. Hops
    BY <1>3
  <2>2. Cardinality(S) > Cardinality(S)
    <3> HIDE DEF starts
    <3> QED
      BY <1>1, <1>2, <1>3, <1>5, <1>6, <1>7, <2>1, BeyondWaves DEF Hopped
  <2> QED
    BY <1>3, <2>2
<1>9. PICK d \in near : \A k \in near : d <= k
  <2>1. near \in SUBSET Nat /\ near # {}
    BY <1>1, <1>8
  <2> HIDE DEF near
  <2> QED
    BY <2>1, LeastNatural
<1>10. d <= Cardinality(S) /\ d \in 0 .. Hops /\ goal \in Hopped(m, w)[d]
  BY <1>8, <1>9
<1>11. d # 0
  <2>1. Hopped(m, w)[0] = Endings(m, w)
    BY <1>1, WavesIs DEF Hopped
  <2>2. goal \notin Endings(m, w)
    BY <1>2 DEF Endings, Passives!Allocated
  <2> QED
    BY <1>10, <2>1, <2>2
<1>12. d \in 1 .. Hops /\ d - 1 \in 0 .. Hops /\ ~ (d <= d - 1)
  BY <1>1, <1>10, <1>11
<1>13. goal \notin Hopped(m, w)[d - 1]
  BY <1>9, <1>12
<1> QED
  BY <1>10, <1>12, <1>13

-------------------------------------------------------------------------------
(* Points. *)

Ordinary(m) == {n \in Passives!Allocated(m) \ (tree.roots \cup tree.special) : tree.asc[n] = None}
OfSet(m, v) == {n \in Ordinary(m) : m[n] = v}

LEMMA PointCountsIs ==
    ASSUME NEW m
    PROVE  /\ Passives!PointCounts(m).ordinary =
                Cardinality(Ordinary(m)) - Passives!Min({Cardinality(OfSet(m, 1)), Cardinality(OfSet(m, 2))})
           /\ Passives!PointCounts(m).weapon = <<Cardinality(OfSet(m, 1)), Cardinality(OfSet(m, 2))>>
BY PassivesCardinality DEF Passives!PointCounts, Ordinary, OfSet

\* What a set of new nodes adds to the counts.
LEMMA PointsAdded ==
    ASSUME GoodTree, NEW m \in Modes, NEW w \in {0, 1, 2}, NEW goal, tree.asc[goal] = None,
           NEW S \in Passives!Extensions(m, w, goal)
    PROVE  /\ Cardinality(S) \in Nat /\ Cardinality(Ordinary(m)) \in Nat
           /\ Cardinality(Ordinary(Passives!With(m, S, w))) = Cardinality(Ordinary(m)) + Cardinality(S)
           /\ \A v \in {1, 2} :
                /\ Cardinality(OfSet(m, v)) \in Nat
                /\ Cardinality(OfSet(Passives!With(m, S, w), v)) =
                     Cardinality(OfSet(m, v)) + IF v = w THEN Cardinality(S) ELSE 0
<1> DEFINE more == Passives!With(m, S, w)
<1>1. \A n \in S : n \in Passives!Nodes \ (tree.roots \cup tree.special) /\ m[n] = None /\ tree.asc[n] = None
  BY ExtensionsIs
<1>2. \A n \in Passives!Nodes : more[n] = IF n \in S THEN w ELSE m[n]
  BY DEF Passives!With
<1> HIDE DEF more
<1>3. None \notin {0, 1, 2}
  BY NoneIsNoMode
<1>4. Ordinary(more) = Ordinary(m) \cup S /\ Ordinary(m) \cap S = {}
  BY <1>1, <1>2, <1>3 DEF Ordinary, Passives!Allocated
<1>5. IsFiniteSet(S) /\ IsFiniteSet(Ordinary(m))
  <2>1. S \subseteq Passives!Nodes /\ Ordinary(m) \subseteq Passives!Nodes
    BY <1>1 DEF Ordinary, Passives!Allocated
  <2> QED
    BY <2>1, FS_Subset DEF GoodTree
<1>6. /\ Cardinality(S) \in Nat /\ Cardinality(Ordinary(m)) \in Nat
      /\ Cardinality(Ordinary(more)) = Cardinality(Ordinary(m)) + Cardinality(S)
  <2>1. /\ Cardinality(S) \in Nat /\ Cardinality(Ordinary(m)) \in Nat
        /\ Cardinality(Ordinary(m) \cup S) = Cardinality(Ordinary(m)) + Cardinality(S) - Cardinality(Ordinary(m) \cap S)
    BY <1>5, FS_Union, FS_CardinalityType
  <2>2. Cardinality(Ordinary(m) \cap S) = 0
    <3>1. Cardinality({}) = 0
      BY FS_EmptySet
    <3> QED
      BY <1>4, <3>1
  <2> QED
    BY <1>4, <2>1, <2>2
<1>7. ASSUME NEW v \in {1, 2}
      PROVE  /\ Cardinality(OfSet(m, v)) \in Nat
             /\ Cardinality(OfSet(more, v)) = Cardinality(OfSet(m, v)) + IF v = w THEN Cardinality(S) ELSE 0
  <2>1. IsFiniteSet(OfSet(m, v)) /\ OfSet(m, v) \cap S = {} /\ Cardinality(OfSet(m, v)) \in Nat
    <3>1. OfSet(m, v) \subseteq Ordinary(m)
      BY DEF OfSet
    <3> QED
      BY <1>4, <1>5, <3>1, FS_Subset, FS_CardinalityType
  <2>2. CASE v = w
    <3>1. OfSet(more, v) = OfSet(m, v) \cup S
      BY <1>1, <1>2, <1>4, <2>2 DEF OfSet, Ordinary, Passives!Allocated
    <3>2. Cardinality(OfSet(m, v) \cup S) = Cardinality(OfSet(m, v)) + Cardinality(S) - Cardinality(OfSet(m, v) \cap S)
      BY <1>5, <2>1, FS_Union
    <3>3. Cardinality(OfSet(m, v) \cap S) = 0
      <4>1. Cardinality({}) = 0
        BY FS_EmptySet
      <4> QED
        BY <2>1, <4>1
    <3> QED
      BY <1>6, <2>1, <2>2, <3>1, <3>2, <3>3
  <2>3. CASE v # w
    <3>1. OfSet(more, v) = OfSet(m, v)
      BY <1>1, <1>2, <1>3, <1>4, <2>3 DEF OfSet, Ordinary, Passives!Allocated
    <3> QED
      BY <2>1, <2>3, <3>1
  <2> QED
    BY <2>2, <2>3
<1> QED
  BY <1>6, <1>7 DEF more

\* The points of a path are what taking as many new nodes spends.
LEMMA PointsAgree ==
    ASSUME GoodTree, NEW w \in {0, 1, 2}, NEW goal, tree.asc[goal] = None,
           NEW S \in Passives!Extensions(tree.mode, w, goal)
    PROVE  LET spends == Passives!Spent(Passives!With(tree.mode, S, w), w)
           IN  Passives!PathPoints(tree.mode, w, Cardinality(S)) =
                 [ordinary |-> spends.ordinary, weapon |-> spends.weapon]
<1> DEFINE m == tree.mode
           more == Passives!With(m, S, w)
           d == Cardinality(S)
           was(v) == Cardinality(OfSet(m, v))
           is(v) == Cardinality(OfSet(more, v))
<1>1. /\ d \in Nat /\ Cardinality(Ordinary(m)) \in Nat
      /\ Cardinality(Ordinary(more)) = Cardinality(Ordinary(m)) + d
      /\ was(1) \in Nat /\ was(2) \in Nat
      /\ is(1) = was(1) + (IF 1 = w THEN d ELSE 0) /\ is(2) = was(2) + (IF 2 = w THEN d ELSE 0)
  BY PointsAdded DEF GoodTree
<1>2. /\ Passives!PointCounts(m).ordinary = Cardinality(Ordinary(m)) - Passives!Min({was(1), was(2)})
      /\ Passives!PointCounts(m).weapon = <<was(1), was(2)>>
      /\ Passives!PointCounts(more).ordinary = Cardinality(Ordinary(more)) - Passives!Min({is(1), is(2)})
      /\ Passives!PointCounts(more).weapon = <<is(1), is(2)>>
  BY PointCountsIs
<1>3. Passives!PathPoints(m, w, d) =
        [ordinary |-> d - (Passives!Min({was(1) + (IF 1 = w THEN d ELSE 0), was(2) + (IF 2 = w THEN d ELSE 0)})
                           - Passives!Min({was(1), was(2)})),
         weapon |-> IF w = 0 THEN 0 ELSE d]
  <2>1. <<was(1), was(2)>>[1] = was(1) /\ <<was(1), was(2)>>[2] = was(2)
    OBVIOUS
  <2> HIDE DEF m, was, d
  <2> QED
    BY <1>2, <2>1 DEF Passives!PathPoints
<1>4. /\ Passives!Spent(more, w).ordinary = Passives!PointCounts(more).ordinary - Passives!PointCounts(m).ordinary
      /\ Passives!Spent(more, w).weapon =
           IF w = 0 THEN 0 ELSE Passives!PointCounts(more).weapon[w] - Passives!PointCounts(m).weapon[w]
  BY DEF Passives!Spent
<1> HIDE DEF m, more, d, was, is
<1>5. Passives!Min({was(1), was(2)}) \in Nat /\ Passives!Min({is(1), is(2)}) \in Nat
  <2>1. \A a, b \in Nat : Passives!Min({a, b}) \in Nat
    <3> SUFFICES ASSUME NEW a \in Nat, NEW b \in Nat PROVE Passives!Min({a, b}) \in Nat
      OBVIOUS
    <3>1. {a, b} \in SUBSET Nat /\ {a, b} # {}
      OBVIOUS
    <3> QED
      BY <3>1, PassivesMin
  <2>2. is(1) \in Nat /\ is(2) \in Nat
    BY <1>1
  <2> QED
    BY <1>1, <2>1, <2>2
<1>6. Passives!Spent(more, w).ordinary = d - (Passives!Min({is(1), is(2)}) - Passives!Min({was(1), was(2)}))
  BY <1>1, <1>2, <1>4, <1>5
<1>7. Passives!Spent(more, w).weapon = IF w = 0 THEN 0 ELSE d
  <2>1. CASE w = 0
    BY <1>4, <2>1
  <2>2. CASE w = 1
    BY <1>1, <1>2, <1>4, <2>2
  <2>3. CASE w = 2
    BY <1>1, <1>2, <1>4, <2>3
  <2> QED
    BY <2>1, <2>2, <2>3
<1>8. Passives!PathPoints(m, w, d) =
        [ordinary |-> d - (Passives!Min({is(1), is(2)}) - Passives!Min({was(1), was(2)})),
         weapon |-> IF w = 0 THEN 0 ELSE d]
  BY <1>1, <1>3
<1>9. Passives!PathPoints(m, w, d) = [ordinary |-> Passives!Spent(more, w).ordinary, weapon |-> Passives!Spent(more, w).weapon]
  BY <1>6, <1>7, <1>8
<1> QED
  BY <1>9 DEF m, more, d

\* Before anything is asked the end points listed are right.
LEMMA CandidatesAreRight ==
    ASSUME GoodTree, Fresh
    PROVE  Passives!CandidatesAgree
<1> SUFFICES ASSUME query = None, Passives!Disconnected(mode) \subseteq tree.special, NEW w \in 0..2
             PROVE  LET rows == Passives!Discoverable(mode, w, Hops)
                    IN  /\ \A row \in rows :
                             LET sets == {S \in Passives!Extensions(mode, w, row.node) : Passives!Cardinality(S) = row.d}
                             IN  /\ sets # {}
                                 /\ \A S \in sets :
                                      LET spends == Passives!Spent(Passives!With(mode, S, w), w)
                                      IN  Passives!PathPoints(mode, w, row.d) =
                                            [ordinary |-> spends.ordinary, weapon |-> spends.weapon]
                        /\ Passives!Allocated(mode) \cap tree.special = {} =>
                             \A goal \in {n \in Passives!Nodes : tree.kind[n] = "Normal" /\ tree.asc[n] = None} :
                               \A S \in Passives!Extensions(mode, w, goal) :
                                 \/ Passives!Cardinality(S) > Hops
                                 \/ \E row \in rows : row.node = goal /\ row.d <= Passives!Cardinality(S)
  BY DEF Passives!CandidatesAgree
<1> DEFINE rows == Passives!Discoverable(mode, w, Hops)
<1>1. /\ w \in {0, 1, 2} /\ mode = tree.mode /\ mode \in Modes /\ Passives!Loose(mode) = {}
      /\ \A n \in tree.roots : mode[n] = 0
  <2>1. mode = tree.mode /\ mode \in Modes /\ \A n \in tree.roots : mode[n] = 0
    BY DEF Fresh, GoodTree
  <2>2. Passives!Loose(mode) = {}
    BY <2>1, DisconnectedLoose
  <2> QED
    BY <2>1, <2>2
<1>2. Hops \in Nat
  BY TreesAssumption
<1>3. rows = {row \in [node : {n \in Passives!Nodes : tree.kind[n] = "Normal"}, d : 1..Hops] :
                row.node \in Hopped(mode, w)[row.d] \ Hopped(mode, w)[row.d - 1]}
  BY DiscoverableIs
<1> HIDE DEF rows
<1>4. ASSUME NEW row \in rows
      PROVE  \E S \in Passives!Extensions(mode, w, row.node) : Cardinality(S) = row.d
  <2>1. row.d \in 1..Hops /\ row.node \in Hopped(mode, w)[row.d] \ Hopped(mode, w)[row.d - 1]
    BY <1>3
  <2> QED
    BY <1>1, <2>1, ListedIsHad
<1>5. ASSUME NEW row \in rows, NEW S \in Passives!Extensions(mode, w, row.node), Cardinality(S) = row.d
      PROVE  LET spends == Passives!Spent(Passives!With(mode, S, w), w)
             IN  Passives!PathPoints(mode, w, row.d) = [ordinary |-> spends.ordinary, weapon |-> spends.weapon]
  <2>1. row.d \in 1..Hops /\ row.d \in 0..Hops /\ row.node \in Hopped(mode, w)[row.d]
    BY <1>2, <1>3
  <2>2. tree.asc[row.node] = None
    BY <1>1, <2>1, HoppedIs DEF Opens, Endings
  <2> QED
    BY <1>1, <1>5, <2>2, PointsAgree
<1>6. ASSUME Passives!Allocated(mode) \cap tree.special = {},
             NEW goal \in Passives!Nodes, tree.kind[goal] = "Normal", tree.asc[goal] = None,
             NEW S \in Passives!Extensions(mode, w, goal), ~(Cardinality(S) > Hops)
      PROVE  \E row \in rows : row.node = goal /\ row.d <= Cardinality(S)
  <2>1. Cardinality(S) <= Hops
    <3>1. Cardinality(S) \in Nat
      BY <1>1, <1>6, PointsAdded
    <3> QED
      BY <1>2, <1>6, <3>1
  <2>2. PICK d \in 1..Hops : d <= Cardinality(S) /\ goal \in Hopped(mode, w)[d] \ Hopped(mode, w)[d - 1]
    BY <1>1, <1>6, <2>1, HadIsListed
  <2>3. [node |-> goal, d |-> d] \in rows
    BY <1>3, <1>6, <2>2
  <2> QED
    BY <2>2, <2>3
<1>7. \A S : Passives!Cardinality(S) = Cardinality(S)
  BY PassivesCardinality
<1>8. \A row \in rows :
        LET sets == {S \in Passives!Extensions(mode, w, row.node) : Passives!Cardinality(S) = row.d}
        IN  /\ sets # {}
            /\ \A S \in sets :
                 LET spends == Passives!Spent(Passives!With(mode, S, w), w)
                 IN  Passives!PathPoints(mode, w, row.d) = [ordinary |-> spends.ordinary, weapon |-> spends.weapon]
  BY <1>4, <1>5, <1>7
<1>9. Passives!Allocated(mode) \cap tree.special = {} =>
        \A goal \in {n \in Passives!Nodes : tree.kind[n] = "Normal" /\ tree.asc[n] = None} :
          \A S \in Passives!Extensions(mode, w, goal) :
            Passives!Cardinality(S) > Hops \/ \E row \in rows : row.node = goal /\ row.d <= Passives!Cardinality(S)
  BY <1>6, <1>7
<1> QED
  BY <1>8, <1>9 DEF rows

-------------------------------------------------------------------------------
(* Routes: the search for one target. *)

Count == Cardinality(Passives!Nodes)
Ways(w, goal) == [p \in Passives!Nodes |->
                    {n \in Passives!Nodes : Passives!Linked(p, n) /\ Passives!Passable(w, goal, n)}]

LEMMA SearchIs ==
    ASSUME NEW w, NEW goal
    PROVE  Passives!Search(w, goal) = Waves(Passives!Sources(w, goal), Ways(w, goal), Count)
BY PassivesWaves, PassivesCardinality DEF Passives!Search, Ways, Count

LEMMA SearchMeets ==
    ASSUME GoodTree, NEW w, NEW goal
    PROVE  /\ Count \in Nat /\ DOMAIN Passives!Search(w, goal) = 0 .. Count
           /\ Passives!Sources(w, goal) \in SUBSET Passives!Nodes
           /\ Passives!Search(w, goal)[0] = Passives!Sources(w, goal)
           /\ \A k \in 0 .. Count : \A n \in Passives!Search(w, goal)[k] :
                n \in Passives!Nodes /\ (n \in Passives!Sources(w, goal) \/ Passives!Passable(w, goal, n))
<1> DEFINE U == {n \in Passives!Nodes : n \in Passives!Sources(w, goal) \/ Passives!Passable(w, goal, n)}
<1>1. Count \in Nat
  BY FS_CardinalityType DEF GoodTree, Count
<1>2. Passives!Sources(w, goal) \in SUBSET Passives!Nodes
  BY DEF Passives!Sources, Passives!Allocated
<1>3. Passives!Sources(w, goal) \subseteq U /\ \A p \in U : Ways(w, goal)[p] \subseteq U
  BY <1>2 DEF Ways
<1>4. \A k \in 0 .. Count : Passives!Search(w, goal)[k] \subseteq U
  <2> HIDE DEF U
  <2> QED
    BY <1>1, <1>3, WavesWithin, SearchIs
<1> QED
  BY <1>1, <1>2, <1>4, WavesIs, SearchIs

\* The distance is the number of the first wave.
LEMMA DistanceIs ==
    ASSUME GoodTree, NEW w, NEW goal, NEW j \in 0 .. Count, NEW n \in Passives!Search(w, goal)[j]
    PROVE  LET d == Passives!Distance(Passives!Search(w, goal), n)
           IN  /\ d \in 0 .. j /\ n \in Passives!Search(w, goal)[d]
               /\ \A i \in 0 .. Count : n \in Passives!Search(w, goal)[i] => d <= i
<1> DEFINE near == {k \in DOMAIN Passives!Search(w, goal) : n \in Passives!Search(w, goal)[k]}
<1>1. Count \in Nat /\ DOMAIN Passives!Search(w, goal) = 0 .. Count
  BY SearchMeets
<1>2. near \in SUBSET Nat /\ j \in near /\ near = {k \in 0 .. Count : n \in Passives!Search(w, goal)[k]}
  BY <1>1
<1>3. Passives!Distance(Passives!Search(w, goal), n) = Passives!Min(near)
  BY DEF Passives!Distance
<1>4. Passives!Min(near) \in near /\ \A k \in near : Passives!Min(near) <= k
  <2> HIDE DEF near
  <2> QED
    BY <1>2, PassivesMin
<1> HIDE DEF near
<1> QED
  BY <1>1, <1>2, <1>3, <1>4

\* A path is a line of different nodes that may be passed, from a source to the goal.
IsPath(w, goal, d, p) ==
    /\ p \in [1 .. d -> Passives!Nodes] /\ p[d] = goal
    /\ \A k \in 1 .. d : Passives!Passable(w, goal, p[k]) /\ p[k] \notin Passives!Sources(w, goal)
    /\ \A j, k \in 1 .. d : p[j] = p[k] => j = k
    /\ \A k \in 1 .. d - 1 : Passives!Linked(p[k], p[k + 1])
    /\ \E s \in Passives!Sources(w, goal) : Passives!Linked(s, p[1])

\* The goal is met first in the d-th wave.
MetAt(w, goal, d) ==
    /\ d \in 1 .. Count /\ goal \in Passives!Search(w, goal)[d] \ Passives!Search(w, goal)[d - 1]

LEMMA PathIs ==
    ASSUME GoodTree, NEW w, NEW goal, mode[goal] = None, goal \in Passives!Search(w, goal)[Count],
           NEW p \in Passives!Paths(w, goal)
    PROVE  \E d : MetAt(w, goal, d) /\ IsPath(w, goal, d, p)
<1> DEFINE wave == Passives!Search(w, goal)
           d == Passives!Distance(wave, goal)
<1>1. /\ p \in [1 .. d -> wave[d]] /\ p[d] = goal
      /\ \A k \in 1 .. d : Passives!Distance(wave, p[k]) = k
      /\ \A k \in 1 .. d - 1 : Passives!Linked(p[k], p[k + 1])
      /\ \E s \in Passives!Sources(w, goal) : Passives!Linked(s, p[1])
  BY DEF Passives!Paths
<1>2. /\ Count \in Nat /\ wave[0] = Passives!Sources(w, goal)
      /\ \A k \in 0 .. Count : \A n \in wave[k] :
           n \in Passives!Nodes /\ (n \in Passives!Sources(w, goal) \/ Passives!Passable(w, goal, n))
  BY SearchMeets
<1>3. ASSUME NEW j \in 0 .. Count, NEW n \in wave[j]
      PROVE  /\ Passives!Distance(wave, n) \in 0 .. j
             /\ n \in wave[Passives!Distance(wave, n)]
             /\ \A i \in 0 .. Count : n \in wave[i] => Passives!Distance(wave, n) <= i
  BY DistanceIs
<1> HIDE DEF wave
<1>4. d \in 0 .. Count /\ goal \in wave[d] /\ \A i \in 0 .. Count : goal \in wave[i] => d <= i
  <2>1. Count \in 0 .. Count /\ goal \in wave[Count]
    BY <1>2 DEF wave
  <2> QED
    BY <1>3, <2>1
<1> HIDE DEF d
<1>5. goal \notin Passives!Sources(w, goal)
  BY DEF Passives!Sources, Passives!Allocated
<1>6. d \in 1 .. Count /\ d - 1 \in 0 .. Count /\ ~(d <= d - 1)
  BY <1>2, <1>4, <1>5
<1>7. goal \notin wave[d - 1]
  BY <1>4, <1>6
<1>8. ASSUME NEW k \in 1 .. d
      PROVE  p[k] \in Passives!Nodes /\ Passives!Passable(w, goal, p[k]) /\ p[k] \notin Passives!Sources(w, goal)
  <2>1. p[k] \in wave[d] /\ Passives!Distance(wave, p[k]) = k /\ k > 0 /\ k \in Nat
    BY <1>1, <1>6
  <2>2. p[k] \notin Passives!Sources(w, goal)
    <3> SUFFICES ASSUME p[k] \in wave[0] PROVE FALSE
      BY <1>2
    <3>1. 0 \in 0 .. Count
      BY <1>2
    <3>2. Passives!Distance(wave, p[k]) \in 0 .. 0
      BY <1>3, <3>1
    <3> QED
      BY <2>1, <3>2
  <2> QED
    BY <1>2, <1>4, <2>1, <2>2
<1>9. \A j, k \in 1 .. d : p[j] = p[k] => j = k
  BY <1>1
<1>10. p \in [1 .. d -> Passives!Nodes]
  BY <1>1, <1>8
<1>11. MetAt(w, goal, d)
  BY <1>4, <1>6, <1>7 DEF MetAt, wave
<1>12. IsPath(w, goal, d, p)
  BY <1>1, <1>8, <1>9, <1>10 DEF IsPath
<1> QED
  BY <1>11, <1>12

LEMMA PassivesMax ==
    ASSUME NEW d \in Nat, NEW S \in SUBSET (0 .. d), S # {}
    PROVE  Passives!Max(S) \in S /\ \A k \in S : k <= Passives!Max(S)
<1> DEFINE T == {j \in 0 .. d : d - j \in S}
<1>1. T \in SUBSET Nat /\ T # {}
  <2>1. PICK k \in S : TRUE
    OBVIOUS
  <2>2. d - k \in 0 .. d /\ d - (d - k) = k
    OBVIOUS
  <2>3. d - k \in T
    BY <2>2
  <2>4. 0 .. d \subseteq Nat
    OBVIOUS
  <2> QED
    BY <2>3, <2>4
<1>2. PICK j \in T : \A i \in T : j <= i
  <2> HIDE DEF T
  <2> QED
    BY <1>1, LeastNatural
<1>3. d - j \in S /\ \A k \in S : d - j >= k
  <2>1. ASSUME NEW k \in S PROVE d - j >= k
    <3>1. d - k \in 0 .. d /\ d - (d - k) = k
      OBVIOUS
    <3>2. j <= d - k
      BY <1>2, <3>1
    <3> QED
      BY <3>2
  <2> QED
    BY <2>1
<1>4. \E x \in S : \A y \in S : x >= y
  BY <1>3
<1>5. Passives!Max(S) \in S /\ \A y \in S : Passives!Max(S) >= y
  BY <1>4 DEF Passives!Max
<1> QED
  BY <1>5

\* New nodes in a line from a taken node that serves the weapon set.
IsNew(w, goal, q) ==
    /\ q \in Seq(Passives!Nodes) /\ Len(q) \in Nat /\ Len(q) >= 1
    /\ \A k \in 1 .. Len(q) :
         mode[q[k]] = None /\ q[k] \notin tree.roots \cup tree.special /\ tree.asc[q[k]] = tree.asc[goal]
    /\ \A j, k \in 1 .. Len(q) : q[j] = q[k] => j = k
    /\ \A k \in 1 .. Len(q) - 1 : Passives!Linked(q[k], q[k + 1])
    /\ \E s \in Passives!Nodes : mode[s] \in {0, w} /\ tree.asc[s] = tree.asc[goal] /\ Passives!Linked(s, q[1])

LEMMA NewPartIs ==
    ASSUME GoodTree, NEW w \in {0, 1, 2}, mode \in Modes,
           \A n \in Passives!Nodes : mode[n] \in {None, tree.mode[n], w},
           NEW goal, mode[goal] = None, NEW d \in Nat, d >= 1, NEW p, IsPath(w, goal, d, p)
    PROVE  /\ IsNew(w, goal, Passives!NewPart(p))
           /\ (\A k \in 1 .. d : mode[p[k]] = None) => Len(Passives!NewPart(p)) = d
<1> DEFINE Had == {k \in DOMAIN p : mode[p[k]] # None}
           a == Passives!Max({0} \cup Had)
           q == Passives!NewPart(p)
<1>1. /\ p \in [1 .. d -> Passives!Nodes] /\ p[d] = goal /\ DOMAIN p = 1 .. d
      /\ \A k \in 1 .. d : Passives!Passable(w, goal, p[k])
      /\ \A j, k \in 1 .. d : p[j] = p[k] => j = k
      /\ \A k \in 1 .. d - 1 : Passives!Linked(p[k], p[k + 1])
      /\ \E s \in Passives!Sources(w, goal) : Passives!Linked(s, p[1])
  BY DEF IsPath
<1>2. {0} \cup Had \in SUBSET (0 .. d) /\ {0} \cup Had # {} /\ \A k \in 1 .. d : k \in Had <=> mode[p[k]] # None
  BY <1>1
<1>3. a \in {0} \cup Had /\ \A k \in {0} \cup Had : k <= a
  <2> HIDE DEF Had
  <2> QED
    BY <1>2, PassivesMax
<1>4. a \in 0 .. d /\ a # d /\ \A k \in 1 .. d : k > a => mode[p[k]] = None
  <2>1. d \in 1 .. d /\ d \notin Had
    BY <1>1, <1>2
  <2>2. a \in 0 .. d /\ a # d
    <3> HIDE DEF Had, a
    <3> QED
      BY <1>2, <1>3, <2>1
  <2>3. ASSUME NEW k \in 1 .. d, k > a PROVE mode[p[k]] = None
    <3>1. ~(k <= a)
      BY <2>2, <2>3
    <3> QED
      BY <1>2, <1>3, <3>1
  <2> QED
    BY <2>2, <2>3
<1>5. p \in Seq(Passives!Nodes) /\ Len(p) = d
  BY <1>1
<1>6. q = SubSeq(p, 1 + a, d)
  BY <1>5 DEF Passives!NewPart
<1>7. a = 0 \/ (a \in 1 .. d /\ mode[p[a]] # None)
  BY <1>2, <1>3
<1>8. (\A k \in 1 .. d : mode[p[k]] = None) => a = 0
  BY <1>7
<1> HIDE DEF a, q, Had
<1>9. q \in Seq(Passives!Nodes) /\ Len(q) = d - a /\ \A k \in 1 .. d - a : q[k] = p[a + k]
  <2>1. 1 + a \in 1 .. Len(p) + 1 /\ d \in 1 + a - 1 .. Len(p)
    BY <1>4, <1>5
  <2>2. q \in Seq(Passives!Nodes) /\ Len(q) = d - (1 + a) + 1 /\ \A k \in 1 .. d - (1 + a) + 1 : q[k] = p[(1 + a) + k - 1]
    BY <1>4, <1>5, <1>6
  <2> QED
    BY <1>4, <2>2
<1>10. ASSUME NEW k \in 1 .. d - a
       PROVE  a + k \in 1 .. d /\ q[k] = p[a + k] /\ mode[p[a + k]] = None
  BY <1>4, <1>9
<1>11. \A k \in 1 .. Len(q) :
         mode[q[k]] = None /\ q[k] \notin tree.roots \cup tree.special /\ tree.asc[q[k]] = tree.asc[goal]
  BY <1>1, <1>9, <1>10 DEF Passives!Passable
<1>12. \A j, k \in 1 .. Len(q) : q[j] = q[k] => j = k
  <2> SUFFICES ASSUME NEW j \in 1 .. d - a, NEW k \in 1 .. d - a, q[j] = q[k] PROVE j = k
    BY <1>9
  <2>1. a + j = a + k
    BY <1>1, <1>10
  <2> QED
    BY <1>4, <2>1
<1>13. \A k \in 1 .. Len(q) - 1 : Passives!Linked(q[k], q[k + 1])
  <2> SUFFICES ASSUME NEW k \in 1 .. (d - a) - 1 PROVE Passives!Linked(q[k], q[k + 1])
    BY <1>9
  <2>1. k \in 1 .. d - a /\ k + 1 \in 1 .. d - a /\ a + k \in 1 .. d - 1 /\ a + (k + 1) = (a + k) + 1
    BY <1>4
  <2>2. q[k] = p[a + k] /\ q[k + 1] = p[(a + k) + 1]
    BY <1>9, <2>1
  <2> QED
    BY <1>1, <2>1, <2>2
<1>14. \E s \in Passives!Nodes : mode[s] \in {0, w} /\ tree.asc[s] = tree.asc[goal] /\ Passives!Linked(s, q[1])
  <2>1. 1 \in 1 .. d - a /\ q[1] = p[a + 1]
    BY <1>4, <1>9
  <2>2. CASE a = 0
    <3>1. PICK s \in Passives!Sources(w, goal) : Passives!Linked(s, p[1])
      BY <1>1
    <3>2. s \in Passives!Nodes /\ mode[s] # None /\ tree.mode[s] \in {None, 0, w} /\ tree.asc[s] = tree.asc[goal]
      BY <3>1 DEF Passives!Sources, Passives!Allocated
    <3>3. mode[s] \in {0, w}
      BY <3>2
    <3> QED
      BY <2>1, <2>2, <3>1, <3>2, <3>3
  <2>3. CASE a # 0
    <3>1. a \in 1 .. d /\ a \in 1 .. d - 1 /\ mode[p[a]] # None
      BY <1>4, <1>7, <2>3
    <3>2. p[a] \in Passives!Nodes /\ mode[p[a]] \in {0, w} /\ tree.asc[p[a]] = tree.asc[goal]
      BY <1>1, <3>1 DEF Passives!Passable
    <3> QED
      BY <1>1, <2>1, <3>1, <3>2
  <2> QED
    BY <2>2, <2>3
<1>15. IsNew(w, goal, q)
  BY <1>4, <1>9, <1>11, <1>12, <1>13, <1>14 DEF IsNew
<1>16. a = 0 => Len(q) = d
  BY <1>9
<1> QED
  BY <1>8, <1>15, <1>16 DEF q

\* The nodes clicked so far of a line of new nodes.
FirstOf(q, i) == {q[j] : j \in 1 .. i}

\* They can be clicked one by one.
LEMMA NewClicks ==
    ASSUME GoodTree, mode \in Modes, Passives!Loose(mode) = {}, NEW w \in {0, 1, 2},
           NEW goal, NEW q, IsNew(w, goal, q)
    PROVE  \A i \in 0 .. Len(q) : Passives!Loose(Passives!With(mode, FirstOf(q, i), w)) = {}
<1> DEFINE I == {i \in Nat : i <= Len(q) => Passives!Loose(Passives!With(mode, FirstOf(q, i), w)) = {}}
<1>1. /\ q \in Seq(Passives!Nodes) /\ Len(q) \in Nat /\ Len(q) >= 1
      /\ \A k \in 1 .. Len(q) :
           mode[q[k]] = None /\ q[k] \notin tree.roots \cup tree.special /\ tree.asc[q[k]] = tree.asc[goal]
      /\ \A j, k \in 1 .. Len(q) : q[j] = q[k] => j = k
      /\ \A k \in 1 .. Len(q) - 1 : Passives!Linked(q[k], q[k + 1])
      /\ \E s \in Passives!Nodes : mode[s] \in {0, w} /\ tree.asc[s] = tree.asc[goal] /\ Passives!Linked(s, q[1])
  BY DEF IsNew
<1>2. 0 \in I
  <2>1. FirstOf(q, 0) = {}
    BY DEF FirstOf
  <2>2. Passives!With(mode, {}, w) = mode
    BY DEF Modes, Passives!With
  <2> QED
    BY <2>1, <2>2
<1>3. ASSUME NEW i \in Nat, i \in I PROVE i + 1 \in I
  <2> SUFFICES ASSUME i + 1 <= Len(q)
               PROVE  Passives!Loose(Passives!With(mode, FirstOf(q, i + 1), w)) = {}
    OBVIOUS
  <2> DEFINE m == Passives!With(mode, FirstOf(q, i), w)
             n == q[i + 1]
  <2>1. i + 1 \in 1 .. Len(q) /\ i <= Len(q) /\ Passives!Loose(m) = {}
    BY <1>1, <1>3
  <2>2. n \in Passives!Nodes /\ mode[n] = None /\ n \notin tree.roots \cup tree.special /\ tree.asc[n] = tree.asc[goal]
    BY <1>1, <2>1
  <2>3. n \notin FirstOf(q, i)
    <3> SUFFICES ASSUME NEW j \in 1 .. i, q[j] = q[i + 1] PROVE FALSE
      BY DEF FirstOf
    <3>1. j \in 1 .. Len(q) /\ j # i + 1
      BY <1>1, <2>1
    <3> QED
      BY <1>1, <2>1, <3>1
  <2>4. FirstOf(q, i + 1) = FirstOf(q, i) \cup {n}
    <3>1. \A j : j \in 1 .. i + 1 <=> j \in 1 .. i \/ j = i + 1
      OBVIOUS
    <3> QED
      BY <3>1 DEF FirstOf
  <2>5. PICK p \in Passives!Nodes : m[p] \in {0, w} /\ tree.asc[p] = tree.asc[goal] /\ Passives!Linked(p, n)
    <3>1. CASE i = 0
      <4>1. PICK s \in Passives!Nodes : mode[s] \in {0, w} /\ tree.asc[s] = tree.asc[goal] /\ Passives!Linked(s, q[1])
        BY <1>1
      <4>2. m[s] \in {0, w}
        BY <4>1 DEF Passives!With
      <4> QED
        BY <3>1, <4>1, <4>2
    <3>2. CASE i # 0
      <4>1. i \in 1 .. Len(q) /\ i \in 1 .. Len(q) - 1 /\ i \in 1 .. i
        BY <1>1, <2>1, <3>2
      <4>2. q[i] \in FirstOf(q, i) /\ q[i] \in Passives!Nodes
        BY <1>1, <4>1 DEF FirstOf
      <4>3. m[q[i]] = w /\ tree.asc[q[i]] = tree.asc[goal] /\ Passives!Linked(q[i], n)
        BY <1>1, <4>1, <4>2 DEF Passives!With
      <4> QED
        BY <4>2, <4>3
    <3> QED
      BY <3>1, <3>2
  <2>6. m \in Modes /\ m[n] = None
    BY <2>2, <2>3 DEF Passives!With, Modes
  <2>7. Passives!With(m, {n}, w) = Passives!With(mode, FirstOf(q, i + 1), w)
    BY <2>4 DEF Passives!With
  <2> HIDE DEF m, n
  <2>8. tree.asc[p] = tree.asc[n]
    BY <2>2, <2>5
  <2>9. Passives!Loose(Passives!With(m, {n}, w)) = {}
    BY <2>1, <2>2, <2>5, <2>6, <2>8, LooseAdd
  <2> QED
    BY <2>7, <2>9
<1>4. Nat \subseteq I
  <2> HIDE DEF I
  <2> QED
    BY <1>2, <1>3, NaturalsIn
<1> QED
  BY <1>1, <1>4

-------------------------------------------------------------------------------
(* Routes: one target. *)

\* What is taken is what the catalogue's tree has without what is given back.
JustRefunded ==
    /\ mode \in Modes /\ Passives!Loose(mode) = {}
    /\ \A n \in Passives!Nodes : mode[n] \in {None, tree.mode[n]}
    /\ \A n \in tree.roots : mode[n] = 0

\* What a path may pass through and is taken is a source of the search.
LEMMA PassedIsSource ==
    ASSUME JustRefunded, NEW w \in {0, 1, 2}, NEW goal, NEW n \in Passives!Nodes,
           Passives!Passable(w, goal, n), mode[n] # None
    PROVE  n \in Passives!Sources(w, goal)
BY DEF JustRefunded, Passives!Passable, Passives!Sources, Passives!Allocated

\* As many new nodes as the search has rounds bring the target in.
LEMMA RouteExists ==
    ASSUME GoodTree, JustRefunded, NEW w \in {0, 1, 2}, NEW goal, NEW d, MetAt(w, goal, d)
    PROVE  \E S \in Passives!Extensions(mode, w, goal) : Cardinality(S) = d
<1> DEFINE from == Passives!Sources(w, goal)
           next == Ways(w, goal)
<1>1. /\ Count \in Nat /\ from \in SUBSET Passives!Nodes
      /\ \A k \in 0 .. Count : \A n \in Passives!Search(w, goal)[k] :
           n \in Passives!Nodes /\ (n \in from \/ Passives!Passable(w, goal, n))
  BY SearchMeets
<1>2. Passives!Search(w, goal) = Waves(from, next, Count)
  BY SearchIs
<1>3. d \in 1 .. Count /\ goal \in Passives!Search(w, goal)[d] \ Passives!Search(w, goal)[d - 1]
  BY DEF MetAt
<1>4. \A n \in Passives!Nodes : Passives!Passable(w, goal, n) =>
        /\ n \in from \/ mode[n] = None
        /\ n \notin tree.roots \cup tree.special /\ ~Passives!Barred(w, n) /\ tree.asc[n] = tree.asc[goal]
  BY PassedIsSource DEF Passives!Passable
<1>5. Searches(mode, w, from, next, Count)
  <2>1. \A p \in from : mode[p] \in {0, w} /\ tree.asc[p] = tree.asc[goal]
    BY DEF JustRefunded, Passives!Sources, Passives!Allocated
  <2>2. \A p \in Passives!Nodes : \A n \in next[p] :
          /\ n \in Passives!Nodes /\ Passives!Linked(p, n)
          /\ n \in from \/ (mode[n] = None /\ n \notin tree.roots \cup tree.special)
    BY <1>4 DEF Ways
  <2>3. \A n \in Waves(from, next, Count)[Count] : tree.asc[n] = tree.asc[goal]
    <3>1. Count \in 0 .. Count
      BY <1>1
    <3> HIDE DEF from, next
    <3> QED
      BY <1>1, <1>2, <1>4, <2>1, <3>1
  <2>4. \A p, n \in Waves(from, next, Count)[Count] : tree.asc[p] = tree.asc[n]
    BY <2>3
  <2> HIDE DEF from, next
  <2> QED
    BY <2>1, <2>2, <2>4 DEF Searches
<1>6. Brings(mode, w, from, Waves(from, next, Count)[d], d, goal)
  <2>1. mode \in Modes /\ Passives!Loose(mode) = {}
    BY DEF JustRefunded
  <2> HIDE DEF from, next
  <2> QED
    BY <1>1, <1>2, <1>3, <1>5, <2>1, WaveSets
<1> HIDE DEF from, next
<1>7. PICK S \in SUBSET (Passives!Search(w, goal)[d] \ from) :
        Cardinality(S) = d /\ goal \in S /\ Passives!Loose(Passives!With(mode, S, w)) = {}
  BY <1>2, <1>6 DEF Brings
<1>8. d \in 0 .. Count
  BY <1>1, <1>3
<1>9. \A n \in S : /\ n \in Passives!Nodes \ (tree.roots \cup tree.special)
                   /\ mode[n] = None /\ ~Passives!Barred(w, n) /\ tree.asc[n] = tree.asc[goal]
  BY <1>1, <1>4, <1>7, <1>8
<1>10. S \in Passives!Extensions(mode, w, goal)
  BY <1>7, <1>9, ExtensionsIs
<1> QED
  BY <1>7, <1>10

\* No set of fewer nodes does.
LEMMA NoneShorter ==
    ASSUME GoodTree, JustRefunded, NEW w \in {0, 1, 2}, NEW goal \in Passives!Nodes, NEW k \in 0 .. Count,
           goal \notin Passives!Search(w, goal)[k], NEW S \in Passives!Extensions(mode, w, goal)
    PROVE  Cardinality(S) \in Nat /\ Cardinality(S) > k
<1>1. /\ \A n \in S : /\ n \in Passives!Nodes \ (tree.roots \cup tree.special)
                      /\ mode[n] = None /\ ~Passives!Barred(w, n) /\ tree.asc[n] = tree.asc[goal]
      /\ goal \in S /\ Passives!Loose(Passives!With(mode, S, w)) = {}
  BY ExtensionsIs
<1>2. Cardinality(S) \in Nat /\ S \in SUBSET Passives!Nodes
  <2>1. S \in SUBSET Passives!Nodes
    BY <1>1
  <2> QED
    BY <2>1, FS_Subset, FS_CardinalityType DEF GoodTree
<1> DEFINE more == Passives!With(mode, S, w)
           starts == Starts(more, w)
<1>3. more \in Modes /\ \A n \in Passives!Nodes : more[n] = IF n \in S THEN w ELSE mode[n]
  BY DEF JustRefunded, Modes, Passives!With
<1>4. starts \in SUBSET (Passives!Nodes \ S)
  BY <1>1 DEF Starts, GoodTree
<1>5. None \notin {0, 1, 2}
  BY NoneIsNoMode
<1>6. goal \in Passives!Reachable(more, w, starts)
  <2>1. more[goal] = w /\ more[goal] # None /\ goal \in Passives!Nodes \ (tree.roots \cup tree.special)
    BY <1>1, <1>3, <1>5
  <2> HIDE DEF more
  <2> QED
    BY <1>1, <2>1, LooseIs DEF more
<1> HIDE DEF more
<1>7. ASSUME NEW p \in Passives!Reachable(more, w, starts), NEW n \in S, Passes(more, w, p, n)
      PROVE  n \in Ways(w, goal)[p] /\ (p \in S \/ p \in Passives!Sources(w, goal))
  <2>1. p \in Passives!Nodes /\ (p \in starts \/ Passives!Serves(more, w, p))
    BY <1>4, ReachIs, ReachServes
  <2>2. n \in Ways(w, goal)[p]
    BY <1>1, <1>7, <2>1 DEF Ways, Passives!Passable, Passes
  <2>3. ASSUME p \notin S PROVE p \in Passives!Sources(w, goal)
    <3>1. mode[p] \in {0, w}
      <4>1. CASE p \in tree.roots
        BY <4>1 DEF JustRefunded
      <4>2. CASE p \notin tree.roots
        <5>1. Passives!Serves(more, w, p)
          BY <2>1, <4>2 DEF Starts
        <5> QED
          BY <1>3, <2>1, <2>3, <5>1 DEF Passives!Serves
      <4> QED
        BY <4>1, <4>2
    <3>2. mode[p] # None /\ tree.mode[p] \in {0, w}
      BY <1>5, <2>1, <3>1 DEF JustRefunded
    <3>3. tree.asc[p] = tree.asc[goal]
      BY <1>1, <1>7 DEF Passes
    <3> QED
      BY <2>1, <3>2, <3>3 DEF Passives!Sources, Passives!Allocated
  <2> QED
    BY <2>2, <2>3
<1>8. Count \in Nat
  BY SearchMeets
<1>9. goal \notin Waves(Passives!Sources(w, goal), Ways(w, goal), Count)[k]
  BY SearchIs
<1>10. Cardinality(S) > k
  <2> HIDE DEF starts
  <2> QED
    BY <1>1, <1>2, <1>4, <1>6, <1>7, <1>8, <1>9, BeyondWaves
<1> QED
  BY <1>2, <1>10

\* "No route" means that no set of new nodes brings the target in.
LEMMA NoRouteIsRight ==
    ASSUME GoodTree, JustRefunded, NEW w \in {0, 1, 2}, NEW goal \in Passives!Nodes,
           goal \notin Passives!Search(w, goal)[Count]
    PROVE  Passives!Extensions(mode, w, goal) = {}
<1> SUFFICES ASSUME NEW S \in Passives!Extensions(mode, w, goal) PROVE FALSE
  OBVIOUS
<1>1. Count \in Nat /\ Count \in 0 .. Count
  BY SearchMeets
<1>2. Cardinality(S) \in Nat /\ Cardinality(S) > Count
  BY <1>1, NoneShorter
<1>3. Cardinality(S) <= Count
  <2>1. S \in SUBSET Passives!Nodes
    BY ExtensionsIs
  <2> QED
    BY <2>1, FS_Subset DEF GoodTree, Count
<1> QED
  BY <1>1, <1>2, <1>3

-------------------------------------------------------------------------------
(* Routes: the invariant. *)

\* The tree after the refund, and after k clicks more.
Left(refund) == [n \in Passives!Nodes |-> IF n \in refund THEN None ELSE tree.mode[n]]
Followed(q, s, k) ==
    [n \in Passives!Nodes |-> IF \E j \in 1 .. k : s[j] = n THEN q.w ELSE Left(q.refund)[n]]

Shortest(m, w, goal, d) ==
    /\ \E S \in Passives!Extensions(m, w, goal) : Cardinality(S) = d
    /\ \A S \in Passives!Extensions(m, w, goal) : Cardinality(S) \in Nat /\ Cardinality(S) >= d

\* What is known of a single target that is answered with v after the clicks s,
\* t of the targets left.
OneTarget(q, t, s, v) ==
    \/ v = "disconnected_after_refund"
    \/ t = q.targets /\ s = << >> /\ v = None
    \/ t = << >> /\ v = "unsupported_node_rule"
    \/ /\ t = << >> /\ v = "no_route" /\ Left(q.refund)[q.targets[1]] = None
       /\ Passives!Extensions(Left(q.refund), q.w, q.targets[1]) = {}
    \/ t = << >> /\ v # "no_route" /\ Left(q.refund)[q.targets[1]] # None /\ s = << >>
    \/ /\ t = << >> /\ v # "no_route" /\ Left(q.refund)[q.targets[1]] = None
       /\ Shortest(Left(q.refund), q.w, q.targets[1], Len(s))

IsRouting == query # None /\ query.op = "route"

TreeRouteInv ==
    IsRouting =>
      /\ query.w \in {0, 1, 2} /\ query.targets \in Seq(Passives!Nodes)
      /\ query.refund \cap tree.roots = {}
      /\ todo \in Seq(Passives!Nodes) /\ steps \in Seq(Passives!Nodes)
      /\ mode = Followed(query, steps, Len(steps))
      /\ verdict # "disconnected_after_refund" =>
           \A k \in 0 .. Len(steps) : Passives!Loose(Followed(query, steps, k)) = {}
      /\ Len(query.targets) = 1 => OneTarget(query, todo, steps, verdict)

LEMMA FollowedIs ==
    ASSUME GoodTree, NEW q, q.w \in {0, 1, 2}, NEW s, NEW k
    PROVE  /\ Left(q.refund) \in Modes /\ Followed(q, s, k) \in Modes
           /\ \A n \in Passives!Nodes : Followed(q, s, k)[n] \in {None, tree.mode[n], q.w}
           /\ Followed(q, s, 0) = Left(q.refund)
<1>1. Left(q.refund) \in Modes /\ \A n \in Passives!Nodes : Left(q.refund)[n] \in {None, tree.mode[n]}
  BY DEF Left, GoodTree, Modes
<1>2. \A n \in Passives!Nodes : Followed(q, s, k)[n] \in {q.w, Left(q.refund)[n]}
  BY DEF Followed
<1>3. Followed(q, s, k) \in Modes
  BY <1>1 DEF Followed, Modes
<1>4. Followed(q, s, 0) = Left(q.refund)
  BY DEF Followed, Left
<1> QED
  BY <1>1, <1>2, <1>3, <1>4

LEMMA FollowedOn ==
    ASSUME NEW q, NEW s \in Seq(Passives!Nodes), NEW r \in Seq(Passives!Nodes)
    PROVE  /\ \A k \in 0 .. Len(s) : Followed(q, s \o r, k) = Followed(q, s, k)
           /\ \A i \in 0 .. Len(r) : Followed(q, s \o r, Len(s) + i) =
                                      Passives!With(Followed(q, s, Len(s)), FirstOf(r, i), q.w)
<1>1. /\ Len(s) \in Nat /\ Len(r) \in Nat
      /\ \A j \in 1 .. Len(s) : (s \o r)[j] = s[j]
      /\ \A j \in 1 .. Len(r) : (s \o r)[Len(s) + j] = r[j]
  OBVIOUS
<1>2. ASSUME NEW k \in 0 .. Len(s) PROVE Followed(q, s \o r, k) = Followed(q, s, k)
  <2>1. \A j \in 1 .. k : (s \o r)[j] = s[j]
    BY <1>1
  <2> QED
    BY <2>1 DEF Followed
<1>3. ASSUME NEW i \in 0 .. Len(r)
      PROVE  Followed(q, s \o r, Len(s) + i) = Passives!With(Followed(q, s, Len(s)), FirstOf(r, i), q.w)
  <2>1. ASSUME NEW n
        PROVE  (\E j \in 1 .. Len(s) + i : (s \o r)[j] = n) <=>
                 n \in FirstOf(r, i) \/ \E j \in 1 .. Len(s) : s[j] = n
    <3>1. ASSUME NEW j \in 1 .. Len(s) + i, (s \o r)[j] = n
          PROVE  n \in FirstOf(r, i) \/ \E l \in 1 .. Len(s) : s[l] = n
      <4>1. CASE j <= Len(s)
        BY <1>1, <3>1, <4>1
      <4>2. CASE ~(j <= Len(s))
        <5>1. j - Len(s) \in 1 .. i /\ j - Len(s) \in 1 .. Len(r) /\ Len(s) + (j - Len(s)) = j
          BY <1>1, <4>2
        <5>2. r[j - Len(s)] = n
          BY <1>1, <3>1, <5>1
        <5> QED
          BY <5>1, <5>2 DEF FirstOf
      <4> QED
        BY <4>1, <4>2
    <3>2. ASSUME NEW j \in 1 .. i, r[j] = n PROVE \E l \in 1 .. Len(s) + i : (s \o r)[l] = n
      <4>1. j \in 1 .. Len(r) /\ Len(s) + j \in 1 .. Len(s) + i
        BY <1>1
      <4>2. (s \o r)[Len(s) + j] = n
        BY <1>1, <3>2, <4>1
      <4> QED
        BY <4>1, <4>2
    <3>3. ASSUME NEW j \in 1 .. Len(s), s[j] = n PROVE \E l \in 1 .. Len(s) + i : (s \o r)[l] = n
      <4>1. j \in 1 .. Len(s) + i
        BY <1>1
      <4> QED
        BY <1>1, <3>3, <4>1
    <3> QED
      BY <3>1, <3>2, <3>3 DEF FirstOf
  <2>2. \A n \in Passives!Nodes :
          Followed(q, s \o r, Len(s) + i)[n] = IF n \in FirstOf(r, i) THEN q.w ELSE Followed(q, s, Len(s))[n]
    BY <2>1 DEF Followed
  <2>3. Followed(q, s \o r, Len(s) + i) = [n \in Passives!Nodes |-> Followed(q, s \o r, Len(s) + i)[n]]
    BY DEF Followed
  <2> QED
    BY <2>2, <2>3 DEF Passives!With
<1> QED
  BY <1>2, <1>3

\* What is said of a route in the next state is said in the same tree.
LEMMA SameTreeRoute ==
    ASSUME UNCHANGED tree
    PROVE  /\ Passives!Nodes' = Passives!Nodes
           /\ \A k : Followed(query, steps, k)' = Followed(query', steps', k)
           /\ \A k : Passives!Loose(Followed(query, steps, k))' = Passives!Loose(Followed(query', steps', k))
           /\ OneTarget(query, todo, steps, verdict)' <=> OneTarget(query', todo', steps', verdict')
<1>1. Passives!Nodes' = Passives!Nodes
  BY DEF Passives!Nodes
<1>2. ASSUME NEW k PROVE Followed(query, steps, k)' = Followed(query', steps', k)
  BY <1>1 DEF Followed, Left
<1>3. ASSUME NEW k PROVE Passives!Loose(Followed(query, steps, k))' = Passives!Loose(Followed(query', steps', k))
  BY <1>1 DEF Followed, Left, Passives!Loose, Passives!Allocated, Passives!Reachable, Passives!Met,
     Passives!Linked, Passives!Serves
<1>4. OneTarget(query, todo, steps, verdict)' <=> OneTarget(query', todo', steps', verdict')
  BY <1>1 DEF OneTarget, Left, Shortest, Passives!Extensions, Passives!Barred, Passives!With,
     Passives!Loose, Passives!Allocated, Passives!Reachable, Passives!Met, Passives!Linked, Passives!Serves
<1> QED
  BY <1>1, <1>2, <1>3, <1>4

LEMMA AskRouteKeeps ==
    ASSUME GoodTree, tree \in Trees, Fresh, NEW targets \in Targets, NEW refund \in Refunds,
           NEW w \in 0..2, NEW points \in Points, Passives!AskRoute(targets, refund, w, points)
    PROVE  TreeRouteInv' /\ query' # None /\ query'.op = "route"
<1>1. /\ query = None /\ refund \subseteq Passives!Allocated(mode) \ tree.roots
      /\ query' = [op |-> "route", targets |-> targets, refund |-> refund, w |-> w, points |-> points]
      /\ todo' = targets /\ UNCHANGED <<tree, pending, since, steps>>
  BY DEF Passives!AskRoute
<1>2. query' # None /\ query'.op = "route"
  <2>1. query' \in [op : {"route"}, targets : Targets, refund : Refunds, w : 0..2, points : Points]
    BY <1>1
  <2>2. None \notin [op : {"route"}, targets : Targets, refund : Refunds, w : 0..2, points : Points]
    BY TreesAssumption
  <2> QED
    BY <1>1, <2>1, <2>2
<1>3. mode = tree.mode /\ steps = << >> /\ steps' = << >> /\ w \in {0, 1, 2} /\ targets \in Seq(Passives!Nodes)
  <2>1. Targets \subseteq Seq(DOMAIN tree.asc)
    BY TreesAssumption
  <2> QED
    BY <1>1, <2>1 DEF Fresh, Passives!Nodes
<1>4. /\ query'.targets = targets /\ query'.refund = refund /\ query'.w = w
  BY <1>1
<1>5. mode' = Left(refund) /\ Left(refund) \in Modes /\ Followed(query', steps', 0) = Left(refund)
  <2>1. mode' = Left(refund)
    BY <1>3 DEF Passives!AskRoute, Left
  <2> QED
    BY <1>3, <1>4, <2>1, FollowedIs
<1>6. verdict' # "disconnected_after_refund" => verdict' = None /\ Passives!Loose(Left(refund)) = {}
  <2> DEFINE fine == Passives!Disconnected(Left(refund)) \subseteq tree.special
  <2>1. verdict' = IF fine THEN None ELSE "disconnected_after_refund"
    BY <1>3 DEF Passives!AskRoute, Left
  <2>2. fine => Passives!Loose(Left(refund)) = {}
    BY <1>5, DisconnectedLoose
  <2> HIDE DEF fine
  <2> QED
    BY <2>1, <2>2
<1>7. /\ Passives!Nodes' = Passives!Nodes
      /\ \A k : Followed(query, steps, k)' = Followed(query', steps', k)
      /\ \A k : Passives!Loose(Followed(query, steps, k))' = Passives!Loose(Followed(query', steps', k))
      /\ OneTarget(query, todo, steps, verdict)' <=> OneTarget(query', todo', steps', verdict')
  BY <1>1, SameTreeRoute
<1>8. OneTarget(query', todo', steps', verdict')
  BY <1>1, <1>3, <1>4, <1>6 DEF OneTarget
<1>9. verdict' # "disconnected_after_refund" =>
        \A k \in 0 .. Len(steps') : Passives!Loose(Followed(query', steps', k)) = {}
  <2>1. \A k \in 0 .. Len(steps') : k = 0
    BY <1>3
  <2> QED
    BY <1>5, <1>6, <2>1
<1>10. mode' = Followed(query', steps', Len(steps'))
  BY <1>3, <1>5
<1>11. refund \cap tree.roots = {} /\ steps' \in Seq(Passives!Nodes)
  BY <1>1, <1>3
<1> QED
  BY <1>1, <1>2, <1>3, <1>4, <1>7, <1>8, <1>9, <1>10, <1>11 DEF TreeRouteInv

LEMMA EndRouteKeeps ==
    ASSUME TreeRouteInv, Passives!EndRoute
    PROVE  TreeRouteInv'
<1>1. /\ IsRouting /\ verdict = None /\ todo = << >> /\ UNCHANGED <<tree, query, mode, todo, steps>>
      /\ verdict' = Passives!Affordable(query.w, query.points)
  BY DEF Passives!EndRoute, IsRouting
<1>2. /\ query.w \in {0, 1, 2} /\ query.targets \in Seq(Passives!Nodes)
      /\ query.refund \cap tree.roots = {}
      /\ todo \in Seq(Passives!Nodes) /\ steps \in Seq(Passives!Nodes)
      /\ mode = Followed(query, steps, Len(steps))
      /\ \A k \in 0 .. Len(steps) : Passives!Loose(Followed(query, steps, k)) = {}
      /\ Len(query.targets) = 1 => OneTarget(query, todo, steps, verdict)
  BY <1>1, NoneIsNoWord DEF TreeRouteInv
<1>3. verdict' \in {"over_budget", "weapon_point_budget_unreported", "route_found"}
  BY <1>1 DEF Passives!Affordable
<1>4. /\ Passives!Nodes' = Passives!Nodes
      /\ \A k : Followed(query, steps, k)' = Followed(query', steps', k)
      /\ \A k : Passives!Loose(Followed(query, steps, k))' = Passives!Loose(Followed(query', steps', k))
      /\ OneTarget(query, todo, steps, verdict)' <=> OneTarget(query', todo', steps', verdict')
  BY <1>1, SameTreeRoute
<1>5. ASSUME Len(query.targets) = 1 PROVE OneTarget(query, todo, steps, verdict')
  <2>1. OneTarget(query, todo, steps, verdict) /\ todo # query.targets
    <3>1. Len(<< >>) = 0
      OBVIOUS
    <3>2. query.targets # << >>
      BY <1>5, <3>1
    <3>3. OneTarget(query, todo, steps, verdict)
      BY <1>2, <1>5
    <3> QED
      BY <1>1, <3>2, <3>3
  <2> QED
    BY <1>1, <1>3, <2>1, NoneIsNoWord DEF OneTarget
<1> QED
  BY <1>1, <1>2, <1>4, <1>5 DEF TreeRouteInv, IsRouting

LEMMA NextTargetKeeps ==
    ASSUME GoodTree, TreeRouteInv, Passives!NextTarget
    PROVE  TreeRouteInv'
<1> DEFINE goal == Head(todo)
           w == query.w
<1>1. /\ IsRouting /\ verdict = None /\ todo # << >> /\ todo' = Tail(todo) /\ UNCHANGED <<tree, query>>
      /\ \/ mode[goal] # None /\ UNCHANGED <<mode, steps, verdict>>
         \/ verdict' = "unsupported_node_rule" /\ UNCHANGED <<mode, steps>>
         \/ /\ mode[goal] = None /\ goal \notin Passives!Search(w, goal)[Passives!Cardinality(Passives!Nodes)]
            /\ verdict' = "no_route" /\ UNCHANGED <<mode, steps>>
         \/ /\ mode[goal] = None /\ goal \in Passives!Search(w, goal)[Passives!Cardinality(Passives!Nodes)]
            /\ \E p \in Passives!Paths(w, goal) :
                 /\ steps' = steps \o Passives!NewPart(p)
                 /\ mode' = [n \in Passives!Nodes |-> IF n \in Passives!ToSet(Passives!NewPart(p)) THEN w ELSE mode[n]]
                 /\ verdict' = verdict
  BY DEF Passives!NextTarget, IsRouting
<1>2. /\ w \in {0, 1, 2} /\ query.targets \in Seq(Passives!Nodes)
      /\ query.refund \cap tree.roots = {}
      /\ todo \in Seq(Passives!Nodes) /\ steps \in Seq(Passives!Nodes)
      /\ mode = Followed(query, steps, Len(steps))
      /\ \A k \in 0 .. Len(steps) : Passives!Loose(Followed(query, steps, k)) = {}
      /\ Len(query.targets) = 1 => OneTarget(query, todo, steps, verdict)
  BY <1>1, NoneIsNoWord DEF TreeRouteInv
<1>3. goal \in Passives!Nodes /\ Tail(todo) \in Seq(Passives!Nodes) /\ goal = todo[1]
  BY <1>1, <1>2, SeqHeadTail
<1>4. Passives!Cardinality(Passives!Nodes) = Count
  BY PassivesCardinality DEF Count
<1>5. /\ mode \in Modes /\ Passives!Loose(mode) = {}
      /\ \A n \in Passives!Nodes : mode[n] \in {None, tree.mode[n], w}
  <2>1. Len(steps) \in 0 .. Len(steps)
    BY <1>2
  <2> QED
    BY <1>2, <2>1, FollowedIs
<1>6. ASSUME Len(query.targets) = 1
      PROVE  /\ Tail(todo) = << >> /\ steps = << >> /\ goal = query.targets[1]
             /\ mode = Left(query.refund) /\ JustRefunded
  <2>1. todo = query.targets /\ steps = << >>
    BY <1>1, <1>2, <1>6, NoneIsNoWord DEF OneTarget
  <2>2. Tail(todo) = << >> /\ goal = query.targets[1]
    <3>1. Len(Tail(todo)) = 0 /\ Tail(todo) \in Seq(Passives!Nodes)
      BY <1>1, <1>2, <1>6, <2>1, SeqHeadTail
    <3>2. Tail(todo) = << >>
      BY <3>1, EmptySeq
    <3>3. goal = query.targets[1]
      BY <1>3, <2>1
    <3> QED
      BY <3>2, <3>3
  <2>3. mode = Left(query.refund)
    BY <1>2, <2>1, FollowedIs
  <2>4. JustRefunded
    BY <1>2, <1>5, <2>3 DEF JustRefunded, Left, GoodTree
  <2> QED
    BY <2>1, <2>2, <2>3, <2>4
<1> HIDE DEF goal
<1>7. /\ Passives!Nodes' = Passives!Nodes
      /\ \A k : Followed(query, steps, k)' = Followed(query', steps', k)
      /\ \A k : Passives!Loose(Followed(query, steps, k))' = Passives!Loose(Followed(query', steps', k))
      /\ OneTarget(query, todo, steps, verdict)' <=> OneTarget(query', todo', steps', verdict')
  BY <1>1, SameTreeRoute
<1>8. SUFFICES /\ steps' \in Seq(Passives!Nodes) /\ mode' = Followed(query, steps', Len(steps'))
               /\ \A k \in 0 .. Len(steps') : Passives!Loose(Followed(query, steps', k)) = {}
               /\ Len(query.targets) = 1 => OneTarget(query, Tail(todo), steps', verdict')
  BY <1>1, <1>2, <1>3, <1>7 DEF TreeRouteInv, IsRouting
<1>9. CASE mode[goal] # None /\ UNCHANGED <<mode, steps, verdict>>
  <2>1. ASSUME Len(query.targets) = 1 PROVE OneTarget(query, Tail(todo), steps', verdict')
    <3>1. verdict' # "no_route"
      BY <1>1, <1>9, NoneIsNoWord
    <3> QED
      BY <1>6, <1>9, <2>1, <3>1 DEF OneTarget
  <2> QED
    BY <1>2, <1>9, <2>1
<1>10. CASE verdict' = "unsupported_node_rule" /\ UNCHANGED <<mode, steps>>
  <2>1. ASSUME Len(query.targets) = 1 PROVE OneTarget(query, Tail(todo), steps', verdict')
    BY <1>6, <1>10, <2>1 DEF OneTarget
  <2> QED
    BY <1>2, <1>10, <2>1
<1>11. CASE /\ mode[goal] = None /\ goal \notin Passives!Search(w, goal)[Count]
            /\ verdict' = "no_route" /\ UNCHANGED <<mode, steps>>
  <2>1. ASSUME Len(query.targets) = 1 PROVE OneTarget(query, Tail(todo), steps', verdict')
    <3>1. Passives!Extensions(mode, w, goal) = {}
      BY <1>2, <1>3, <1>6, <1>11, <2>1, NoRouteIsRight
    <3> QED
      BY <1>6, <1>11, <2>1, <3>1 DEF OneTarget
  <2> QED
    BY <1>2, <1>11, <2>1
<1>12. ASSUME mode[goal] = None, goal \in Passives!Search(w, goal)[Count],
              NEW p \in Passives!Paths(w, goal),
              steps' = steps \o Passives!NewPart(p), verdict' = verdict,
              mode' = [n \in Passives!Nodes |-> IF n \in Passives!ToSet(Passives!NewPart(p)) THEN w ELSE mode[n]]
       PROVE  /\ steps' \in Seq(Passives!Nodes) /\ mode' = Followed(query, steps', Len(steps'))
              /\ \A k \in 0 .. Len(steps') : Passives!Loose(Followed(query, steps', k)) = {}
              /\ Len(query.targets) = 1 => OneTarget(query, Tail(todo), steps', verdict')
  <2> DEFINE q == Passives!NewPart(p)
  <2>1. PICK d : MetAt(w, goal, d) /\ IsPath(w, goal, d, p)
    <3> HIDE DEF w
    <3> QED
      BY <1>12, PathIs
  <2>2. d \in Nat /\ d >= 1 /\ d - 1 \in 0 .. Count /\ d \in 1 .. Count
    BY <2>1, SearchMeets DEF MetAt
  <2>3. IsNew(w, goal, q) /\ ((\A k \in 1 .. d : mode[p[k]] = None) => Len(q) = d)
    <3> HIDE DEF w
    <3> QED
      BY <1>2, <1>5, <1>12, <2>1, <2>2, NewPartIs
  <2> HIDE DEF q
  <2>4. q \in Seq(Passives!Nodes) /\ Len(q) \in Nat /\ Len(steps) \in Nat
        /\ steps' \in Seq(Passives!Nodes) /\ Len(steps') = Len(steps) + Len(q)
    BY <1>2, <1>12, <2>3 DEF IsNew, q
  <2>5. /\ \A k \in 0 .. Len(steps) : Followed(query, steps', k) = Followed(query, steps, k)
        /\ \A i \in 0 .. Len(q) : Followed(query, steps', Len(steps) + i) = Passives!With(mode, FirstOf(q, i), w)
    BY <1>2, <1>12, <2>4, FollowedOn DEF q
  <2>6. \A i \in 0 .. Len(q) : Passives!Loose(Passives!With(mode, FirstOf(q, i), w)) = {}
    <3> HIDE DEF w
    <3> QED
      BY <1>2, <1>5, <2>3, NewClicks
  <2>7. ASSUME NEW k \in 0 .. Len(steps') PROVE Passives!Loose(Followed(query, steps', k)) = {}
    <3>1. CASE k <= Len(steps)
      <4>1. k \in 0 .. Len(steps)
        BY <2>4, <3>1
      <4> QED
        BY <1>2, <2>5, <4>1
    <3>2. CASE ~(k <= Len(steps))
      <4>1. k - Len(steps) \in 0 .. Len(q) /\ Len(steps) + (k - Len(steps)) = k
        BY <2>4, <3>2
      <4>2. Followed(query, steps', Len(steps) + (k - Len(steps))) = Passives!With(mode, FirstOf(q, k - Len(steps)), w)
        BY <2>5, <4>1
      <4> QED
        BY <2>6, <4>1, <4>2
    <3> QED
      BY <3>1, <3>2
  <2>8. mode' = Followed(query, steps', Len(steps'))
    <3>1. Len(q) \in 0 .. Len(q)
      BY <2>4
    <3>2. Followed(query, steps', Len(steps')) = Passives!With(mode, FirstOf(q, Len(q)), w)
      BY <2>4, <2>5, <3>1
    <3>3. FirstOf(q, Len(q)) = Passives!ToSet(q)
      BY <2>4 DEF FirstOf, Passives!ToSet
    <3>4. mode' = Passives!With(mode, Passives!ToSet(q), w)
      BY <1>12 DEF Passives!With, q
    <3> QED
      BY <3>2, <3>3, <3>4
  <2>9. ASSUME Len(query.targets) = 1 PROVE OneTarget(query, Tail(todo), steps', verdict')
    <3>1. /\ Tail(todo) = << >> /\ steps = << >> /\ goal = query.targets[1]
          /\ mode = Left(query.refund) /\ JustRefunded
      BY <1>6, <2>9
    <3>2. \A k \in 1 .. d : mode[p[k]] = None
      <4> SUFFICES ASSUME NEW k \in 1 .. d, mode[p[k]] # None PROVE FALSE
        OBVIOUS
      <4>1. p[k] \in Passives!Nodes /\ Passives!Passable(w, goal, p[k]) /\ p[k] \notin Passives!Sources(w, goal)
        BY <2>1 DEF IsPath
      <4> HIDE DEF w
      <4> QED
        BY <1>2, <3>1, <4>1, PassedIsSource
    <3>3. Len(steps') = d
      <4>1. Len(steps) = 0
        BY <3>1
      <4> QED
        BY <2>2, <2>3, <2>4, <3>2, <4>1
    <3>4. \E S \in Passives!Extensions(mode, w, goal) : Cardinality(S) = d
      <4> HIDE DEF w
      <4> QED
        BY <1>2, <2>1, <3>1, RouteExists
    <3>5. ASSUME NEW S \in Passives!Extensions(mode, w, goal)
          PROVE  Cardinality(S) \in Nat /\ Cardinality(S) >= d
      <4>1. goal \notin Passives!Search(w, goal)[d - 1]
        BY <2>1 DEF MetAt
      <4>2. Cardinality(S) \in Nat /\ Cardinality(S) > d - 1
        <5> HIDE DEF w
        <5> QED
          BY <1>2, <1>3, <2>2, <3>1, <4>1, NoneShorter DEF goal
      <4> QED
        BY <2>2, <4>2
    <3>6. Shortest(Left(query.refund), query.w, query.targets[1], Len(steps'))
      BY <3>1, <3>3, <3>4, <3>5 DEF Shortest
    <3>7. verdict' # "no_route"
      BY <1>1, <1>12, NoneIsNoWord
    <3>8. Left(query.refund)[query.targets[1]] = None
      BY <1>12, <3>1
    <3> QED
      BY <3>1, <3>6, <3>7, <3>8 DEF OneTarget
  <2> QED
    BY <2>4, <2>7, <2>8, <2>9
<1> QED
  BY <1>1, <1>4, <1>9, <1>10, <1>11, <1>12

\* What a route says is right.
LEMMA RouteIsRight ==
    ASSUME GoodTree, TreeRouteInv
    PROVE  Passives!RouteIsShortest
<1>1. SUFFICES ASSUME IsRouting
               PROVE  /\ verdict # "disconnected_after_refund" =>
                           \A k \in 0 .. Len(steps) : Passives!Loose(Passives!AfterClicks(k)) = {}
                      /\ Len(query.targets) = 1 /\ verdict \notin {None, "disconnected_after_refund", "unsupported_node_rule"} =>
                           LET goal == query.targets[1]
                               sizes == {Passives!Cardinality(S) : S \in Passives!Extensions(Passives!AfterRefund, query.w, goal)}
                           IN  /\ Passives!AfterRefund[goal] # None => steps = << >>
                               /\ Passives!AfterRefund[goal] = None =>
                                    IF verdict = "no_route" THEN sizes = {}
                                    ELSE sizes # {} /\ Len(steps) = Passives!Min(sizes)
  BY DEF Passives!RouteIsShortest, IsRouting
<1>2. /\ query.targets \in Seq(Passives!Nodes)
      /\ verdict # "disconnected_after_refund" =>
           \A k \in 0 .. Len(steps) : Passives!Loose(Followed(query, steps, k)) = {}
      /\ Len(query.targets) = 1 => OneTarget(query, todo, steps, verdict)
  BY <1>1 DEF TreeRouteInv
<1>3. /\ Passives!AfterRefund = Left(query.refund)
      /\ \A k : Passives!AfterClicks(k) = Followed(query, steps, k)
  BY DEF Passives!AfterRefund, Passives!AfterClicks, Left, Followed
<1>4. ASSUME Len(query.targets) = 1, verdict \notin {None, "disconnected_after_refund", "unsupported_node_rule"}
      PROVE  LET sizes == {Passives!Cardinality(S) :
                             S \in Passives!Extensions(Left(query.refund), query.w, query.targets[1])}
             IN  /\ Left(query.refund)[query.targets[1]] # None => steps = << >>
                 /\ Left(query.refund)[query.targets[1]] = None =>
                      IF verdict = "no_route" THEN sizes = {}
                      ELSE sizes # {} /\ Len(steps) = Passives!Min(sizes)
  <2> DEFINE sets == Passives!Extensions(Left(query.refund), query.w, query.targets[1])
             sizes == {Passives!Cardinality(S) : S \in sets}
  <2>1. sizes = {Cardinality(S) : S \in sets}
    BY PassivesCardinality
  <2>2. \/ /\ verdict = "no_route" /\ Left(query.refund)[query.targets[1]] = None /\ sets = {}
        \/ verdict # "no_route" /\ Left(query.refund)[query.targets[1]] # None /\ steps = << >>
        \/ /\ verdict # "no_route" /\ Left(query.refund)[query.targets[1]] = None
           /\ Shortest(Left(query.refund), query.w, query.targets[1], Len(steps))
    BY <1>2, <1>4 DEF OneTarget
  <2>3. CASE verdict = "no_route" /\ Left(query.refund)[query.targets[1]] = None /\ sets = {}
    BY <2>3
  <2>4. CASE verdict # "no_route" /\ Left(query.refund)[query.targets[1]] # None /\ steps = << >>
    BY <2>4
  <2>5. CASE /\ verdict # "no_route" /\ Left(query.refund)[query.targets[1]] = None
             /\ Shortest(Left(query.refund), query.w, query.targets[1], Len(steps))
    <3>1. /\ \E S \in sets : Cardinality(S) = Len(steps)
          /\ \A S \in sets : Cardinality(S) \in Nat /\ Cardinality(S) >= Len(steps)
      BY <2>5 DEF Shortest
    <3> HIDE DEF sets
    <3>2. sizes \in SUBSET Nat /\ Len(steps) \in sizes /\ \A k \in sizes : k >= Len(steps)
      BY <2>1, <3>1
    <3> HIDE DEF sizes
    <3>3. Passives!Min(sizes) \in sizes /\ \A k \in sizes : Passives!Min(sizes) <= k
      BY <3>2, PassivesMin
    <3>4. Passives!Min(sizes) \in Nat /\ Passives!Min(sizes) >= Len(steps) /\ Passives!Min(sizes) <= Len(steps)
          /\ Len(steps) \in Nat
      BY <3>2, <3>3
    <3>5. sizes # {} /\ Len(steps) = Passives!Min(sizes)
      BY <3>2, <3>4
    <3> QED
      BY <2>5, <3>5 DEF sizes, sets
  <2> QED
    BY <2>2, <2>3, <2>4, <2>5
<1> QED
  BY <1>2, <1>3, <1>4

LEMMA OrderIsRight ==
    ASSUME ClickOrderInv
    PROVE  Passives!OrderIsFound
BY DEF ClickOrderInv, IsOrdering, Passives!OrderIsFound

-------------------------------------------------------------------------------

\* A question is about a good tree and is not asked, an order or a route.
TreeInv == tree \in Trees /\ Fresh /\ ClickOrderInv /\ TreeRouteInv

LEMMA TreeInit ==
    ASSUME Passives!Init PROVE TreeInv
BY DEF Passives!Init, TreeInv, Fresh, ClickOrderInv, TreeRouteInv, IsOrdering, IsRouting

LEMMA TreeStep ==
    ASSUME TreeInv, [Passives!Next]_(Passives!treeVars) PROVE TreeInv'
<1>1. tree \in Trees /\ Fresh /\ ClickOrderInv /\ TreeRouteInv /\ GoodTree
  BY TreesAreGood DEF TreeInv
<1>2. CASE UNCHANGED Passives!treeVars
  <2>1. UNCHANGED <<tree, query, mode, todo, pending, since, steps, verdict>>
    BY <1>2 DEF Passives!treeVars
  <2>2. Fresh'
    BY <1>1, <2>1 DEF Fresh
  <2>3. TreeRouteInv'
    <3>1. /\ Passives!Nodes' = Passives!Nodes
          /\ \A k : Followed(query, steps, k)' = Followed(query', steps', k)
          /\ \A k : Passives!Loose(Followed(query, steps, k))' = Passives!Loose(Followed(query', steps', k))
          /\ OneTarget(query, todo, steps, verdict)' <=> OneTarget(query', todo', steps', verdict')
      BY <2>1, SameTreeRoute
    <3> QED
      BY <1>1, <2>1, <3>1 DEF TreeRouteInv, IsRouting
  <2>4. ClickOrderInv'
    <3>1. Modes' = Modes /\ Actions' = Actions
      BY <2>1, SameTree
    <3>2. /\ Passives!Disconnected(mode)' = Passives!Disconnected(mode)
          /\ Passives!Applied(since, Head(todo), Head(todo).nodes \ pending)' =
               Passives!Applied(since, Head(todo), Head(todo).nodes \ pending)
          /\ Passives!HasOrder(since, Head(todo))' = Passives!HasOrder(since, Head(todo))
      BY <2>1, SameTreeNext
    <3>3. Midway(Head(todo)) => Midway(Head(todo))'
      BY <2>1, <3>2 DEF Midway
    <3> QED
      BY <1>1, <2>1, <3>1, <3>2, <3>3 DEF ClickOrderInv, IsOrdering
  <2> QED
    BY <1>1, <2>1, <2>2, <2>3, <2>4 DEF TreeInv
<1>3. ASSUME NEW targets \in Targets, NEW refund \in Refunds, NEW w \in 0..2, NEW points \in Points,
             Passives!AskRoute(targets, refund, w, points)
      PROVE  TreeInv'
  <2>1. TreeRouteInv' /\ query' # None /\ query'.op = "route"
    BY <1>1, <1>3, AskRouteKeeps
  <2>2. tree' = tree
    BY <1>3 DEF Passives!AskRoute
  <2> QED
    BY <1>1, <2>1, <2>2 DEF TreeInv, Fresh, ClickOrderInv, IsOrdering
<1>4. ASSUME Passives!NextTarget \/ Passives!EndRoute PROVE TreeInv'
  <2>1. TreeRouteInv'
    BY <1>1, <1>4, NextTargetKeeps, EndRouteKeeps
  <2>2. tree' = tree /\ query' = query /\ query # None /\ query.op = "route"
    BY <1>4 DEF Passives!NextTarget, Passives!EndRoute
  <2> QED
    BY <1>1, <2>1, <2>2 DEF TreeInv, Fresh, ClickOrderInv, IsOrdering
<1>5. ASSUME NEW actions \in Clicks, Passives!AskOrder(actions) PROVE TreeInv'
  <2>1. ClickOrderInv' /\ Fresh' /\ query'.op = "order"
    BY <1>1, <1>5, AskOrderKeeps
  <2>2. tree' = tree
    BY <1>5 DEF Passives!AskOrder
  <2> QED
    BY <1>1, <2>1, <2>2 DEF TreeInv, TreeRouteInv, IsRouting
<1>6. ASSUME Passives!BeginAction \/ Passives!Click \/ Passives!EndOrder PROVE TreeInv'
  <2>1. ClickOrderInv'
    BY <1>1, <1>6, BeginActionKeeps, ClickKeeps, EndOrderKeeps
  <2>2. tree' = tree /\ query' = query /\ query # None /\ query.op = "order"
    BY <1>6 DEF Passives!BeginAction, Passives!Click, Passives!EndOrder, Passives!Ordering
  <2> QED
    BY <1>1, <2>1, <2>2 DEF TreeInv, Fresh, TreeRouteInv, IsRouting
<1>7. CASE Passives!Next
  BY <1>3, <1>4, <1>5, <1>6, <1>7 DEF Passives!Next
<1> QED
  BY <1>2, <1>7

\* catalog.route, passive_candidates.discover and passive_execution.order on every
\* tree: a route to one target has as few new nodes as any set that brings it in,
\* holds at every click, and is missing only when no set does; a listed end point
\* can be had for what it says; no order is refused that exists.
THEOREM TreeAnswersAreRight == Passives!Spec => []TreeAnswersRight
<1>1. Passives!Init => TreeInv
  BY TreeInit
<1>2. TreeInv /\ [Passives!Next]_(Passives!treeVars) => TreeInv'
  BY TreeStep
<1>3. TreeInv => TreeAnswersRight
  BY TreesAreGood, CandidatesAreRight, OrderIsRight, RouteIsRight DEF TreeInv, TreeAnswersRight
<1> QED
  BY <1>1, <1>2, <1>3, PTL DEF Passives!Spec

================================================================================
