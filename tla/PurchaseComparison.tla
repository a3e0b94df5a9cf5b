-------------------------- MODULE PurchaseComparison --------------------------
(* purchases.compare: candidates bought under one budget are compared over the *)
(* same combat scenarios. The comparison keeps its documents and its bills     *)
(* across two awaits, the league check and the exchange rates, while           *)
(* observations of the user arrive and expire and prices age. The plans are    *)
(* copies: an observation listed after they were loaded is not looked at. One  *)
(* request is followed until it is answered; its candidates, bills and budget  *)
(* are chosen in the initial state.                                            *)
EXTENDS FiniteSets, FiniteSetsExt, Lists

CONSTANTS
    Scenarios, Profiles,   \* what a candidate may be: [scores, sound, lines], the lines of its bill in order
    Keys,                  \* the candidates' keys
    Budgets, Golds,        \* amounts, and gold_available (None when not given)
    Rates,                 \* exchange rates of the foreign currency
    Reports,               \* what a user may report: [of, in, said], of a candidate's plan in a scenario
    MaxReports,            \* bound on the observations made
    Reserve, MaxAge, MaxTime, None

VARIABLES
    candidates,   \* the request: a profile for each key
    budget, gold_available,
    phase,        \* "new", "league", "fx", "done", "failed"
    started,      \* the time at which compare began
    reports,      \* the observations listed in the plans of the candidates now
    expired,      \* those of them the store holds no more
    loaded,       \* those listed in the documents compare works on
    comparison,   \* what was saved, or None
    time

purchaseVars == <<candidates, budget, gold_available, phase, started, reports, expired, loaded, comparison, time>>

Init ==
    /\ candidates \in [Keys -> Profiles]
    /\ budget \in Budgets /\ gold_available \in Golds
    /\ phase = "new" /\ started = 0
    /\ reports = {} /\ expired = {} /\ loaded = {} /\ comparison = None /\ time = 0

-------------------------------------------------------------------------------
(* Bills. *)

Recent(line) == line.observed # None /\ started - line.observed \in 0..MaxAge

\* The status of a required component: the retained listing of an item, or the
\* evidence the caller supplied.
Status(line) ==
    CASE line.evidence = "listing" -> IF line.price # None /\ Recent(line) THEN "ask" ELSE "stale"
      [] line.evidence = "reported" -> IF Recent(line) THEN "reported" ELSE "stale"
      [] line.evidence = "owned" -> "owned"
      [] OTHER -> "missing"

Bill(k) == candidates[k].lines
Lines(k) == {Bill(k)[i] : i \in DOMAIN Bill(k)}

Counted(line) == Status(line) \notin {"missing", "stale"}
Complete(k) == \A line \in Lines(k) : Counted(line)
Foreign == \E k \in Keys : \E line \in Lines(k) : line.price # None /\ line.foreign

\* What a line adds to the total, and to the gold when it has no price.
Amount(line, rate) ==
    IF Counted(line) /\ line.price # None THEN line.price * (IF line.foreign THEN rate ELSE 1) ELSE 0
Cost(k, rate) == Total(0, [i \in DOMAIN Bill(k) |-> Amount(Bill(k)[i], rate)])

GoldOf(line) == IF Counted(line) /\ line.price = None /\ Status(line) # "owned" THEN line.gold ELSE 0
Gold(k) == Total(0, [i \in DOMAIN Bill(k) |-> GoldOf(Bill(k)[i])])
GoldKnown(k) == \A line \in Lines(k) : ~Counted(line) => line.kind # "respec"
GoldSufficient(k) ==
    /\ GoldKnown(k)
    /\ IF gold_available = None THEN Gold(k) = 0 ELSE Gold(k) <= gold_available

Spendable == budget - Reserve
BudgetStatus(k, rate) ==
    CASE Cost(k, rate) > Spendable -> "over_budget"
      [] Complete(k) -> "within_estimated_budget"
      [] OTHER -> "incomplete_costs"

-------------------------------------------------------------------------------
(* Decisions. *)

Score(k, s) == candidates[k].scores[s]

\* Every scenario matched, passed its constraints and has every wanted metric.
ScenariosQualified(k) == candidates[k].sound /\ \A s \in Scenarios : Score(k, s) # None

\* Mutant: a listed observation that cannot be read any more is skipped.
ProblemAvailable(k) ==
    \E r \in loaded \ expired : r.of = k /\
        \/ r.said = "adverse"
        \/ \E other \in loaded \ expired : other.of = k /\ other.in = r.in /\ other.said # r.said

\* An observation of a plan as it was loaded is gone, tells of a bad outcome or
\* contradicts another one of the same plan.
Problem(k) ==
    \E r \in loaded : r.of = k /\
        \/ r \in expired \/ r.said = "adverse"
        \/ \E other \in loaded \ expired : other.of = k /\ other.in = r.in /\ other.said # r.said

Qualified(k, rate) ==
    /\ ~Problem(k)
    /\ ScenariosQualified(k)
    /\ Complete(k) /\ Cost(k, rate) <= Spendable
    /\ GoldSufficient(k)

\* b costs no more, scores no less anywhere, and is better somewhere.
Better(b, a, rate) ==
    /\ Cost(b, rate) <= Cost(a, rate)
    /\ \A s \in Scenarios : Score(b, s) >= Score(a, s)
    /\ Cost(b, rate) < Cost(a, rate) \/ \E s \in Scenarios : Score(b, s) > Score(a, s)

Frontier(rate) ==
    {a \in Keys : /\ Qualified(a, rate)
                  /\ \A b \in Keys \ {a} : Qualified(b, rate) => ~Better(b, a, rate)}

Beats(a, b, s) == Score(a, s) # None /\ Score(b, s) # None /\ Score(a, s) > Score(b, s)
Crossings ==
    {pair \in SUBSET Keys : \E a, b \in Keys : pair = {a, b} /\
        (\E s \in Scenarios : Beats(a, b, s)) /\ (\E s \in Scenarios : Beats(b, a, s))}

\* The only qualified candidate nothing beats, if there is exactly one.
Primary(rate) == IF Cardinality(Frontier(rate)) = 1 THEN CHOOSE k \in Frontier(rate) : TRUE ELSE None

\* The first moment at which a price of the bills is too old to be used.
RecheckAfter ==
    Min({started + MaxAge} \cup {line.observed + MaxAge :
           line \in {l \in UNION {Lines(k) : k \in Keys} : l.observed # None}})

Saved(rate) ==
    [primary |-> Primary(rate), frontier |-> Frontier(rate),
     status |-> [k \in Keys |-> BudgetStatus(k, rate)], total |-> [k \in Keys |-> Cost(k, rate)],
     crossings |-> Crossings, recheck |-> RecheckAfter, rate |-> rate]

-------------------------------------------------------------------------------
(* The request and what happens around it. *)

\* Documents loaded, of one base, target and engine; the league is asked for.
Begin ==
    /\ phase = "new"
    /\ phase' = "league" /\ started' = time /\ loaded' = reports
    /\ UNCHANGED <<candidates, budget, gold_available, reports, expired, comparison, time>>

Fails ==
    /\ phase \in {"league", "fx"}
    /\ phase' = "failed"
    /\ UNCHANGED <<candidates, budget, gold_available, started, reports, expired, loaded, comparison, time>>

Decided(rate) == phase' = "done" /\ comparison' = Saved(rate)

\* The bills are made; rates are asked for only when a price needs one.
LeagueVerified ==
    /\ phase = "league"
    /\ IF Foreign THEN phase' = "fx" /\ UNCHANGED comparison ELSE Decided(1)
    /\ UNCHANGED <<candidates, budget, gold_available, started, reports, expired, loaded, time>>

Exchanged ==
    /\ phase = "fx"
    /\ \E rate \in Rates : Decided(rate)
    /\ UNCHANGED <<candidates, budget, gold_available, started, reports, expired, loaded, time>>

Pending == phase \in {"new", "league", "fx"}

\* The user reports an outcome of a candidate's plan; it is listed in the plan.
Observe(r) ==
    /\ Pending /\ Cardinality(reports) < MaxReports
    /\ reports' = reports \cup {r}
    /\ UNCHANGED <<candidates, budget, gold_available, phase, started, expired, loaded, comparison, time>>

\* A listed observation is deleted, or its time is over.
Expire(r) ==
    /\ Pending /\ r \in reports
    /\ expired' = expired \cup {r}
    /\ UNCHANGED <<candidates, budget, gold_available, phase, started, reports, loaded, comparison, time>>

Tick ==
    /\ time < MaxTime
    /\ time' = time + 1
    /\ UNCHANGED <<candidates, budget, gold_available, phase, started, reports, expired, loaded, comparison>>

Next ==
    \/ Begin \/ Fails \/ LeagueVerified \/ Exchanged \/ Tick
    \/ \E r \in Reports : Observe(r) \/ Expire(r)

Spec == Init /\ [][Next]_purchaseVars

\* What a page of the comparison tells its reader.
RecheckRequired == time >= comparison.recheck

-------------------------------------------------------------------------------
\* The frontier loses nothing: a qualified candidate is on it or one that is
\* costs no more and scores no less in every scenario; candidates as good as
\* each other do not drive each other out.
FrontierCovers ==
    phase = "done" => \A k \in Keys : Qualified(k, comparison.rate) =>
        \E best \in comparison.frontier :
            /\ comparison.total[best] <= comparison.total[k]
            /\ \A s \in Scenarios : Score(best, s) >= Score(k, s)

\* The candidate named as the primary one is a complete purchase that leaves the
\* reserve. No observation listed in its plans when they were loaded is adverse,
\* contradicts another one or was lost, not even while the league or the rates
\* were awaited. (What is reported during these awaits is not looked at.)
PrimaryIsSound ==
    phase = "done" /\ comparison.primary # None =>
        LET k == comparison.primary
            told == {r \in loaded : r.of = k}
        IN  /\ told \cap expired = {}
            /\ \A r \in told : r.said # "adverse"
            /\ \A r, other \in told : r.in = other.in => r.said = other.said
            /\ \A line \in Lines(k) :
                  /\ line.evidence \notin {"none", "unknown"}
                  /\ line.evidence = "listing" => line.price # None
            /\ comparison.total[k] + Reserve <= budget

\* A decision is never read as current on a price that has grown too old,
\* although its prices were judged before the awaits.
OldPriceFlagged ==
    phase = "done" => \A k \in Keys : \A line \in Lines(k) :
        line.price # None /\ line.observed # None /\ time > line.observed + MaxAge => RecheckRequired

===============================================================================
