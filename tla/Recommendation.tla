---------------------------- MODULE Recommendation ----------------------------
(* engine.EngineClient.recommend: which retained trade listings to wear. The   *)
(* call asks the worker for the worn equipment, fetches the listings of every  *)
(* named search, excludes those it cannot use, enumerates every combination of *)
(* changes the budget allows, has the worker calculate them all in one batch,  *)
(* and ranks the answers.                                                      *)
(*                                                                             *)
(* The worker's verdict on a combination, the listings and the request are     *)
(* inputs. Amounts are whole units of the budget's currency.                   *)
EXTENDS Naturals, SequencesExt, Lists

CONSTANTS
    Advices,     \* the requests a client may make
    Markets,     \* what the listings may be: functions from references
    Verdicts,    \* what the worker may answer: functions from sets of changes
    Worn,        \* the sets of occupied slots
    MaxPlans,    \* sixty-four
    MaxAdviceTime,
    None

VARIABLES
    advice,      \* the request, market and worn slots of the call
    stage,       \* what it awaits, or how it ended
    reached,     \* how many of its searches have been fetched
    offered,     \* (reference, slots) kept as candidates, in the order met
    excluded,    \* reference -> reason
    plans,       \* the sets of changes sent to the worker
    chosen,      \* the plan answered, with its rank list
    epoch        \* seconds

adviceVars == <<advice, stage, reached, offered, excluded, plans, chosen, epoch>>

Reasons == {"unavailable_or_unparsed", "private_item_unavailable", "unsupported_slot",
            "missing_price", "stale", "private_import_rejected", "over_budget"}
Ended == {"answered", "failed", "engine_candidate_space_too_large",
          "engine_missing_metric", "engine_unknown_candidate"}

AdviceTypeOK ==
    /\ stage \in Ended \cup {"new", "initial", "fetching", "rates", "second"}
    /\ epoch \in 0..MaxAdviceTime
    /\ \A r \in DOMAIN excluded : excluded[r] \in Reasons
    /\ \A p \in plans : \A c \in p : c.cost \in Nat

Init ==
    /\ advice = None /\ stage = "new" /\ reached = 0
    /\ offered = <<>> /\ excluded = <<>> /\ plans = {} /\ chosen = None
    /\ epoch = 0

-------------------------------------------------------------------------------
(* Listings. *)

Ids(request) == UNION {ToSet(request.entries[k].ids) : k \in DOMAIN request.entries}
\* The call looks up its searches and references before it awaits anything.
Asked(request, market, worn) ==
    /\ stage = "new"
    /\ advice' = [request |-> request, market |-> market, worn |-> worn, verdict |-> None]
    /\ stage' = IF request.refs \subseteq Ids(request) THEN "initial"
                ELSE "engine_unknown_candidate"
    /\ UNCHANGED <<reached, offered, excluded, plans, chosen, epoch>>

\* The first batch answers what the build wears; its league was checked.
Initial ==
    /\ stage = "initial"
    /\ stage' = "fetching"
    /\ UNCHANGED <<advice, reached, offered, excluded, plans, chosen, epoch>>

\* What makes a listing unusable, in the order in which it is looked for.
Tests(l, slots) ==
    <<~l.row, ~l.raw, slots = {}, l.price = None,
      l.row /\ epoch > l.observed + advice.request.max_age, ~l.importable>>
Grounds == <<"unavailable_or_unparsed", "private_item_unavailable", "unsupported_slot",
             "missing_price", "stale", "private_import_rejected">>

\* Why a listing is left out, None if it is usable: the first that applies.
Reason(l, slots) ==
    LET hit == {k \in 1..6 : Tests(l, slots)[k]}
    IN  IF hit = {} THEN None ELSE Grounds[CHOOSE k \in hit : \A j \in hit : k <= j]

\* The named references of the k-th search that no earlier search had.
Matched(k) ==
    {r \in ToSet(advice.request.entries[k].ids) :
       /\ r \in advice.request.refs
       /\ \A j \in 1..k - 1 : r \notin ToSet(advice.request.entries[j].ids)}

\* One search has been fetched, its listings are judged with the clock of now.
Fetched ==
    LET k == reached + 1
        slots == advice.request.entries[k].slots
        why(r) == Reason(advice.market[r], slots)
        out == {r \in Matched(k) : why(r) # None}
    IN  /\ stage = "fetching" /\ k \in DOMAIN advice.request.entries
        /\ reached' = k
        /\ excluded' = [r \in DOMAIN excluded \cup out |->
                          IF r \in out THEN why(r) ELSE excluded[r]]
        /\ offered' = Append(offered, {[ref |-> r, slots |-> slots] : r \in Matched(k) \ out})
        /\ stage' = IF k = Len(advice.request.entries) THEN "rates" ELSE "fetching"
        /\ UNCHANGED <<advice, plans, chosen, epoch>>

-------------------------------------------------------------------------------
(* Combinations. *)

\* The prices of a plan, added up in one order of its changes.
Cost(plan) ==
    LET listed == SetToSeq(plan)
    IN  Total(0, [i \in DOMAIN listed |-> listed[i].cost])

\* One change per usable listing and slot it fits, and the removal of each worn
\* slot the request lets go.
Removals(request, worn) ==
    {[slot |-> s, ref |-> None, cost |-> 0] : s \in worn \cap request.unequip}
Purchases(usable) ==
    UNION {{[slot |-> s, ref |-> o.ref, cost |-> advice.market[o.ref].price] : s \in o.slots}
           : o \in usable}

DistinctRefs(plan) ==
    \A c, d \in plan : c.ref # None /\ c.ref = d.ref => c = d

OnePerSlot(plan) == \A c, d \in plan : c.slot = d.slot => c = d

Combinations(options) ==
    LET slots == {o.slot : o \in options}
        choices(S) == {p \in SUBSET options : {c.slot : c \in p} = S /\ OnePerSlot(p)}
    IN  UNION {choices(S) : S \in {T \in SUBSET slots :
                                     Cardinality(T) \in 1..advice.request.max_changes}}

\* enumerate_plans after the prices were converted; more than sixty-four plans
\* are refused, never pruned.
Enumerated ==
    LET kept == UNION ToSet(offered)
        dear == {o \in kept : advice.market[o.ref].price > advice.request.spend}
        options == Purchases(kept \ dear) \cup Removals(advice.request, advice.worn)
        found == {p \in Combinations(options) :
                    DistinctRefs(p) /\ Cost(p) <= advice.request.spend}
    IN  /\ stage = "rates"
        /\ excluded' = [r \in DOMAIN excluded \cup {o.ref : o \in dear} |->
                          IF r \in DOMAIN excluded THEN excluded[r] ELSE "over_budget"]
        /\ plans' = found \cup {{}}
        /\ stage' = IF Cardinality(found) + 1 > MaxPlans
                    THEN "engine_candidate_space_too_large" ELSE "second"
        /\ UNCHANGED <<advice, reached, offered, chosen, epoch>>

-------------------------------------------------------------------------------
(* Ranking. *)

\* What the worker is told of a plan.
Sent(p) == {<<c.slot, c.ref>> : c \in p}

Repair == advice.request.mode = "restore_validity"

\* A plan is eligible when the worker found the equipment valid and every metric
\* that is needed, here and in the worn equipment, and the constraints hold. A
\* repair has no score, and the worn equipment need not be covered.
Status(verdict, p) ==
    CASE verdict[Sent(p)].validity = "fail" -> "invalid_equipment"
      [] verdict[Sent(p)].validity # "fail"
         /\ (verdict[Sent(p)].validity # "pass" \/ ~verdict[Sent(p)].covered
              \/ (~Repair /\ ~verdict[{}].covered)) -> "unresolved_dependencies"
      [] OTHER -> IF verdict[Sent(p)].meets THEN "eligible" ELSE "constraints_not_met"

Gain(verdict, p) == IF Repair THEN 0 ELSE verdict[Sent(p)].score
Eligible(verdict) == {p \in plans : Status(verdict, p) = "eligible"}

\* The sort keys, smallest first: a higher score, the price, fewer changes; the
\* price comes first unless the score is to be maximised.
Before(verdict, p, q) ==
    LET g == Gain(verdict, p)  h == Gain(verdict, q)
        cheaper == Cost(p) < Cost(q)  same == Cost(p) = Cost(q)
        fewer == Cardinality(p) < Cardinality(q)
    IN  IF advice.request.mode = "maximize_score"
        THEN g > h \/ (g = h /\ (cheaper \/ (same /\ fewer)))
        ELSE cheaper \/ (same /\ (g > h \/ (g = h /\ fewer)))

\* Mutant: plans that fail a constraint are ranked.
FirstOfAll(verdict) ==
    {p \in plans : \A q \in plans : ~Before(verdict, q, p)}

First(verdict) ==
    {p \in Eligible(verdict) : \A q \in Eligible(verdict) : ~Before(verdict, q, p)}

\* The second batch, or the first when there is nothing to change, is judged.
\* The score of the worn equipment must be known unless it is to be repaired.
Judge(verdict) ==
    /\ stage = "second"
    /\ advice' = [advice EXCEPT !.verdict = verdict]
    /\ IF ~Repair /\ ~verdict[{}].known
       THEN stage' = "engine_missing_metric" /\ UNCHANGED chosen
       ELSE /\ stage' = "answered"
            /\ IF Eligible(verdict) = {}
               THEN chosen' = [plan |-> {}, feasible |-> FALSE]
               ELSE \E p \in First(verdict) : chosen' = [plan |-> p, feasible |-> TRUE]
    /\ UNCHANGED <<reached, offered, excluded, plans, epoch>>

\* The worker, the trade site or the exchange rates fail the call.
Fail ==
    /\ stage \in {"initial", "fetching", "rates", "second"}
    /\ stage' = "failed"
    /\ UNCHANGED <<advice, reached, offered, excluded, plans, chosen, epoch>>

AdviceTick ==
    /\ stage \notin Ended /\ epoch < MaxAdviceTime
    /\ epoch' = epoch + 1
    /\ UNCHANGED <<advice, stage, reached, offered, excluded, plans, chosen>>

Next ==
    \/ \E request \in Advices, market \in Markets, worn \in Worn :
         Asked(request, market, worn)
    \/ Initial \/ Fetched \/ Enumerated \/ Fail \/ AdviceTick
    \/ \E verdict \in Verdicts : Judge(verdict)

Spec == Init /\ [][Next]_adviceVars

-------------------------------------------------------------------------------
(* Properties. *)

\* Every listing the client named is either offered to the enumeration, by one of
\* its searches, or excluded with a reason: none is lost between the two, none is
\* in both.
ListingsAccounted ==
    stage \in {"second", "answered"} =>
      \A r \in advice.request.refs :
        LET offers == {k \in DOMAIN offered : \E o \in offered[k] : o.ref = r}
        IN  IF r \in DOMAIN excluded /\ excluded[r] # "over_budget"
            THEN offers = {} ELSE Cardinality(offers) = 1

\* What a client may be advised to do: wear in each slot what it wears, nothing,
\* or one usable listing that no other slot takes, with at most max_changes
\* differences and the reserve untouched.
Outfits ==
    LET slots == advice.worn \cup (UNION {o.slots : o \in UNION ToSet(offered)})
        worth(r) == IF r = None THEN 0 ELSE advice.market[r].price
        fits(r, s) == \E o \in UNION ToSet(offered) : o.ref = r /\ s \in o.slots
        outfits == UNION {[S -> advice.request.refs \cup {None}] : S \in SUBSET slots}
        changes(f) == {[slot |-> s, ref |-> f[s], cost |-> worth(f[s])] : s \in DOMAIN f}
        wearable(f) ==
            /\ Cardinality(DOMAIN f) <= advice.request.max_changes
            /\ \A s \in DOMAIN f : IF f[s] = None THEN s \in advice.worn \cap advice.request.unequip
                                   ELSE fits(f[s], s)
            /\ \A s, t \in DOMAIN f : f[s] = f[t] /\ f[s] # None => s = t
            /\ Cost(changes(f)) <= advice.request.spend
    IN  {changes(f) : f \in {g \in outfits : wearable(g)}}

\* The advice is one of these, the worker found it eligible, and none that the
\* worker finds eligible comes before it: no combination was skipped on the way
\* from the listings to the ranking. Without an eligible one nothing is changed.
AdviceIsBest ==
    stage = "answered" =>
      IF chosen.feasible
      THEN /\ chosen.plan \in Outfits
           /\ Status(advice.verdict, chosen.plan) = "eligible"
           /\ \A p \in Outfits : Status(advice.verdict, p) = "eligible" =>
                                   ~Before(advice.verdict, p, chosen.plan)
      ELSE \A p \in Outfits : Status(advice.verdict, p) # "eligible"

===============================================================================
