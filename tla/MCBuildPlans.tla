------------------------------ MODULE MCBuildPlans ------------------------------
(* What a build is planned from, side by side: one plan and a route drawn      *)
(* while it changes ("routes"), three plans against small bounds of the store  *)
(* ("store"), the passive tree ("tree") and the advice on equipment ("advice"). *)
(* A behaviour follows one of them; the first two are runs of one module.      *)
EXTENDS BuildPlans, TLC

CONSTANTS
    p1, p2, p3, o1, o2, o3, r1, c1, w1, l1, l2,
    Trees, Targets, Refunds, Clicks, Hops, Points,
    Advices, Markets, Verdicts, Worn, MaxPlans, MaxAdviceTime

VARIABLES
    part,
    tree, query, mode, todo, pending, since, steps, verdict,
    advice, stage, reached, offered, excluded, plans, chosen, epoch

Passives == INSTANCE PassiveTree
Advice == INSTANCE Recommendation

\* A request names finitely many listings, slots and searches; amounts are whole,
\* and the market has every listing that is named.
ASSUME AdviceAssumption ==
    /\ MaxAdviceTime \in Nat /\ None \notin Nat \cup Advice!Reasons
    /\ \A request \in Advices :
         /\ Len(request.entries) \in Nat
         /\ DOMAIN request.entries = 1 .. Len(request.entries)
         /\ IsFiniteSet(UNION {request.entries[k].slots : k \in DOMAIN request.entries})
         /\ IsFiniteSet(request.refs) /\ None \notin request.refs
         /\ request.spend \in Nat /\ request.max_changes \in Nat
         /\ \A market \in Markets : \A r \in request.refs : market[r].price \in Nat \cup {None}
    /\ \A worn \in Worn : IsFiniteSet(worn)

\* A tree has finitely many numbered nodes; its starts are taken for both weapon
\* sets and have no rule of their own; what is asked for are nodes of it.
ASSUME TreesAssumption ==
    /\ None \notin 0..2 /\ Hops \in Nat
    /\ None \notin {"disconnected_after_refund", "unsupported_node_rule", "no_route",
                    "no_order_within_requested_nodes"}
    /\ None \notin [op : {"order"}, actions : Clicks]
    /\ None \notin [op : {"route"}, targets : Targets, refund : Refunds, w : 0..2, points : Points]
    /\ \A t \in Trees :
         /\ DOMAIN t.asc \subseteq Nat /\ IsFiniteSet(DOMAIN t.asc)
         /\ t.special \subseteq DOMAIN t.asc /\ t.roots \subseteq DOMAIN t.asc \ t.special
         /\ t.mode \in [DOMAIN t.asc -> {None, 0, 1, 2}]
         /\ \A n \in t.roots : t.mode[n] = 0
         /\ Targets \subseteq Seq(DOMAIN t.asc)
         /\ Clicks \subseteq Seq([give : BOOLEAN, nodes : SUBSET DOMAIN t.asc, mode : 0..2])

-------------------------------------------------------------------------------
(* Plans, routes and the store. *)

OneOwner == [p \in Plans |-> w1]

Good    == [acceptable |-> TRUE, executable |-> TRUE, needs |-> FALSE]
Locked  == [acceptable |-> TRUE, executable |-> TRUE, needs |-> TRUE]
Invalid == [acceptable |-> FALSE, executable |-> TRUE, needs |-> FALSE]
AllTraits == {Good, Locked, Invalid}

Outcome(outcome) == [key |-> "ritual", outcome |-> outcome]
SomeContents == {Outcome("stable"), Outcome("adverse"), [key |-> "unlock", outcome |-> "unlocked"]}

\* Ids are alike, so it is enough to hand them out in one order.
HandedOut(ids) == \A i \in 2 .. Len(ids) : ids[i] \in spent' => ids[i - 1] \in spent'

\* One plan and two observations.
RoutesPart ==
    /\ spent' \subseteq {p1, o1, o2} \cup Routes
    /\ HandedOut(<<o1, o2>>)

\* All plans and observations, one kind of each; reports make the plans grow.
StorePart ==
    /\ spent' \cap Routes = {}
    /\ HandedOut(<<p1, p2, p3>>) /\ HandedOut(<<o1, o2, o3>>)
    /\ \A p \in Plans : plan'[p] # None => plan'[p].trait = Good /\ plan'[p].state = "proposed"
    /\ \A o \in Reports : report'[o] # None => report'[o].content = Outcome("adverse")

-------------------------------------------------------------------------------
(* Five nodes: a line, two ways of one length, a fork, a dead end, and a tree  *)
(* with an ascendancy; nodes taken for both weapon sets or for one.            *)

SomeLinks == {{{0,1},{1,2},{2,3},{3,4}}, {{0,1},{1,2},{0,3},{3,2},{2,4}},
              {{0,1},{0,2},{1,3},{2,4},{3,4}}, {{0,1},{1,2},{1,3},{0,4}}}
NoNode == [n \in 0..4 |-> None]
SomeTaken == {<<>>, 1 :> 0, 1 :> 1, (1 :> 1) @@ (2 :> 1), (1 :> 0) @@ (3 :> 2)}
Keystones(k) == [n \in 0..4 |-> IF n \in k THEN "Keystone" ELSE "Normal"]
SomeTrees ==
    {[links |-> e, roots |-> {0}, asc |-> NoNode, kind |-> Keystones(k), special |-> {},
      mode |-> t @@ (0 :> 0) @@ NoNode] : e \in SomeLinks, k \in {{}, {3}}, t \in SomeTaken}
    \cup {[links |-> {{0,1},{1,2},{3,4},{0,4}}, roots |-> {0, 3},
           asc |-> [n \in 0..4 |-> IF n >= 3 THEN "a" ELSE None], kind |-> Keystones({}),
           special |-> {2}, mode |-> (0 :> 0) @@ (3 :> 0) @@ t @@ NoNode]
           : t \in {<<>>, 1 :> 0, 4 :> 0}}
    \cup {[links |-> e, roots |-> {0}, asc |-> NoNode, kind |-> Keystones({}), special |-> {2},
           mode |-> t @@ (0 :> 0) @@ NoNode]
           : e \in {{{0,1},{1,2},{2,3},{3,4}}, {{0,1},{1,2},{0,4},{3,4},{2,3}}},
             t \in {2 :> 0, 2 :> 1, (1 :> 0) @@ (2 :> 0)}}
Clicked(give, nodes, m) == [give |-> give, nodes |-> nodes, mode |-> m]

SomeTargets == {<<2>>, <<3>>, <<4>>, <<2, 4>>, <<3, 4>>}
SomeRefunds == {{}, {1}, {3}}
SomeClicks == {<<Clicked(FALSE, {1,2,3}, 1)>>, <<Clicked(FALSE, {2,4}, 0)>>,
               <<Clicked(TRUE, {1,2}, 0), Clicked(FALSE, {3,4}, 2)>>, <<Clicked(TRUE, {1,2,3,4}, 0)>>}
SomePoints == {[ordinary |-> 1, ascendancy |-> 0, weapon |-> None],
               [ordinary |-> 2, ascendancy |-> 0, weapon |-> 2]}

-------------------------------------------------------------------------------
(* Two listings that may be found by two searches and fit two ring slots.      *)

Listing(row, raw, price, observed, importable) ==
    [row |-> row, raw |-> raw, price |-> price, observed |-> observed, importable |-> importable]
Rows == {Listing(FALSE, FALSE, None, 0, FALSE), Listing(TRUE, TRUE, None, 1, TRUE),
         Listing(TRUE, TRUE, 1, 0, TRUE), Listing(TRUE, TRUE, 2, 1, TRUE),
         Listing(TRUE, TRUE, 3, 1, TRUE)}
Rings == {"ring_left", "ring_right"}
Search(ids, slots) == [ids |-> ids, slots |-> slots]
SomeAdvices ==
    [entries : {<<Search(<<l1, l2>>, Rings)>>,
                <<Search(<<l1>>, {"belt"}), Search(<<l2, l1>>, Rings)>>},
     refs : {{l1, l2}, {l1}}, unequip : {{}, Rings}, max_changes : {2}, spend : {2},
     mode : {"maximize_score", "minimum_cost", "restore_validity"}, max_age : {0}]
Sent == UNION {kSubset(k, (Rings \cup {"belt"}) \X {l1, l2, None}) : k \in 0..2}
Judged(validity, covered, meets, known) ==
    [s \in Sent |->
       [validity |-> validity, covered |-> covered, known |-> known,
        meets |-> meets \/ s # {},
        score |-> Cardinality({c \in s : c[2] # None}) + Cardinality({c \in s : c[2] = l1})]]
SomeVerdicts == {Judged("pass", TRUE, TRUE, TRUE), Judged("pass", TRUE, FALSE, TRUE),
                 Judged("fail", TRUE, TRUE, TRUE), Judged("pass", FALSE, TRUE, TRUE),
                 Judged("pass", TRUE, TRUE, FALSE)}

SomeMarkets == [{l1, l2} -> Rows]
SomeWorn == {{}, {"ring_left"}}

-------------------------------------------------------------------------------

treeVars == <<tree, query, mode, todo, pending, since, steps, verdict>>
adviceVars == <<advice, stage, reached, offered, excluded, plans, chosen, epoch>>
planningVars == <<part, vars, treeVars, adviceVars>>

PlanningInit ==
    /\ part \in {"routes", "store", "tree", "advice"}
    /\ Init /\ Passives!Init /\ Advice!Init
    /\ part # "tree" => tree = CHOOSE t \in Trees : TRUE

PlanningNext ==
    \/ part = "routes" /\ Next /\ RoutesPart /\ UNCHANGED <<part, treeVars, adviceVars>>
    \/ part = "store" /\ Next /\ StorePart /\ UNCHANGED <<part, treeVars, adviceVars>>
    \/ part = "tree" /\ Passives!Next /\ UNCHANGED <<part, vars, adviceVars>>
    \/ part = "advice" /\ Advice!Next /\ UNCHANGED <<part, vars, treeVars>>

PlanningSpec == PlanningInit /\ [][PlanningNext]_planningVars

\* catalog.route, passive_candidates.discover and passive_execution.order: a
\* route is as short as any, a listed end point costs what taking it costs, and
\* an order of clicks is found whenever there is one.
TreeAnswersRight ==
    part = "tree" =>
        Passives!RouteIsShortest /\ Passives!CandidatesAgree /\ Passives!OrderIsFound

\* EngineClient.recommend: no listing is lost between its search and the
\* enumeration, and the advice is the best of everything the budget allows; an
\* advice is in one of its stages, and what it excludes has a reason.
AdviceRight ==
    Advice!AdviceTypeOK /\ Advice!ListingsAccounted /\ Advice!AdviceIsBest

=================================================================================
