------------------------------ MODULE PassiveTree -----------------------------
(* The pure algorithms over the passive tree: catalog.route (the travel nodes  *)
(* to a list of targets), passive_candidates.discover (every end point within  *)
(* a number of hops) and passive_execution.order (the order of the clicks).    *)
(*                                                                             *)
(* A node is allocated for both weapon sets (mode 0) or for one of them (1, 2) *)
(* and a tree is a record: links, roots, asc (None or the ascendancy of a      *)
(* node), kind ("Normal" or "Keystone"), special (nodes with a rule of their   *)
(* own), mode (the mode of every allocated node, None for the others).         *)
EXTENDS Integers, SequencesExt, Lists

CONSTANTS
    Trees,        \* the trees of a run
    Targets,      \* the target lists a client may ask for
    Refunds,      \* the sets of nodes it may give back
    Clicks,       \* the lists of tree actions to order: [give, nodes, mode]
    Hops,         \* the path lengths it may allow
    Points,       \* the points it may have, for ordinary and for weapon-set nodes
    None

VARIABLES
    tree,     \* the catalogue's graph
    query,    \* what is asked, None before
    mode,     \* node -> mode, None if not allocated: as the route is followed
    todo,     \* targets left, or actions left
    pending,  \* nodes of the action under way that are not clicked yet
    since,    \* the modes when that action began
    steps,    \* the nodes to click, in order
    verdict   \* the status, None while it is computed

treeVars == <<tree, query, mode, todo, pending, since, steps, verdict>>

Nodes == DOMAIN tree.asc
Allocated(m) == {n \in Nodes : m[n] # None}
Linked(a, b) == {a, b} \in tree.links

Met(from, next) == Waves(from, next, Cardinality(Nodes))[Cardinality(Nodes)]

\* An allocated node that serves weapon set w.
Serves(m, w, n) == m[n] \in {0, w}

\* What the nodes "from" reach through nodes of weapon set w or of both.
Reachable(m, w, from) ==
    Met(from, [p \in Nodes |->
      {n \in Nodes : Linked(p, n) /\ tree.asc[p] = tree.asc[n] /\ Serves(m, w, n)}])

Disconnected(m) ==
    {n \in Allocated(m) \ tree.roots : n \notin Reachable(m, m[n], tree.roots)}

-------------------------------------------------------------------------------
(* Routes. *)

Init ==
    /\ tree \in Trees
    /\ query = None /\ mode = tree.mode /\ todo = <<>> /\ steps = <<>>
    /\ pending = {} /\ since = tree.mode /\ verdict = None

Barred(w, n) == w # 0 /\ tree.kind[n] = "Keystone"

\* The nodes a path of weapon set w may run through.
Passable(w, goal, n) ==
    /\ n \notin tree.special \cup tree.roots
    /\ mode[n] \in {None, 0, w}
    /\ ~Barred(w, n)
    /\ tree.asc[n] = tree.asc[goal]

AskRoute(targets, refund, w, points) ==
    LET left == [n \in Nodes |-> IF n \in refund THEN None ELSE mode[n]]
    IN  /\ query = None
        /\ refund \subseteq Allocated(mode) \ tree.roots
        /\ query' = [op |-> "route", targets |-> targets, refund |-> refund, w |-> w, points |-> points]
        /\ mode' = left /\ todo' = targets
        /\ verdict' = IF Disconnected(left) \subseteq tree.special THEN None
                      ELSE "disconnected_after_refund"
        /\ UNCHANGED <<tree, pending, since, steps>>

\* Paths start from what is taken now but serves w by its mode in the catalogue,
\* which is 0 for a node that was not taken.
Sources(w, goal) ==
    {n \in Allocated(mode) : tree.mode[n] \in {None, 0, w} /\ tree.asc[n] = tree.asc[goal]}

\* The nodes within k steps of the sources.
Search(w, goal) ==
    Waves(Sources(w, goal), [p \in Nodes |-> {n \in Nodes : Linked(p, n) /\ Passable(w, goal, n)}],
          Cardinality(Nodes))

Distance(wave, n) == Min({k \in DOMAIN wave : n \in wave[k]})

\* The shortest paths to the goal; the order of the queue picks one of them.
Paths(w, goal) ==
    LET wave == Search(w, goal)
        d == Distance(wave, goal)
    IN  {p \in [1..d -> wave[d]] :
           /\ p[d] = goal
           /\ \A k \in 1..d : Distance(wave, p[k]) = k
           /\ \A k \in 1..d - 1 : Linked(p[k], p[k + 1])
           /\ \E s \in Sources(w, goal) : Linked(s, p[1])}

\* What is taken of a path: its nodes after the last that is taken already.
NewPart(p) == SubSeq(p, 1 + Max({0} \cup {k \in DOMAIN p : mode[p[k]] # None}), Len(p))

\* Ordinary points, ascendancy points, and those of the two weapon sets: a pair of
\* weapon-set nodes is paid with one ordinary point.
PointCounts(m) ==
    LET ordinary == {n \in Allocated(m) \ (tree.roots \cup tree.special) : tree.asc[n] = None}
        ofSet(w) == Cardinality({n \in ordinary : m[n] = w})
    IN  [ordinary |-> Cardinality(ordinary) - Min({ofSet(1), ofSet(2)}),
         ascendancy |-> Cardinality({n \in Allocated(m) \ tree.roots : tree.asc[n] # None}),
         weapon |-> <<ofSet(1), ofSet(2)>>]

Spent(m, w) ==
    LET was == PointCounts(tree.mode)  is == PointCounts(m)
    IN  [ordinary |-> is.ordinary - was.ordinary,
         ascendancy |-> is.ascendancy - was.ascendancy,
         weapon |-> IF w = 0 THEN 0 ELSE is.weapon[w] - was.weapon[w]]

\* One target, in the order asked: already there, not supported, without a route,
\* or its whole path is taken and later targets may start from it.
NextTarget ==
    LET goal == Head(todo)  w == query.w
    IN  /\ query # None /\ query.op = "route" /\ verdict = None /\ todo # <<>>
        /\ todo' = Tail(todo)
        /\ IF mode[goal] # None THEN UNCHANGED <<mode, steps, verdict>>
           ELSE IF goal \in tree.special \/ Barred(w, goal)
           THEN verdict' = "unsupported_node_rule" /\ UNCHANGED <<mode, steps>>
           ELSE IF goal \notin Search(w, goal)[Cardinality(Nodes)]
           THEN verdict' = "no_route" /\ UNCHANGED <<mode, steps>>
           ELSE \E p \in Paths(w, goal) :
                  /\ steps' = steps \o NewPart(p)
                  /\ mode' = [n \in Nodes |-> IF n \in ToSet(NewPart(p)) THEN w ELSE mode[n]]
                  /\ UNCHANGED verdict
        /\ UNCHANGED <<tree, query, pending, since>>

\* The budgets: the weapon-set points may be unreported (None).
Affordable(w, points) ==
    LET spent == Spent(mode, w)
    IN  IF spent.ordinary > points.ordinary \/ spent.ascendancy > points.ascendancy
        THEN "over_budget"
        ELSE IF spent.weapon > 0 /\ points.weapon = None THEN "weapon_point_budget_unreported"
        ELSE IF spent.weapon > (IF points.weapon = None THEN 0 ELSE points.weapon)
        THEN "over_budget" ELSE "route_found"

EndRoute ==
    /\ query # None /\ query.op = "route" /\ verdict = None /\ todo = <<>>
    /\ verdict' = Affordable(query.w, query.points)
    /\ UNCHANGED <<tree, query, mode, todo, pending, since, steps>>

-------------------------------------------------------------------------------
(* Candidates: end points within a number of hops, for one weapon set. *)

Discoverable(m, w, hops) ==
    LET sources == {n \in Allocated(m) \ tree.special : Serves(m, w, n) /\ tree.asc[n] = None}
        open(n) == /\ n \notin tree.special \cup tree.roots /\ m[n] = None
                   /\ tree.asc[n] = None /\ ~Barred(w, n)
        wave == Waves(sources, [p \in Nodes |-> {n \in Nodes : Linked(p, n) /\ open(n)}], hops)
    IN  {row \in [node : {n \in Nodes : tree.kind[n] = "Normal"}, d : 1..hops] :
           row.node \in wave[row.d] \ wave[row.d - 1]}

\* The ordinary and weapon-set points of a path of d new nodes.
PathPoints(m, w, d) ==
    LET was == PointCounts(m).weapon
        plus(v) == was[v] + IF v = w THEN d ELSE 0
    IN  [ordinary |-> d - (Min({plus(1), plus(2)}) - Min({was[1], was[2]})),
         weapon |-> IF w = 0 THEN 0 ELSE d]

-------------------------------------------------------------------------------
(* The order of the clicks. *)

Applied(m, action, done) ==
    [n \in Nodes |-> IF n \in done THEN IF action.give THEN None ELSE action.mode ELSE m[n]]

AskOrder(actions) ==
    LET touched == UNION {actions[k].nodes : k \in DOMAIN actions}
    IN  /\ query = None
        /\ query' = [op |-> "order", actions |-> actions]
        /\ todo' = actions
        /\ verdict' = IF (touched \cup (Allocated(mode) \ tree.roots)) \cap tree.special # {}
                         \/ touched \cap tree.roots # {}
                      THEN "unsupported_node_rule"
                      ELSE IF Disconnected(mode) # {} THEN "no_order_within_requested_nodes"
                      ELSE None
        /\ UNCHANGED <<tree, mode, pending, since, steps>>

\* Mutant: connection is looked at for the node alone and not for the whole tree.
TouchesTree(m, action, n) == \E p \in Allocated(m) : Linked(p, n)

\* A click that leaves the whole tree connected.
Clickable(m, action, n) == Disconnected(Applied(m, action, {n})) = {}

\* An action that takes what is taken or returns what is not is an error.
Coherent(action) ==
    \A n \in action.nodes : action.give <=> mode[n] # None

Ordering == query # None /\ query.op = "order" /\ verdict = None

BeginAction ==
    /\ Ordering /\ todo # <<>> /\ pending = {}
    /\ IF Coherent(Head(todo))
       THEN pending' = Head(todo).nodes /\ since' = mode /\ UNCHANGED verdict
       ELSE verdict' = "engine_invalid_request" /\ UNCHANGED <<pending, since>>
    /\ UNCHANGED <<tree, query, mode, todo, steps>>

\* The clickable node of the smallest number, until the action is done.
Click ==
    LET action == Head(todo)
        ready == {n \in pending : Clickable(mode, action, n)}
    IN  /\ Ordering /\ pending # {}
        /\ IF ready = {}
           THEN /\ verdict' = "no_order_within_requested_nodes"
                /\ UNCHANGED <<mode, steps, todo, pending>>
           ELSE /\ mode' = Applied(mode, action, {Min(ready)})
                /\ steps' = Append(steps, Min(ready))
                /\ pending' = pending \ {Min(ready)}
                /\ todo' = IF pending' = {} THEN Tail(todo) ELSE todo
                /\ UNCHANGED verdict
        /\ UNCHANGED <<tree, query, since>>

EndOrder ==
    /\ Ordering /\ todo = <<>>
    /\ verdict' = "verified"
    /\ UNCHANGED <<tree, query, mode, todo, pending, since, steps>>

Next ==
    \/ \E targets \in Targets, refund \in Refunds, w \in 0..2, points \in Points :
         AskRoute(targets, refund, w, points)
    \/ NextTarget \/ EndRoute
    \/ \E actions \in Clicks : AskOrder(actions)
    \/ BeginAction \/ Click \/ EndOrder

Spec == Init /\ [][Next]_treeVars

-------------------------------------------------------------------------------
(* Properties. *)

\* The tree after the refund, and after the first k clicks of the route.
AfterRefund == [n \in Nodes |-> IF n \in query.refund THEN None ELSE tree.mode[n]]
AfterClicks(k) ==
    [n \in Nodes |-> IF \E j \in 1..k : steps[j] = n THEN query.w ELSE AfterRefund[n]]

\* What is taken and held by no start and by no taken node with a rule of its own.
Loose(m) ==
    {n \in Allocated(m) \ (tree.roots \cup tree.special) :
       n \notin Reachable(m, m[n], tree.roots \cup {s \in tree.special : Serves(m, m[n], s)})}

With(m, S, w) == [n \in Nodes |-> IF n \in S THEN w ELSE m[n]]

\* The sets of new nodes that bring a target into the tree and leave no ordinary
\* node loose: the reference for routes and candidates.
Extensions(m, w, goal) ==
    {S \in SUBSET {n \in Nodes \ (tree.roots \cup tree.special) :
                     m[n] = None /\ ~Barred(w, n) /\ tree.asc[n] = tree.asc[goal]} :
       goal \in S /\ Loose(With(m, S, w)) = {}}

\* A route can be clicked from its first node to its last, every ordinary node
\* then held by nodes of its own weapon set or of both; one target is reached with
\* as few new nodes as any set that reaches it, and "no route" means that no set
\* does. A route may start from a taken node with a rule of its own, whatever that
\* node itself hangs on.
RouteIsShortest ==
    query # None /\ query.op = "route" =>
      /\ verdict # "disconnected_after_refund" =>
           \A k \in 0..Len(steps) : Loose(AfterClicks(k)) = {}
      /\ Len(query.targets) = 1 /\ verdict \notin {None, "disconnected_after_refund", "unsupported_node_rule"} =>
           LET goal == query.targets[1]
               sizes == {Cardinality(S) : S \in Extensions(AfterRefund, query.w, goal)}
           IN  /\ AfterRefund[goal] # None => steps = <<>>
               /\ AfterRefund[goal] = None =>
                    IF verdict = "no_route" THEN sizes = {} ELSE sizes # {} /\ Len(steps) = Min(sizes)

\* A listed end point costs what taking it costs: some set of as many new nodes
\* brings it in, and the points it is said to need are the difference between the
\* point counts of the tree with and without such a set. Where no node with a rule
\* of its own is taken, from which a path would be drawn but not listed, every end
\* point within the hops is listed, and none can be had for less.
CandidatesAgree ==
    query = None /\ Disconnected(mode) \subseteq tree.special =>
      \A w \in 0..2 :
        LET rows == Discoverable(mode, w, Hops)
        IN  /\ \A row \in rows :
                 LET sets == {S \in Extensions(mode, w, row.node) : Cardinality(S) = row.d}
                 IN  /\ sets # {}
                     /\ \A S \in sets :
                          LET spent == Spent(With(mode, S, w), w)
                          IN  PathPoints(mode, w, row.d) = [ordinary |-> spent.ordinary, weapon |-> spent.weapon]
            /\ Allocated(mode) \cap tree.special = {} =>
                 \A goal \in {n \in Nodes : tree.kind[n] = "Normal" /\ tree.asc[n] = None} :
                   \A S \in Extensions(mode, w, goal) :
                     \/ Cardinality(S) > Hops
                     \/ \E row \in rows : row.node = goal /\ row.d <= Cardinality(S)

\* An action's nodes can be clicked one by one, the tree connected after each: the
\* reference for orders.
HasOrder(m, action) ==
    \E f \in [1..Cardinality(action.nodes) -> action.nodes] :
      /\ \A n \in action.nodes : \E k \in DOMAIN f : f[k] = n
      /\ \A k \in DOMAIN f : Disconnected(Applied(m, action, {f[i] : i \in 1..k})) = {}

\* Taking the smallest clickable node first never spoils an order: the answer is
\* "no order" only when no order of these nodes exists, and a verified order
\* leaves the tree connected after every click.
OrderIsFound ==
    query # None /\ query.op = "order" =>
      /\ steps # <<>> => Disconnected(mode) = {}
      /\ verdict = "no_order_within_requested_nodes" /\ pending # {} => ~HasOrder(since, Head(todo))

===============================================================================
