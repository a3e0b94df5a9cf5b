--------------------------- MODULE MCStandalone ---------------------------
(* Components that need no other, side by side: the portfolio ("book"), a     *)
(* purchase comparison ("purchase"), the pages in which long documents are    *)
(* read ("pages"), the MCP server ("server"), the installation of the engine  *)
(* ("install") and the operator's commands that deploy it all ("mac"). They   *)
(* share no state, so a behaviour follows one of them.                        *)
EXTENDS CurrencyPortfolio, EngineInstall, CompanionServer, TLC

CONSTANTS
    c1, c2, divine, chaos, ex, k1, k2, sa, sb,
    Scenarios, Profiles, Keys, Budgets, Golds, Rates, Reports, MaxReports, Reserve, MaxAge, MaxTime,  \* of a comparison
    Tables, Parts, Contents, Envelope, PageBytes, TextBytes, FragmentRows, Limits, MaxRevised,  \* of pages
    Operators, MemberIds, Emails, Ports, Services, MaxActive, MaxTokens  \* of the deployment

VARIABLES
    part,
    candidates, budget, gold_available, phase, started, reports, expired, loaded, comparison, time,
    view, table, section, revised, offset, got, seals, page,
    members, broken, containers, vm, agents, token, using, command, routes, data, cut

-------------------------------------------------------------------------------
(* A proposal with two requests that execute it, a reused event id, and a     *)
(* currency that is not held yet.                                             *)

Nothing == [k \in {divine, chaos, ex} |-> 0]
One(k, n) == [Nothing EXCEPT ![k] = n]

SomeRequests == {
    [id |-> "p", kind |-> "proposed", debit |-> One(divine, 1), credit |-> Nothing, proposal |-> ""],
    [id |-> "a", kind |-> "spent", debit |-> One(divine, 1), credit |-> Nothing, proposal |-> "p"],
    [id |-> "b", kind |-> "spent", debit |-> One(divine, 1), credit |-> Nothing, proposal |-> "p"],
    [id |-> "a", kind |-> "received", debit |-> Nothing, credit |-> One(chaos, 2), proposal |-> ""],
    [id |-> "d", kind |-> "received", debit |-> Nothing, credit |-> One(ex, 1), proposal |-> ""],
    [id |-> "e", kind |-> "spent", debit |-> One(divine, 2), credit |-> Nothing, proposal |-> ""]}

SomeOpenings == {[held |-> {divine}, balance |-> One(divine, 2)]}

Symmetry == Permutations({c1, c2})

-------------------------------------------------------------------------------
(* Two candidates over two scenarios; bills with listings that age or have no *)
(* price, a foreign price, gold, a cost nobody knows and an item that is      *)
(* owned; observations of the first that may contradict each other.           *)

Line(kind, evidence, price, observed, foreign, gold) ==
    [kind |-> kind, evidence |-> evidence, price |-> price, observed |-> observed,
     foreign |-> foreign, gold |-> gold]
Bills == {
    << >>,
    <<Line("item", "listing", 1, 0, FALSE, 0)>>,
    <<Line("item", "listing", 1, 0, TRUE, 0)>>}
HardBills == {
    <<Line("item", "listing", 2, -1, FALSE, 0), Line("respec", "reported", None, 0, FALSE, 1)>>,
    <<Line("item", "listing", None, 0, FALSE, 0)>>,
    <<Line("item", "none", None, None, FALSE, 0)>>,
    <<Line("support", "owned", None, None, FALSE, 0)>>}
Scored(a, b) == (sa :> a) @@ (sb :> b)
SomeProfiles ==
    {[scores |-> Scored(a, b), sound |-> TRUE, lines |-> bill] : a, b \in 0..1, bill \in Bills}
    \cup {[scores |-> Scored(1, 1), sound |-> TRUE, lines |-> bill] : bill \in HardBills}
    \cup {[scores |-> Scored(None, 1), sound |-> FALSE, lines |-> << >>]}

SomeGolds == {None, 1}
SomeReports == {[of |-> k1, in |-> sa, said |-> "fine"], [of |-> k1, in |-> sa, said |-> "other"],
                [of |-> k2, in |-> sb, said |-> "adverse"]}

Purchase == INSTANCE PurchaseComparison

\* What the lines of a bill say; listings and reports have times, prices and
\* gold are amounts.
ASSUME PurchaseAssumption ==
    /\ IsFiniteSet(Keys) /\ None \notin Int
    /\ Budgets \subseteq Int /\ Golds \subseteq Int \cup {None} /\ Rates \subseteq Int
    /\ Reserve \in Int /\ MaxAge \in Nat
    /\ \A p \in Profiles :
         /\ p.scores \in [Scenarios -> Int \cup {None}]
         /\ p.lines \in Seq([kind : STRING, evidence : STRING, price : Int \cup {None},
                              observed : Int \cup {None}, foreign : BOOLEAN, gold : Nat])

-------------------------------------------------------------------------------
(* Tables of up to three rows of one, two or four units in pages of four; a   *)
(* text of up to four fragments that is revised twice.                        *)

SomeTables == UNION {[1..n -> {1, 2, 4}] : n \in 0..3}
SomeContents == {<<1>>, <<1, 1>>, <<2, 1>>, <<1, 2, 1>>}

Paging == INSTANCE PagedReads WITH at <- offset

\* Sizes are amounts, a page has room for its envelope, and no page is asked for
\* with a limit of none.
ASSUME PagingAssumption ==
    /\ None \notin Nat /\ Tables \subseteq Seq(Nat) /\ Contents \subseteq Seq(Nat)
    /\ Envelope \in Nat /\ PageBytes \in Nat /\ Envelope <= PageBytes
    /\ TextBytes \in Nat /\ FragmentRows \in Nat \ {0} /\ Limits \subseteq Nat \ {0}
    /\ None \notin {"trimmed", "fixed", "halved", "joint", "text", "ledger"}

-------------------------------------------------------------------------------
(* The server, the installation and the deployment.                           *)

\* Two calls, of a principal and without one, over the engine's tools; the
\* character and build tools; the travel tool; and a configuration that is
\* refused.
Without == [access |-> FALSE, http |-> TRUE, accounts |-> FALSE, characters |-> FALSE,
            engine |-> FALSE, trade |-> FALSE, reader |-> FALSE]
SomeConfigs == {[Without EXCEPT !.engine = TRUE],
                [Without EXCEPT !.characters = TRUE, !.reader = TRUE],
                [Without EXCEPT !.access = TRUE, !.accounts = TRUE, !.trade = TRUE],
                [Without EXCEPT !.access = TRUE, !.http = FALSE]}
SomeRaised == {[class |-> "EngineError", safe |-> TRUE, depth |-> 2],
               [class |-> "EngineError", safe |-> FALSE, depth |-> 2],
               [class |-> "CharacterError", safe |-> TRUE, depth |-> 7]}

Mac == INSTANCE MacDeployment

\* One terminal at a time: mac.py takes no lock.
ASSUME DeploymentAssumption ==
    /\ Ports \subseteq Nat /\ MaxTokens \in Nat \ {0}
    /\ \A o, p \in Operators : o = p

-------------------------------------------------------------------------------

purchaseVars == <<candidates, budget, gold_available, phase, started, reports, expired, loaded, comparison, time>>
pageVars == <<view, table, section, revised, offset, got, seals, page>>
deployVars == <<members, broken, containers, vm, agents, token, using, command, routes, data, cut>>

\* The variables of a component that stands still are left out of the state.
PurchaseStill ==
    /\ candidates = None /\ budget = None /\ gold_available = None /\ phase = None /\ started = None
    /\ reports = None /\ expired = None /\ loaded = None /\ comparison = None /\ time = None
PageStill ==
    /\ view = None /\ table = None /\ section = None /\ revised = None /\ offset = None
    /\ got = None /\ seals = None /\ page = None
ServerStill ==
    /\ config = None /\ serving = None /\ tasks = None /\ reply = None /\ error_traces = None
    /\ receipts = None /\ search = None /\ offered = None /\ handoffs = None /\ issued = None /\ failures = None
    /\ clock = None
InstallStill ==
    /\ drift = None /\ outcome = None /\ exists = None /\ fetch = None /\ todo = None /\ at = None
    /\ prepared = None /\ tree = None /\ marked = None /\ hand = None
DeployStill ==
    /\ members = None /\ broken = None /\ containers = None /\ vm = None /\ agents = None
    /\ token = None /\ using = None /\ command = None /\ routes = None /\ data = None /\ cut = None

AloneInit ==
    /\ part \in {"book", "purchase", "pages", "server", "install", "mac"}
    /\ Init
    /\ IF part = "purchase" THEN Purchase!Init ELSE PurchaseStill
    /\ IF part = "pages" THEN Paging!Init ELSE PageStill
    /\ IF part = "server" THEN ServerInit ELSE ServerStill
    /\ IF part = "install" THEN InstallInit ELSE InstallStill
    /\ IF part = "mac" THEN Mac!Init ELSE DeployStill

AloneNext ==
    \/ part = "book" /\ Next
       /\ UNCHANGED <<part, purchaseVars, pageVars, serverVars, installVars, deployVars>>
    \/ part = "purchase" /\ Purchase!Next
       /\ UNCHANGED <<part, vars, pageVars, serverVars, installVars, deployVars>>
    \/ part = "pages" /\ Paging!Next
       /\ UNCHANGED <<part, vars, purchaseVars, serverVars, installVars, deployVars>>
    \/ part = "server" /\ ServerNext
       /\ UNCHANGED <<part, vars, purchaseVars, pageVars, installVars, deployVars>>
    \/ part = "install" /\ InstallNext
       /\ UNCHANGED <<part, vars, purchaseVars, pageVars, serverVars, deployVars>>
    \/ part = "mac" /\ Mac!Next
       /\ UNCHANGED <<part, vars, purchaseVars, pageVars, serverVars, installVars>>

AloneSpec ==
    AloneInit /\ [][AloneNext]_<<part, vars, purchaseVars, pageVars, serverVars, installVars, deployVars>>

\* purchases.compare: no qualified candidate is missed, the one that is named can
\* be bought and no observation its plans listed when they were loaded speaks
\* against it, and a price that has grown too old while the league and the rates
\* were awaited is flagged.
PurchaseSound ==
    part = "purchase" => Purchase!FrontierCovers /\ Purchase!PrimaryIsSound /\ Purchase!OldPriceFlagged

\* The paged reads of engine, builds and workflows: following the offsets of a
\* table gives every row once, and fragments under one digest are of one text.
PagesSound == part = "pages" => Paging!PagesLossless /\ Paging!FragmentsOfOneText


\* server.py and diagnostics.py: receipts are their owners', the newest is held,
\* error traces are the latest and show only public codes, and a travel receipt
\* is for a listing that some answer listed, whatever order calls take.
AnswersSound == part = "server" => ServerSound

\* mac.py: a retired friend has no service left that a restart could bring back,
\* volumes and routes stay one person's, and what a removal stopped stays
\* stopped, wherever a command fails.
DeploymentSound ==
    part = "mac" => Mac!DeployTypeOK /\ Mac!RetiredIsGone /\ Mac!NamespacesKept /\ Mac!CutStaysCut

\* install_pob_engine.py: the markers a worker looks for are written on a tree in
\* which every edit was made once, on the sources it was reviewed against.
InstallSound == part = "install" => InstallTypeOK /\ MarkedIsWhole

\* A patch script run again by hand changes nothing in an installed tree.
InstalledKept == [][part = "install" => HandRunKeeps]_installVars

==============================================================================
