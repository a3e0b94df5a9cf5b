--------------------------- MODULE CurrencyPortfolio ---------------------------
(***************************************************************************)
(* One currency portfolio: balances the member reported, the events that   *)
(* move them and a valuation, kept as one document of the artifact store.  *)
(*                                                                         *)
(* The requests run in one asyncio process.  A request reads the document, *)
(* may await a price quote with its own copy in hand ("call"), and then    *)
(* writes the copy back on the condition that the revision has not moved.  *)
(***************************************************************************)
EXTENDS Integers, Sequences, FiniteSets, Lists

CONSTANTS
    Clients,       \* requests that can be under way at the same time
    Currencies,    \* exact (category, item_id) pairs
    Requests,      \* portfolio events a member may report
    Openings,      \* holdings a portfolio may start with
    None,
    MaxBalance,    \* 10^12
    MaxEvents,     \* 128
    MaxHoldings,   \* 30
    MaxRevision    \* 10^6

\* PortfolioEventRequest without its expected revision.  Transfers are summed
\* per currency and direction; "realized_sale" behaves as "received".
Request == [id : STRING, kind : {"proposed", "spent", "received"},
            debit : [Currencies -> Nat], credit : [Currencies -> Nat], proposal : STRING]

Opening == [held : SUBSET Currencies, balance : [Currencies -> 0 .. MaxBalance]]

ASSUME ConstantsAssumption ==
    /\ {MaxBalance, MaxEvents, MaxHoldings, MaxRevision} \subseteq Nat
    /\ Requests \subseteq Request
    /\ \A r \in Requests :    \* execution_evidence
         /\ r.kind = "proposed" => r.proposal = ""
         /\ r.kind = "spent" => \A k \in Currencies : r.credit[k] = 0
         /\ r.kind = "received" => \A k \in Currencies : r.debit[k] = 0
    /\ Openings \subseteq Opening
    /\ \A o \in Openings : \A k \in Currencies \ o.held : o.balance[k] = 0

VARIABLES
    stored,    \* the document in the artifact store, or None
    used,      \* a portfolio has been created (ids are random and never return)
    call,      \* [Clients -> what the suspended request remembers, or None]
    acked      \* ghost: requests answered as recorded

vars == <<stored, used, call, acked>>

Event == [req : Request, revision : Nat]
Valuation == [revision : Nat, balance : [Currencies -> Nat]]
Portfolio ==
    [persist : BOOLEAN, revision : Nat, opening : Opening, held : SUBSET Currencies,
     balance : [Currencies -> Nat], events : Seq(Event), valuation : Valuation \cup {None}]
Call ==
    [op : {"create"}, opening : Opening, persist : BOOLEAN]
    \cup [op : {"record"}, req : Request, base : Portfolio]
    \cup [op : {"value"}, base : Portfolio]

ASSUME NoneAssumption == None \notin Portfolio \cup Valuation \cup Call

TypeOK ==
    /\ stored \in Portfolio \cup {None}
    /\ used \in BOOLEAN
    /\ call \in [Clients -> Call \cup {None}]
    /\ acked \in SUBSET Request

-----------------------------------------------------------------------------
(* Reading a document *)

Events(p) == {p.events[i] : i \in DOMAIN p.events}

\* Mutant: a known id is a duplicate whatever the request says.
SameEventId(p, r) == \E e \in Events(p) : e.req.id = r.id

Known(p, r)     == \E e \in Events(p) : e.req.id = r.id
Duplicate(p, r) == \E e \in Events(p) : e.req = r

\* The proposal a request executes exists, is open, and has the same transfers.
ProposalOpen(p, r) ==
    r.proposal # "" =>
      /\ \E e \in Events(p) : /\ e.req.id = r.proposal /\ e.req.kind = "proposed"
                              /\ e.req.debit = r.debit /\ e.req.credit = r.credit
      /\ \A e \in Events(p) : e.req.kind # "proposed" => e.req.proposal # r.proposal

Touched(r)  == {k \in Currencies : r.debit[k] > 0 \/ r.credit[k] > 0}
NewIds(p, r) == Touched(r) \ p.held

\* What the executed request makes of the balances; the debit of a list of
\* transfers may exceed the balance as long as the result does not.
Moved(p, r) == [k \in Currencies |-> p.balance[k] + r.credit[k] - r.debit[k]]

InRange(balance) == \A k \in Currencies : balance[k] \in 0 .. MaxBalance

Admissible(p, r) ==
    r.kind # "proposed" =>
      InRange(Moved(p, r)) /\ Cardinality(p.held \cup Touched(r)) <= MaxHoldings

Noted(p, r) == Append(p.events, [req |-> r, revision |-> p.revision + 1])

\* Mutant: an executed request keeps the valuation of the holdings it changes.
StaleValuation(p, r) ==
    [p EXCEPT !.revision = @ + 1,
              !.held = IF r.kind = "proposed" THEN @ ELSE @ \cup Touched(r),
              !.balance = IF r.kind = "proposed" THEN @ ELSE Moved(p, r),
              !.events = Noted(p, r),
              !.valuation = IF @ = None THEN None ELSE [@ EXCEPT !.revision = p.revision + 1]]

\* The document with the request recorded.
Recorded(p, r) ==
    IF r.kind = "proposed"
    THEN [p EXCEPT !.revision = @ + 1, !.events = Noted(p, r),
                   !.valuation = IF @ = None THEN None
                                 ELSE [@ EXCEPT !.revision = p.revision + 1]]
    ELSE [p EXCEPT !.revision = @ + 1, !.held = @ \cup Touched(r), !.balance = Moved(p, r),
                   !.events = Noted(p, r), !.valuation = None]

Valued(p) ==
    [p EXCEPT !.revision = @ + 1,
              !.valuation = [revision |-> p.revision + 1, balance |-> p.balance]]

\* Mutant: the document is written whatever happened since it was read.
StillThere(base) == stored # None

\* The compare-and-set of update_mutable_artifact.
Unmoved(base) == stored # None /\ stored.revision = base.revision

-----------------------------------------------------------------------------
(* Requests *)

Init ==
    /\ stored = None
    /\ used = FALSE
    /\ call = [c \in Clients |-> None]
    /\ acked = {}

\* create(): the quote resolves the currencies before the document is stored.
CreateBegin(c, opening, persist) ==
    /\ call[c] = None /\ ~used
    /\ call' = [call EXCEPT ![c] = [op |-> "create", opening |-> opening, persist |-> persist]]
    /\ used' = TRUE
    /\ UNCHANGED <<stored, acked>>

CreateEnd(c) ==
    /\ call[c] # None /\ call[c].op = "create"
    /\ call' = [call EXCEPT ![c] = None]
    /\ stored' = [persist |-> call[c].persist, revision |-> 1, opening |-> call[c].opening,
                  held |-> call[c].opening.held, balance |-> call[c].opening.balance,
                  events |-> << >>, valuation |-> None]
    /\ UNCHANGED <<used, acked>>

\* record() up to the quote: the request is checked against the document.
Checked(r) ==
    /\ stored # None
    /\ ~Known(stored, r)
    /\ stored.revision <= MaxRevision
    /\ Len(stored.events) < MaxEvents
    /\ ProposalOpen(stored, r)

\* The event is known already: answered from the document.
RecordDuplicate(r) ==
    /\ stored # None
    /\ Duplicate(stored, r)
    /\ acked' = acked \cup {r}
    /\ UNCHANGED <<stored, used, call>>

\* No currency is new: checked and written without an await.
RecordAtOnce(r) ==
    /\ Checked(r)
    /\ NewIds(stored, r) = {}
    /\ Admissible(stored, r)
    /\ stored' = Recorded(stored, r)
    /\ acked' = acked \cup {r}
    /\ UNCHANGED <<used, call>>

RecordBegin(c, r) ==
    /\ call[c] = None
    /\ Checked(r)
    /\ NewIds(stored, r) # {}
    /\ call' = [call EXCEPT ![c] = [op |-> "record", req |-> r, base |-> stored]]
    /\ UNCHANGED <<stored, used, acked>>

RecordEnd(c) ==
    /\ call[c] # None /\ call[c].op = "record"
    /\ Admissible(call[c].base, call[c].req)
    /\ Unmoved(call[c].base)
    /\ call' = [call EXCEPT ![c] = None]
    /\ stored' = Recorded(call[c].base, call[c].req)
    /\ acked' = acked \cup {call[c].req}
    /\ UNCHANGED used

ValueBegin(c) ==
    /\ call[c] = None
    /\ stored # None
    /\ stored.revision <= MaxRevision
    /\ call' = [call EXCEPT ![c] = [op |-> "value", base |-> stored]]
    /\ UNCHANGED <<stored, used, acked>>

ValueEnd(c) ==
    /\ call[c] # None /\ call[c].op = "value"
    /\ Unmoved(call[c].base)
    /\ call' = [call EXCEPT ![c] = None]
    /\ stored' = Valued(call[c].base)
    /\ UNCHANGED <<used, acked>>

\* A suspended request ends without effect: the quote failed or timed out, the
\* revision moved, the balance is out of range, or the store is over its quota.
CallRefused(c) ==
    /\ call[c] # None
    /\ call' = [call EXCEPT ![c] = None]
    /\ UNCHANGED <<stored, used, acked>>

\* Deleted by the member, expired, or pushed out of memory by other artifacts.
Lost ==
    /\ stored # None
    /\ stored' = None
    /\ UNCHANGED <<used, call, acked>>

\* The process restarts: what is in memory and the suspended requests are gone.
Restart ==
    /\ stored' = IF stored # None /\ stored.persist THEN stored ELSE None
    /\ call' = [c \in Clients |-> None]
    /\ UNCHANGED <<used, acked>>

Next ==
    \/ \E c \in Clients :
         \/ \E o \in Openings, persist \in BOOLEAN : CreateBegin(c, o, persist)
         \/ \E r \in Requests : RecordBegin(c, r)
         \/ CreateEnd(c) \/ RecordEnd(c) \/ ValueBegin(c) \/ ValueEnd(c) \/ CallRefused(c)
    \/ \E r \in Requests : RecordDuplicate(r) \/ RecordAtOnce(r)
    \/ Lost
    \/ Restart

Spec == Init /\ [][Next]_vars

-----------------------------------------------------------------------------
(* Safety *)

Effect(r, k) == IF r.kind = "proposed" THEN 0 ELSE r.credit[k] - r.debit[k]

\* The holdings are the opening plus everything executed since, and no more:
\* proposals are never deducted and no executed event is lost in an overwrite.
BalanceReconciles ==
    stored # None =>
      \A k \in Currencies :
        stored.balance[k] = Total(stored.opening.balance[k],
                                  [i \in DOMAIN stored.events |-> Effect(stored.events[i].req, k)])

\* A proposal is executed at most once, by an event that comes after it.
ExecutedOnce ==
    stored # None =>
      \A i, j \in DOMAIN stored.events :
        LET e == stored.events[i].req  f == stored.events[j].req
        IN  /\ e.proposal # "" /\ e.proposal = f.proposal => i = j
            /\ e.proposal # "" /\ e.proposal = f.id => j < i

\* A valuation that is shown values the holdings shown beside it.
ValuationCurrent ==
    stored # None /\ stored.valuation # None =>
      /\ stored.valuation.revision = stored.revision
      /\ stored.valuation.balance = stored.balance

\* A portfolio read back at any time: its holdings follow from its events, no
\* proposal was executed twice, and its valuation is that of its holdings.
LedgerSound == BalanceReconciles /\ ExecutedOnce /\ ValuationCurrent

\* And it is a document of the form the store reads back.
BookSound == TypeOK /\ LedgerSound

\* A request that was answered as recorded stands in the ledger, in the very
\* form it was sent, for as long as the portfolio exists.
AckedKept ==
    stored # None => \A r \in acked : \E e \in Events(stored) : e.req = r

-----------------------------------------------------------------------------
(* The portfolio is an account book *)

Book == INSTANCE Ledger WITH
    open    <- stored # None,
    entries <- IF stored = None THEN {} ELSE {e.req : e \in Events(stored)},
    balance <- IF stored = None THEN [k \in Currencies |-> 0] ELSE stored.balance

\* Every step of the portfolio is an entry, a start or a loss of the book, or
\* leaves it alone.
KeepsBook == Book!Spec

=============================================================================
