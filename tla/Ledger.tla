-------------------------------- MODULE Ledger --------------------------------
(***************************************************************************)
(* What a currency portfolio promises its member: an account book in which *)
(* a reported transfer is entered once, whatever is retried or runs at the *)
(* same time, and whose balance is what the entries say.                   *)
(***************************************************************************)
EXTENDS Integers

CONSTANTS
    Currencies,    \* exact (category, item_id) pairs
    Requests,      \* the transfers a member may report
    Openings,      \* the balances a book may start with
    MaxBalance

VARIABLES
    open,       \* the book exists
    entries,    \* the requests entered
    balance

ledgerVars == <<open, entries, balance>>

Closed == [k \in Currencies |-> 0]

Init ==
    /\ open = FALSE
    /\ entries = {}
    /\ balance = Closed

Start ==
    /\ ~open
    /\ open' = TRUE
    /\ entries' = {}
    /\ \E o \in Openings : balance' = o.balance

\* A proposal moves nothing; it is executed at most once and as proposed.
Enter(r) ==
    /\ open
    /\ \A e \in entries : e.id # r.id
    /\ r.proposal # "" =>
         /\ \E e \in entries : e.id = r.proposal /\ e.kind = "proposed"
                               /\ e.debit = r.debit /\ e.credit = r.credit
         /\ \A e \in entries : e.proposal # r.proposal
    /\ entries' = entries \cup {r}
    /\ balance' = IF r.kind = "proposed" THEN balance
                  ELSE [k \in Currencies |-> balance[k] + r.credit[k] - r.debit[k]]
    /\ \A k \in Currencies : balance'[k] \in 0 .. MaxBalance
    /\ UNCHANGED open

\* Deleted, expired or evicted: the book is gone with everything in it.
Lose ==
    /\ open
    /\ open' = FALSE
    /\ entries' = {}
    /\ balance' = Closed

Next == Start \/ Lose \/ \E r \in Requests : Enter(r)

Spec == Init /\ [][Next]_ledgerVars

===============================================================================
