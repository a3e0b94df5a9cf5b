------------------------ MODULE CurrencyPortfolioProofs ------------------------
(* A portfolio is an account book, for any number of requests under way, any    *)
(* currencies and any events a member may report.                               *)
EXTENDS CurrencyPortfolio, ListsProofs

-------------------------------------------------------------------------------
(* A document by itself *)

Effects(p, k) == [i \in DOMAIN p.events |-> Effect(p.events[i].req, k)]

Reconciles(p) == \A k \in Currencies : p.balance[k] = Total(p.opening.balance[k], Effects(p, k))

Req(p, i) == p.events[i].req

\* Every id stands once, and a proposal is executed once, after it was made.
Entered(p) ==
    /\ \A i \in DOMAIN p.events : Req(p, i) \in Requests
    /\ \A i, j \in DOMAIN p.events : Req(p, i).id = Req(p, j).id => i = j
    /\ \A i, j \in DOMAIN p.events :
         Req(p, i).proposal # "" =>
           /\ Req(p, i).proposal = Req(p, j).proposal => i = j
           /\ Req(p, i).proposal = Req(p, j).id => j < i
    /\ \A i \in DOMAIN p.events : Req(p, i).proposal # "" =>
         \E j \in DOMAIN p.events : Req(p, j).id = Req(p, i).proposal

Current(p) ==
    p.valuation # None =>
      p.valuation.revision = p.revision /\ p.valuation.balance = p.balance

GoodBook(p) ==
    /\ p \in Portfolio
    /\ InRange(p.balance)
    /\ Reconciles(p)
    /\ Entered(p)
    /\ Current(p)

\* What record() has checked of a request before it asks for a quote.
Acceptable(p, r) == ~Known(p, r) /\ ProposalOpen(p, r)

LEMMA RequestTypes ==
    /\ \A r \in Requests :
         /\ r \in Request
         /\ r.kind = "proposed" => r.proposal = ""
    /\ \A o \in Openings : o \in Opening
    /\ MaxBalance \in Nat
<1>1. Requests \subseteq Request /\ Openings \subseteq Opening
  BY ConstantsAssumption
<1>2. \A r \in Requests : r.kind = "proposed" => r.proposal = ""
  BY ConstantsAssumption
<1>3. MaxBalance \in Nat
  BY ConstantsAssumption
<1> QED
  BY <1>1, <1>2, <1>3

LEMMA EffectType ==
    ASSUME NEW r \in Request, NEW k \in Currencies
    PROVE  Effect(r, k) \in Int
<1>1. r.credit[k] \in Nat /\ r.debit[k] \in Nat
  BY DEF Request
<1> QED
  BY <1>1 DEF Effect

LEMMA EffectsTyped ==
    ASSUME NEW p \in Portfolio, NEW k \in Currencies
    PROVE  Effects(p, k) \in Seq(Int) /\ Len(Effects(p, k)) = Len(p.events)
<1>1. p.events \in Seq(Event)
  BY DEF Portfolio
<1>2. \A i \in DOMAIN p.events : p.events[i].req \in Request
  <2>1. \A i \in DOMAIN p.events : p.events[i] \in Event
    BY <1>1
  <2> QED
    BY <2>1 DEF Event
<1>3. \A i \in DOMAIN p.events : Effect(p.events[i].req, k) \in Int
  BY <1>2, EffectType
<1> QED
  BY <1>1, <1>3 DEF Effects

\* The fields of a document with one more event.
LEMMA RecordedFields ==
    ASSUME NEW p \in Portfolio, NEW r \in Requests
    PROVE  LET q == Recorded(p, r)
           IN  /\ q.persist = p.persist /\ q.opening = p.opening
               /\ q.revision = p.revision + 1
               /\ q.events = Append(p.events, [req |-> r, revision |-> p.revision + 1])
               /\ q.held = IF r.kind = "proposed" THEN p.held ELSE p.held \cup Touched(r)
               /\ q.balance = IF r.kind = "proposed" THEN p.balance ELSE Moved(p, r)
               /\ q.valuation = IF r.kind # "proposed" \/ p.valuation = None THEN None
                                ELSE [p.valuation EXCEPT !.revision = p.revision + 1]
               /\ DOMAIN q = DOMAIN p
BY DEF Recorded, Noted, Portfolio

LEMMA RecordedTyped ==
    ASSUME NEW p \in Portfolio, NEW r \in Requests, Admissible(p, r)
    PROVE  Recorded(p, r) \in Portfolio
<1> DEFINE q == Recorded(p, r)
<1>1. /\ p.persist \in BOOLEAN /\ p.revision \in Nat /\ p.opening \in Opening
      /\ p.held \in SUBSET Currencies /\ p.balance \in [Currencies -> Nat]
      /\ p.events \in Seq(Event) /\ p.valuation \in Valuation \cup {None}
  BY DEF Portfolio
<1>2. r \in Request
  BY RequestTypes
<1>0. /\ q.persist = p.persist /\ q.opening = p.opening /\ q.revision = p.revision + 1
      /\ q.events = Append(p.events, [req |-> r, revision |-> p.revision + 1])
      /\ q.held = IF r.kind = "proposed" THEN p.held ELSE p.held \cup Touched(r)
      /\ q.balance = IF r.kind = "proposed" THEN p.balance ELSE Moved(p, r)
      /\ q.valuation = IF r.kind # "proposed" \/ p.valuation = None THEN None
                       ELSE [p.valuation EXCEPT !.revision = p.revision + 1]
  BY RecordedFields
<1>8. q = [persist |-> q.persist, revision |-> q.revision, opening |-> q.opening, held |-> q.held,
           balance |-> q.balance, events |-> q.events, valuation |-> q.valuation]
  BY DEF Recorded, Portfolio
<1> HIDE DEF q
<1>3. q.held \in SUBSET Currencies
  BY <1>0, <1>1 DEF Touched
<1>4. q.balance \in [Currencies -> Nat]
  <2>1. CASE r.kind = "proposed"
    BY <1>0, <1>1, <2>1
  <2>2. CASE r.kind # "proposed"
    <3>1. InRange(Moved(p, r)) /\ q.balance = Moved(p, r)
      BY <1>0, <2>2 DEF Admissible
    <3>2. \A k \in Currencies : q.balance[k] \in Nat
      <4>1. \A k \in Currencies : Moved(p, r)[k] \in 0 .. MaxBalance
        BY <3>1 DEF InRange
      <4>2. MaxBalance \in Nat
        BY RequestTypes
      <4>3. \A k \in Currencies : Moved(p, r)[k] \in Nat
        BY <4>1, <4>2
      <4> QED
        BY <3>1, <4>3
    <3> QED
      BY <3>1, <3>2 DEF Moved
  <2> QED
    BY <2>1, <2>2
<1>5. q.events \in Seq(Event)
  <2>1. [req |-> r, revision |-> p.revision + 1] \in Event
    BY <1>1, <1>2 DEF Event
  <2> QED
    BY <1>0, <1>1, <2>1
<1>6. q.valuation \in Valuation \cup {None}
  <2>1. p.valuation \in Valuation => [p.valuation EXCEPT !.revision = p.revision + 1] \in Valuation
    BY <1>1, SMTT(60) DEF Valuation
  <2> QED
    BY <1>0, <1>1, <2>1
<1>7. q.persist \in BOOLEAN /\ q.revision \in Nat /\ q.opening \in Opening
  BY <1>0, <1>1
<1> QED
  BY <1>3, <1>4, <1>5, <1>6, <1>7, <1>8 DEF Portfolio, q

\* A sequence that agrees with F and has x after it is F with x appended.
LEMMA OneMore ==
    ASSUME NEW F \in Seq(Int), NEW E, NEW x \in Int,
           E = [i \in 1 .. Len(F) + 1 |-> E[i]],
           \A i \in 1 .. Len(F) : E[i] = F[i],
           E[Len(F) + 1] = x
    PROVE  E = Append(F, x)
<1>1. Len(F) \in Nat /\ Len(F) + 1 \in Nat
  OBVIOUS
<1>2. \A i \in 1 .. Len(F) + 1 : i \in 1 .. Len(F) \/ i = Len(F) + 1
  BY <1>1
<1>3. \A i \in 1 .. Len(F) + 1 : Append(F, x)[i] = E[i]
  BY <1>1, <1>2
<1>4. Append(F, x) \in Seq(Int) /\ Len(Append(F, x)) = Len(F) + 1
  OBVIOUS
<1>5. Append(F, x) \in [1 .. Len(F) + 1 -> Int]
  <2> DEFINE A == Append(F, x)
  <2>1. A \in Seq(Int) /\ Len(A) = Len(F) + 1
    BY <1>4
  <2> HIDE DEF A
  <2>2. A \in [1 .. Len(A) -> Int]
    BY <2>1
  <2>3. 1 .. Len(A) = 1 .. Len(F) + 1
    BY <2>1
  <2>4. A \in [1 .. Len(F) + 1 -> Int]
    BY <2>2, <2>3, Zenon
  <2> QED
    BY <2>4 DEF A
<1>6. E \in [1 .. Len(F) + 1 -> Int]
  BY <1>3, <1>5
<1> QED
  BY <1>3, <1>5, <1>6

LEMMA RecordedReconciles ==
    ASSUME NEW p \in Portfolio, NEW r \in Requests, Reconciles(p)
    PROVE  Reconciles(Recorded(p, r))
<1> DEFINE q == Recorded(p, r)
<1>1. /\ q.opening = p.opening
      /\ q.events = Append(p.events, [req |-> r, revision |-> p.revision + 1])
      /\ q.balance = IF r.kind = "proposed" THEN p.balance ELSE Moved(p, r)
  BY RecordedFields
<1>2. /\ p.opening \in Opening /\ p.balance \in [Currencies -> Nat] /\ p.events \in Seq(Event)
  BY DEF Portfolio
<1>3. r \in Request
  BY RequestTypes
<1> HIDE DEF q
<1> SUFFICES ASSUME NEW k \in Currencies
             PROVE  q.balance[k] = Total(q.opening.balance[k], Effects(q, k))
  BY DEF Reconciles, q
<1>4. Effects(q, k) = Append(Effects(p, k), Effect(r, k))
  <2>1. Len(q.events) = Len(p.events) + 1 /\ DOMAIN q.events = 1 .. Len(p.events) + 1
    BY <1>1, <1>2
  <2>2. \A i \in DOMAIN p.events : q.events[i] = p.events[i]
    BY <1>1, <1>2
  <2>3. q.events[Len(p.events) + 1].req = r
    BY <1>1, <1>2
  <2>4. Effects(p, k) \in Seq(Int) /\ Len(Effects(p, k)) = Len(p.events)
    BY EffectsTyped
  <2>5. Effect(r, k) \in Int
    BY <1>3, EffectType
  <2>6. DOMAIN Effects(q, k) = 1 .. Len(p.events) + 1
    BY <2>1 DEF Effects
  <2>7. \A i \in DOMAIN p.events : Effects(q, k)[i] = Effects(p, k)[i]
    BY <2>1, <2>2, <1>2 DEF Effects
  <2>8. Effects(q, k)[Len(p.events) + 1] = Effect(r, k)
    BY <2>1, <2>3, <1>2 DEF Effects
  <2>9. Effects(q, k) = [i \in 1 .. Len(Effects(p, k)) + 1 |-> Effects(q, k)[i]]
    <3>1. Effects(q, k) = [i \in DOMAIN q.events |-> Effects(q, k)[i]]
      BY DEF Effects
    <3>2. DOMAIN q.events = 1 .. Len(Effects(p, k)) + 1
      BY <2>1, <2>4
    <3> QED
      BY <3>1, <3>2, Zenon
  <2> HIDE DEF Effects
  <2>10. /\ \A i \in 1 .. Len(Effects(p, k)) : Effects(q, k)[i] = Effects(p, k)[i]
         /\ Effects(q, k)[Len(Effects(p, k)) + 1] = Effect(r, k)
    BY <2>4, <2>7, <2>8, <1>2
  <2> QED
    BY <2>4, <2>5, <2>9, <2>10, OneMore
<1>5. p.opening.balance[k] \in Int
  <2>1. p.opening.balance \in [Currencies -> 0 .. MaxBalance]
    BY <1>2 DEF Opening
  <2>2. p.opening.balance[k] \in 0 .. MaxBalance
    BY <2>1
  <2> QED
    BY <2>2
<1>6. Effect(r, k) \in Int /\ Effects(p, k) \in Seq(Int)
  BY <1>3, EffectType, EffectsTyped
<1>7. Total(p.opening.balance[k], Append(Effects(p, k), Effect(r, k)))
        = Total(p.opening.balance[k], Effects(p, k)) + Effect(r, k)
  BY <1>5, <1>6, TotalAppend
<1>8. p.balance[k] = Total(p.opening.balance[k], Effects(p, k))
  BY DEF Reconciles
<1>9. q.balance[k] = p.balance[k] + Effect(r, k)
  <2>1. r.credit[k] \in Nat /\ r.debit[k] \in Nat /\ p.balance[k] \in Nat
    BY <1>2, <1>3 DEF Request
  <2>2. CASE r.kind = "proposed"
    BY <2>1, <2>2, <1>1 DEF Effect
  <2>3. CASE r.kind # "proposed"
    <3>1. q.balance[k] = p.balance[k] + r.credit[k] - r.debit[k]
      BY <2>3, <1>1 DEF Moved
    <3> QED
      BY <3>1, <2>1, <2>3 DEF Effect
  <2> QED
    BY <2>2, <2>3
<1> QED
  BY <1>1, <1>4, <1>7, <1>8, <1>9

LEMMA RecordedEntered ==
    ASSUME NEW p \in Portfolio, NEW r \in Requests, Entered(p), Acceptable(p, r)
    PROVE  Entered(Recorded(p, r))
<1> DEFINE q == Recorded(p, r)
           n == Len(p.events)
<1>1. q.events = Append(p.events, [req |-> r, revision |-> p.revision + 1])
  BY RecordedFields
<1>2. p.events \in Seq(Event) /\ n \in Nat
  BY DEF Portfolio
<1> HIDE DEF q
<1>3. /\ DOMAIN p.events = 1 .. n /\ DOMAIN q.events = 1 .. n + 1
      /\ \A i \in 1 .. n : Req(q, i) = Req(p, i)
      /\ Req(q, n + 1) = r
  BY <1>1, <1>2 DEF Req
<1>4. \A i \in 1 .. n : Req(p, i) = p.events[i].req /\ p.events[i] \in Events(p)
  BY <1>3 DEF Req, Events
<1>5. \A i \in 1 .. n : Req(p, i).id # r.id
  BY <1>4 DEF Acceptable, Known
<1>6. r.proposal # "" =>
        /\ \E j \in 1 .. n : Req(p, j).id = r.proposal
        /\ \A j \in 1 .. n : Req(p, j).proposal # r.proposal
  <2> SUFFICES ASSUME r.proposal # ""
               PROVE  /\ \E j \in 1 .. n : Req(p, j).id = r.proposal
                      /\ \A j \in 1 .. n : Req(p, j).proposal # r.proposal
    OBVIOUS
  <2>1. \E e \in Events(p) : e.req.id = r.proposal
    BY DEF Acceptable, ProposalOpen
  <2>2. \E j \in 1 .. n : Req(p, j).id = r.proposal
    BY <2>1, <1>3 DEF Events, Req
  <2>3. \A j \in 1 .. n : Req(p, j).kind # "proposed" => Req(p, j).proposal # r.proposal
    BY <1>4 DEF Acceptable, ProposalOpen
  <2>4. \A j \in 1 .. n : Req(p, j).kind = "proposed" => Req(p, j).proposal = ""
    BY <1>3, RequestTypes DEF Entered
  <2> QED
    BY <2>2, <2>3, <2>4
<1>7. \A i \in 1 .. n + 1 : i \in 1 .. n \/ i = n + 1
  BY <1>2
<1> HIDE DEF n
<1>8. \A i \in DOMAIN q.events : Req(q, i) \in Requests
  BY <1>3, <1>7 DEF Entered
<1>9. \A i, j \in DOMAIN q.events : Req(q, i).id = Req(q, j).id => i = j
  <2> SUFFICES ASSUME NEW i \in 1 .. n + 1, NEW j \in 1 .. n + 1, Req(q, i).id = Req(q, j).id
               PROVE  i = j
    BY <1>3
  <2>1. CASE i \in 1 .. n /\ j \in 1 .. n
    BY <1>3, <2>1 DEF Entered
  <2>2. CASE i \in 1 .. n /\ j = n + 1
    BY <1>3, <1>5, <2>2
  <2>3. CASE i = n + 1 /\ j \in 1 .. n
    BY <1>3, <1>5, <2>3
  <2> QED
    BY <1>7, <2>1, <2>2, <2>3
<1>10. \A i \in DOMAIN q.events : Req(q, i).proposal # "" =>
         \E j \in DOMAIN q.events : Req(q, j).id = Req(q, i).proposal
  <2>1. \A i \in 1 .. n : Req(p, i).proposal # "" =>
          \E j \in 1 .. n : Req(p, j).id = Req(p, i).proposal
    BY <1>3 DEF Entered
  <2>2. \A j \in 1 .. n : j \in DOMAIN q.events
    BY <1>2, <1>3
  <2>3. ASSUME NEW i \in 1 .. n, Req(q, i).proposal # ""
        PROVE  \E j \in DOMAIN q.events : Req(q, j).id = Req(q, i).proposal
    <3>1. PICK j \in 1 .. n : Req(p, j).id = Req(p, i).proposal
      BY <2>1, <2>3, <1>3
    <3> QED
      BY <3>1, <2>2, <1>3
  <2>4. ASSUME Req(q, n + 1).proposal # ""
        PROVE  \E j \in DOMAIN q.events : Req(q, j).id = Req(q, n + 1).proposal
    <3>1. PICK j \in 1 .. n : Req(p, j).id = r.proposal
      BY <2>4, <1>3, <1>6
    <3> QED
      BY <3>1, <2>2, <1>3
  <2> QED
    BY <2>3, <2>4, <1>3, <1>7
<1>11. ASSUME NEW i \in DOMAIN q.events, NEW j \in DOMAIN q.events, Req(q, i).proposal # "",
              Req(q, i).proposal = Req(q, j).proposal
       PROVE  i = j
  <2>1. CASE i \in 1 .. n /\ j \in 1 .. n
    BY <2>1, <1>3, <1>11 DEF Entered
  <2>2. CASE i \in 1 .. n /\ j = n + 1
    BY <2>2, <1>3, <1>6, <1>11
  <2>3. CASE i = n + 1 /\ j \in 1 .. n
    BY <2>3, <1>3, <1>6, <1>11
  <2>4. CASE i = n + 1 /\ j = n + 1
    BY <2>4
  <2> QED
    BY <2>1, <2>2, <2>3, <2>4, <1>3, <1>7
<1>12. ASSUME NEW i \in DOMAIN q.events, NEW j \in DOMAIN q.events, Req(q, i).proposal # "",
              Req(q, i).proposal = Req(q, j).id
       PROVE  j < i
  <2>1. CASE i \in 1 .. n /\ j \in 1 .. n
    BY <2>1, <1>3, <1>12 DEF Entered
  <2>2. CASE i \in 1 .. n /\ j = n + 1
    <3>1. PICK m \in 1 .. n : Req(p, m).id = Req(p, i).proposal
      BY <2>2, <1>3, <1>12 DEF Entered
    <3> QED
      BY <3>1, <2>2, <1>3, <1>5, <1>12
  <2>3. CASE i = n + 1 /\ j \in 1 .. n
    BY <2>3, <1>2
  <2>4. CASE i = n + 1 /\ j = n + 1
    BY <2>4, <1>3, <1>5, <1>6, <1>12
  <2> QED
    BY <2>1, <2>2, <2>3, <2>4, <1>3, <1>7
<1> QED
  BY <1>8, <1>9, <1>10, <1>11, <1>12 DEF Entered, q

\* What record() writes is again a book in order.
LEMMA RecordedGood ==
    ASSUME NEW p, NEW r \in Requests, GoodBook(p), Acceptable(p, r), Admissible(p, r)
    PROVE  GoodBook(Recorded(p, r))
<1> DEFINE q == Recorded(p, r)
<1>1. p \in Portfolio /\ InRange(p.balance) /\ Reconciles(p) /\ Entered(p) /\ Current(p)
  BY DEF GoodBook
<1>2. q \in Portfolio
  BY <1>1, RecordedTyped
<1>3. Reconciles(q) /\ Entered(q)
  BY <1>1, RecordedReconciles, RecordedEntered
<1>4. /\ q.revision = p.revision + 1
      /\ q.balance = IF r.kind = "proposed" THEN p.balance ELSE Moved(p, r)
      /\ q.valuation = IF r.kind # "proposed" \/ p.valuation = None THEN None
                       ELSE [p.valuation EXCEPT !.revision = p.revision + 1]
  BY <1>1, RecordedFields
<1> HIDE DEF q
<1>5. InRange(q.balance)
  BY <1>1, <1>4 DEF Admissible
<1>6. Current(q)
  <2>1. p.valuation # None => p.valuation \in Valuation
    BY <1>1 DEF Portfolio
  <2> QED
    BY <1>1, <1>4, <2>1 DEF Current, Valuation
<1> QED
  BY <1>2, <1>3, <1>5, <1>6 DEF GoodBook, q

\* So is what value() writes: it touches nothing but the revision and the valuation.
LEMMA ValuedGood ==
    ASSUME NEW p, GoodBook(p)
    PROVE  /\ GoodBook(Valued(p))
           /\ Valued(p).revision = p.revision + 1
           /\ Valued(p).events = p.events
           /\ Valued(p).balance = p.balance
<1> DEFINE q == Valued(p)
<1>1. p \in Portfolio /\ InRange(p.balance) /\ Reconciles(p) /\ Entered(p) /\ Current(p)
  BY DEF GoodBook
<1>2. /\ p.persist \in BOOLEAN /\ p.revision \in Nat /\ p.opening \in Opening
      /\ p.held \in SUBSET Currencies /\ p.balance \in [Currencies -> Nat]
      /\ p.events \in Seq(Event)
  BY <1>1 DEF Portfolio
<1>3. /\ q.persist = p.persist /\ q.revision = p.revision + 1 /\ q.opening = p.opening
      /\ q.held = p.held /\ q.balance = p.balance /\ q.events = p.events
      /\ q.valuation = [revision |-> p.revision + 1, balance |-> p.balance]
  BY <1>1 DEF Valued, Portfolio
<1>9. q = [persist |-> q.persist, revision |-> q.revision, opening |-> q.opening, held |-> q.held,
           balance |-> q.balance, events |-> q.events, valuation |-> q.valuation]
  <2> DEFINE v == [revision |-> p.revision + 1, balance |-> p.balance]
  <2>1. q = [p EXCEPT !.revision = p.revision + 1, !.valuation = v]
    BY <1>1 DEF Valued, Portfolio
  <2>2. p = [persist |-> p.persist, revision |-> p.revision, opening |-> p.opening, held |-> p.held,
             balance |-> p.balance, events |-> p.events, valuation |-> p.valuation]
    BY <1>1 DEF Portfolio
  <2> HIDE DEF v, q
  <2> QED
    BY <2>1, <2>2
<1> HIDE DEF q
<1>4. q \in Portfolio
  <2>1. q.valuation \in Valuation
    BY <1>2, <1>3 DEF Valuation
  <2>2. q.revision \in Nat
    BY <1>2, <1>3
  <2> QED
    BY <1>2, <1>3, <1>9, <2>1, <2>2 DEF Portfolio
<1>5. InRange(q.balance)
  BY <1>1, <1>3
<1>6. Reconciles(q)
  BY <1>1, <1>3 DEF Reconciles, Effects
<1>7. Entered(q)
  <2>1. q.events = p.events
    BY <1>3
  <2>2. \A i : Req(q, i) = Req(p, i)
    BY <2>1 DEF Req
  <2>3. \A i : i \in DOMAIN q.events <=> i \in DOMAIN p.events
    BY <2>1
  <2>4. Entered(p)
    BY <1>1
  <2> QED
    BY ONLY <2>2, <2>3, <2>4, ZenonT(30) DEF Entered
<1>8. Current(q)
  BY <1>3 DEF Current
<1> QED
  BY <1>3, <1>4, <1>5, <1>6, <1>7, <1>8 DEF GoodBook, q

-------------------------------------------------------------------------------
(* The inductive invariant *)

Creating(x) == x # None /\ x.op = "create"
Drawing(x)  == x # None /\ x.op # "create"

\* What a suspended record() or value() holds: a copy in order, no newer than
\* the stored document and equal to it at the same revision, and a request
\* that was checked against the copy.
Follows(x, document) ==
    /\ GoodBook(x.base)
    /\ document # None =>
         /\ x.base.revision <= document.revision
         /\ x.base.revision = document.revision => document = x.base
    /\ x.op = "record" => x.req \in Requests /\ Acceptable(x.base, x.req)

\* A portfolio that is being created is alone, and nothing was answered yet.
FirstOne(x) ==
    /\ x.opening \in Openings
    /\ stored = None /\ acked = {} /\ used

BookInv ==
    /\ used \in BOOLEAN
    /\ call \in [Clients -> Call \cup {None}]
    /\ acked \in SUBSET Requests
    /\ stored # None => GoodBook(stored)
    /\ ~used => stored = None /\ acked = {} /\ \A c \in Clients : call[c] = None
    /\ \A c \in Clients : Creating(call[c]) =>
         FirstOne(call[c]) /\ \A d \in Clients : call[d] # None => d = c
    /\ \A c \in Clients : Drawing(call[c]) => Follows(call[c], stored)
    /\ AckedKept

LEMMA NoneIsNoDocument == None \notin Portfolio /\ None \notin Valuation /\ None \notin Call
BY NoneAssumption

LEMMA GoodRevision ==
    ASSUME NEW p, GoodBook(p)
    PROVE  p \in Portfolio /\ p # None /\ p.revision \in Nat
BY NoneIsNoDocument DEF GoodBook, Portfolio

\* A new portfolio is in order.
LEMMA OpenedGood ==
    ASSUME NEW o \in Openings, NEW persist \in BOOLEAN
    PROVE  LET q == [persist |-> persist, revision |-> 1, opening |-> o, held |-> o.held,
                     balance |-> o.balance, events |-> << >>, valuation |-> None]
           IN  GoodBook(q)
<1> DEFINE q == [persist |-> persist, revision |-> 1, opening |-> o, held |-> o.held,
                 balance |-> o.balance, events |-> << >>, valuation |-> None]
<1>1. o \in Opening /\ MaxBalance \in Nat
  BY RequestTypes
<1>2. o.held \in SUBSET Currencies /\ o.balance \in [Currencies -> 0 .. MaxBalance]
  BY <1>1 DEF Opening
<1>3. /\ \A k \in Currencies : o.balance[k] \in 0 .. MaxBalance
      /\ \A k \in Currencies : o.balance[k] \in Nat
      /\ o.balance \in [Currencies -> Nat]
  <2>1. \A k \in Currencies : o.balance[k] \in 0 .. MaxBalance
    BY <1>2
  <2>2. \A k \in Currencies : o.balance[k] \in Nat
    BY <2>1
  <2> QED
    BY <1>2, <2>1, <2>2
<1>4. q \in Portfolio
  <2>1. << >> \in Seq(Event) /\ 1 \in Nat
    OBVIOUS
  <2> QED
    BY <1>1, <1>2, <1>3, <2>1 DEF Portfolio
<1>5. /\ q.balance = o.balance /\ q.opening = o /\ q.events = << >> /\ q.valuation = None
  OBVIOUS
<1> HIDE DEF q
<1>6. InRange(q.balance)
  BY <1>3, <1>5 DEF InRange
<1>7. DOMAIN q.events = {}
  BY <1>5
<1>8. Reconciles(q)
  <2> SUFFICES ASSUME NEW k \in Currencies
               PROVE  q.balance[k] = Total(q.opening.balance[k], Effects(q, k))
    BY DEF Reconciles
  <2>1. Effects(q, k) = << >>
    BY <1>7 DEF Effects
  <2>2. o.balance[k] \in Int
    BY <1>3
  <2> QED
    BY <1>5, <2>1, <2>2, TotalEmpty
<1>9. Entered(q)
  BY <1>7 DEF Entered
<1>10. Current(q)
  BY <1>5 DEF Current
<1> QED
  BY <1>4, <1>6, <1>8, <1>9, <1>10 DEF GoodBook, q

\* Steps that only take something away: a request ends without effect, or the
\* document is lost.
LEMMA LessIsGood ==
    ASSUME BookInv, stored' = stored \/ stored' = None, UNCHANGED <<used, acked>>,
           call' \in [Clients -> Call \cup {None}],
           \A d \in Clients : call'[d] = call[d] \/ call'[d] = None
    PROVE  BookInv'
<1>1. used' \in BOOLEAN /\ acked' \in SUBSET Requests
  BY DEF BookInv
<1>2. stored' # None => GoodBook(stored')
  BY DEF BookInv
<1>3. ~used' => stored' = None /\ acked' = {} /\ \A c \in Clients : call'[c] = None
  BY DEF BookInv
<1>4. ASSUME NEW c \in Clients, Creating(call'[c])
      PROVE  FirstOne(call[c])' /\ \A d \in Clients : call'[d] # None => d = c
  <2>1. call'[c] = call[c] /\ Creating(call[c])
    BY <1>4 DEF Creating
  <2>2. FirstOne(call[c]) /\ \A d \in Clients : call[d] # None => d = c
    BY <2>1 DEF BookInv
  <2> QED
    BY <2>1, <2>2 DEF FirstOne
<1>5. ASSUME NEW c \in Clients, Drawing(call'[c])
      PROVE  Follows(call'[c], stored')
  <2>1. call'[c] = call[c] /\ Drawing(call[c])
    BY <1>5 DEF Drawing
  <2>2. Follows(call[c], stored)
    BY <2>1 DEF BookInv
  <2> QED
    BY <2>1, <2>2 DEF Follows
<1>6. AckedKept'
  BY DEF BookInv, AckedKept, Events
<1> QED
  BY <1>1, <1>2, <1>3, <1>4, <1>5, <1>6 DEF BookInv

\* Steps that write the next revision of the document.
LEMMA NextIsGood ==
    ASSUME BookInv, stored # None, UNCHANGED used,
           GoodBook(stored'), stored'.revision = stored.revision + 1,
           acked' \in SUBSET Requests, AckedKept',
           call' \in [Clients -> Call \cup {None}],
           \A d \in Clients : call'[d] = call[d] \/ call'[d] = None
    PROVE  BookInv'
<1>1. used' \in BOOLEAN /\ used' = TRUE
  BY DEF BookInv
<1>2. GoodBook(stored) /\ stored.revision \in Nat
  BY GoodRevision DEF BookInv
<1>3. \A c \in Clients : ~Creating(call[c])
  BY DEF BookInv, FirstOne
<1>4. \A c \in Clients : ~Creating(call'[c])
  BY <1>3 DEF Creating
<1>5. ASSUME NEW c \in Clients, Drawing(call'[c])
      PROVE  Follows(call'[c], stored')
  <2>1. call'[c] = call[c] /\ Drawing(call[c])
    BY <1>5 DEF Drawing
  <2>2. Follows(call[c], stored)
    BY <2>1 DEF BookInv
  <2>3. call[c].base.revision \in Nat /\ call[c].base.revision <= stored.revision
    BY <2>2, GoodRevision DEF Follows
  <2>4. call[c].base.revision < stored'.revision
    BY <2>3, <1>2
  <2> QED
    BY <2>1, <2>2, <2>3, <2>4, <1>2 DEF Follows
<1> QED
  BY <1>1, <1>4, <1>5 DEF BookInv

LEMMA BookInit == Init => BookInv
BY DEF Init, BookInv, AckedKept, Creating, Drawing

\* A request is suspended with a copy of the document.
LEMMA DrawnIsGood ==
    ASSUME BookInv, stored # None, UNCHANGED <<stored, used, acked>>,
           NEW c \in Clients, NEW x \in Call, x.op # "create", Follows(x, stored),
           call' = [call EXCEPT ![c] = x]
    PROVE  BookInv'
<1>1. call' \in [Clients -> Call \cup {None}]
  BY DEF BookInv
<1>2. \A d \in Clients : call'[d] = IF d = c THEN x ELSE call[d]
  BY DEF BookInv
<1>3. \A d \in Clients : ~Creating(call'[d])
  BY <1>2 DEF BookInv, FirstOne, Creating
<1>4. \A d \in Clients : Drawing(call'[d]) => Follows(call'[d], stored')
  BY <1>2 DEF BookInv
<1>5. AckedKept'
  BY DEF BookInv, AckedKept, Events
<1> QED
  BY <1>1, <1>3, <1>4, <1>5 DEF BookInv

LEMMA CreateBeginGood ==
    ASSUME BookInv, NEW c \in Clients, NEW o \in Openings, NEW persist \in BOOLEAN,
           CreateBegin(c, o, persist)
    PROVE  BookInv'
<1> DEFINE x == [op |-> "create", opening |-> o, persist |-> persist]
<1>1. x \in Call /\ x # None /\ x.op = "create" /\ x.opening = o
  <2>1. o \in Opening
    BY RequestTypes
  <2>2. x \in [op : {"create"}, opening : Opening, persist : BOOLEAN]
    BY <2>1
  <2> QED
    BY <2>2, NoneIsNoDocument DEF Call
<1>2. call' = [call EXCEPT ![c] = x] /\ used' = TRUE /\ UNCHANGED <<stored, acked>> /\ ~used
  BY DEF CreateBegin
<1> HIDE DEF x
<1>3. stored = None /\ acked = {} /\ \A d \in Clients : call[d] = None
  BY <1>2 DEF BookInv
<1>4. \A d \in Clients : call'[d] = IF d = c THEN x ELSE None
  BY <1>2, <1>3 DEF BookInv
<1>5. call' \in [Clients -> Call \cup {None}]
  BY <1>1, <1>2 DEF BookInv
<1>6. ASSUME NEW d \in Clients, Creating(call'[d])
      PROVE  FirstOne(call[d])' /\ \A e \in Clients : call'[e] # None => e = d
  BY <1>1, <1>2, <1>3, <1>4, <1>6 DEF Creating, FirstOne
<1>7. \A d \in Clients : ~Drawing(call'[d])
  BY <1>1, <1>4 DEF Drawing
<1>8. AckedKept'
  BY <1>2, <1>3 DEF AckedKept
<1> QED
  BY <1>2, <1>3, <1>5, <1>6, <1>7, <1>8 DEF BookInv

LEMMA CreateEndGood ==
    ASSUME BookInv, NEW c \in Clients, CreateEnd(c)
    PROVE  BookInv' /\ stored = None /\ Events(stored') = {}
           /\ \E o \in Openings : stored'.balance = o.balance
           /\ stored' # None
<1>1. /\ call[c] # None /\ call[c].op = "create" /\ Creating(call[c])
      /\ call' = [call EXCEPT ![c] = None] /\ UNCHANGED <<used, acked>>
  BY DEF CreateEnd, Creating
<1>2. /\ call[c].opening \in Openings /\ stored = None /\ acked = {} /\ used
      /\ \A d \in Clients : call[d] # None => d = c
  BY <1>1 DEF BookInv, FirstOne
<1>3. call[c].persist \in BOOLEAN
  <2>1. call[c] \in Call
    BY <1>1 DEF BookInv
  <2>2. call[c] \in [op : {"create"}, opening : Opening, persist : BOOLEAN]
    BY <2>1, <1>1 DEF Call
  <2> QED
    BY <2>2
<1>4. GoodBook(stored')
  BY <1>2, <1>3, OpenedGood DEF CreateEnd
<1>5. stored'.events = << >> /\ stored'.balance = call[c].opening.balance
  BY DEF CreateEnd
<1>6. \A d \in Clients : call'[d] = None
  BY <1>1, <1>2 DEF BookInv
<1>7. call' \in [Clients -> Call \cup {None}]
  BY <1>1 DEF BookInv
<1>8. AckedKept'
  BY <1>1, <1>2 DEF AckedKept
<1>9. BookInv'
  BY <1>1, <1>2, <1>4, <1>6, <1>7, <1>8 DEF BookInv, Creating, Drawing
<1>10. Events(stored') = {}
  BY <1>5 DEF Events
<1> QED
  BY <1>2, <1>4, <1>5, <1>9, <1>10, GoodRevision

LEMMA CheckedAcceptable ==
    ASSUME NEW r, Checked(r)
    PROVE  stored # None /\ Acceptable(stored, r)
BY DEF Checked, Acceptable

LEMMA RecordBeginGood ==
    ASSUME BookInv, NEW c \in Clients, NEW r \in Requests, RecordBegin(c, r)
    PROVE  BookInv'
<1> DEFINE x == [op |-> "record", req |-> r, base |-> stored]
<1>1. call' = [call EXCEPT ![c] = x] /\ UNCHANGED <<stored, used, acked>>
      /\ stored # None /\ Acceptable(stored, r)
  BY CheckedAcceptable DEF RecordBegin
<1>2. GoodBook(stored) /\ stored \in Portfolio /\ stored.revision \in Nat
  BY <1>1, GoodRevision DEF BookInv
<1>3. x \in Call /\ x.op # "create"
  <2>1. r \in Request
    BY RequestTypes
  <2> QED
    BY <2>1, <1>2 DEF Call
<1>4. Follows(x, stored)
  BY <1>1, <1>2 DEF Follows
<1> HIDE DEF x
<1> QED
  BY <1>1, <1>3, <1>4, DrawnIsGood

LEMMA ValueBeginGood ==
    ASSUME BookInv, NEW c \in Clients, ValueBegin(c)
    PROVE  BookInv'
<1> DEFINE x == [op |-> "value", base |-> stored]
<1>1. call' = [call EXCEPT ![c] = x] /\ UNCHANGED <<stored, used, acked>> /\ stored # None
  BY DEF ValueBegin
<1>2. GoodBook(stored) /\ stored \in Portfolio /\ stored.revision \in Nat
  BY <1>1, GoodRevision DEF BookInv
<1>3. x \in Call /\ x.op # "create"
  BY <1>2 DEF Call
<1>4. Follows(x, stored)
  BY <1>2 DEF Follows
<1> HIDE DEF x
<1> QED
  BY <1>1, <1>3, <1>4, DrawnIsGood

\* The events of a document with one more recorded.
LEMMA RecordedEvents ==
    ASSUME NEW p \in Portfolio, NEW r \in Requests
    PROVE  Events(Recorded(p, r)) = Events(p) \cup {[req |-> r, revision |-> p.revision + 1]}
<1> DEFINE q == Recorded(p, r)
           e == [req |-> r, revision |-> p.revision + 1]
<1>1. q.events = Append(p.events, e)
  BY RecordedFields
<1>2. p.events \in Seq(Event)
  BY DEF Portfolio
<1> HIDE DEF q, e
<1>3. /\ Len(p.events) \in Nat
      /\ DOMAIN p.events = 1 .. Len(p.events)
      /\ DOMAIN q.events = 1 .. Len(p.events) + 1
      /\ \A i \in 1 .. Len(p.events) : q.events[i] = p.events[i]
      /\ q.events[Len(p.events) + 1] = e
  BY <1>1, <1>2
<1>4. \A i \in 1 .. Len(p.events) + 1 : i \in 1 .. Len(p.events) \/ i = Len(p.events) + 1
  BY <1>3
<1>5. 1 .. Len(p.events) \subseteq 1 .. Len(p.events) + 1
      /\ Len(p.events) + 1 \in 1 .. Len(p.events) + 1
  BY <1>3
<1>6. Events(q) = {q.events[i] : i \in 1 .. Len(p.events) + 1}
  BY <1>3, Zenon DEF Events
<1>7. Events(p) = {p.events[i] : i \in 1 .. Len(p.events)}
  BY <1>3, Zenon DEF Events
<1>8. Events(q) = Events(p) \cup {e}
  BY <1>3, <1>4, <1>5, <1>6, <1>7
<1> QED
  BY <1>8 DEF q, e

\* A request written over the document it was checked against.
LEMMA WrittenIsGood ==
    ASSUME BookInv, stored # None, NEW r \in Requests, Acceptable(stored, r),
           Admissible(stored, r), stored' = Recorded(stored, r), acked' = acked \cup {r},
           UNCHANGED used, call' \in [Clients -> Call \cup {None}],
           \A d \in Clients : call'[d] = call[d] \/ call'[d] = None
    PROVE  BookInv'
<1>1. GoodBook(stored) /\ stored \in Portfolio
  BY GoodRevision DEF BookInv
<1>2. GoodBook(stored')
  BY <1>1, RecordedGood
<1>3. stored'.revision = stored.revision + 1
  BY <1>1, RecordedFields
<1>4. acked' \in SUBSET Requests
  BY DEF BookInv
<1>5. AckedKept'
  <2> DEFINE e == [req |-> r, revision |-> stored.revision + 1]
  <2>1. Events(stored') = Events(stored) \cup {e} /\ e.req = r
    BY <1>1, RecordedEvents
  <2>2. \A s \in acked : \E f \in Events(stored) : f.req = s
    BY DEF BookInv, AckedKept
  <2> HIDE DEF e
  <2> SUFFICES ASSUME NEW s \in acked' PROVE \E f \in Events(stored') : f.req = s
    BY DEF AckedKept, Events
  <2> QED
    BY <2>1, <2>2
<1> QED
  BY <1>2, <1>3, <1>4, <1>5, NextIsGood

\* The copy a request writes back is the document as it stands.
LEMMA CopyIsCurrent ==
    ASSUME BookInv, NEW c \in Clients, call[c] # None, call[c].op # "create",
           Unmoved(call[c].base)
    PROVE  /\ stored # None /\ stored = call[c].base
           /\ call[c].op = "record" => call[c].req \in Requests /\ Acceptable(stored, call[c].req)
<1>1. Follows(call[c], stored)
  BY DEF BookInv, Drawing
<1>2. stored # None /\ stored.revision = call[c].base.revision
  BY DEF Unmoved
<1>3. stored = call[c].base
  BY <1>1, <1>2 DEF Follows
<1> QED
  BY <1>1, <1>2, <1>3 DEF Follows

LEMMA RecordEndWrites ==
    ASSUME BookInv, NEW c \in Clients, RecordEnd(c)
    PROVE  /\ stored # None /\ call[c].req \in Requests
           /\ Acceptable(stored, call[c].req) /\ Admissible(stored, call[c].req)
           /\ stored' = Recorded(stored, call[c].req)
<1>1. /\ call[c] # None /\ call[c].op = "record"
      /\ Admissible(call[c].base, call[c].req) /\ Unmoved(call[c].base)
      /\ stored' = Recorded(call[c].base, call[c].req)
  BY DEF RecordEnd
<1> QED
  BY <1>1, CopyIsCurrent

LEMMA RecordEndGood ==
    ASSUME BookInv, NEW c \in Clients, RecordEnd(c)
    PROVE  BookInv'
<1>1. call' = [call EXCEPT ![c] = None] /\ UNCHANGED used /\ acked' = acked \cup {call[c].req}
  BY DEF RecordEnd
<1>2. /\ call' \in [Clients -> Call \cup {None}]
      /\ \A d \in Clients : call'[d] = call[d] \/ call'[d] = None
  BY <1>1 DEF BookInv
<1> QED
  BY <1>1, <1>2, RecordEndWrites, WrittenIsGood

LEMMA RecordAtOnceGood ==
    ASSUME BookInv, NEW r \in Requests, RecordAtOnce(r)
    PROVE  BookInv'
<1>1. /\ stored # None /\ Acceptable(stored, r) /\ Admissible(stored, r)
      /\ stored' = Recorded(stored, r) /\ acked' = acked \cup {r} /\ UNCHANGED <<used, call>>
  BY CheckedAcceptable DEF RecordAtOnce
<1>2. call' \in [Clients -> Call \cup {None}]
  BY <1>1 DEF BookInv
<1> QED
  BY <1>1, <1>2, WrittenIsGood

LEMMA ValueEndWrites ==
    ASSUME BookInv, NEW c \in Clients, ValueEnd(c)
    PROVE  stored # None /\ GoodBook(stored) /\ stored' = Valued(stored)
<1>1. call[c] # None /\ call[c].op = "value" /\ Unmoved(call[c].base)
      /\ stored' = Valued(call[c].base)
  BY DEF ValueEnd
<1> QED
  BY <1>1, CopyIsCurrent DEF BookInv

LEMMA ValueEndGood ==
    ASSUME BookInv, NEW c \in Clients, ValueEnd(c)
    PROVE  BookInv'
<1>1. call' = [call EXCEPT ![c] = None] /\ UNCHANGED <<used, acked>>
  BY DEF ValueEnd
<1>2. /\ call' \in [Clients -> Call \cup {None}]
      /\ \A d \in Clients : call'[d] = call[d] \/ call'[d] = None
  BY <1>1 DEF BookInv
<1>3. stored # None /\ GoodBook(stored) /\ stored' = Valued(stored)
  BY ValueEndWrites
<1>4. GoodBook(stored') /\ stored'.revision = stored.revision + 1
      /\ Events(stored') = Events(stored)
  BY <1>3, ValuedGood DEF Events
<1>5. AckedKept' /\ acked' \in SUBSET Requests
  <2>1. \A r \in acked : \E e \in Events(stored) : e.req = r
    BY <1>3 DEF BookInv, AckedKept
  <2>2. \A r \in acked' : \E e \in Events(stored)' : e.req = r
    BY <2>1, <1>1, <1>4 DEF Events
  <2> QED
    BY <2>2, <1>1 DEF BookInv, AckedKept
<1> QED
  BY <1>1, <1>2, <1>3, <1>4, <1>5, NextIsGood

LEMMA DuplicateGood ==
    ASSUME BookInv, NEW r \in Requests, RecordDuplicate(r)
    PROVE  BookInv'
<1>1. /\ stored # None /\ Duplicate(stored, r)
      /\ acked' = acked \cup {r} /\ UNCHANGED <<stored, used, call>>
  BY DEF RecordDuplicate
<1>2. AckedKept'
  <2>1. \A s \in acked \cup {r} : \E e \in Events(stored) : e.req = s
    BY <1>1 DEF BookInv, AckedKept, Duplicate
  <2> QED
    BY <2>1, <1>1 DEF AckedKept, Events
<1>3. used
  BY <1>1 DEF BookInv
<1>4. \A c \in Clients : ~Creating(call'[c])
  BY <1>1 DEF BookInv, FirstOne, Creating
<1> QED
  BY <1>1, <1>2, <1>3, <1>4 DEF BookInv

LEMMA TakenAwayGood ==
    ASSUME BookInv, Lost \/ Restart \/ UNCHANGED vars \/ \E c \in Clients : CallRefused(c)
    PROVE  BookInv'
<1>1. stored' = stored \/ stored' = None
  BY DEF Lost, Restart, vars, CallRefused
<1>2. UNCHANGED <<used, acked>>
  BY DEF Lost, Restart, vars, CallRefused
<1>3. /\ call' \in [Clients -> Call \cup {None}]
      /\ \A d \in Clients : call'[d] = call[d] \/ call'[d] = None
  BY DEF Lost, Restart, vars, CallRefused, BookInv
<1> QED
  BY <1>1, <1>2, <1>3, LessIsGood

LEMMA BookStep == BookInv /\ [Next]_vars => BookInv'
<1> SUFFICES ASSUME BookInv, [Next]_vars PROVE BookInv'
  OBVIOUS
<1>1. ASSUME NEW c \in Clients, NEW o \in Openings, NEW persist \in BOOLEAN,
             CreateBegin(c, o, persist)
      PROVE  BookInv'
  BY <1>1, CreateBeginGood
<1>2. ASSUME NEW c \in Clients, NEW r \in Requests, RecordBegin(c, r) PROVE BookInv'
  BY <1>2, RecordBeginGood
<1>3. ASSUME NEW c \in Clients, CreateEnd(c) PROVE BookInv'
  BY <1>3, CreateEndGood
<1>4. ASSUME NEW c \in Clients, RecordEnd(c) PROVE BookInv'
  BY <1>4, RecordEndGood
<1>5. ASSUME NEW c \in Clients, ValueBegin(c) PROVE BookInv'
  BY <1>5, ValueBeginGood
<1>6. ASSUME NEW c \in Clients, ValueEnd(c) PROVE BookInv'
  BY <1>6, ValueEndGood
<1>7. ASSUME NEW r \in Requests, RecordDuplicate(r) PROVE BookInv'
  BY <1>7, DuplicateGood
<1>8. ASSUME NEW r \in Requests, RecordAtOnce(r) PROVE BookInv'
  BY <1>8, RecordAtOnceGood
<1>9. CASE Lost \/ Restart \/ UNCHANGED vars \/ \E c \in Clients : CallRefused(c)
  BY <1>9, TakenAwayGood
<1> QED
  BY <1>1, <1>2, <1>3, <1>4, <1>5, <1>6, <1>7, <1>8, <1>9 DEF Next

LEMMA BookInvariant == Spec => []BookInv
BY BookInit, BookStep, PTL DEF Spec

-------------------------------------------------------------------------------
(* What follows from it *)

LEMMA BookImplies == BookInv => BookSound
<1> SUFFICES ASSUME BookInv PROVE BookSound
  OBVIOUS
<1>1. stored # None => GoodBook(stored)
  BY DEF BookInv
<1>2. TypeOK
  <2>1. stored \in Portfolio \cup {None}
    BY <1>1 DEF GoodBook
  <2>2. acked \in SUBSET Request
    BY RequestTypes DEF BookInv
  <2> QED
    BY <2>1, <2>2 DEF BookInv, TypeOK
<1>3. BalanceReconciles
  BY <1>1 DEF BalanceReconciles, GoodBook, Reconciles, Effects
<1>4. ExecutedOnce
  <2>1. stored # None => Entered(stored)
    BY <1>1 DEF GoodBook
  <2> QED
    BY <2>1 DEF ExecutedOnce, Entered, Req
<1>5. ValuationCurrent
  BY <1>1 DEF ValuationCurrent, GoodBook, Current
<1> QED
  BY <1>2, <1>3, <1>4, <1>5 DEF BookSound, LedgerSound

\* A portfolio read back from the store is in order, however many requests were
\* suspended over a quote in between: its holdings are the opening plus what was
\* executed, no proposal was executed twice, its valuation is of its holdings.
THEOREM PortfolioIsSound == Spec => []BookSound
BY BookInvariant, BookImplies, PTL

\* A request answered as recorded stands in the ledger, as it was sent, for as
\* long as the portfolio exists: no concurrent write or valuation drops it.
THEOREM AnsweredIsKept == Spec => []AckedKept
<1>1. BookInv => AckedKept
  BY DEF BookInv
<1> QED
  BY <1>1, BookInvariant, PTL

\* Recording a request is entering it in the book.
LEMMA RecordedIsEntered ==
    ASSUME BookInv, stored # None, NEW r \in Requests, Acceptable(stored, r),
           Admissible(stored, r), stored' = Recorded(stored, r)
    PROVE  Book!Enter(r)
<1>1. GoodBook(stored) /\ stored \in Portfolio
  BY GoodRevision DEF BookInv
<1>2. GoodBook(stored') /\ stored' # None
  BY <1>1, RecordedGood, GoodRevision
<1>3. Events(stored)' = Events(stored) \cup {[req |-> r, revision |-> stored.revision + 1]}
  <2>1. Events(stored') = Events(stored) \cup {[req |-> r, revision |-> stored.revision + 1]}
    BY <1>1, RecordedEvents
  <2> QED
    BY <2>1 DEF Events
<1>4. {e.req : e \in Events(stored)}' = {e.req : e \in Events(stored)} \cup {r}
  <2> DEFINE e0 == [req |-> r, revision |-> stored.revision + 1]
             S == Events(stored)
             T == Events(stored)'
  <2>1. T = S \cup {e0} /\ e0.req = r
    BY <1>3
  <2> HIDE DEF e0, S, T
  <2>2. {e.req : e \in T} = {e.req : e \in S} \cup {r}
    BY <2>1
  <2> QED
    BY <2>2 DEF S, T
<1>5. \A s \in {e.req : e \in Events(stored)} : s.id # r.id
  BY DEF Acceptable, Known
<1>6. r.proposal # "" =>
        /\ \E s \in {e.req : e \in Events(stored)} :
              s.id = r.proposal /\ s.kind = "proposed" /\ s.debit = r.debit /\ s.credit = r.credit
        /\ \A s \in {e.req : e \in Events(stored)} : s.proposal # r.proposal
  <2> SUFFICES ASSUME r.proposal # ""
               PROVE  /\ \E e \in Events(stored) :
                            e.req.id = r.proposal /\ e.req.kind = "proposed"
                            /\ e.req.debit = r.debit /\ e.req.credit = r.credit
                      /\ \A e \in Events(stored) : e.req.proposal # r.proposal
    OBVIOUS
  <2>1. \A e \in Events(stored) : e.req \in Requests
    BY <1>1 DEF GoodBook, Entered, Req, Events
  <2>2. \A e \in Events(stored) : e.req.kind = "proposed" => e.req.proposal = ""
    BY <2>1, RequestTypes
  <2> QED
    BY <2>2 DEF Acceptable, ProposalOpen
<1>7. stored'.balance = IF r.kind = "proposed" THEN stored.balance
                        ELSE [k \in Currencies |-> stored.balance[k] + r.credit[k] - r.debit[k]]
  BY <1>1, RecordedFields DEF Moved
<1>8. \A k \in Currencies : stored'.balance[k] \in 0 .. MaxBalance
  BY <1>2 DEF GoodBook, InRange
<1> QED
  BY <1>2, <1>4, <1>5, <1>6, <1>7, <1>8 DEF Book!Enter

LEMMA BookStarts == Init => Book!Init
BY DEF Init, Book!Init, Book!Closed

LEMMA BookSteps ==
    ASSUME BookInv, BookInv', [Next]_vars
    PROVE  [Book!Next]_(Book!ledgerVars)
<1>1. ASSUME NEW r \in Requests, Book!Enter(r)
      PROVE  Book!Next
  BY <1>1 DEF Book!Next
<1>2. ASSUME NEW r \in Requests, RecordAtOnce(r)
      PROVE  Book!Next
  <2>1. /\ stored # None /\ Acceptable(stored, r) /\ Admissible(stored, r)
        /\ stored' = Recorded(stored, r)
    BY <1>2, CheckedAcceptable DEF RecordAtOnce
  <2> QED
    BY <1>1, <2>1, RecordedIsEntered
<1>3. ASSUME NEW c \in Clients, RecordEnd(c)
      PROVE  Book!Next
  BY <1>1, <1>3, RecordEndWrites, RecordedIsEntered
<1>4. ASSUME NEW c \in Clients, CreateEnd(c)
      PROVE  Book!Next
  <2>1. /\ stored = None /\ stored' # None /\ Events(stored') = {}
        /\ \E o \in Openings : stored'.balance = o.balance
    BY <1>4, CreateEndGood
  <2>2. {e.req : e \in Events(stored')} = {}
    BY <2>1
  <2>3. Book!Start
    BY <2>1, <2>2 DEF Book!Start, Events
  <2> QED
    BY <2>3 DEF Book!Next
<1>5. ASSUME NEW c \in Clients, ValueEnd(c)
      PROVE  UNCHANGED Book!ledgerVars
  <2>1. stored # None /\ GoodBook(stored) /\ stored' = Valued(stored)
    BY <1>5, ValueEndWrites
  <2>2. stored' # None /\ stored'.events = stored.events /\ stored'.balance = stored.balance
    BY <2>1, ValuedGood, GoodRevision
  <2>3. Events(stored)' = Events(stored)
    BY <2>2 DEF Events
  <2> QED
    BY <2>1, <2>2, <2>3 DEF Book!ledgerVars
<1>6. ASSUME UNCHANGED stored
      PROVE  UNCHANGED Book!ledgerVars
  BY <1>6 DEF Book!ledgerVars, Events
<1>7. ASSUME Lost \/ Restart
      PROVE  [Book!Next]_(Book!ledgerVars)
  <2>1. CASE stored' = stored
    BY <2>1, <1>6
  <2>2. CASE stored # None /\ stored' = None
    <3>1. Book!Lose
      BY <2>2 DEF Book!Lose, Book!Closed
    <3> QED
      BY <3>1 DEF Book!Next
  <2> QED
    BY <1>7, <2>1, <2>2 DEF Lost, Restart
<1>8. CASE UNCHANGED stored
  BY <1>6, <1>8
<1>9. CASE \/ \E c \in Clients : CreateEnd(c) \/ RecordEnd(c) \/ ValueEnd(c)
           \/ \E r \in Requests : RecordAtOnce(r)
           \/ Lost \/ Restart
  BY <1>2, <1>3, <1>4, <1>5, <1>7, <1>9
<1>10. ASSUME \E c \in Clients :
                 \/ \E o \in Openings, persist \in BOOLEAN : CreateBegin(c, o, persist)
                 \/ \E r \in Requests : RecordBegin(c, r)
                 \/ ValueBegin(c) \/ CallRefused(c)
       PROVE  UNCHANGED stored
  BY <1>10 DEF CreateBegin, RecordBegin, ValueBegin, CallRefused
<1>11. ASSUME (\E r \in Requests : RecordDuplicate(r)) \/ UNCHANGED vars
       PROVE  UNCHANGED stored
  BY <1>11 DEF RecordDuplicate, vars
<1> QED
  BY <1>8, <1>9, <1>10, <1>11 DEF Next

\* Every step of the portfolio, with its suspended requests, retries, losses and
\* restarts, is one step of the plain account book or none: an entry, a start, a loss.
THEOREM PortfolioKeepsBook == Spec => KeepsBook
<1>1. Spec => Book!Init
  BY BookStarts DEF Spec
<1>2. BookInv /\ BookInv' /\ [Next]_vars => [Book!Next]_(Book!ledgerVars)
  BY BookSteps
<1> QED
  BY <1>1, <1>2, BookInvariant, PTL DEF Spec, KeepsBook, Book!Spec

================================================================================
