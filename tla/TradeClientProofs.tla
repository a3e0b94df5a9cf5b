--------------------------- MODULE TradeClientProofs ---------------------------
(* The trade client keeps its promises to the site and to its callers, for any  *)
(* number of calls, queries, listings and limits.                               *)
EXTENDS TradeClient, ListsProofs, FiniteSetTheorems, SequenceTheorems

-------------------------------------------------------------------------------
(* Sequences as locks and as dictionaries *)

\* Removing one place keeps the others, in their order.
LEMMA RemoveAtProperties ==
    ASSUME NEW S, NEW s \in Seq(S), NEW i \in 1 .. Len(s)
    PROVE  /\ RemoveAt(s, i) \in Seq(S)
           /\ Len(RemoveAt(s, i)) = Len(s) - 1
           /\ \A j \in 1 .. Len(s) - 1 : RemoveAt(s, i)[j] = s[IF j < i THEN j ELSE j + 1]
<1> DEFINE a == SubSeq(s, 1, i - 1)
           b == SubSeq(s, i + 1, Len(s))
           n == Len(s)
<1>1. n \in Nat /\ i \in Nat /\ i >= 1 /\ i <= n /\ \A j \in 1 .. n : s[j] \in S
  BY ElementOfSeq, LenProperties
<1>2. /\ a \in Seq(S) /\ Len(a) = i - 1
      /\ \A j \in 1 .. i - 1 : a[j] = s[j]
  <2>1. \A j \in 1 .. i - 1 : s[j] \in S
    BY <1>1
  <2> QED
    BY <1>1, <2>1, SubSeqProperties
<1>3. /\ b \in Seq(S) /\ Len(b) = n - i
      /\ \A j \in 1 .. n - i : b[j] = s[i + j]
  <2>1. \A j \in i + 1 .. n : s[j] \in S
    BY <1>1
  <2>2. /\ b \in Seq(S) /\ Len(b) = IF i + 1 <= n THEN n - (i + 1) + 1 ELSE 0
        /\ \A j \in 1 .. n - (i + 1) + 1 : b[j] = s[(i + 1) + j - 1]
    BY <1>1, <2>1, SubSeqProperties
  <2> HIDE DEF b, n
  <2> QED
    BY <1>1, <2>2
<1> HIDE DEF a, b
<1>4. /\ a \o b \in Seq(S)
      /\ Len(a \o b) = Len(a) + Len(b)
      /\ \A j \in 1 .. Len(a) + Len(b) : (a \o b)[j] = IF j <= Len(a) THEN a[j] ELSE b[j - Len(a)]
  BY <1>2, <1>3, ConcatProperties
<1>5. ASSUME NEW j \in 1 .. n - 1
      PROVE  (a \o b)[j] = s[IF j < i THEN j ELSE j + 1]
  <2>1. CASE j < i
    <3>1. j \in 1 .. i - 1 /\ j <= Len(a)
      BY <1>1, <1>2, <2>1
    <3> QED
      BY <1>1, <1>2, <1>3, <1>4, <2>1, <3>1
  <2>2. CASE ~ (j < i)
    <3>1. j - (i - 1) \in 1 .. n - i /\ i + (j - (i - 1)) = j + 1
      BY <1>1, <2>2
    <3>2. j \in 1 .. Len(a) + Len(b) /\ ~ (j <= Len(a))
      BY <1>1, <1>2, <1>3, <2>2
    <3>3. (a \o b)[j] = b[j - (i - 1)]
      BY <1>2, <1>4, <3>2
    <3> QED
      BY <1>3, <2>2, <3>1, <3>3
  <2> QED
    BY <2>1, <2>2
<1>6. RemoveAt(s, i) = a \o b
  BY DEF RemoveAt, a, b
<1>7. Len(a \o b) = n - 1
  BY <1>1, <1>2, <1>3, <1>4
<1> QED
  BY <1>4, <1>5, <1>6, <1>7 DEF n

\* What is in a sequence, by index.
LEMMA InSet ==
    ASSUME NEW S, NEW s \in Seq(S)
    PROVE  /\ Len(s) \in Nat /\ DOMAIN s = 1 .. Len(s)
           /\ \A i \in 1 .. Len(s) : s[i] \in S /\ s[i] \in ToSet(s)
           /\ \A x \in ToSet(s) : x \in S /\ \E i \in 1 .. Len(s) : s[i] = x
BY LenProperties, ElementOfSeq DEF ToSet

\* A lock without c: the others keep their turn.
Rid(lock, others, c) ==
    /\ others \in Seq(Clients)
    /\ IsInjective(others)
    /\ ToSet(others) = ToSet(lock) \ {c}
    /\ lock # << >> /\ Head(lock) # c => others # << >> /\ Head(others) = Head(lock)

LEMMA TailRids ==
    ASSUME NEW lock \in Seq(Clients), IsInjective(lock), lock # << >>
    PROVE  Rid(lock, Tail(lock), Head(lock))
<1> DEFINE t == Tail(lock)
           n == Len(lock)
<1>1. n \in Nat \ {0} /\ DOMAIN lock = 1 .. n /\ Head(lock) = lock[1]
  BY InSet, EmptySeq
<1>2. /\ t \in Seq(Clients) /\ Len(t) = n - 1 /\ DOMAIN t = 1 .. n - 1
      /\ \A i \in 1 .. n - 1 : t[i] = lock[i + 1]
  BY <1>1, HeadTailProperties, InSet
<1> HIDE DEF t, n
<1>3. IsInjective(t)
  <2> SUFFICES ASSUME NEW i \in 1 .. n - 1, NEW j \in 1 .. n - 1, t[i] = t[j] PROVE i = j
    BY <1>2 DEF IsInjective
  <2>1. i + 1 \in DOMAIN lock /\ j + 1 \in DOMAIN lock /\ lock[i + 1] = lock[j + 1]
    BY <1>1, <1>2
  <2>2. i + 1 = j + 1
    BY <2>1 DEF IsInjective
  <2> QED
    BY <2>2, <1>1
<1>4. ToSet(t) = ToSet(lock) \ {lock[1]}
  <2>1. ASSUME NEW i \in 1 .. n - 1
        PROVE  t[i] \in ToSet(lock) /\ t[i] # lock[1]
    <3>1. i + 1 \in DOMAIN lock /\ 1 \in DOMAIN lock /\ i + 1 # 1
      BY <1>1
    <3> QED
      BY <1>2, <3>1 DEF IsInjective, ToSet
  <2>2. ASSUME NEW i \in 1 .. n, lock[i] # lock[1]
        PROVE  lock[i] \in ToSet(t)
    <3>1. i # 1 /\ i - 1 \in 1 .. n - 1 /\ (i - 1) + 1 = i
      BY <1>1, <2>2
    <3> QED
      BY <1>2, <3>1 DEF ToSet
  <2> QED
    BY <1>1, <1>2, <2>1, <2>2, ZenonT(60) DEF ToSet
<1> QED
  BY <1>1, <1>2, <1>3, <1>4 DEF Rid, t

LEMMA LeaveRids ==
    ASSUME NEW lock \in Seq(Clients), IsInjective(lock), NEW c
    PROVE  Rid(lock, Leave(lock, c), c)
<1> DEFINE n == Len(lock)
           places == {i \in DOMAIN lock : lock[i] = c}
<1>1. n \in Nat /\ DOMAIN lock = 1 .. n /\ (lock # << >> => n # 0 /\ Head(lock) = lock[1])
  BY InSet, EmptySeq
<1>2. CASE places = {}
  <2>1. Leave(lock, c) = lock /\ c \notin ToSet(lock)
    BY <1>2 DEF Leave, Without, ToSet
  <2> QED
    BY <2>1 DEF Rid
<1>3. CASE places # {}
  <2> DEFINE k == CHOOSE i \in places : TRUE
             t == RemoveAt(lock, k)
  <2>1. k \in 1 .. n /\ lock[k] = c
    BY <1>1, <1>3
  <2>2. Leave(lock, c) = t
    BY <1>3 DEF Leave, Without
  <2> HIDE DEF k, places
  <2>3. /\ t \in Seq(Clients) /\ Len(t) = n - 1
        /\ \A j \in 1 .. n - 1 : t[j] = lock[IF j < k THEN j ELSE j + 1]
    BY <2>1, RemoveAtProperties
  <2>4. DOMAIN t = 1 .. n - 1
    BY <2>3, InSet
  <2> HIDE DEF t, n
  <2>5. \A j \in 1 .. n - 1 :
          /\ (IF j < k THEN j ELSE j + 1) \in 1 .. n
          /\ (IF j < k THEN j ELSE j + 1) # k
    BY <1>1, <2>1
  <2>6. IsInjective(t)
    <3> SUFFICES ASSUME NEW i \in 1 .. n - 1, NEW j \in 1 .. n - 1, t[i] = t[j] PROVE i = j
      BY <2>4 DEF IsInjective
    <3>1. (IF i < k THEN i ELSE i + 1) = (IF j < k THEN j ELSE j + 1)
      BY <1>1, <2>3, <2>5, SMTT(60) DEF IsInjective
    <3> QED
      BY <3>1, <2>1, <1>1
  <2>7. ToSet(t) = ToSet(lock) \ {c}
    <3>1. ASSUME NEW j \in 1 .. n - 1
          PROVE  t[j] \in ToSet(lock) /\ t[j] # c
      BY <1>1, <2>1, <2>3, <2>5 DEF IsInjective, ToSet
    <3>2. ASSUME NEW i \in 1 .. n, lock[i] # c
          PROVE  lock[i] \in ToSet(t)
      <4>1. CASE i < k
        <5>1. i \in 1 .. n - 1
          BY <4>1, <2>1, <1>1
        <5> QED
          BY <5>1, <4>1, <2>3, <2>4 DEF ToSet
      <4>2. CASE i > k
        <5>1. i - 1 \in 1 .. n - 1 /\ ~ (i - 1 < k) /\ (i - 1) + 1 = i
          BY <4>2, <2>1, <1>1
        <5> QED
          BY <5>1, <2>3, <2>4 DEF ToSet
      <4> QED
        BY <3>2, <4>1, <4>2, <2>1, <1>1
    <3> QED
      BY <1>1, <2>4, <3>1, <3>2 DEF ToSet
  <2>8. ASSUME lock # << >>, Head(lock) # c
        PROVE  t # << >> /\ Head(t) = Head(lock)
    <3>1. k # 1 /\ 1 < k /\ 1 \in 1 .. n - 1
      BY <1>1, <2>1, <2>8
    <3>2. t[1] = lock[1] /\ t # << >>
      BY <2>3, <2>4, <3>1
    <3> QED
      BY <3>2, <2>3, <2>8, <1>1
  <2> QED
    BY <2>2, <2>3, <2>6, <2>7, <2>8 DEF Rid
<1> QED
  BY <1>2, <1>3

LEMMA SameRids ==
    ASSUME NEW lock \in Seq(Clients), IsInjective(lock), NEW c, c \notin ToSet(lock)
    PROVE  Rid(lock, lock, c)
BY DEF Rid

\* A lock somebody has queued for.
LEMMA JoinLock ==
    ASSUME NEW lock \in Seq(Clients), IsInjective(lock), NEW c \in Clients, c \notin ToSet(lock)
    PROVE  /\ Append(lock, c) \in Seq(Clients) /\ IsInjective(Append(lock, c))
           /\ ToSet(Append(lock, c)) = ToSet(lock) \cup {c}
           /\ lock # << >> => Head(Append(lock, c)) = Head(lock)
           /\ Append(lock, c) # << >>
<1> DEFINE n == Len(lock)
           t == Append(lock, c)
<1>1. n \in Nat /\ DOMAIN lock = 1 .. n /\ (lock # << >> => n # 0 /\ Head(lock) = lock[1])
  BY InSet, EmptySeq
<1>2. /\ t \in Seq(Clients) /\ Len(t) = n + 1 /\ DOMAIN t = 1 .. n + 1
      /\ \A i \in 1 .. n : t[i] = lock[i]
      /\ t[n + 1] = c /\ Head(t) = t[1]
  BY <1>1, AppendProperties, InSet
<1> HIDE DEF t, n
<1>3. \A i \in 1 .. n + 1 : i \in 1 .. n \/ i = n + 1
  BY <1>1
<1>4. \A i \in 1 .. n : lock[i] # c
  BY <1>1 DEF ToSet
<1>5. IsInjective(t)
  BY <1>1, <1>2, <1>3, <1>4 DEF IsInjective
<1>6. ToSet(t) = ToSet(lock) \cup {c}
  <2>1. \A i \in 1 .. n : i \in 1 .. n + 1
    BY <1>1
  <2>2. n + 1 \in 1 .. n + 1
    BY <1>1
  <2> QED
    BY <1>1, <1>2, <1>3, <2>1, <2>2 DEF ToSet
<1>7. t # << >>
  BY <1>1, <1>2
<1> QED
  BY <1>1, <1>2, <1>5, <1>6, <1>7 DEF t

-------------------------------------------------------------------------------
(* The gate *)

LEMMA Constants ==
    /\ \A p \in Goal : Cap[p] \in Nat /\ Cap[p] >= 1 /\ Window[p] \in Nat /\ Window[p] >= 1
    /\ Waits \subseteq Nat
    /\ {Interval, MaxWait, BadWait, FailLife, FailLimit, CacheLife, RetainLife,
        MetaLife, MaxKept, GroupSize} \subseteq Nat \ {0}
BY ConstantsAssumption

\* The latest of some instants that lie before a bound.
LEMMA LatestIs ==
    ASSUME NEW S \in SUBSET Nat, NEW b \in Nat, \A x \in S : x <= b
    PROVE  /\ Latest(S) \in Nat
           /\ \A x \in S : x <= Latest(S)
           /\ Latest(S) = 0 \/ Latest(S) \in S
<1> DEFINE T == S \cup {0}
           U == {u \in Nat : \A x \in T : x <= u}
<1>1. U # {} /\ U \in SUBSET Nat
  BY SMTT(60) DEF U
<1>2. PICK m \in U : \A u \in U : m <= u
  BY <1>1, LeastNatural
<1>3. m \in Nat /\ (\A x \in T : x <= m) /\ \A u \in Nat : (\A x \in T : x <= u) => m <= u
  BY <1>2
<1> HIDE DEF U
<1>4. m \in T
  <2> SUFFICES ASSUME m \notin T PROVE FALSE
    OBVIOUS
  <2>1. m # 0 /\ m - 1 \in Nat
    BY <1>3
  <2>2. \A x \in T : x \in Nat /\ x <= m /\ x # m
    BY <1>3
  <2>3. \A x \in T : x <= m - 1
    BY <2>2, <1>3
  <2> QED
    BY <2>1, <2>3, <1>3
<1>5. \E x \in T : \A y \in T : x >= y
  BY <1>3, <1>4
<1>6. Latest(S) = CHOOSE x \in T : \A y \in T : x >= y
  BY DEF Latest, Max
<1> HIDE DEF T
<1>7. Latest(S) \in T /\ \A y \in T : Latest(S) >= y
  BY <1>5, <1>6
<1>8. T \subseteq Nat /\ S \subseteq T /\ \A y \in T : y = 0 \/ y \in S
  BY DEF T
<1> QED
  BY <1>7, <1>8

GateType == [until : Nat, next : 0 .. Interval, rule : [Goal -> [used : Nat, reset : Nat]]]

LEMMA GateFields ==
    ASSUME NEW g \in GateType
    PROVE  /\ g.until \in Nat /\ g.next \in 0 .. Interval /\ g.next \in Nat
           /\ g.rule \in [Goal -> [used : Nat, reset : Nat]]
           /\ \A p \in Goal : /\ g.rule[p] \in [used : Nat, reset : Nat]
                              /\ g.rule[p].used \in Nat /\ g.rule[p].reset \in Nat
<1>1. g.until \in Nat /\ g.next \in 0 .. Interval /\ g.rule \in [Goal -> [used : Nat, reset : Nat]]
  BY DEF GateType
<1>2. Interval \in Nat
  BY Constants
<1>3. \A p \in Goal : g.rule[p] \in [used : Nat, reset : Nat]
  BY <1>1
<1>4. g.next \in Nat
  BY <1>1, <1>2
<1> QED
  BY <1>1, <1>3, <1>4

\* A request may go out after n seconds.
Permits(g, n) ==
    /\ g.until <= n
    /\ \A p \in Goal : g.rule[p].used >= Cap[p] => g.rule[p].reset <= n

LEMMA DelayPermits ==
    ASSUME NEW g \in GateType
    PROVE  Delay(g) \in Nat /\ Permits(g, Delay(g))
<1> DEFINE R == {g.rule[p].reset : p \in {p \in Goal : g.rule[p].used >= Cap[p]}}
           S == {g.until, g.next} \cup R
           b == g.until + g.next + g.rule["data"].reset + g.rule["search"].reset
                  + g.rule["fetch"].reset
<1>1. /\ g.until \in Nat /\ g.next \in Nat
      /\ \A p \in Goal : g.rule[p].used \in Nat /\ g.rule[p].reset \in Nat
  BY GateFields
<1>2. b \in Nat /\ g.until <= b /\ g.next <= b /\ \A p \in Goal : g.rule[p].reset <= b
  BY <1>1 DEF Goal
<1> HIDE DEF b
<1>3. S \in SUBSET Nat /\ \A x \in S : x <= b
  BY <1>1, <1>2
<1>4. Latest(S) \in Nat /\ \A x \in S : x <= Latest(S)
  <2> HIDE DEF S
  <2> QED
    BY <1>2, <1>3, LatestIs
<1>5. Delay(g) = Latest(S)
  BY DEF Delay
<1>6. g.until \in S /\ \A p \in Goal : g.rule[p].used >= Cap[p] => g.rule[p].reset \in S
  OBVIOUS
<1> HIDE DEF S
<1> QED
  BY <1>4, <1>5, <1>6 DEF Permits

\* What the client knows of a policy covers the requests it has been shown.
Seen(p) == {r \in load : r.goal = p /\ r.seen}

GateInv ==
    /\ gate \in GateType
    /\ blocked \in BOOLEAN
    /\ IsFiniteSet(load)
    /\ load \subseteq [goal : Goal, left : Nat, seen : BOOLEAN]
    /\ \A r \in load : 1 <= r.left /\ r.left <= Window[r.goal]
    /\ \A p \in Goal : Cardinality(Seen(p)) <= gate.rule[p].used
    /\ \A p \in Goal : \A r \in Seen(p) : r.left <= gate.rule[p].reset

LEMMA UntilType ==
    ASSUME NEW g \in GateType, NEW w \in Nat
    PROVE  Until(g, w) \in GateType /\ Until(g, w).rule = g.rule
<1> DEFINE u == Latest({g.until, w})
<1>1. g.until \in Nat
  BY GateFields
<1>2. u \in Nat
  <2> DEFINE S == {g.until, w}
             b == g.until + w
  <2>1. S \in SUBSET Nat /\ b \in Nat /\ \A x \in S : x <= b
    BY <1>1
  <2> HIDE DEF S, b
  <2>2. Latest(S) \in Nat
    BY <2>1, LatestIs
  <2> QED
    BY <2>2 DEF S
<1>3. Until(g, w) = [g EXCEPT !.until = u]
  BY DEF Until, GateType
<1> HIDE DEF u
<1> QED
  BY <1>2, <1>3 DEF GateType

LEMMA LoadTyped ==
    ASSUME GateInv
    PROVE  /\ IsFiniteSet(load)
           /\ \A r \in load : /\ r.goal \in Goal /\ r.left \in Nat /\ r.seen \in BOOLEAN
                              /\ r = [goal |-> r.goal, left |-> r.left, seen |-> r.seen]
           /\ \A p : Seen(p) \in SUBSET load /\ Counted(p) \in SUBSET load
           /\ \A p : /\ IsFiniteSet(Seen(p)) /\ Cardinality(Seen(p)) \in Nat
                     /\ IsFiniteSet(Counted(p)) /\ Cardinality(Counted(p)) \in Nat
<1>1. IsFiniteSet(load) /\ load \subseteq [goal : Goal, left : Nat, seen : BOOLEAN]
  BY DEF GateInv
<1>2. \A p : Seen(p) \in SUBSET load /\ Counted(p) \in SUBSET load
  BY DEF Seen, Counted
<1>3. ASSUME NEW S \in SUBSET load
      PROVE  IsFiniteSet(S) /\ Cardinality(S) \in Nat
  BY <1>1, FS_Subset, FS_CardinalityType
<1> QED
  BY <1>1, <1>2, <1>3

\* The image of a finite set is no larger.
LEMMA ImageSmaller ==
    ASSUME NEW S, IsFiniteSet(S), NEW f, DOMAIN f = S, f = [x \in S |-> f[x]]
    PROVE  IsFiniteSet({f[x] : x \in S}) /\ Cardinality({f[x] : x \in S}) <= Cardinality(S)
<1> DEFINE T == {f[x] : x \in S}
<1>1. f \in Surjection(S, T)
  BY DEF Surjection
<1> QED
  BY <1>1, FS_Surjection

\* The gate as an answer leaves it, whatever pause it adds.
LEMMA ObservedType ==
    ASSUME GateInv, NEW p \in Goal, NEW h \in Headers
    PROVE  /\ Observed(gate, p, h) \in GateType
           /\ h.state => Observed(gate, p, h).rule =
                [gate.rule EXCEPT ![p] = [used |-> Cardinality(Counted(p)), reset |-> Window[p]]]
           /\ ~h.state => Observed(gate, p, h).rule = gate.rule
<1> DEFINE x == [used |-> Cardinality(Counted(p)), reset |-> Window[p]]
           g == [gate EXCEPT !.rule[p] = x]
<1>1. gate \in GateType /\ x \in [used : Nat, reset : Nat]
  BY LoadTyped, Constants DEF GateInv
<1>2. h.wait \in Nat
  <2>1. h.wait \in Waits \cup {0}
    BY DEF Headers
  <2>2. \A w \in Waits : w \in Nat
    BY Constants
  <2> QED
    BY <2>1, <2>2
<1> HIDE DEF x
<1>3. g \in GateType /\ g.rule = [gate.rule EXCEPT ![p] = x]
  BY <1>1 DEF GateType
<1>4. Observed(gate, p, h) = Until(IF h.state THEN g ELSE gate, h.wait)
  BY DEF Observed, x
<1> HIDE DEF g
<1>5. CASE h.state
  <2>1. Observed(gate, p, h) = Until(g, h.wait)
    BY <1>4, <1>5
  <2> QED
    BY <1>2, <1>3, <1>5, <2>1, UntilType DEF x
<1>6. CASE ~h.state
  <2>1. Observed(gate, p, h) = Until(gate, h.wait)
    BY <1>4, <1>6
  <2> QED
    BY <1>1, <1>2, <1>6, <2>1, UntilType
<1> QED
  BY <1>5, <1>6

LEMMA ShownGood ==
    ASSUME GateInv, NEW p \in Goal, NEW h \in Headers, blocked' \in BOOLEAN,
           gate' \in GateType, gate'.rule = Observed(gate, p, h).rule, load' = Shown(p, h)
    PROVE  GateInv'
<1>1. CASE ~h.state
  <2>1. load' = load /\ gate'.rule = gate.rule
    BY <1>1, ObservedType DEF Shown
  <2>2. \A q : Seen(q)' = Seen(q)
    BY <2>1 DEF Seen
  <2> QED
    BY <2>1, <2>2 DEF GateInv
<1>2. CASE h.state
  <2> DEFINE C == Counted(p)
             f == [r \in C |-> [r EXCEPT !.seen = TRUE]]
             I == {f[r] : r \in C}
  <2>1. gate'.rule = [gate.rule EXCEPT ![p] = [used |-> Cardinality(C), reset |-> Window[p]]]
    BY <1>2, ObservedType
  <2>2. load' = (load \ C) \cup I
    BY <1>2 DEF Shown
  <2>3. /\ C \in SUBSET load /\ IsFiniteSet(C) /\ IsFiniteSet(load \ C)
        /\ \A r \in C : r.goal = p
        /\ \A r \in load \ C : r.goal # p
    BY LoadTyped, FS_Subset DEF Counted
  <2>4. \A r \in C : /\ f[r].goal = p /\ f[r].left = r.left /\ f[r].seen = TRUE
                     /\ f[r] \in [goal : Goal, left : Nat, seen : BOOLEAN]
    <3>1. \A r \in C : r \in [goal : Goal, left : Nat, seen : BOOLEAN]
      BY <2>3 DEF GateInv
    <3> QED
      BY <3>1, <2>3
  <2>5. IsFiniteSet(I) /\ Cardinality(I) <= Cardinality(C)
    <3>1. DOMAIN f = C /\ f = [r \in C |-> f[r]]
      OBVIOUS
    <3> HIDE DEF f, C
    <3> QED
      BY <3>1, <2>3, ImageSmaller
  <2> HIDE DEF C, f
  <2>6. \A r \in I : /\ r.goal = p /\ r.seen /\ 1 <= r.left /\ r.left <= Window[p]
                     /\ r \in [goal : Goal, left : Nat, seen : BOOLEAN]
    BY <2>3, <2>4 DEF GateInv
  <2> HIDE DEF I
  <2>7. IsFiniteSet(load')
    BY <2>2, <2>3, <2>5, FS_Union
  <2>8. Seen(p)' = I
    BY <2>2, <2>3, <2>6 DEF Seen
  <2>9. \A q \in Goal : q # p => Seen(q)' = Seen(q)
    BY <2>2, <2>3, <2>6 DEF Seen
  <2>10. \A q \in Goal : Cardinality(Seen(q)') <= gate'.rule[q].used
    <3>1. gate.rule \in [Goal -> [used : Nat, reset : Nat]]
      BY GateFields DEF GateInv
    <3>2. Cardinality(Seen(p)') <= gate'.rule[p].used
      BY <2>1, <2>5, <2>8, <3>1
    <3>3. ASSUME NEW q \in Goal, q # p
          PROVE  Cardinality(Seen(q)') <= gate'.rule[q].used
      BY <2>1, <2>9, <3>1, <3>3 DEF GateInv
    <3> QED
      BY <3>2, <3>3
  <2>11. \A q \in Goal : \A r \in Seen(q)' : r.left <= gate'.rule[q].reset
    <3>1. gate.rule \in [Goal -> [used : Nat, reset : Nat]]
      BY GateFields DEF GateInv
    <3>2. \A r \in Seen(p)' : r.left <= gate'.rule[p].reset
      BY <2>1, <2>6, <2>8, <3>1
    <3>3. ASSUME NEW q \in Goal, q # p
          PROVE  \A r \in Seen(q)' : r.left <= gate'.rule[q].reset
      BY <2>1, <2>9, <3>1, <3>3 DEF GateInv
    <3> QED
      BY <3>2, <3>3
  <2>12. \A r \in load' : /\ 1 <= r.left /\ r.left <= Window[r.goal]
                          /\ r \in [goal : Goal, left : Nat, seen : BOOLEAN]
    BY <2>2, <2>6 DEF GateInv
  <2> QED
    BY <2>7, <2>10, <2>11, <2>12 DEF GateInv
<1> QED
  BY <1>1, <1>2

LEMMA HeardGood ==
    ASSUME GateInv, NEW c, task[c].goal \in Goal, NEW h \in Headers, Heard(c, h),
           blocked' \in BOOLEAN
    PROVE  GateInv'
BY ObservedType, ShownGood DEF Heard

LEMMA LimitedGateGood ==
    ASSUME GateInv, NEW c, task[c].goal \in Goal, NEW h \in Headers, Limited(c, h)
    PROVE  GateInv'
<1> DEFINE g == Observed(gate, task[c].goal, h)
<1>1. PICK w \in {1, BadWait} : gate' = Until(g, w)
  BY DEF Limited
<1>2. g \in GateType /\ w \in Nat
  <2>1. BadWait \in Nat
    BY Constants
  <2>2. g \in GateType
    BY ObservedType
  <2> QED
    BY <2>1, <2>2
<1>3. gate' \in GateType /\ gate'.rule = g.rule
  BY <1>1, <1>2, UntilType
<1>4. load' = Shown(task[c].goal, h) /\ blocked' \in BOOLEAN
  BY DEF Limited, GateInv
<1> QED
  BY <1>3, <1>4, ShownGood

LEMMA UnreadableGateGood ==
    ASSUME GateInv, NEW c, Unreadable(c)
    PROVE  GateInv'
<1>1. gate' = Until(gate, BadWait) /\ UNCHANGED <<blocked, load>>
  BY DEF Unreadable
<1>2. gate' \in GateType /\ gate'.rule = gate.rule
  BY <1>1, UntilType, Constants DEF GateInv
<1>3. \A p : Seen(p)' = Seen(p)
  BY <1>1 DEF Seen
<1> QED
  BY <1>1, <1>2, <1>3 DEF GateInv

LEMMA SameGateGood ==
    ASSUME GateInv, UNCHANGED <<gate, load>>, blocked' \in BOOLEAN
    PROVE  GateInv'
<1>1. \A p : Seen(p)' = Seen(p)
  BY DEF Seen
<1> QED
  BY <1>1 DEF GateInv

LEMMA SendGateGood ==
    ASSUME GateInv, NEW p \in Goal, gate' = Consumed(gate), UNCHANGED blocked,
           load' = load \cup {[goal |-> p, left |-> Window[p], seen |-> FALSE]}
    PROVE  GateInv'
<1> DEFINE x == [goal |-> p, left |-> Window[p], seen |-> FALSE]
           R == [q \in Goal |-> IF gate.rule[q].reset = 0 THEN NoRule
                                ELSE [gate.rule[q] EXCEPT !.used = @ + 1]]
<1>1. /\ gate \in GateType
      /\ \A q \in Goal : /\ gate.rule[q] \in [used : Nat, reset : Nat]
                         /\ gate.rule[q].used \in Nat /\ gate.rule[q].reset \in Nat
  BY GateFields DEF GateInv
<1>2. R \in [Goal -> [used : Nat, reset : Nat]]
  BY <1>1 DEF NoRule
<1>3. \A q \in Goal :
        /\ gate.rule[q].reset = 0 => R[q].used = 0 /\ R[q].reset = 0
        /\ gate.rule[q].reset # 0 => R[q].used = gate.rule[q].used + 1
                                     /\ R[q].reset = gate.rule[q].reset
  BY <1>1 DEF NoRule
<1>4. gate' = [gate EXCEPT !.next = Interval, !.rule = R]
  BY DEF Consumed
<1> HIDE DEF R
<1>5. gate' \in GateType /\ gate'.rule = R
  <2>1. Interval \in Nat
    BY Constants
  <2>2. Interval \in 0 .. Interval
    BY <2>1
  <2>3. gate = [until |-> gate.until, next |-> gate.next, rule |-> gate.rule]
        /\ gate.until \in Nat
    BY <1>1 DEF GateType
  <2>4. gate' = [until |-> gate.until, next |-> Interval, rule |-> R]
    BY <1>4, <2>3
  <2> QED
    BY <1>2, <2>2, <2>3, <2>4 DEF GateType
<1>6. \A q \in Goal : Seen(q)' = Seen(q)
  BY DEF Seen
<1>7. \A q \in Goal : IsFiniteSet(Seen(q)) /\ Cardinality(Seen(q)) \in Nat
                      /\ \A r \in Seen(q) : r.left \in Nat /\ 1 <= r.left
  BY LoadTyped DEF GateInv, Seen
<1>8. \A q \in Goal : gate.rule[q].reset = 0 => Seen(q) = {} /\ Cardinality(Seen(q)) = 0
  <2>1. ASSUME NEW q \in Goal, gate.rule[q].reset = 0, NEW r \in Seen(q)
        PROVE  FALSE
    BY <2>1, <1>7 DEF GateInv
  <2>2. \A q \in Goal : gate.rule[q].reset = 0 => Seen(q) = {}
    BY <2>1
  <2> QED
    BY <2>2, FS_EmptySet
<1>9. \A q \in Goal : Cardinality(Seen(q)) <= R[q].used
  BY <1>1, <1>3, <1>7, <1>8 DEF GateInv
<1>10. \A q \in Goal : \A r \in Seen(q) : r.left <= R[q].reset
  BY <1>1, <1>3, <1>7, <1>8 DEF GateInv
<1>11. x \in [goal : Goal, left : Nat, seen : BOOLEAN] /\ 1 <= x.left /\ x.left <= Window[x.goal]
  BY Constants
<1>12. IsFiniteSet(load')
  BY FS_AddElement DEF GateInv
<1> HIDE DEF x
<1>13. load' = load \cup {x}
  BY DEF x
<1> QED
  BY <1>5, <1>6, <1>9, <1>10, <1>11, <1>12, <1>13 DEF GateInv

LEMMA TickGateGood ==
    ASSUME GateInv, Tick
    PROVE  GateInv'
<1> DEFINE R == [p \in Goal |-> IF gate.rule[p].reset <= 1 THEN NoRule
                                ELSE [gate.rule[p] EXCEPT !.reset = @ - 1]]
           aged(r) == [r EXCEPT !.left = @ - 1]
           Old == {r \in load : r.left > 1}
<1>1. /\ gate \in GateType
      /\ gate.until \in Nat /\ gate.next \in Nat /\ gate.next <= Interval /\ Interval \in Nat
      /\ \A q \in Goal : /\ gate.rule[q] \in [used : Nat, reset : Nat]
                         /\ gate.rule[q].used \in Nat /\ gate.rule[q].reset \in Nat
  BY GateFields, Constants DEF GateInv
<1>2. R \in [Goal -> [used : Nat, reset : Nat]]
  BY <1>1 DEF NoRule
<1>3. \A q \in Goal :
        /\ gate.rule[q].reset <= 1 => R[q].used = 0 /\ R[q].reset = 0
        /\ ~ (gate.rule[q].reset <= 1) => R[q].used = gate.rule[q].used
                                          /\ R[q].reset = gate.rule[q].reset - 1
  BY <1>1 DEF NoRule
<1>4. gate' = [until |-> Less(gate.until), next |-> Less(gate.next), rule |-> R]
      /\ load' = {aged(r) : r \in Old} /\ blocked' = blocked
  BY DEF Tick
<1> HIDE DEF R
<1>5. gate' \in GateType /\ gate'.rule = R
  <2>1. Less(gate.until) \in Nat /\ Less(gate.next) \in 0 .. Interval
    BY <1>1 DEF Less
  <2> QED
    BY <1>2, <1>4, <2>1 DEF GateType
<1>6. \A r \in load : /\ r.left \in Nat /\ r.goal \in Goal /\ r.left <= Window[r.goal]
                      /\ r \in [goal : Goal, left : Nat, seen : BOOLEAN]
                      /\ aged(r).goal = r.goal /\ aged(r).seen = r.seen
                      /\ aged(r).left = r.left - 1
  BY LoadTyped DEF GateInv
<1>7. \A r \in Old : aged(r) \in [goal : Goal, left : Nat, seen : BOOLEAN]
  BY <1>6
<1>8. \A r \in load' : /\ 1 <= r.left /\ r.left <= Window[r.goal]
                       /\ r \in [goal : Goal, left : Nat, seen : BOOLEAN]
  <2>1. \A r \in Old : r \in load /\ r.left > 1
    OBVIOUS
  <2>2. \A p \in Goal : Window[p] \in Nat
    BY Constants
  <2> HIDE DEF Old, aged
  <2>3. \A r \in Old : 1 <= aged(r).left /\ aged(r).left <= Window[aged(r).goal]
    BY <1>6, <2>1, <2>2
  <2> QED
    BY <1>4, <1>7, <2>3
<1>9. IsFiniteSet(load')
  <2> DEFINE f == [r \in Old |-> aged(r)]
  <2>1. IsFiniteSet(Old)
    BY FS_Subset DEF GateInv
  <2>2. IsFiniteSet({f[r] : r \in Old})
    <3>1. DOMAIN f = Old /\ f = [r \in Old |-> f[r]]
      OBVIOUS
    <3> HIDE DEF f, Old
    <3> QED
      BY <2>1, <3>1, ImageSmaller
  <2>3. load' = {f[r] : r \in Old}
    BY <1>4
  <2> QED
    BY <2>2, <2>3
<1>10. ASSUME NEW p \in Goal
       PROVE  /\ Cardinality(Seen(p)') <= R[p].used
              /\ \A r \in Seen(p)' : r.left <= R[p].reset
  <2> DEFINE T == {r \in Old : r.goal = p /\ r.seen}
             f == [r \in T |-> aged(r)]
  <2>1. Seen(p)' = {f[r] : r \in T}
    BY <1>4, <1>6 DEF Seen
  <2>2. T \in SUBSET Seen(p)
    BY DEF Seen
  <2>3. IsFiniteSet(Seen(p)) /\ Cardinality(Seen(p)) \in Nat
    BY LoadTyped
  <2>4. IsFiniteSet(T) /\ Cardinality(T) \in Nat /\ Cardinality(T) <= Cardinality(Seen(p))
    <3> HIDE DEF T
    <3> QED
      BY <2>2, <2>3, FS_Subset, FS_CardinalityType
  <2>5. IsFiniteSet({f[r] : r \in T}) /\ Cardinality({f[r] : r \in T}) <= Cardinality(T)
    <3>1. DOMAIN f = T /\ f = [r \in T |-> f[r]]
      OBVIOUS
    <3> HIDE DEF f, T
    <3> QED
      BY <2>4, <3>1, ImageSmaller
  <2>6. Cardinality({f[r] : r \in T}) \in Nat
    <3> HIDE DEF f, T
    <3> QED
      BY <2>5, FS_CardinalityType
  <2>7. \A r \in T : r.left > 1 /\ r.left \in Nat /\ r.left <= gate.rule[p].reset
                     /\ f[r].left = r.left - 1
    BY <1>6, <2>2 DEF GateInv
  <2>8. Cardinality(Seen(p)) <= gate.rule[p].used
    BY DEF GateInv
  <2>9. CASE gate.rule[p].reset <= 1
    <3>1. T = {}
      <4> HIDE DEF T, f
      <4> QED
        BY <1>1, <2>7, <2>9
    <3>2. {f[r] : r \in T} = {}
      BY <3>1
    <3> HIDE DEF T, f
    <3>3. Seen(p)' = {} /\ R[p].used = 0
      BY <1>3, <2>1, <2>9, <3>2
    <3>4. Cardinality(Seen(p)') = 0
      BY <3>3, FS_EmptySet
    <3> QED
      BY <3>3, <3>4
  <2>10. CASE ~ (gate.rule[p].reset <= 1)
    <3> HIDE DEF T, f
    <3>1. Cardinality({f[r] : r \in T}) <= gate.rule[p].used
      BY <1>1, <2>3, <2>4, <2>5, <2>6, <2>8
    <3>2. \A r \in T : f[r].left <= gate.rule[p].reset - 1
      BY <1>1, <2>7
    <3> QED
      BY <1>3, <2>1, <2>10, <3>1, <3>2
  <2> QED
    BY <2>9, <2>10
<1> QED
  BY <1>4, <1>5, <1>8, <1>9, <1>10 DEF GateInv

-------------------------------------------------------------------------------
(* The inductive invariant *)

\* The calls and the two locks.
CallInv ==
    /\ queue \in Seq(Clients) /\ searching \in Seq(Clients)
    /\ task \in [Clients -> Task \cup {None}]
    /\ LocksMove
    /\ \A c \in Clients : task[c] # None =>
         /\ task[c].goal = "search" => task[c].op = "search"
         /\ task[c].op = "search" => task[c].query \in Queries

\* Whoever is about to send was admitted by a gate that has not changed since.
ReadyInv ==
    \A c \in Clients : task[c] # None =>
      /\ task[c].phase \in {"asleep", "sent"} => ~blocked
      /\ task[c].phase = "asleep" => Permits(gate, task[c].wake)

\* What is retained and cached.
KeptInv ==
    /\ meta \in 0 .. MetaLife
    /\ searches \in Seq(Search) /\ Len(searches) <= MaxKept
    /\ cache \in Seq([query : Queries, id : SearchIds]) /\ Len(cache) <= MaxKept
    /\ \A i, j \in DOMAIN searches : searches[i].id = searches[j].id => i = j

\* A failure in a row is remembered as long as it counts, unless an answer
\* without the expected form made the client forget it.
Remembered(q) ==
    streak[q].count > 0 /\ ~streak[q].misfit =>
      \E i \in At(failed, q) :
        /\ failed[i].count >= streak[q].count
        /\ failed[i].left >= streak[q].left /\ streak[q].left > 0

FailedInv ==
    /\ failed \in Seq([query : Queries, count : Nat, left : 0 .. FailLife])
    /\ Len(failed) <= MaxKept
    /\ \A i, j \in DOMAIN failed : failed[i].query = failed[j].query => i = j
    /\ streak \in [Queries -> Streak]
    /\ \A q \in Queries : Remembered(q)

\* A call that is about to search, or to read the catalogue for it.
Pursuing(t) == t # None /\ t.op = "search" /\ t.phase # "queued" /\ t.goal # "fetch"

\* No young result of q is at hand.
Untried(q) ==
    \A i \in DOMAIN searches :
      [query |-> q, id |-> searches[i].id] \in ToSet(cache) => searches[i].age >= CacheLife

\* What the search has found out under its lock stays true while it holds it.
PursuitInv ==
    \A c \in Clients : Pursuing(task[c]) =>
      LET t == task[c]
      IN  /\ Untried(t.query)
          /\ t.failures < FailLimit
          /\ streak[t.query].count <= t.failures \/ streak[t.query].misfit

TradeInv == GateInv /\ CallInv /\ ReadyInv /\ KeptInv /\ FailedInv /\ PursuitInv

LEMMA TaskFields ==
    ASSUME NEW t \in Task
    PROVE  /\ t.op \in {"search", "page", "detail", "stats"}
           /\ t.query \in Queries \cup {None} /\ t.id \in SearchIds \cup {None}
           /\ t.goal \in Goal /\ t.todo \in Seq(Listings) /\ t.failures \in Nat
           /\ t.phase \in {"queued", "waiting", "asleep", "sent"}
           /\ t.attempt \in {0, 1} /\ t.wake \in Nat
           /\ t = [op |-> t.op, query |-> t.query, id |-> t.id, goal |-> t.goal, todo |-> t.todo,
                   failures |-> t.failures, phase |-> t.phase, attempt |-> t.attempt, wake |-> t.wake]
BY DEF Task

LEMMA NoneIsNoTask == None \notin Task
BY NoneAssumption

\* What the invariant says of one call and the two locks.
Placed(c, t, q, s) ==
    /\ c \in ToSet(q) <=> t # None /\ t.phase # "queued"
    /\ c \in ToSet(s) <=> t # None /\ t.op = "search"
    /\ t # None /\ t.phase = "queued" => t.op = "search"
    /\ t # None /\ t.phase \in {"asleep", "sent"} => q # << >> /\ Head(q) = c /\ t.wake <= MaxWait
    /\ t # None /\ t.op = "search" /\ t.phase # "queued" => c = Head(s)

LEMMA LocksArePlaces ==
    LocksMove <=> /\ IsInjective(queue) /\ IsInjective(searching)
                  /\ \A c \in Clients : Placed(c, task[c], queue, searching)
BY DEF LocksMove, Placed, Holds

LEMMA LocksArePlacesNext ==
    LocksMove' <=> /\ IsInjective(queue') /\ IsInjective(searching')
                   /\ \A c \in Clients : Placed(c, task'[c], queue', searching')
BY DEF LocksMove, Placed, Holds

\* A head is in its lock.
LEMMA HeadIn ==
    ASSUME NEW lock \in Seq(Clients), lock # << >>
    PROVE  Head(lock) \in ToSet(lock) /\ Head(lock) \in Clients
<1>1. Len(lock) \in Nat \ {0}
  BY EmptySeq
<1>2. 1 \in DOMAIN lock /\ Head(lock) = lock[1] /\ lock[1] \in Clients
  BY <1>1, InSet
<1> QED
  BY <1>2 DEF ToSet

\* Somebody is in it: it is not empty.
LEMMA SomebodyIn ==
    ASSUME NEW lock \in Seq(Clients), NEW c \in ToSet(lock)
    PROVE  lock # << >>
BY InSet DEF ToSet

LEMMA ReturnGood ==
    ASSUME CallInv, NEW c \in Clients, NEW others, Rid(queue, others, c), Return(c, others)
    PROVE  CallInv'
<1>1. /\ task' = [task EXCEPT ![c] = None] /\ queue' = others
      /\ searching' = Leave(searching, c)
  BY DEF Return
<1>2. /\ queue \in Seq(Clients) /\ searching \in Seq(Clients)
      /\ IsInjective(queue) /\ IsInjective(searching)
      /\ \A d \in Clients : Placed(d, task[d], queue, searching)
  BY LocksArePlaces DEF CallInv
<1>3. Rid(searching, searching', c)
  BY <1>1, <1>2, LeaveRids
<1>4. task' \in [Clients -> Task \cup {None}]
      /\ task'[c] = None /\ \A d \in Clients : d # c => task'[d] = task[d]
  BY <1>1 DEF CallInv
<1>5. ASSUME NEW d \in Clients
      PROVE  Placed(d, task'[d], queue', searching')
  <2>1. CASE d = c
    BY <1>1, <1>3, <1>4, <2>1 DEF Placed, Rid
  <2>2. CASE d # c
    <3>1. Placed(d, task[d], queue, searching) /\ task'[d] = task[d]
      BY <1>2, <1>4, <2>2
    <3>2. /\ d \in ToSet(queue') <=> d \in ToSet(queue)
          /\ d \in ToSet(searching') <=> d \in ToSet(searching)
      BY <1>1, <1>3, <2>2 DEF Rid
    <3>3. queue # << >> /\ Head(queue) = d => queue' # << >> /\ Head(queue') = d
      BY <1>1, <2>2 DEF Rid
    <3>4. d \in ToSet(searching) /\ d = Head(searching) => d = Head(searching')
      BY <1>2, <1>3, <2>2, SomebodyIn DEF Rid
    <3> QED
      BY <3>1, <3>2, <3>3, <3>4 DEF Placed
  <2> QED
    BY <2>1, <2>2
<1>6. LocksMove'
  BY <1>1, <1>3, <1>5, LocksArePlacesNext DEF Rid
<1>7. queue' \in Seq(Clients) /\ searching' \in Seq(Clients)
  BY <1>1, <1>3 DEF Rid
<1> QED
  BY <1>4, <1>6, <1>7 DEF CallInv

\* A call may ask for the request lock: a search only while it has its own.
MayAsk(c, t) ==
    /\ t \in Task
    /\ t.op = "search" => t.query \in Queries /\ c \in ToSet(searching) /\ c = Head(searching)
    /\ t.op # "search" => c \notin ToSet(searching)

LEMMA AskGood ==
    ASSUME CallInv, NEW c \in Clients, NEW t, MayAsk(c, t),
           NEW goal \in Goal, goal = "search" => t.op = "search", NEW todo \in Seq(Listings),
           NEW others, Rid(queue, others, c), Ask(c, t, goal, todo, others)
    PROVE  CallInv'
<1> DEFINE x == [t EXCEPT !.goal = goal, !.todo = todo, !.phase = "waiting", !.attempt = 0,
                          !.wake = 0]
<1>1. task' = [task EXCEPT ![c] = x] /\ queue' = Append(others, c) /\ UNCHANGED searching
  BY DEF Ask
<1>2. /\ x \in Task /\ x.op = t.op /\ x.query = t.query /\ x.goal = goal
      /\ x.phase = "waiting" /\ x.wake = 0 /\ x # None
  <2>1. t \in Task
    BY DEF MayAsk
  <2>2. x \in Task /\ x.op = t.op /\ x.query = t.query /\ x.goal = goal /\ x.phase = "waiting"
        /\ x.wake = 0
    BY <2>1 DEF Task
  <2> QED
    BY <2>2, NoneIsNoTask
<1> HIDE DEF x
<1>3. /\ queue \in Seq(Clients) /\ searching \in Seq(Clients)
      /\ IsInjective(queue) /\ IsInjective(searching)
      /\ \A d \in Clients : Placed(d, task[d], queue, searching)
  BY LocksArePlaces DEF CallInv
<1>4. /\ task' \in [Clients -> Task \cup {None}]
      /\ task'[c] = x /\ \A d \in Clients : d # c => task'[d] = task[d]
  BY <1>1, <1>2 DEF CallInv
<1>5. /\ others \in Seq(Clients) /\ IsInjective(others) /\ c \notin ToSet(others)
      /\ ToSet(others) = ToSet(queue) \ {c}
  BY DEF Rid
<1>6. /\ queue' \in Seq(Clients) /\ IsInjective(queue')
      /\ ToSet(queue') = ToSet(queue) \cup {c}
      /\ others # << >> => Head(queue') = Head(others)
      /\ queue' # << >>
  BY <1>1, <1>5, JoinLock
<1>7. ASSUME NEW d \in Clients
      PROVE  Placed(d, task'[d], queue', searching')
  <2>1. CASE d = c
    BY <1>1, <1>2, <1>4, <1>6, <2>1 DEF Placed, MayAsk
  <2>2. CASE d # c
    <3>1. Placed(d, task[d], queue, searching) /\ task'[d] = task[d] /\ searching' = searching
      BY <1>1, <1>3, <1>4, <2>2
    <3>2. d \in ToSet(queue') <=> d \in ToSet(queue)
      BY <1>6, <2>2
    <3>3. queue # << >> /\ Head(queue) = d => queue' # << >> /\ Head(queue') = d
      BY <1>6, <2>2 DEF Rid
    <3> QED
      BY <3>1, <3>2, <3>3 DEF Placed
  <2> QED
    BY <2>1, <2>2
<1>8. LocksMove'
  BY <1>1, <1>3, <1>6, <1>7, LocksArePlacesNext
<1>9. ASSUME NEW d \in Clients, task'[d] # None
      PROVE  /\ task'[d].goal = "search" => task'[d].op = "search"
             /\ task'[d].op = "search" => task'[d].query \in Queries
  <2>1. CASE d = c
    BY <1>2, <1>4, <2>1 DEF MayAsk
  <2>2. CASE d # c
    BY <1>4, <1>9, <2>2 DEF CallInv
  <2> QED
    BY <2>1, <2>2
<1> QED
  BY <1>1, <1>3, <1>4, <1>6, <1>8, <1>9 DEF CallInv

\* The holder of the request lock sleeps, or sends: it keeps its place.
LEMMA HolderGood ==
    ASSUME CallInv, NEW c \in Clients, Holds(c), task[c] # None, task[c].phase # "queued",
           NEW x \in Task, x # None, x.op = task[c].op, x.query = task[c].query,
           x.goal = task[c].goal, x.phase # "queued", x.wake <= MaxWait,
           task' = [task EXCEPT ![c] = x], UNCHANGED <<queue, searching>>
    PROVE  CallInv'
<1>1. /\ queue \in Seq(Clients) /\ searching \in Seq(Clients)
      /\ IsInjective(queue) /\ IsInjective(searching)
      /\ \A d \in Clients : Placed(d, task[d], queue, searching)
  BY LocksArePlaces DEF CallInv
<1>2. /\ task' \in [Clients -> Task \cup {None}]
      /\ task'[c] = x /\ \A d \in Clients : d # c => task'[d] = task[d]
  BY DEF CallInv
<1>3. ASSUME NEW d \in Clients
      PROVE  Placed(d, task'[d], queue', searching')
  <2>1. Placed(d, task[d], queue, searching)
    BY <1>1
  <2>2. CASE d = c
    BY <1>2, <2>1, <2>2 DEF Placed, Holds
  <2>3. CASE d # c
    BY <1>2, <2>1, <2>3
  <2> QED
    BY <2>2, <2>3
<1>4. LocksMove'
  BY <1>1, <1>3, LocksArePlacesNext
<1> QED
  BY <1>1, <1>2, <1>4 DEF CallInv

\* Nothing happens to the locks, and a call only gets nearer to its time.
LEMMA WaitingGood ==
    ASSUME CallInv, Tick
    PROVE  CallInv'
<1>1. /\ task' = [c \in Clients |-> IF task[c] = None THEN None
                                    ELSE [task[c] EXCEPT !.wake = Less(@)]]
      /\ UNCHANGED <<queue, searching>>
  BY DEF Tick
<1>2. /\ queue \in Seq(Clients) /\ searching \in Seq(Clients)
      /\ IsInjective(queue) /\ IsInjective(searching)
      /\ \A d \in Clients : Placed(d, task[d], queue, searching)
  BY LocksArePlaces DEF CallInv
<1>3. ASSUME NEW d \in Clients
      PROVE  /\ task[d] = None => task'[d] = None
             /\ task[d] # None =>
                  /\ task'[d] \in Task /\ task'[d] # None
                  /\ task'[d].op = task[d].op /\ task'[d].phase = task[d].phase
                  /\ task'[d].goal = task[d].goal /\ task'[d].query = task[d].query
                  /\ task'[d].wake = Less(task[d].wake) /\ task[d].wake \in Nat
  <2>1. CASE task[d] = None
    BY <1>1, <2>1
  <2>2. CASE task[d] # None
    <3>1. task[d] \in Task
      BY <2>2 DEF CallInv
    <3>2. Less(task[d].wake) \in Nat
      BY <3>1, TaskFields DEF Less
    <3>3. task'[d] = [task[d] EXCEPT !.wake = Less(task[d].wake)]
      BY <1>1, <2>2
    <3>4. task'[d] \in Task
      BY <3>1, <3>2, <3>3 DEF Task
    <3> QED
      BY <2>2, <3>1, <3>3, <3>4, NoneIsNoTask, TaskFields DEF Task
  <2> QED
    BY <2>1, <2>2
<1>4. MaxWait \in Nat
  BY Constants
<1>5. ASSUME NEW d \in Clients
      PROVE  Placed(d, task'[d], queue', searching')
  <2>1. Placed(d, task[d], queue, searching)
    BY <1>2
  <2>2. task[d] # None /\ task[d].wake <= MaxWait => task'[d].wake <= MaxWait
    BY <1>3, <1>4 DEF Less
  <2> QED
    BY <1>1, <1>3, <2>1, <2>2 DEF Placed
<1>6. LocksMove'
  BY <1>1, <1>2, <1>5, LocksArePlacesNext
<1>7. task' \in [Clients -> Task \cup {None}]
  BY <1>1, <1>3
<1>8. ASSUME NEW d \in Clients, task'[d] # None
      PROVE  /\ task'[d].goal = "search" => task'[d].op = "search"
             /\ task'[d].op = "search" => task'[d].query \in Queries
  BY <1>3, <1>8 DEF CallInv
<1> QED
  BY <1>1, <1>2, <1>6, <1>7, <1>8 DEF CallInv

LEMMA SearchCallGood ==
    ASSUME CallInv, NEW c \in Clients, NEW q \in Queries, SearchCall(c, q)
    PROVE  CallInv'
<1> DEFINE x == NewTask("search", q, None)
<1>1. /\ task[c] = None /\ task' = [task EXCEPT ![c] = x]
      /\ searching' = Append(searching, c) /\ UNCHANGED queue
  BY DEF SearchCall
<1>2. /\ x \in Task /\ x.op = "search" /\ x.query = q /\ x.phase = "queued" /\ x.goal = "data"
      /\ x # None
  <2>1. x \in Task
    BY DEF NewTask, Task, Goal
  <2> QED
    BY <2>1, NoneIsNoTask DEF NewTask
<1> HIDE DEF x
<1>3. /\ queue \in Seq(Clients) /\ searching \in Seq(Clients)
      /\ IsInjective(queue) /\ IsInjective(searching)
      /\ \A d \in Clients : Placed(d, task[d], queue, searching)
  BY LocksArePlaces DEF CallInv
<1>4. /\ task' \in [Clients -> Task \cup {None}]
      /\ task'[c] = x /\ \A d \in Clients : d # c => task'[d] = task[d]
  BY <1>1, <1>2 DEF CallInv
<1>5. c \notin ToSet(searching) /\ c \notin ToSet(queue)
  BY <1>1, <1>3 DEF Placed
<1>6. /\ searching' \in Seq(Clients) /\ IsInjective(searching')
      /\ ToSet(searching') = ToSet(searching) \cup {c}
      /\ searching # << >> => Head(searching') = Head(searching)
  BY <1>1, <1>3, <1>5, JoinLock
<1>7. ASSUME NEW d \in Clients
      PROVE  Placed(d, task'[d], queue', searching')
  <2>1. CASE d = c
    BY <1>1, <1>2, <1>4, <1>5, <1>6, <2>1 DEF Placed
  <2>2. CASE d # c
    <3>1. Placed(d, task[d], queue, searching) /\ task'[d] = task[d] /\ queue' = queue
      BY <1>1, <1>3, <1>4, <2>2
    <3>2. d \in ToSet(searching') <=> d \in ToSet(searching)
      BY <1>6, <2>2
    <3>3. d \in ToSet(searching) /\ d = Head(searching) => d = Head(searching')
      BY <1>3, <1>6, SomebodyIn
    <3> QED
      BY <3>1, <3>2, <3>3 DEF Placed
  <2> QED
    BY <2>1, <2>2
<1>8. LocksMove'
  BY <1>1, <1>3, <1>6, <1>7, LocksArePlacesNext
<1>9. ASSUME NEW d \in Clients, task'[d] # None
      PROVE  /\ task'[d].goal = "search" => task'[d].op = "search"
             /\ task'[d].op = "search" => task'[d].query \in Queries
  <2>1. CASE d = c
    BY <1>2, <1>4, <2>1
  <2>2. CASE d # c
    BY <1>4, <1>9, <2>2 DEF CallInv
  <2> QED
    BY <2>1, <2>2
<1> QED
  BY <1>1, <1>3, <1>4, <1>6, <1>8, <1>9 DEF CallInv

-------------------------------------------------------------------------------
(* Dictionaries *)

Unique(dict) == \A i, j \in DOMAIN dict : dict[i].query = dict[j].query => i = j

LEMMA PutIs ==
    ASSUME NEW V, NEW dict \in Seq(V), NEW v \in V
    PROVE  /\ Put(dict, v) \in Seq(V) /\ Len(Put(dict, v)) <= Len(dict) + 1
           /\ Put(dict, v) # << >>
           /\ \A i \in DOMAIN Put(dict, v) :
                \/ Put(dict, v)[i] = v
                \/ i \in DOMAIN dict /\ Put(dict, v)[i] = dict[i] /\ dict[i].query # v.query
           /\ \E i \in DOMAIN Put(dict, v) : Put(dict, v)[i] = v
           /\ \A i \in DOMAIN dict : dict[i].query # v.query =>
                i \in DOMAIN Put(dict, v) /\ Put(dict, v)[i] = dict[i]
           /\ Unique(dict) => Unique(Put(dict, v))
<1> DEFINE n == Len(dict)
           P == Put(dict, v)
<1>1. n \in Nat /\ DOMAIN dict = 1 .. n /\ \A i \in 1 .. n : dict[i] \in V
  BY InSet
<1>2. CASE At(dict, v.query) = {}
  <2>1. P = Append(dict, v) /\ \A i \in 1 .. n : dict[i].query # v.query
    BY <1>1, <1>2 DEF Put, At
  <2>2. /\ P \in Seq(V) /\ Len(P) = n + 1 /\ DOMAIN P = 1 .. n + 1
        /\ \A i \in 1 .. n : P[i] = dict[i]
        /\ P[n + 1] = v
    BY <1>1, <2>1, AppendProperties, InSet
  <2> HIDE DEF P, n
  <2>3. \A i \in 1 .. n + 1 : i \in 1 .. n \/ i = n + 1
    BY <1>1
  <2>4. 1 .. n \subseteq 1 .. n + 1 /\ n + 1 \in 1 .. n + 1 /\ n + 1 # 0
    BY <1>1
  <2>5. \A i \in DOMAIN P : P[i] = v \/ (i \in DOMAIN dict /\ P[i] = dict[i] /\ dict[i].query # v.query)
    BY <1>1, <2>1, <2>2, <2>3
  <2>6. \E i \in DOMAIN P : P[i] = v
    BY <2>2, <2>4
  <2>7. \A i \in DOMAIN dict : dict[i].query # v.query => i \in DOMAIN P /\ P[i] = dict[i]
    BY <1>1, <2>2, <2>4
  <2>8. Unique(dict) => Unique(P)
    <3> SUFFICES ASSUME Unique(dict), NEW i \in 1 .. n + 1, NEW j \in 1 .. n + 1,
                        P[i].query = P[j].query
                 PROVE  i = j
      BY <2>2 DEF Unique
    <3>1. CASE i \in 1 .. n /\ j \in 1 .. n
      BY <3>1, <1>1, <2>2 DEF Unique
    <3>2. CASE ~ (i \in 1 .. n /\ j \in 1 .. n)
      BY <3>2, <2>1, <2>2, <2>3
    <3> QED
      BY <3>1, <3>2
  <2>9. Len(P) <= n + 1 /\ P # << >>
    BY <1>1, <2>2, <2>4
  <2> QED
    BY <2>2, <2>5, <2>6, <2>7, <2>8, <2>9 DEF P, n
<1>3. CASE At(dict, v.query) # {}
  <2>1. P = [i \in DOMAIN dict |-> IF dict[i].query = v.query THEN v ELSE dict[i]]
        /\ \E i \in DOMAIN dict : dict[i].query = v.query
    BY <1>3 DEF Put, At
  <2>2. /\ DOMAIN P = 1 .. n
        /\ \A i \in 1 .. n : P[i] = IF dict[i].query = v.query THEN v ELSE dict[i]
    BY <1>1, <2>1
  <2>3. P = [i \in 1 .. n |-> P[i]]
    <3>1. P = [i \in DOMAIN dict |-> P[i]]
      BY <2>1
    <3> QED
      BY <3>1, <1>1, Zenon
  <2> HIDE DEF P, n
  <2>4. \A i \in 1 .. n : P[i] \in V
    BY <1>1, <2>2
  <2>5. P \in Seq(V) /\ Len(P) = n
    BY <1>1, <2>3, <2>4
  <2>6. \A i \in DOMAIN P : P[i] = v \/ (i \in DOMAIN dict /\ P[i] = dict[i] /\ dict[i].query # v.query)
    BY <1>1, <2>2
  <2>7. \E i \in DOMAIN P : P[i] = v
    BY <1>1, <2>1, <2>2
  <2>8. \A i \in DOMAIN dict : dict[i].query # v.query => i \in DOMAIN P /\ P[i] = dict[i]
    BY <1>1, <2>2
  <2>9. Unique(dict) => Unique(P)
    BY <1>1, <2>2 DEF Unique
  <2>10. Len(P) <= n + 1 /\ P # << >>
    <3>1. PICK i \in 1 .. n : dict[i].query = v.query
      BY <1>1, <2>1
    <3>2. n # 0
      BY <1>1, <3>1
    <3>3. Len(P) # 0 /\ Len(P) <= n + 1
      BY <1>1, <2>5, <3>2
    <3> QED
      BY <3>3, EmptySeq
  <2> QED
    BY <2>5, <2>6, <2>7, <2>8, <2>9, <2>10 DEF P, n
<1> QED
  BY <1>2, <1>3

\* What is trimmed is the oldest entry, if there is one too many.
LEMMA TrimIs ==
    ASSUME NEW V, NEW dict \in Seq(V), Len(dict) <= MaxKept + 1
    PROVE  /\ Trim(dict) \in Seq(V) /\ Len(Trim(dict)) <= MaxKept
           /\ ~ (Len(dict) > MaxKept) => Trim(dict) = dict
           /\ Len(dict) > MaxKept =>
                /\ dict # << >> /\ Head(dict) = dict[1]
                /\ \A i \in DOMAIN dict : i # 1 => i - 1 \in DOMAIN Trim(dict) /\ Trim(dict)[i - 1] = dict[i]
                /\ \A i \in DOMAIN Trim(dict) : i + 1 \in DOMAIN dict /\ Trim(dict)[i] = dict[i + 1]
<1>1. MaxKept \in Nat /\ MaxKept >= 1 /\ Len(dict) \in Nat /\ DOMAIN dict = 1 .. Len(dict)
  BY Constants, InSet
<1>2. CASE ~ (Len(dict) > MaxKept)
  BY <1>1, <1>2 DEF Trim
<1>3. CASE Len(dict) > MaxKept
  <2> DEFINE t == Tail(dict)
             n == Len(dict)
  <2>1. Trim(dict) = t /\ n = MaxKept + 1 /\ dict # << >>
    <3>1. Trim(dict) = t
      BY <1>3 DEF Trim
    <3>4. n \in Nat /\ MaxKept \in Nat /\ n > MaxKept /\ n <= MaxKept + 1
      BY <1>1, <1>3
    <3> HIDE DEF n
    <3>2. n = MaxKept + 1 /\ n # 0
      BY <3>4
    <3>3. dict # << >>
      BY <3>2, EmptySeq DEF n
    <3> QED
      BY <3>1, <3>2, <3>3
  <2>2. /\ t \in Seq(V) /\ Len(t) = n - 1 /\ DOMAIN t = 1 .. n - 1
        /\ \A i \in 1 .. n - 1 : t[i] = dict[i + 1]
        /\ Head(dict) = dict[1]
    BY <2>1, HeadTailProperties, InSet
  <2> HIDE DEF t
  <2>3. \A i \in 1 .. n : i # 1 => i - 1 \in 1 .. n - 1 /\ (i - 1) + 1 = i
    BY <1>1
  <2>4. \A i \in 1 .. n - 1 : i + 1 \in 1 .. n
    BY <1>1
  <2>5. n - 1 <= MaxKept
    BY <1>1, <2>1
  <2> HIDE DEF n
  <2>6. DOMAIN dict = 1 .. n
    BY <1>1 DEF n
  <2>7. \A i \in 1 .. n : i # 1 => t[i - 1] = dict[i]
    BY <2>2, <2>3
  <2>8. /\ \A i \in DOMAIN dict : i # 1 => i - 1 \in DOMAIN t /\ t[i - 1] = dict[i]
        /\ \A i \in DOMAIN t : i + 1 \in DOMAIN dict /\ t[i] = dict[i + 1]
    BY <2>2, <2>3, <2>4, <2>6, <2>7
  <2>9. t \in Seq(V) /\ Len(t) <= MaxKept
    BY <2>2, <2>5
  <2> QED
    BY <1>3, <2>1, <2>2, <2>8, <2>9
<1> QED
  BY <1>2, <1>3

LEMMA TrimUnique ==
    ASSUME NEW V, NEW dict \in Seq(V), Len(dict) <= MaxKept + 1, Unique(dict)
    PROVE  Unique(Trim(dict))
<1> DEFINE t == Trim(dict)
<1>1. CASE ~ (Len(dict) > MaxKept)
  BY <1>1, TrimIs
<1>2. CASE Len(dict) > MaxKept
  <2>1. \A i \in DOMAIN t : i + 1 \in DOMAIN dict /\ t[i] = dict[i + 1]
    BY <1>2, TrimIs
  <2>2. t \in Seq(V)
    BY TrimIs
  <2> HIDE DEF t
  <2>3. \A i \in DOMAIN t : i \in Nat
    BY <2>2, InSet
  <2>4. \A i, j \in DOMAIN t : i + 1 = j + 1 => i = j
    BY <2>3
  <2>5. Unique(t)
    BY <2>1, <2>4 DEF Unique
  <2> QED
    BY <2>5 DEF t
<1> QED
  BY <1>1, <1>2

LEMMA DropIs ==
    ASSUME NEW V, NEW dict \in Seq(V), NEW q, Unique(dict)
    PROVE  /\ Drop(dict, q) \in Seq(V) /\ Len(Drop(dict, q)) <= Len(dict)
           /\ Unique(Drop(dict, q))
           /\ \A i \in DOMAIN dict : dict[i].query # q =>
                \E j \in DOMAIN Drop(dict, q) : Drop(dict, q)[j] = dict[i]
<1> DEFINE n == Len(dict)
           D == Drop(dict, q)
<1>1. n \in Nat /\ DOMAIN dict = 1 .. n
  BY InSet
<1>2. CASE At(dict, q) = {}
  <2>1. D = dict
    BY <1>2 DEF Drop, Without
  <2> QED
    BY <1>1, <2>1
<1>3. CASE At(dict, q) # {}
  <2> DEFINE k == CHOOSE i \in At(dict, q) : TRUE
  <2>1. k \in 1 .. n /\ dict[k].query = q
    BY <1>1, <1>3 DEF At
  <2>2. D = RemoveAt(dict, k)
    BY <1>3 DEF Drop, Without
  <2> HIDE DEF k, D
  <2>3. /\ D \in Seq(V) /\ Len(D) = n - 1 /\ DOMAIN D = 1 .. n - 1
        /\ \A j \in 1 .. n - 1 : D[j] = dict[IF j < k THEN j ELSE j + 1]
    <3>1. /\ D \in Seq(V) /\ Len(D) = n - 1
          /\ \A j \in 1 .. n - 1 : D[j] = dict[IF j < k THEN j ELSE j + 1]
      BY <2>1, <2>2, RemoveAtProperties
    <3> QED
      BY <3>1, InSet
  <2> HIDE DEF n
  <2>4. Unique(D)
    <3> SUFFICES ASSUME NEW i \in 1 .. n - 1, NEW j \in 1 .. n - 1, D[i].query = D[j].query
                 PROVE  i = j
      BY <2>3 DEF Unique
    <3>1. /\ (IF i < k THEN i ELSE i + 1) \in 1 .. n
          /\ (IF j < k THEN j ELSE j + 1) \in 1 .. n
      BY <1>1, <2>1
    <3>2. (IF i < k THEN i ELSE i + 1) = (IF j < k THEN j ELSE j + 1)
      BY <1>1, <2>3, <3>1 DEF Unique
    <3> QED
      BY <3>2, <2>1, <1>1
  <2>5. ASSUME NEW i \in 1 .. n, dict[i].query # q
        PROVE  \E j \in 1 .. n - 1 : D[j] = dict[i]
    <3>1. CASE i < k
      <4>1. i \in 1 .. n - 1
        BY <3>1, <2>1, <1>1
      <4> QED
        BY <3>1, <4>1, <2>3
    <3>2. CASE i > k
      <4>1. i - 1 \in 1 .. n - 1 /\ ~ (i - 1 < k) /\ (i - 1) + 1 = i
        BY <3>2, <2>1, <1>1
      <4> QED
        BY <4>1, <2>3
    <3> QED
      BY <2>1, <2>5, <3>1, <3>2, <1>1
  <2>6. Len(D) <= n
    BY <1>1, <2>3
  <2> QED
    BY <1>1, <2>3, <2>4, <2>5, <2>6 DEF D, n
<1> QED
  BY <1>2, <1>3

-------------------------------------------------------------------------------
(* What is remembered of failures *)

Failure == [query : Queries, count : Nat, left : 0 .. FailLife]

LEMMA StreakFields ==
    ASSUME NEW s \in Streak
    PROVE  s.count \in Nat /\ s.left \in 0 .. FailLife /\ s.left \in Nat /\ s.left <= FailLife
           /\ s.misfit \in BOOLEAN
<1>1. s.count \in Nat /\ s.left \in 0 .. FailLife /\ s.misfit \in BOOLEAN
  BY DEF Streak
<1>2. FailLife \in Nat
  BY Constants
<1> QED
  BY <1>1, <1>2

LEMMA NoStreakIs == NoStreak \in Streak /\ NoStreak.count = 0 /\ FailLife \in Nat \ {0}
<1>1. FailLife \in Nat \ {0}
  BY Constants
<1> QED
  BY <1>1 DEF NoStreak, Streak

LEMMA SameFailed ==
    ASSUME FailedInv, UNCHANGED <<failed, streak>>
    PROVE  FailedInv'
<1>1. \A q : Remembered(q)' <=> Remembered(q)
  BY DEF Remembered, At
<1> QED
  BY <1>1 DEF FailedInv

LEMMA OneMoreIs ==
    ASSUME streak \in [Queries -> Streak], NEW q \in Queries, NEW misfit \in BOOLEAN
    PROVE  /\ OneMore(q, misfit) \in [Queries -> Streak]
           /\ OneMore(q, misfit)[q].count = streak[q].count + 1
           /\ OneMore(q, misfit)[q].left = FailLife
           /\ OneMore(q, misfit)[q].misfit = (streak[q].misfit \/ misfit)
           /\ \A p \in Queries : p # q => OneMore(q, misfit)[p] = streak[p]
<1> DEFINE x == [count |-> streak[q].count + 1, left |-> FailLife,
                 misfit |-> streak[q].misfit \/ misfit]
<1>1. x \in Streak
  <2>1. streak[q].count \in Nat /\ streak[q].misfit \in BOOLEAN
    BY StreakFields
  <2>2. FailLife \in 0 .. FailLife
    BY Constants
  <2>3. (streak[q].misfit \/ misfit) \in BOOLEAN
    OBVIOUS
  <2> QED
    BY <2>1, <2>2, <2>3 DEF Streak
<1>2. OneMore(q, misfit) = [streak EXCEPT ![q] = x]
  BY DEF OneMore
<1>3. x.count = streak[q].count + 1 /\ x.left = FailLife /\ x.misfit = (streak[q].misfit \/ misfit)
  OBVIOUS
<1> HIDE DEF x
<1> QED
  BY <1>1, <1>2, <1>3

LEMMA FailedGood ==
    ASSUME FailedInv, NEW t, t.query \in Queries, t.failures \in Nat, NEW sent \in BOOLEAN,
           streak[t.query].count <= t.failures \/ streak[t.query].misfit,
           Failed(t, sent)
    PROVE  FailedInv'
<1> DEFINE v == [query |-> t.query, count |-> t.failures + 1, left |-> FailLife]
           dict == Put(failed, v)
           grown == IF sent THEN OneMore(t.query, FALSE) ELSE streak
           gone == Len(dict) > MaxKept
<1>1. /\ failed \in Seq(Failure) /\ Len(failed) <= MaxKept /\ Unique(failed)
      /\ streak \in [Queries -> Streak] /\ \A q \in Queries : Remembered(q)
  BY DEF FailedInv, Failure, Unique
<1>2. /\ v \in Failure /\ v.query = t.query /\ v.count = t.failures + 1 /\ v.left = FailLife
  <2>1. FailLife \in 0 .. FailLife
    BY Constants
  <2> QED
    BY <2>1 DEF Failure
<1>3. /\ failed' = Trim(dict)
      /\ streak' = [q \in Queries |-> IF gone /\ q = Head(dict).query THEN NoStreak ELSE grown[q]]
  BY DEF Failed
<1> HIDE DEF v
<1>4. /\ dict \in Seq(Failure) /\ Unique(dict)
      /\ \E i \in DOMAIN dict : dict[i] = v
      /\ \A i \in DOMAIN failed : failed[i].query # v.query => i \in DOMAIN dict /\ dict[i] = failed[i]
  <2>1. failed \in Seq(Failure) /\ v \in Failure /\ Unique(failed)
    BY <1>1, <1>2
  <2> HIDE DEF Failure
  <2>2. dict \in Seq(Failure) /\ Unique(dict) /\ \E i \in DOMAIN dict : dict[i] = v
    BY <2>1, PutIs
  <2>3. \A i \in DOMAIN failed : failed[i].query # v.query => i \in DOMAIN dict /\ dict[i] = failed[i]
    BY <2>1, PutIs
  <2> QED
    BY <2>2, <2>3
<1>5. Len(dict) <= MaxKept + 1
  <2>1. Len(dict) <= Len(failed) + 1
    BY <1>1, <1>2, PutIs
  <2>2. Len(dict) \in Nat /\ Len(failed) \in Nat /\ MaxKept \in Nat
    BY <1>1, <1>4, InSet, Constants
  <2> HIDE DEF dict
  <2> QED
    BY <1>1, <2>1, <2>2
<1> HIDE DEF dict, grown
<1>6. /\ grown \in [Queries -> Streak]
      /\ \A q \in Queries : q # t.query => grown[q] = streak[q]
      /\ grown[t.query].count <= streak[t.query].count + 1
      /\ grown[t.query].misfit = streak[t.query].misfit
      /\ grown[t.query].left = FailLife \/ grown[t.query] = streak[t.query]
  <2>1. CASE sent
    <3> DEFINE q == t.query
               x == OneMore(q, FALSE)
    <3>1. grown = x
      BY <2>1 DEF grown
    <3>2. /\ x \in [Queries -> Streak] /\ x[q].count = streak[q].count + 1
          /\ x[q].left = FailLife /\ x[q].misfit = (streak[q].misfit \/ FALSE)
          /\ \A p \in Queries : p # q => x[p] = streak[p]
      BY <1>1, OneMoreIs
    <3>3. streak[q].count \in Nat /\ streak[q].misfit \in BOOLEAN
      BY <1>1, StreakFields
    <3> HIDE DEF x
    <3>4. x[q].misfit = streak[q].misfit
      BY <3>2, <3>3
    <3> QED
      BY <3>1, <3>2, <3>3, <3>4
  <2>2. CASE ~sent
    BY <2>2, <1>1, StreakFields DEF grown
  <2> QED
    BY <2>1, <2>2
<1>7. streak' \in [Queries -> Streak]
  BY <1>3, <1>6, NoStreakIs
<1>8. /\ failed' \in Seq(Failure) /\ Len(failed') <= MaxKept /\ Unique(failed')
  BY <1>3, <1>4, <1>5, TrimIs, TrimUnique
<1>9. ASSUME NEW q \in Queries, NEW i \in DOMAIN dict, dict[i].query = q,
             ~ (gone /\ q = Head(dict).query)
      PROVE  \E j \in DOMAIN failed' : failed'[j] = dict[i]
  <2>1. CASE ~gone
    BY <1>3, <1>4, <1>5, <1>9, <2>1, TrimIs
  <2>2. CASE gone
    <3>1. /\ Head(dict) = dict[1]
          /\ \A k \in DOMAIN dict : k # 1 => k - 1 \in DOMAIN failed' /\ failed'[k - 1] = dict[k]
      BY <1>3, <1>4, <1>5, <2>2, TrimIs
    <3>2. i # 1
      BY <1>9, <2>2, <3>1
    <3> QED
      BY <3>1, <3>2
  <2> QED
    BY <2>1, <2>2
<1>10. ASSUME NEW q \in Queries, streak'[q].count > 0, ~streak'[q].misfit
       PROVE  \E i \in At(failed', q) :
                /\ failed'[i].count >= streak'[q].count
                /\ failed'[i].left >= streak'[q].left /\ streak'[q].left > 0
  <2>1. ~ (gone /\ q = Head(dict).query) /\ streak'[q] = grown[q]
    BY <1>3, <1>10, NoStreakIs
  <2>2. CASE q = t.query
    <3>1. PICK i \in DOMAIN dict : dict[i] = v
      BY <1>4
    <3>2. PICK j \in DOMAIN failed' : failed'[j] = v
      BY <1>2, <1>9, <2>1, <2>2, <3>1
    <3>3. /\ streak[q].count \in Nat /\ streak[q].left \in Nat /\ streak[q].left <= FailLife
          /\ streak[q].misfit \in BOOLEAN /\ FailLife \in Nat /\ FailLife > 0
          /\ grown[q].count \in Nat /\ grown[q].left \in Nat
      BY <1>1, <1>6, StreakFields, NoStreakIs
    <3>4. ~streak[q].misfit /\ streak[q].count <= t.failures
      BY <1>6, <1>10, <2>1, <2>2
    <3>5. grown[q].count <= v.count
      BY <1>2, <1>6, <2>2, <3>3, <3>4
    <3>6. grown[q].left <= v.left /\ grown[q].left > 0
      <4>1. CASE grown[q].left = FailLife
        BY <4>1, <1>2, <3>3
      <4>2. CASE grown[q] = streak[q]
        <5>1. streak[q].count > 0
          BY <4>2, <1>10, <2>1
        <5>2. streak[q].left > 0
          BY <5>1, <1>1, <3>4 DEF Remembered
        <5> QED
          BY <4>2, <1>2, <3>3, <5>2
      <4> QED
        BY <4>1, <4>2, <1>6, <2>2
    <3>7. j \in At(failed', q)
      BY <1>2, <2>2, <3>2 DEF At
    <3>8. v.count \in Nat /\ v.left \in Nat
      BY <1>2, <3>3
    <3> QED
      BY <2>1, <3>2, <3>3, <3>5, <3>6, <3>7, <3>8
  <2>3. CASE q # t.query
    <3>1. streak'[q] = streak[q]
      BY <1>6, <2>1, <2>3
    <3>2. PICK i \in At(failed, q) :
            /\ failed[i].count >= streak[q].count
            /\ failed[i].left >= streak[q].left /\ streak[q].left > 0
      BY <1>1, <1>10, <3>1 DEF Remembered
    <3>3. i \in DOMAIN failed /\ failed[i].query = q
      BY <3>2 DEF At
    <3>4. i \in DOMAIN dict /\ dict[i] = failed[i]
      BY <1>2, <1>4, <2>3, <3>3
    <3>5. PICK j \in DOMAIN failed' : failed'[j] = failed[i]
      BY <1>9, <2>1, <3>3, <3>4
    <3>6. j \in At(failed', q)
      BY <3>3, <3>5 DEF At
    <3> QED
      BY <3>1, <3>2, <3>5, <3>6
  <2> QED
    BY <2>2, <2>3
<1>11. \A q \in Queries : Remembered(q)'
  BY <1>10 DEF Remembered, At
<1> QED
  BY <1>7, <1>8, <1>11 DEF FailedInv, Failure, Unique

\* An answer to the query q makes the client forget its failures.
LEMMA ForgottenGood ==
    ASSUME FailedInv, NEW q \in Queries, failed' = Drop(failed, q),
           streak' \in [Queries -> Streak], \A p \in Queries : p # q => streak'[p] = streak[p],
           streak'[q].misfit \/ streak'[q].count = 0
    PROVE  FailedInv'
<1>1. /\ failed \in Seq(Failure) /\ Len(failed) <= MaxKept /\ Unique(failed)
      /\ streak \in [Queries -> Streak] /\ \A p \in Queries : Remembered(p)
  BY DEF FailedInv, Failure, Unique
<1>2. /\ failed' \in Seq(Failure) /\ Len(failed') <= Len(failed) /\ Unique(failed')
      /\ \A i \in DOMAIN failed : failed[i].query # q =>
           \E j \in DOMAIN failed' : failed'[j] = failed[i]
  BY <1>1, DropIs
<1>3. Len(failed') <= MaxKept
  <2>1. Len(failed') \in Nat /\ Len(failed) \in Nat /\ MaxKept \in Nat
    BY <1>1, <1>2, InSet, Constants
  <2> QED
    BY <1>1, <1>2, <2>1
<1>4. ASSUME NEW p \in Queries, streak'[p].count > 0, ~streak'[p].misfit
      PROVE  \E i \in At(failed', p) :
               /\ failed'[i].count >= streak'[p].count
               /\ failed'[i].left >= streak'[p].left /\ streak'[p].left > 0
  <2>1. p # q /\ streak'[p] = streak[p]
    BY <1>4
  <2>2. PICK i \in At(failed, p) :
          /\ failed[i].count >= streak[p].count
          /\ failed[i].left >= streak[p].left /\ streak[p].left > 0
    BY <1>1, <1>4, <2>1 DEF Remembered
  <2>3. i \in DOMAIN failed /\ failed[i].query = p
    BY <2>2 DEF At
  <2>4. PICK j \in DOMAIN failed' : failed'[j] = failed[i]
    BY <1>2, <2>1, <2>3
  <2>5. j \in At(failed', p)
    BY <2>3, <2>4 DEF At
  <2> QED
    BY <2>1, <2>2, <2>4, <2>5
<1>5. \A p \in Queries : Remembered(p)'
  BY <1>4 DEF Remembered, At
<1> QED
  BY <1>2, <1>3, <1>5 DEF FailedInv, Failure, Unique

LEMMA TickFailedGood ==
    ASSUME FailedInv, Tick
    PROVE  FailedInv'
<1>1. /\ failed \in Seq(Failure) /\ Len(failed) <= MaxKept /\ Unique(failed)
      /\ streak \in [Queries -> Streak] /\ \A p \in Queries : Remembered(p)
  BY DEF FailedInv, Failure, Unique
<1>2. /\ failed' = [i \in DOMAIN failed |-> [failed[i] EXCEPT !.left = Less(@)]]
      /\ streak' = [q \in Queries |-> IF streak[q].left <= 1 THEN NoStreak
                                      ELSE [streak[q] EXCEPT !.left = @ - 1]]
  BY DEF Tick
<1>3. FailLife \in Nat
  BY Constants
<1>4. \A i \in DOMAIN failed :
        /\ failed[i] \in Failure /\ failed[i].left \in Nat
        /\ failed'[i] \in Failure /\ failed'[i].query = failed[i].query
        /\ failed'[i].count = failed[i].count /\ failed'[i].left = Less(failed[i].left)
  <2> SUFFICES ASSUME NEW i \in DOMAIN failed
               PROVE  /\ failed[i] \in Failure /\ failed[i].left \in Nat
                      /\ failed'[i] \in Failure /\ failed'[i].query = failed[i].query
                      /\ failed'[i].count = failed[i].count
                      /\ failed'[i].left = Less(failed[i].left)
    OBVIOUS
  <2>1. failed[i] \in Failure
    BY <1>1, InSet
  <2>2. failed[i].left \in 0 .. FailLife
    BY <2>1 DEF Failure
  <2>3. failed[i].left \in Nat /\ Less(failed[i].left) \in 0 .. FailLife
    BY <1>3, <2>2 DEF Less
  <2>4. failed'[i] = [failed[i] EXCEPT !.left = Less(failed[i].left)]
    BY <1>2
  <2> QED
    BY <2>1, <2>3, <2>4 DEF Failure
<1>5. DOMAIN failed' = DOMAIN failed
  BY <1>2
<1>6. failed' \in Seq(Failure) /\ Len(failed') = Len(failed)
  <2>1. Len(failed) \in Nat /\ DOMAIN failed = 1 .. Len(failed)
    BY <1>1, InSet
  <2>2. failed' = [i \in 1 .. Len(failed) |-> failed'[i]]
    <3>1. failed' = [i \in DOMAIN failed |-> failed'[i]]
      BY <1>2
    <3> QED
      BY <2>1, <3>1, Zenon
  <2>3. \A i \in 1 .. Len(failed) : failed'[i] \in Failure
    BY <1>4, <2>1
  <2> QED
    BY <2>1, <2>2, <2>3
<1>7. Unique(failed')
  BY <1>1, <1>4, <1>5 DEF Unique
<1>8. \A q \in Queries :
        /\ streak[q].left <= 1 => streak'[q] = NoStreak
        /\ ~ (streak[q].left <= 1) =>
             /\ streak'[q].count = streak[q].count /\ streak'[q].misfit = streak[q].misfit
             /\ streak'[q].left = streak[q].left - 1 /\ streak'[q] \in Streak
  <2> SUFFICES ASSUME NEW q \in Queries
               PROVE  /\ streak[q].left <= 1 => streak'[q] = NoStreak
                      /\ ~ (streak[q].left <= 1) =>
                           /\ streak'[q].count = streak[q].count
                           /\ streak'[q].misfit = streak[q].misfit
                           /\ streak'[q].left = streak[q].left - 1 /\ streak'[q] \in Streak
    OBVIOUS
  <2>1. streak[q] \in Streak /\ streak[q].left \in 0 .. FailLife
    BY <1>1, StreakFields
  <2>2. ~ (streak[q].left <= 1) => streak[q].left - 1 \in 0 .. FailLife
    BY <1>3, <2>1
  <2>3. ~ (streak[q].left <= 1) => streak'[q] = [streak[q] EXCEPT !.left = streak[q].left - 1]
    BY <1>2
  <2> QED
    BY <1>2, <2>1, <2>2, <2>3 DEF Streak
<1>9. streak' \in [Queries -> Streak]
  BY <1>2, <1>8, NoStreakIs
<1>10. ASSUME NEW q \in Queries, streak'[q].count > 0, ~streak'[q].misfit
       PROVE  \E i \in At(failed', q) :
                /\ failed'[i].count >= streak'[q].count
                /\ failed'[i].left >= streak'[q].left /\ streak'[q].left > 0
  <2>1. ~ (streak[q].left <= 1)
    BY <1>8, <1>10, NoStreakIs
  <2>2. /\ streak'[q].count = streak[q].count /\ streak'[q].misfit = streak[q].misfit
        /\ streak'[q].left = streak[q].left - 1
    BY <1>8, <2>1
  <2>3. PICK i \in At(failed, q) :
          failed[i].count >= streak[q].count /\ failed[i].left >= streak[q].left
    BY <1>1, <1>10, <2>2 DEF Remembered
  <2>4. i \in DOMAIN failed /\ i \in At(failed', q)
    BY <1>4, <1>5, <2>3 DEF At
  <2>5. streak[q].left \in Nat
    BY <1>1, StreakFields
  <2>6. failed'[i].left >= streak[q].left - 1 /\ streak[q].left - 1 > 0
    BY <1>4, <2>1, <2>3, <2>4, <2>5 DEF Less
  <2> QED
    BY <1>4, <2>2, <2>3, <2>4, <2>6
<1>11. \A q \in Queries : Remembered(q)'
  BY <1>10 DEF Remembered, At
<1> QED
  BY <1>1, <1>6, <1>7, <1>9, <1>11 DEF FailedInv, Failure, Unique

-------------------------------------------------------------------------------
(* What is kept of searches *)

LEMMA SearchFields ==
    ASSUME NEW e \in Search
    PROVE  /\ e.id \in SearchIds /\ e.age \in 0 .. RetainLife + 1 /\ e.age \in Nat
           /\ e.row \in [Listings -> Row \cup {None}]
           /\ e = [id |-> e.id, age |-> e.age, row |-> e.row]
<1>1. RetainLife \in Nat
  BY Constants
<1>2. e.id \in SearchIds /\ e.age \in 0 .. RetainLife + 1 /\ e.row \in [Listings -> Row \cup {None}]
      /\ e = [id |-> e.id, age |-> e.age, row |-> e.row]
  BY DEF Search
<1> QED
  BY <1>1, <1>2

\* Searches that keep their places and ids and only grow older.
LEMMA AgedGood ==
    ASSUME KeptInv, NEW f, searches' = [i \in DOMAIN searches |-> f[i]],
           \A i \in DOMAIN searches : f[i] \in Search /\ f[i].id = searches[i].id
                                      /\ f[i].age >= searches[i].age,
           UNCHANGED cache, meta' \in 0 .. MetaLife
    PROVE  KeptInv' /\ \A q : Untried(q) => Untried(q)'
<1>1. /\ searches \in Seq(Search) /\ Len(searches) \in Nat /\ DOMAIN searches = 1 .. Len(searches)
      /\ DOMAIN searches' = DOMAIN searches
      /\ \A i \in DOMAIN searches : searches'[i] = f[i] /\ searches[i] \in Search
  BY InSet DEF KeptInv
<1>2. searches' \in Seq(Search) /\ Len(searches') = Len(searches)
  <2>1. searches' = [i \in 1 .. Len(searches) |-> f[i]]
    BY <1>1, Zenon
  <2>2. \A i \in 1 .. Len(searches) : f[i] \in Search
    BY <1>1
  <2> QED
    BY <1>1, <2>1, <2>2
<1>3. KeptInv'
  BY <1>1, <1>2 DEF KeptInv
<1>4. ASSUME NEW q, Untried(q), NEW i \in DOMAIN searches',
             [query |-> q, id |-> searches'[i].id] \in ToSet(cache')
      PROVE  searches'[i].age >= CacheLife
  <2>1. searches[i].age >= CacheLife
    BY <1>1, <1>4 DEF Untried
  <2>2. searches[i].age \in Nat /\ searches'[i].age \in Nat /\ CacheLife \in Nat
        /\ searches'[i].age >= searches[i].age
    BY <1>1, SearchFields, Constants
  <2> QED
    BY <2>1, <2>2
<1>5. \A q : Untried(q) => Untried(q)'
  BY <1>4 DEF Untried
<1> QED
  BY <1>3, <1>5

LEMMA SameKept ==
    ASSUME KeptInv, UNCHANGED <<searches, cache>>, meta' \in 0 .. MetaLife
    PROVE  KeptInv' /\ \A q : Untried(q) => Untried(q)'
BY DEF KeptInv, Untried, ToSet

LEMMA TickKeptGood ==
    ASSUME KeptInv, Tick
    PROVE  KeptInv' /\ \A q : Untried(q) => Untried(q)'
<1> DEFINE f == [i \in DOMAIN searches |->
                   [searches[i] EXCEPT !.age = IF @ > RetainLife THEN @ ELSE @ + 1]]
<1>1. searches' = f /\ UNCHANGED cache /\ meta' = Less(meta)
  BY DEF Tick
<1>2. ASSUME NEW i \in DOMAIN searches
      PROVE  f[i] \in Search /\ f[i].id = searches[i].id /\ f[i].age >= searches[i].age
  <2> DEFINE a == searches[i].age
             b == IF a > RetainLife THEN a ELSE a + 1
  <2>1. searches[i] \in Search
    BY InSet DEF KeptInv
  <2>2. a \in Nat /\ a \in 0 .. RetainLife + 1 /\ RetainLife \in Nat
    BY <2>1, SearchFields, Constants
  <2>3. b \in 0 .. RetainLife + 1 /\ b >= a
    BY <2>2
  <2>4. f[i] = [searches[i] EXCEPT !.age = b]
    OBVIOUS
  <2> HIDE DEF b, f
  <2> QED
    BY <2>1, <2>3, <2>4 DEF Search
<1>3. meta' \in 0 .. MetaLife
  <2>1. meta \in 0 .. MetaLife /\ MetaLife \in Nat
    BY Constants DEF KeptInv
  <2> QED
    BY <1>1, <2>1 DEF Less
<1>4. f = [i \in DOMAIN searches |-> f[i]]
  OBVIOUS
<1> HIDE DEF f
<1> QED
  BY <1>1, <1>2, <1>3, <1>4, AgedGood

\* A group of listings of a search is answered.
LEMMA RowsKept ==
    ASSUME KeptInv, NEW c, NEW h, NEW found, RowsArrive(c, h, found)
    PROVE  KeptInv' /\ \A q : Untried(q) => Untried(q)'
<1> DEFINE s == task[c].id
           group == Group(task[c].todo)
<1> DEFINE row(e) == [l \in Listings |->
                        IF l \notin group THEN e.row[l]
                        ELSE IF l \in found THEN "found"
                        ELSE IF e.row[l] \in Described THEN "lost" ELSE "gone"]
           f == [i \in DOMAIN searches |->
                   IF searches[i].id = s THEN [searches[i] EXCEPT !.row = row(searches[i])]
                   ELSE searches[i]]
<1>1. searches' = f /\ UNCHANGED <<cache, meta>>
  BY DEF RowsArrive
<1> HIDE DEF s, group
<1>2. ASSUME NEW e \in Search
      PROVE  row(e) \in [Listings -> Row \cup {None}]
  <2>1. e.row \in [Listings -> Row \cup {None}]
    BY SearchFields
  <2>2. "found" \in Row /\ "gone" \in Row /\ "lost" \in Row
    BY DEF Row
  <2> QED
    BY <2>1, <2>2
<1> HIDE DEF row
<1>3. ASSUME NEW i \in DOMAIN searches
      PROVE  f[i] \in Search /\ f[i].id = searches[i].id /\ f[i].age >= searches[i].age
  <2>1. searches[i] \in Search
    BY InSet DEF KeptInv
  <2>2. searches[i].age \in Nat
    BY <2>1, SearchFields
  <2>3. CASE searches[i].id = s
    <3>1. f[i] = [searches[i] EXCEPT !.row = row(searches[i])]
      BY <2>3
    <3>2. row(searches[i]) \in [Listings -> Row \cup {None}]
      BY <1>2, <2>1
    <3> HIDE DEF f
    <3>3. f[i] \in Search /\ f[i].id = searches[i].id /\ f[i].age = searches[i].age
      BY <2>1, <3>1, <3>2 DEF Search
    <3> QED
      BY <2>2, <3>3
  <2>4. CASE searches[i].id # s
    BY <2>1, <2>2, <2>4
  <2> QED
    BY <2>3, <2>4
<1>4. f = [i \in DOMAIN searches |-> f[i]]
  OBVIOUS
<1>5. meta' \in 0 .. MetaLife
  BY <1>1 DEF KeptInv
<1> HIDE DEF f
<1> QED
  BY <1>1, <1>3, <1>4, <1>5, AgedGood

\* A result is retained under an id of its own.
LEMMA FoundKept ==
    ASSUME KeptInv, NEW s \in SearchIds, ~Kept(s), NEW q \in Queries, NEW row,
           row \in [Listings -> Row \cup {None}],
           searches' = Trim(Append(searches, [id |-> s, age |-> 0, row |-> row])),
           cache' = Trim(Put(cache, [query |-> q, id |-> s])),
           UNCHANGED meta
    PROVE  KeptInv'
<1> DEFINE e == [id |-> s, age |-> 0, row |-> row]
           v == [query |-> q, id |-> s]
           V == [query : Queries, id : SearchIds]
           long == Append(searches, e)
           dict == Put(cache, v)
           n == Len(searches)
<1>1. /\ searches \in Seq(Search) /\ n <= MaxKept /\ n \in Nat /\ MaxKept \in Nat
      /\ DOMAIN searches = 1 .. n
      /\ cache \in Seq(V) /\ Len(cache) <= MaxKept /\ Len(cache) \in Nat
      /\ \A i, j \in DOMAIN searches : searches[i].id = searches[j].id => i = j
  BY InSet, Constants DEF KeptInv
<1>2. e \in Search /\ e.id = s
  <2>1. 0 \in 0 .. RetainLife + 1
    BY Constants
  <2> QED
    BY <2>1 DEF Search
<1>3. v \in V
  OBVIOUS
<1> HIDE DEF e, v, V
<1>4. /\ long \in Seq(Search) /\ Len(long) = n + 1 /\ DOMAIN long = 1 .. n + 1
      /\ \A i \in 1 .. n : long[i] = searches[i]
      /\ long[n + 1] = e
  BY <1>1, <1>2, AppendProperties, InSet
<1>5. \A i \in 1 .. n : searches[i].id # s
  BY <1>1 DEF Kept
<1>6. \A i, j \in DOMAIN long : long[i].id = long[j].id => i = j
  <2>1. \A i \in 1 .. n + 1 : i \in 1 .. n \/ i = n + 1
    BY <1>1
  <2> HIDE DEF long, n
  <2> QED
    BY <1>1, <1>2, <1>4, <1>5, <2>1
<1>7. searches' = Trim(long) /\ cache' = Trim(dict)
  BY DEF e, v
<1>8. Len(long) <= MaxKept + 1
  BY <1>1, <1>4
<1>9. dict \in Seq(V) /\ Len(dict) <= MaxKept + 1
  <2>1. dict \in Seq(V) /\ Len(dict) <= Len(cache) + 1
    BY <1>1, <1>3, PutIs
  <2>2. Len(dict) \in Nat
    BY <2>1, InSet
  <2> HIDE DEF dict
  <2> QED
    BY <1>1, <2>1, <2>2
<1> HIDE DEF long, dict
<1>10. /\ searches' \in Seq(Search) /\ Len(searches') <= MaxKept
       /\ cache' \in Seq(V) /\ Len(cache') <= MaxKept
  BY <1>4, <1>7, <1>8, <1>9, TrimIs
<1>11. \A i, j \in DOMAIN searches' : searches'[i].id = searches'[j].id => i = j
  <2>1. CASE ~ (Len(long) > MaxKept)
    <3>1. searches' = long
      BY <1>4, <1>7, <1>8, <2>1, TrimIs
    <3> QED
      BY <3>1, <1>6
  <2>2. CASE Len(long) > MaxKept
    <3>1. \A i \in DOMAIN searches' : i + 1 \in DOMAIN long /\ searches'[i] = long[i + 1]
      BY <1>4, <1>7, <1>8, <2>2, TrimIs
    <3>2. \A i \in DOMAIN searches' : i \in Nat
      BY <1>10, InSet
    <3> SUFFICES ASSUME NEW i \in DOMAIN searches', NEW j \in DOMAIN searches',
                        searches'[i].id = searches'[j].id
                 PROVE  i = j
      OBVIOUS
    <3>3. i + 1 = j + 1
      BY <3>1, <1>6
    <3> QED
      BY <3>2, <3>3
  <2> QED
    BY <2>1, <2>2
<1> QED
  BY <1>10, <1>11 DEF KeptInv, V

-------------------------------------------------------------------------------
(* What every way of going on has in common *)

\* No call starts to pursue a search, or pursues another one.
Onward ==
    \A d \in Clients : Pursuing(task'[d]) =>
      /\ Pursuing(task[d])
      /\ task'[d].query = task[d].query /\ task'[d].failures = task[d].failures

\* Only the holder of the search lock pursues a search.
LEMMA OnePursues ==
    ASSUME CallInv, NEW c \in Clients, NEW d \in Clients, Pursuing(task[d]),
           c \in ToSet(searching), c = Head(searching)
    PROVE  d = c
BY DEF CallInv, LocksMove, Pursuing

LEMMA OnwardPursuit ==
    ASSUME CallInv, PursuitInv, Onward, \A q : Untried(q) => Untried(q)',
           \A q \in Queries : \/ streak'[q].count = streak[q].count
                                 /\ streak'[q].misfit = streak[q].misfit
                              \/ streak'[q].count = 0
    PROVE  PursuitInv'
<1> SUFFICES ASSUME NEW d \in Clients, Pursuing(task'[d])
             PROVE  /\ Untried(task[d].query)'
                    /\ task'[d].failures < FailLimit
                    /\ \/ streak'[task'[d].query].count <= task'[d].failures
                       \/ streak'[task'[d].query].misfit
  BY DEF PursuitInv, Pursuing
<1>1. /\ Pursuing(task[d])
      /\ task'[d].query = task[d].query /\ task'[d].failures = task[d].failures
  BY DEF Onward
<1>2. /\ Untried(task[d].query) /\ task[d].failures < FailLimit
      /\ streak[task[d].query].count <= task[d].failures \/ streak[task[d].query].misfit
  BY <1>1 DEF PursuitInv
<1>3. task[d].query \in Queries /\ task[d].failures \in Nat /\ FailLimit \in Nat
  <2>1. task[d] \in Task /\ task[d].query \in Queries
    BY <1>1 DEF CallInv, Pursuing
  <2> QED
    BY <2>1, TaskFields, Constants
<1>4. Untried(task[d].query)'
  <2>1. \A q : q = task[d].query => Untried(q)'
    BY <1>2
  <2> QED
    BY <1>1, <2>1 DEF Untried
<1>5. \/ streak'[task[d].query].count <= task[d].failures
      \/ streak'[task[d].query].misfit
  BY <1>2, <1>3
<1> QED
  BY <1>1, <1>2, <1>4, <1>5

\* The call of c is neither asleep nor sent afterwards; the others are as before,
\* and if the gate has moved, none of them was.
LEMMA ReadyKept ==
    ASSUME CallInv, ReadyInv, NEW c \in Clients,
           \A d \in Clients : d # c => task'[d] = task[d],
           task'[c] = None \/ task'[c].phase \notin {"asleep", "sent"},
           UNCHANGED <<gate, blocked>> \/ Holds(c)
    PROVE  ReadyInv'
<1> SUFFICES ASSUME NEW d \in Clients, task'[d] # None
             PROVE  /\ task'[d].phase \in {"asleep", "sent"} => ~blocked'
                    /\ task'[d].phase = "asleep" => Permits(gate', task'[d].wake)
  BY DEF ReadyInv, Permits
<1>1. CASE d = c
  BY <1>1
<1>2. CASE d # c /\ UNCHANGED <<gate, blocked>>
  BY <1>2 DEF ReadyInv
<1>3. CASE d # c /\ Holds(c)
  <2>1. ~ (task[d].phase \in {"asleep", "sent"})
    BY <1>3 DEF CallInv, LocksMove, Holds
  <2> QED
    BY <1>3, <2>1
<1> QED
  BY <1>1, <1>2, <1>3

LEMMA ReturnMoves ==
    ASSUME CallInv, ReadyInv, NEW c \in Clients, NEW others, Rid(queue, others, c),
           Return(c, others), UNCHANGED <<gate, blocked>> \/ Holds(c)
    PROVE  /\ CallInv' /\ ReadyInv' /\ Onward /\ task'[c] = None
           /\ \A d \in Clients : d # c => task'[d] = task[d]
<1>1. task'[c] = None /\ \A d \in Clients : d # c => task'[d] = task[d]
  BY DEF Return, CallInv
<1>2. CallInv'
  BY ReturnGood
<1>3. ReadyInv'
  BY <1>1, ReadyKept
<1>4. Onward
  BY <1>1 DEF Onward, Pursuing
<1> QED
  BY <1>1, <1>2, <1>3, <1>4

LEMMA AskMoves ==
    ASSUME CallInv, ReadyInv, NEW c \in Clients, NEW t, MayAsk(c, t),
           NEW goal \in Goal, goal = "search" => t.op = "search", NEW todo \in Seq(Listings),
           NEW others, Rid(queue, others, c), Ask(c, t, goal, todo, others),
           UNCHANGED <<gate, blocked>> \/ Holds(c)
    PROVE  /\ CallInv' /\ ReadyInv'
           /\ \A d \in Clients : d # c => task'[d] = task[d]
           /\ task'[c].query = t.query /\ task'[c].failures = t.failures /\ task'[c].goal = goal
           /\ \/ goal = "fetch" \/ t.op # "search"
              \/ Pursuing(task[c]) /\ t.query = task[c].query /\ t.failures = task[c].failures
              => Onward
<1> DEFINE x == [t EXCEPT !.goal = goal, !.todo = todo, !.phase = "waiting", !.attempt = 0,
                          !.wake = 0]
<1>1. task' = [task EXCEPT ![c] = x]
  BY DEF Ask
<1>2. /\ x.op = t.op /\ x.query = t.query /\ x.goal = goal /\ x.failures = t.failures
      /\ x.phase = "waiting"
  BY DEF MayAsk, Task
<1> HIDE DEF x
<1>3. task'[c] = x /\ \A d \in Clients : d # c => task'[d] = task[d]
  BY <1>1 DEF CallInv
<1>4. CallInv'
  BY AskGood
<1>5. ReadyInv'
  BY <1>2, <1>3, ReadyKept
<1>6. ASSUME \/ goal = "fetch" \/ t.op # "search"
             \/ Pursuing(task[c]) /\ t.query = task[c].query /\ t.failures = task[c].failures
      PROVE  Onward
  <2> SUFFICES ASSUME NEW d \in Clients, Pursuing(task'[d])
               PROVE  /\ Pursuing(task[d])
                      /\ task'[d].query = task[d].query /\ task'[d].failures = task[d].failures
    BY DEF Onward
  <2>1. CASE d = c
    BY <1>2, <1>3, <1>6, <2>1 DEF Pursuing
  <2>2. CASE d # c
    BY <1>3, <2>2
  <2> QED
    BY <2>1, <2>2
<1> QED
  BY <1>2, <1>3, <1>4, <1>5, <1>6

\* The listings of a fetch make a list.
LEMMA MissingType ==
    ASSUME NEW entry, NEW ids \in SUBSET Listings
    PROVE  Missing(entry, ids) \in Seq(Listings)
<1> DEFINE S == {l \in ids : entry.row[l] = "missing"}
           n == Cardinality(S)
<1>1. IsFiniteSet(S) /\ S \in SUBSET Listings
  BY ConstantsAssumption, FS_Subset
<1> HIDE DEF S
<1>2. n \in Nat /\ ExistsBijection(1 .. n, S)
  BY <1>1, FS_CardinalityType
<1>3. \E f \in [1 .. n -> S] : IsInjective(f)
  BY <1>2 DEF ExistsBijection, Bijection, Injection
<1>4. SetToSeq(S) \in [1 .. n -> S]
  BY <1>3 DEF SetToSeq
<1>5. SetToSeq(S) \in Seq(Listings)
  <2> DEFINE f == SetToSeq(S)
  <2>1. f \in [1 .. n -> S]
    BY <1>4
  <2> HIDE DEF f, n
  <2>2. f = [i \in 1 .. n |-> f[i]] /\ \A i \in 1 .. n : f[i] \in Listings
    BY <1>1, <2>1
  <2>3. f \in Seq(Listings)
    BY <1>2, <2>2
  <2> QED
    BY <2>3 DEF f
<1> QED
  BY <1>5 DEF Missing, S

LEMMA GivePageMoves ==
    ASSUME CallInv, ReadyInv, NEW c \in Clients, NEW t, MayAsk(c, t),
           NEW entry, entry.id \in SearchIds, NEW ids \in SUBSET Listings, NEW g,
           NEW cachedOnly, NEW others, Rid(queue, others, c),
           GivePage(c, t, entry, ids, g, cachedOnly, others),
           UNCHANGED <<gate, blocked>> \/ Holds(c)
    PROVE  /\ CallInv' /\ ReadyInv' /\ Onward /\ ~Pursuing(task'[c])
           /\ \A d \in Clients : d # c => task'[d] = task[d]
<1> DEFINE wanted == [t EXCEPT !.id = entry.id]
           missing == Missing(entry, ids)
<1>1. CASE Return(c, others)
  BY <1>1, ReturnMoves DEF Pursuing
<1>2. CASE Ask(c, wanted, "fetch", missing, others)
  <2>1. MayAsk(c, wanted)
    <3>1. t \in Task
      BY DEF MayAsk
    <3>2. wanted \in Task /\ wanted.op = t.op /\ wanted.query = t.query
      BY <3>1 DEF Task
    <3> QED
      BY <3>2 DEF MayAsk
  <2>2. missing \in Seq(Listings) /\ "fetch" \in Goal
    BY MissingType DEF Goal
  <2> HIDE DEF wanted, missing
  <2> QED
    BY <1>2, <2>1, <2>2, AskMoves DEF Pursuing
<1> QED
  BY <1>1, <1>2 DEF GivePage

\* What the cache knows of an id.
LEMMA EntryIs ==
    ASSUME KeptInv, NEW s, Kept(s)
    PROVE  /\ Entry(s) \in Search /\ Entry(s).id = s
           /\ \A i \in DOMAIN searches : searches[i].id = s => Entry(s) = searches[i]
<1> DEFINE k == CHOOSE i \in DOMAIN searches : searches[i].id = s
<1>1. k \in DOMAIN searches /\ searches[k].id = s
  BY DEF Kept
<1>2. Entry(s) = searches[k]
  BY DEF Entry
<1> HIDE DEF k
<1>3. searches[k] \in Search
  BY <1>1, InSet DEF KeptInv
<1>4. \A i \in DOMAIN searches : searches[i].id = s => i = k
  BY <1>1 DEF KeptInv
<1> QED
  BY <1>1, <1>2, <1>3, <1>4

LEMMA UnusableUntried ==
    ASSUME KeptInv, NEW q, Reusable(q) = {}
    PROVE  Untried(q)
<1> SUFFICES ASSUME NEW i \in DOMAIN searches,
                    [query |-> q, id |-> searches[i].id] \in ToSet(cache),
                    ~ (searches[i].age >= CacheLife)
             PROVE  FALSE
  BY DEF Untried
<1> DEFINE s == searches[i].id
<1>1. searches[i] \in Search
  BY InSet DEF KeptInv
<1>2. s \in SearchIds /\ searches[i].age \in Nat /\ CacheLife \in Nat
  BY <1>1, SearchFields, Constants
<1>3. Kept(s)
  BY DEF Kept
<1>4. Entry(s) = searches[i]
  BY <1>3, EntryIs
<1>5. Entry(s).age < CacheLife
  BY <1>2, <1>4
<1> QED
  BY <1>2, <1>3, <1>5 DEF Reusable

LEMMA FailuresIs ==
    ASSUME FailedInv, NEW q \in Queries
    PROVE  Failures(q) \in Nat /\ (streak[q].count <= Failures(q) \/ streak[q].misfit)
<1> DEFINE young == {i \in At(failed, q) : failed[i].left > 0}
           k == CHOOSE i \in young : TRUE
<1>1. /\ failed \in Seq(Failure) /\ Unique(failed) /\ streak \in [Queries -> Streak]
      /\ Remembered(q)
  BY DEF FailedInv, Failure, Unique
<1>2. /\ streak[q].count \in Nat /\ streak[q].left \in Nat /\ streak[q].misfit \in BOOLEAN
  BY <1>1, StreakFields
<1>3. \A i \in DOMAIN failed : failed[i] \in Failure
  BY <1>1, InSet
<1>4. \A i \in DOMAIN failed : failed[i].count \in Nat /\ failed[i].left \in Nat
  <2>1. FailLife \in Nat
    BY Constants
  <2>2. \A i \in DOMAIN failed : failed[i].count \in Nat /\ failed[i].left \in 0 .. FailLife
    BY <1>3 DEF Failure
  <2> QED
    BY <2>1, <2>2
<1>5. CASE young = {}
  <2>1. Failures(q) = 0
    BY <1>5 DEF Failures
  <2>2. ~ (streak[q].count > 0 /\ ~streak[q].misfit)
    <3> SUFFICES ASSUME streak[q].count > 0, ~streak[q].misfit PROVE FALSE
      OBVIOUS
    <3>1. PICK i \in At(failed, q) : failed[i].left >= streak[q].left /\ streak[q].left > 0
      BY <1>1 DEF Remembered
    <3>2. i \in DOMAIN failed
      BY DEF At
    <3> QED
      BY <1>2, <1>4, <1>5, <3>1, <3>2
  <2> QED
    BY <1>2, <2>1, <2>2
<1>6. CASE young # {}
  <2>1. k \in young
    BY <1>6
  <2>2. Failures(q) = failed[k].count
    BY <1>6 DEF Failures
  <2>3. k \in DOMAIN failed /\ failed[k].query = q
    BY <2>1 DEF At
  <2> HIDE DEF k, young
  <2>4. ASSUME streak[q].count > 0, ~streak[q].misfit
        PROVE  streak[q].count <= failed[k].count
    <3>1. PICK i \in At(failed, q) : failed[i].count >= streak[q].count
      BY <1>1, <2>4 DEF Remembered
    <3>2. i \in DOMAIN failed /\ failed[i].query = q
      BY DEF At
    <3>3. i = k
      BY <1>1, <2>3, <3>2 DEF Unique
    <3> QED
      BY <1>2, <1>4, <2>3, <3>1, <3>3
  <2> QED
    BY <1>2, <1>4, <2>2, <2>3, <2>4
<1> QED
  BY <1>5, <1>6

-------------------------------------------------------------------------------
(* One lemma for each way a step changes the calls *)

\* Whoever holds the request lock has a call that is past its queueing.
LEMMA HoldingIs ==
    ASSUME CallInv, NEW c \in Clients, Holds(c)
    PROVE  /\ Rid(queue, Tail(queue), c) /\ c \in ToSet(queue)
           /\ task[c] # None /\ task[c].phase # "queued" /\ task[c] \in Task
           /\ MayAsk(c, task[c])
<1>1. /\ queue \in Seq(Clients) /\ IsInjective(queue) /\ queue # << >> /\ Head(queue) = c
  BY DEF CallInv, LocksMove, Holds
<1>2. Rid(queue, Tail(queue), c)
  BY <1>1, TailRids
<1>3. c \in ToSet(queue)
  BY <1>1, HeadIn
<1>4. Placed(c, task[c], queue, searching)
  BY LocksArePlaces DEF CallInv
<1>5. task[c] # None /\ task[c].phase # "queued" /\ task[c] \in Task
  BY <1>3, <1>4 DEF CallInv, Placed
<1>6. MayAsk(c, task[c])
  BY <1>4, <1>5 DEF CallInv, Placed, MayAsk
<1> QED
  BY <1>2, <1>3, <1>5, <1>6

\* A step that touches nothing the searches rely on, and starts no search.
LEMMA OnwardGood ==
    ASSUME TradeInv, GateInv', CallInv', ReadyInv', Onward, meta' \in 0 .. MetaLife,
           UNCHANGED <<searches, cache, failed, streak>>
    PROVE  TradeInv'
<1>1. KeptInv' /\ \A q : Untried(q) => Untried(q)'
  BY SameKept DEF TradeInv
<1>2. FailedInv'
  BY SameFailed DEF TradeInv
<1>3. PursuitInv'
  BY <1>1, OnwardPursuit DEF TradeInv
<1> QED
  BY <1>1, <1>2, <1>3 DEF TradeInv

\* The holder of the search lock is the only one that may pursue afterwards.
LEMMA PursuitOfOne ==
    ASSUME CallInv, NEW c \in Clients, c \in ToSet(searching), c = Head(searching),
           \A d \in Clients : d # c => task'[d] = task[d],
           NEW q, Untried(q)',
           Pursuing(task'[c]) =>
             /\ task'[c].query = q /\ task'[c].failures < FailLimit
             /\ streak'[q].count <= task'[c].failures \/ streak'[q].misfit
    PROVE  PursuitInv'
<1> SUFFICES ASSUME NEW d \in Clients, Pursuing(task'[d])
             PROVE  /\ Untried(task[d].query)'
                    /\ task'[d].failures < FailLimit
                    /\ \/ streak'[task'[d].query].count <= task'[d].failures
                       \/ streak'[task'[d].query].misfit
  BY DEF PursuitInv, Pursuing
<1>1. d = c
  BY OnePursues
<1>2. task'[d].query = q
  BY <1>1
<1>3. Untried(task[d].query)'
  BY <1>2 DEF Untried
<1> QED
  BY <1>1, <1>2, <1>3

LEMMA PursuitOver ==
    ASSUME CallInv, NEW c \in Clients, c \in ToSet(searching), c = Head(searching),
           \A d \in Clients : d # c => task'[d] = task[d], ~Pursuing(task'[c])
    PROVE  PursuitInv'
<1> SUFFICES ASSUME NEW d \in Clients, Pursuing(task'[d]) PROVE FALSE
  BY DEF PursuitInv, Pursuing
<1> QED
  BY OnePursues

LEMMA SearcherServes ==
    ASSUME CallInv, NEW c \in Clients, task[c] # None, task[c].op = "search",
           task[c].phase # "queued"
    PROVE  c \in ToSet(searching) /\ c = Head(searching) /\ task[c].query \in Queries
BY DEF CallInv, LocksMove

\* A TradeError leaves a call of the holder.
LEMMA RaiseGood ==
    ASSUME TradeInv, NEW c \in Clients, Holds(c), NEW sent \in BOOLEAN, Raise(c, sent), GateInv'
    PROVE  TradeInv'
<1>1. Return(c, Tail(queue)) /\ UNCHANGED <<meta, searches, cache>>
  BY DEF Raise
<1>2. /\ Rid(queue, Tail(queue), c) /\ task[c] # None /\ task[c].phase # "queued"
      /\ task[c] \in Task
  BY HoldingIs DEF TradeInv
<1>3. /\ CallInv' /\ ReadyInv' /\ Onward /\ task'[c] = None
      /\ \A d \in Clients : d # c => task'[d] = task[d]
  BY <1>1, <1>2, ReturnMoves DEF TradeInv
<1>4. meta' \in 0 .. MetaLife
  BY <1>1 DEF TradeInv, KeptInv
<1>5. CASE task[c].op = "search" /\ task[c].goal # "fetch"
  <2>1. Failed(task[c], sent)
    BY <1>5 DEF Raise
  <2>2. Pursuing(task[c])
    BY <1>2, <1>5 DEF Pursuing
  <2>3. c \in ToSet(searching) /\ c = Head(searching) /\ task[c].query \in Queries
    BY <1>2, <1>5, SearcherServes DEF TradeInv
  <2>4. streak[task[c].query].count <= task[c].failures \/ streak[task[c].query].misfit
    BY <2>2 DEF TradeInv, PursuitInv
  <2>5. task[c].failures \in Nat
    BY <1>2, TaskFields
  <2>6. FailedInv'
    BY <2>1, <2>3, <2>4, <2>5, FailedGood DEF TradeInv
  <2>7. PursuitInv'
    BY <1>3, <2>3, PursuitOver DEF TradeInv, Pursuing
  <2>8. KeptInv'
    BY <1>1, <1>4, SameKept DEF TradeInv
  <2> QED
    BY <1>3, <2>6, <2>7, <2>8 DEF TradeInv
<1>6. CASE ~ (task[c].op = "search" /\ task[c].goal # "fetch")
  <2>1. UNCHANGED <<failed, streak>>
    BY <1>6 DEF Raise
  <2> QED
    BY <1>1, <1>3, <1>4, <2>1, OnwardGood
<1> QED
  BY <1>5, <1>6

\* The caller sleeps until the gate, as the step leaves it, opens; or it gives up.
LEMMA AttemptGood ==
    ASSUME TradeInv, NEW c \in Clients, Holds(c), NEW n \in {0, 1}, ~blocked', GateInv',
           Attempt(c, gate', n)
    PROVE  TradeInv'
<1>1. CASE Delay(gate') > MaxWait
  <2>1. Raise(c, n = 1)
    BY <1>1 DEF Attempt
  <2> QED
    BY <2>1, RaiseGood
<1>2. CASE ~ (Delay(gate') > MaxWait)
  <2> DEFINE w == Delay(gate')
             x == [task[c] EXCEPT !.phase = "asleep", !.wake = w, !.attempt = n]
  <2>1. /\ task' = [task EXCEPT ![c].phase = "asleep", ![c].wake = w, ![c].attempt = n]
        /\ UNCHANGED <<queue, searching, failed, streak, meta, searches, cache>>
    BY <1>2 DEF Attempt
  <2>2. gate' \in GateType
    BY DEF GateInv
  <2>3. w \in Nat /\ Permits(gate', w)
    BY <2>2, DelayPermits
  <2>4. w <= MaxWait
    BY <1>2, <2>3, Constants
  <2> HIDE DEF w
  <2>5. task[c] # None /\ task[c].phase # "queued" /\ task[c] \in Task
    BY HoldingIs DEF TradeInv
  <2>6. /\ x \in Task /\ x.op = task[c].op /\ x.query = task[c].query /\ x.goal = task[c].goal
        /\ x.failures = task[c].failures /\ x.phase = "asleep" /\ x.wake = w
    BY <2>3, <2>5 DEF Task
  <2>7. task' = [task EXCEPT ![c] = x]
    BY <2>1 DEF TradeInv, CallInv
  <2>8. x # None
    BY <2>6, NoneIsNoTask
  <2> HIDE DEF x
  <2>9. CallInv'
    BY <2>1, <2>4, <2>5, <2>6, <2>7, <2>8, HolderGood DEF TradeInv
  <2>10. task'[c] = x /\ \A d \in Clients : d # c => task'[d] = task[d]
    BY <2>7 DEF TradeInv, CallInv
  <2>11. ReadyInv'
    <3> SUFFICES ASSUME NEW d \in Clients, task'[d] # None
                 PROVE  /\ task'[d].phase \in {"asleep", "sent"} => ~blocked'
                        /\ task'[d].phase = "asleep" => Permits(gate', task'[d].wake)
      BY DEF ReadyInv, Permits
    <3>1. CASE d = c
      BY <2>3, <2>6, <2>10, <3>1
    <3>2. CASE d # c
      <4>1. ~ (task[d].phase \in {"asleep", "sent"})
        BY <2>10, <3>2 DEF TradeInv, CallInv, LocksMove, Holds
      <4> QED
        BY <2>10, <3>2, <4>1
    <3> QED
      BY <3>1, <3>2
  <2>12. Onward
    BY <2>5, <2>6, <2>10 DEF Onward, Pursuing
  <2> QED
    BY <2>1, <2>9, <2>11, <2>12, OnwardGood DEF TradeInv, KeptInv
<1> QED
  BY <1>1, <1>2

\* A search that has found nothing to reuse and few failures reads the catalogue.
LEMMA QueryStepGood ==
    ASSUME TradeInv, NEW c \in Clients, NEW t, MayAsk(c, t), t.op = "search",
           Untried(t.query), t.failures < FailLimit,
           streak[t.query].count <= t.failures \/ streak[t.query].misfit,
           NEW catalogue, NEW others, Rid(queue, others, c), QueryStep(c, t, catalogue, others),
           UNCHANGED <<searches, cache>>, meta' \in 0 .. MetaLife, GateInv',
           UNCHANGED <<gate, blocked>> \/ Holds(c)
    PROVE  TradeInv'
<1>1. /\ t \in Task /\ t.query \in Queries /\ t.failures \in Nat
      /\ c \in ToSet(searching) /\ c = Head(searching)
  BY TaskFields DEF MayAsk
<1>2. KeptInv' /\ \A q : Untried(q) => Untried(q)'
  BY SameKept DEF TradeInv
<1> DEFINE q == t.query
<1>3. Untried(q)'
  BY <1>2
<1>4. CASE /\ Ask(c, t, IF catalogue = 0 THEN "data" ELSE "search", << >>, others)
           /\ UNCHANGED <<failed, streak>>
  <2> DEFINE goal == IF catalogue = 0 THEN "data" ELSE "search"
  <2>1. goal \in Goal /\ << >> \in Seq(Listings)
    BY DEF Goal
  <2> HIDE DEF goal
  <2>2. Ask(c, t, goal, << >>, others)
    BY <1>4 DEF goal
  <2>3. /\ CallInv' /\ ReadyInv'
        /\ \A d \in Clients : d # c => task'[d] = task[d]
        /\ task'[c].query = t.query /\ task'[c].failures = t.failures
    BY <2>1, <2>2, AskMoves DEF TradeInv
  <2>4. PursuitInv'
    BY <1>1, <1>3, <1>4, <2>3, PursuitOfOne DEF TradeInv
  <2>5. FailedInv'
    BY <1>4, SameFailed DEF TradeInv
  <2> QED
    BY <1>2, <2>3, <2>4, <2>5 DEF TradeInv
<1>5. CASE Return(c, others) /\ Failed(t, FALSE)
  <2>1. /\ CallInv' /\ ReadyInv' /\ task'[c] = None
        /\ \A d \in Clients : d # c => task'[d] = task[d]
    BY <1>5, ReturnMoves DEF TradeInv
  <2>2. PursuitInv'
    BY <1>1, <2>1, PursuitOver DEF TradeInv, Pursuing
  <2>3. FailedInv'
    BY <1>1, <1>5, FailedGood DEF TradeInv
  <2> QED
    BY <1>2, <2>1, <2>2, <2>3 DEF TradeInv
<1> QED
  BY <1>4, <1>5 DEF QueryStep

-------------------------------------------------------------------------------
(* The steps *)

LEMMA SearchCallStep ==
    ASSUME TradeInv, NEW c \in Clients, NEW q \in Queries, SearchCall(c, q)
    PROVE  TradeInv'
<1>1. CallInv'
  BY SearchCallGood DEF TradeInv
<1>2. /\ UNCHANGED <<gate, blocked, meta, searches, cache, failed, load, streak>>
      /\ task'[c] # None => task'[c].phase = "queued"
      /\ \A d \in Clients : d # c => task'[d] = task[d]
  BY DEF SearchCall, NewTask, TradeInv, CallInv
<1>3. ReadyInv'
  BY <1>2, ReadyKept DEF TradeInv
<1>4. Onward
  BY <1>2 DEF Onward, Pursuing
<1>5. GateInv'
  BY <1>2, SameGateGood DEF TradeInv, GateInv
<1> QED
  BY <1>1, <1>2, <1>3, <1>4, <1>5, OnwardGood DEF TradeInv, KeptInv

LEMMA SearchBeginStep ==
    ASSUME TradeInv, NEW c \in Clients, task[c] # None, SearchBegin(c)
    PROVE  TradeInv'
<1> DEFINE q == task[c].query
           n == Failures(task[c].query)
           x == [task[c] EXCEPT !.failures = n]
<1>1. /\ searching # << >> /\ Head(searching) = c /\ task[c].phase = "queued"
      /\ UNCHANGED <<gate, blocked, meta, searches, cache, load>>
  BY DEF SearchBegin, Serves
<1>2. Placed(c, task[c], queue, searching) /\ IsInjective(queue) /\ queue \in Seq(Clients)
  BY LocksArePlaces DEF TradeInv, CallInv
<1>3. /\ task[c] \in Task /\ task[c].op = "search" /\ q \in Queries
      /\ c \in ToSet(searching) /\ c \notin ToSet(queue)
  BY <1>1, <1>2 DEF Placed, TradeInv, CallInv
<1>4. Rid(queue, queue, c)
  BY <1>2, <1>3, SameRids
<1>5. MayAsk(c, task[c])
  BY <1>1, <1>3 DEF MayAsk
<1>6. GateInv' /\ meta' \in 0 .. MetaLife
  BY <1>1, SameGateGood DEF TradeInv, GateInv, KeptInv
<1>7. CASE Reusable(q) # {}
  <2>1. PICK s \in Reusable(q) :
          /\ GivePage(c, task[c], Entry(s), Ids(Entry(s)), gate, FALSE, queue)
          /\ UNCHANGED <<failed, streak>>
    BY <1>7 DEF SearchBegin
  <2>2. Kept(s)
    BY DEF Reusable
  <2>3. Entry(s) \in Search
    BY <2>2, EntryIs DEF TradeInv
  <2>4. Entry(s).id \in SearchIds /\ Ids(Entry(s)) \in SUBSET Listings
    BY <2>3, SearchFields DEF Ids
  <2>5. CallInv' /\ ReadyInv' /\ Onward
    BY <1>1, <1>4, <1>5, <2>1, <2>4, GivePageMoves DEF TradeInv
  <2> QED
    BY <1>1, <1>6, <2>1, <2>5, OnwardGood
<1>8. CASE Reusable(q) = {} /\ n >= FailLimit
  <2>1. Return(c, queue) /\ UNCHANGED <<failed, streak>>
    BY <1>8 DEF SearchBegin
  <2>2. CallInv' /\ ReadyInv' /\ Onward
    BY <1>1, <1>4, <2>1, ReturnMoves DEF TradeInv
  <2> QED
    BY <1>1, <1>6, <2>1, <2>2, OnwardGood
<1>9. CASE Reusable(q) = {} /\ ~ (n >= FailLimit)
  <2>1. QueryStep(c, x, meta, queue)
    BY <1>9 DEF SearchBegin
  <2>2. n \in Nat /\ (streak[q].count <= n \/ streak[q].misfit)
    BY <1>3, FailuresIs DEF TradeInv
  <2>3. n < FailLimit
    BY <1>9, <2>2, Constants
  <2>4. Untried(q)
    BY <1>9, UnusableUntried DEF TradeInv
  <2> HIDE DEF n
  <2>5. x \in Task /\ x.op = "search" /\ x.query = q /\ x.failures = n
    BY <1>3, <2>2 DEF Task
  <2>6. MayAsk(c, x)
    BY <1>5, <2>5 DEF MayAsk
  <2> HIDE DEF x, q
  <2> QED
    BY <1>1, <1>4, <1>6, <2>1, <2>2, <2>3, <2>4, <2>5, <2>6, QueryStepGood
<1> QED
  BY <1>7, <1>8, <1>9

\* A caller without a call holds no lock, and a call other than a search needs none.
LEMMA IdleIs ==
    ASSUME CallInv, NEW c \in Clients, task[c] = None,
           NEW op \in {"page", "detail", "stats"}, NEW s \in SearchIds \cup {None}
    PROVE  /\ Rid(queue, queue, c)
           /\ MayAsk(c, NewTask(op, None, s))
           /\ NewTask(op, None, s).op = op
<1>1. queue \in Seq(Clients) /\ IsInjective(queue) /\ Placed(c, task[c], queue, searching)
  BY LocksArePlaces DEF CallInv
<1>2. c \notin ToSet(queue) /\ c \notin ToSet(searching)
  BY <1>1 DEF Placed
<1>3. Rid(queue, queue, c)
  BY <1>1, <1>2, SameRids
<1>4. << >> \in Seq(Listings) /\ "data" \in Goal
  BY DEF Goal
<1>5. NewTask(op, None, s) \in Task /\ NewTask(op, None, s).op = op
  BY <1>4 DEF NewTask, Task
<1> QED
  BY <1>2, <1>3, <1>5 DEF MayAsk

LEMMA PageCallStep ==
    ASSUME TradeInv, NEW c \in Clients, NEW s \in SearchIds, NEW ids \in SUBSET Listings,
           NEW cachedOnly, PageCall(c, s, ids, cachedOnly)
    PROVE  TradeInv'
<1> DEFINE t == NewTask("page", None, s)
<1>1. /\ task[c] = None /\ Kept(s)
      /\ UNCHANGED <<gate, blocked, meta, searches, cache, failed, load, streak>>
      /\ GivePage(c, t, Entry(s), ids, gate, cachedOnly, queue)
  BY DEF PageCall
<1>2. Rid(queue, queue, c) /\ MayAsk(c, t)
  BY <1>1, IdleIs DEF TradeInv
<1>3. Entry(s).id \in SearchIds
  BY <1>1, EntryIs DEF TradeInv
<1> HIDE DEF t
<1>4. CallInv' /\ ReadyInv' /\ Onward
  BY <1>1, <1>2, <1>3, GivePageMoves DEF TradeInv
<1>5. GateInv' /\ meta' \in 0 .. MetaLife
  BY <1>1, SameGateGood DEF TradeInv, GateInv, KeptInv
<1> QED
  BY <1>1, <1>4, <1>5, OnwardGood

\* What a call that is no search asks for, and where it stands.
LEMMA OtherAsks ==
    ASSUME CallInv, ReadyInv, NEW c \in Clients, NEW t, MayAsk(c, t), t.op # "search",
           NEW goal \in {"data", "fetch"}, NEW todo \in Seq(Listings),
           NEW others, Rid(queue, others, c), Ask(c, t, goal, todo, others),
           UNCHANGED <<gate, blocked>> \/ Holds(c)
    PROVE  CallInv' /\ ReadyInv' /\ Onward
<1>1. goal \in Goal /\ goal # "search"
  BY DEF Goal
<1> QED
  BY <1>1, AskMoves

LEMMA DetailCallStep ==
    ASSUME TradeInv, NEW c \in Clients, NEW s \in SearchIds, NEW l \in Listings,
           DetailCall(c, s, l)
    PROVE  TradeInv'
<1> DEFINE t == NewTask("detail", None, s)
<1>1. /\ task[c] = None /\ Kept(s)
      /\ UNCHANGED <<gate, blocked, meta, searches, cache, failed, load, streak>>
      /\ \/ Ask(c, t, "fetch", <<l>>, queue) \/ Ask(c, t, "data", << >>, queue)
         \/ Return(c, queue)
  BY DEF DetailCall
<1>2. Rid(queue, queue, c) /\ MayAsk(c, t) /\ t.op # "search"
  BY <1>1, IdleIs DEF TradeInv
<1> HIDE DEF t
<1>3. <<l>> \in Seq(Listings) /\ << >> \in Seq(Listings)
  OBVIOUS
<1>4. CallInv' /\ ReadyInv' /\ Onward
  BY <1>1, <1>2, <1>3, OtherAsks, ReturnMoves DEF TradeInv
<1>5. GateInv' /\ meta' \in 0 .. MetaLife
  BY <1>1, SameGateGood DEF TradeInv, GateInv, KeptInv
<1> QED
  BY <1>1, <1>4, <1>5, OnwardGood

LEMMA StatsCallStep ==
    ASSUME TradeInv, NEW c \in Clients, StatsCall(c)
    PROVE  TradeInv'
<1> DEFINE t == NewTask("stats", None, None)
<1>1. /\ task[c] = None
      /\ UNCHANGED <<gate, blocked, meta, searches, cache, failed, load, streak>>
      /\ Ask(c, t, "data", << >>, queue)
  BY DEF StatsCall
<1>2. Rid(queue, queue, c) /\ MayAsk(c, t) /\ t.op # "search" /\ << >> \in Seq(Listings)
  BY <1>1, IdleIs DEF TradeInv
<1> HIDE DEF t
<1>3. CallInv' /\ ReadyInv' /\ Onward
  BY <1>1, <1>2, OtherAsks DEF TradeInv
<1>4. GateInv' /\ meta' \in 0 .. MetaLife
  BY <1>1, SameGateGood DEF TradeInv, GateInv, KeptInv
<1> QED
  BY <1>1, <1>3, <1>4, OnwardGood

LEMMA AdmitStep ==
    ASSUME TradeInv, NEW c \in Clients, Admit(c)
    PROVE  TradeInv'
<1>1. Holds(c) /\ UNCHANGED <<gate, blocked, load>>
  BY DEF Admit
<1>2. GateInv'
  BY <1>1, SameGateGood DEF TradeInv, GateInv
<1>3. CASE blocked
  BY <1>1, <1>2, <1>3, RaiseGood DEF Admit
<1>4. CASE ~blocked
  BY <1>1, <1>2, <1>4, AttemptGood DEF Admit
<1> QED
  BY <1>3, <1>4

LEMMA SendStep ==
    ASSUME TradeInv, NEW c \in Clients, Send(c)
    PROVE  TradeInv'
<1> DEFINE x == [task[c] EXCEPT !.phase = "sent"]
<1>1. /\ Holds(c) /\ task[c].phase = "asleep" /\ task[c].wake = 0
      /\ gate' = Consumed(gate) /\ task' = [task EXCEPT ![c].phase = "sent"]
      /\ load' = load \cup {[goal |-> task[c].goal, left |-> Window[task[c].goal],
                             seen |-> FALSE]}
      /\ UNCHANGED <<blocked, meta, searches, cache, failed, queue, searching, streak>>
  BY DEF Send
<1>2. task[c] # None /\ task[c].phase # "queued" /\ task[c] \in Task
  BY <1>1, HoldingIs DEF TradeInv
<1>3. GateInv'
  <2>1. task[c].goal \in Goal
    BY <1>2, TaskFields
  <2> QED
    BY <1>1, <2>1, SendGateGood DEF TradeInv
<1>4. /\ x \in Task /\ x.op = task[c].op /\ x.query = task[c].query /\ x.goal = task[c].goal
      /\ x.failures = task[c].failures /\ x.phase = "sent" /\ x.wake = 0
  BY <1>1, <1>2 DEF Task
<1>5. task' = [task EXCEPT ![c] = x]
  BY <1>1 DEF TradeInv, CallInv
<1> HIDE DEF x
<1>6. x # None /\ x.wake <= MaxWait
  BY <1>4, NoneIsNoTask, Constants
<1>7. CallInv'
  BY <1>1, <1>2, <1>4, <1>5, <1>6, HolderGood DEF TradeInv
<1>8. task'[c] = x /\ \A d \in Clients : d # c => task'[d] = task[d]
  BY <1>5 DEF TradeInv, CallInv
<1>9. ReadyInv'
  <2> SUFFICES ASSUME NEW d \in Clients, task'[d] # None
               PROVE  /\ task'[d].phase \in {"asleep", "sent"} => ~blocked'
                      /\ task'[d].phase = "asleep" => Permits(gate', task'[d].wake)
    BY DEF ReadyInv, Permits
  <2>1. CASE d = c
    BY <1>1, <1>2, <1>4, <1>8, <2>1 DEF TradeInv, ReadyInv
  <2>2. CASE d # c
    <3>1. ~ (task[d].phase \in {"asleep", "sent"})
      BY <1>1, <1>8, <2>2 DEF TradeInv, CallInv, LocksMove, Holds
    <3> QED
      BY <1>8, <2>2, <3>1
  <2> QED
    BY <2>1, <2>2
<1>10. Onward
  BY <1>2, <1>4, <1>8 DEF Onward, Pursuing
<1> QED
  BY <1>1, <1>3, <1>7, <1>9, <1>10, OnwardGood DEF TradeInv, KeptInv

LEMMA CancelStep ==
    ASSUME TradeInv, NEW c \in Clients, Cancel(c)
    PROVE  TradeInv'
<1>1. /\ Return(c, Leave(queue, c))
      /\ UNCHANGED <<gate, blocked, meta, searches, cache, failed, load, streak>>
  BY DEF Cancel
<1>2. Rid(queue, Leave(queue, c), c)
  BY LeaveRids DEF TradeInv, CallInv, LocksMove
<1>3. CallInv' /\ ReadyInv' /\ Onward
  BY <1>1, <1>2, ReturnMoves DEF TradeInv
<1>4. GateInv' /\ meta' \in 0 .. MetaLife
  BY <1>1, SameGateGood DEF TradeInv, GateInv, KeptInv
<1> QED
  BY <1>1, <1>3, <1>4, OnwardGood

\* An answer is heard by the holder of the request lock, who has sent.
LEMMA SentIs ==
    ASSUME TradeInv, NEW c \in Clients, Holds(c), task[c].phase = "sent"
    PROVE  /\ Rid(queue, Tail(queue), c) /\ MayAsk(c, task[c])
           /\ task[c] # None /\ task[c] \in Task /\ task[c].goal \in Goal
           /\ ~blocked /\ blocked \in BOOLEAN
           /\ task[c].goal # "fetch" /\ task[c].op = "search" => Pursuing(task[c])
           /\ task[c].goal = "search" =>
                /\ task[c].op = "search" /\ task[c].query \in Queries
                /\ c \in ToSet(searching) /\ c = Head(searching)
<1>1. /\ Rid(queue, Tail(queue), c) /\ MayAsk(c, task[c]) /\ task[c].phase # "queued"
      /\ task[c] # None /\ task[c] \in Task
  BY HoldingIs DEF TradeInv
<1>2. task[c].goal \in Goal
  BY <1>1, TaskFields
<1>3. ~blocked /\ blocked \in BOOLEAN
  BY <1>1 DEF TradeInv, ReadyInv, GateInv
<1>4. task[c].goal = "search" => task[c].op = "search"
  BY <1>1 DEF TradeInv, CallInv
<1>5. task[c].op = "search" =>
        c \in ToSet(searching) /\ c = Head(searching) /\ task[c].query \in Queries
  BY <1>1, SearcherServes DEF TradeInv
<1> QED
  BY <1>1, <1>2, <1>3, <1>4, <1>5 DEF Pursuing

LEMMA UnreadableStep ==
    ASSUME TradeInv, NEW c \in Clients, Holds(c), Unreadable(c)
    PROVE  TradeInv'
<1>1. GateInv'
  BY UnreadableGateGood DEF TradeInv
<1> QED
  BY <1>1, RaiseGood DEF Unreadable

LEMMA UnansweredStep ==
    ASSUME TradeInv, NEW c \in Clients, Holds(c), task[c].phase = "sent",
           NEW h \in Headers, Unanswered(c, h)
    PROVE  TradeInv'
<1>1. Heard(c, h) /\ UNCHANGED blocked
  BY DEF Unanswered
<1>2. task[c].goal \in Goal /\ ~blocked' /\ blocked' \in BOOLEAN
  BY <1>1, SentIs
<1>3. GateInv'
  BY <1>1, <1>2, HeardGood DEF TradeInv
<1>4. CASE task[c].attempt = 0
  BY <1>2, <1>3, <1>4, AttemptGood DEF Unanswered
<1>5. CASE task[c].attempt # 0
  BY <1>3, <1>5, RaiseGood DEF Unanswered
<1> QED
  BY <1>4, <1>5

LEMMA ErrorStep ==
    ASSUME TradeInv, NEW c \in Clients, Holds(c), task[c].phase = "sent",
           NEW h \in Headers, Refused(c, h) \/ Limited(c, h) \/ Faulty(c, h)
    PROVE  TradeInv'
<1>1. task[c].goal \in Goal /\ blocked \in BOOLEAN
  BY SentIs
<1>2. CASE Refused(c, h) \/ Faulty(c, h)
  <2>1. Heard(c, h) /\ Raise(c, TRUE) /\ blocked' \in BOOLEAN
    BY <1>1, <1>2 DEF Refused, Faulty
  <2>2. GateInv'
    BY <1>1, <2>1, HeardGood DEF TradeInv
  <2> QED
    BY <2>1, <2>2, RaiseGood
<1>3. CASE Limited(c, h)
  <2>1. GateInv'
    BY <1>1, <1>3, LimitedGateGood DEF TradeInv
  <2> QED
    BY <1>3, <2>1, RaiseGood DEF Limited
<1> QED
  BY <1>2, <1>3

LEMMA DataArrivesStep ==
    ASSUME TradeInv, NEW c \in Clients, Holds(c), task[c].phase = "sent",
           NEW h \in Headers, DataArrives(c, h)
    PROVE  TradeInv'
<1>1. /\ task[c].goal = "data" /\ Heard(c, h) /\ UNCHANGED <<blocked, searches, cache>>
  BY DEF DataArrives
<1>2. /\ Rid(queue, Tail(queue), c) /\ MayAsk(c, task[c]) /\ task[c].goal \in Goal
      /\ blocked' \in BOOLEAN
      /\ task[c].op = "search" => Pursuing(task[c])
  BY <1>1, SentIs
<1>3. GateInv'
  BY <1>1, <1>2, HeardGood DEF TradeInv
<1>4. CASE /\ task[c].op = "search" /\ Ask(c, task[c], "data", << >>, Tail(queue))
           /\ UNCHANGED <<meta, failed, streak>>
  <2>1. CallInv' /\ ReadyInv' /\ Onward
    <3>1. "data" \in Goal /\ << >> \in Seq(Listings) /\ Pursuing(task[c])
      BY <1>2, <1>4 DEF Goal
    <3> QED
      BY <1>2, <1>4, <3>1, AskMoves DEF TradeInv
  <2> QED
    BY <1>1, <1>3, <1>4, <2>1, OnwardGood DEF TradeInv, KeptInv
<1>5. meta' = MetaLife => meta' \in 0 .. MetaLife
  BY Constants
<1>6. CASE /\ meta' = MetaLife /\ task[c].op = "search"
           /\ QueryStep(c, task[c], meta', Tail(queue))
  <2>1. /\ Untried(task[c].query) /\ task[c].failures < FailLimit
        /\ streak[task[c].query].count <= task[c].failures \/ streak[task[c].query].misfit
    BY <1>2, <1>6 DEF TradeInv, PursuitInv
  <2> QED
    BY <1>1, <1>2, <1>3, <1>5, <1>6, <2>1, QueryStepGood
<1>7. CASE /\ meta' = MetaLife /\ Return(c, Tail(queue)) /\ UNCHANGED <<failed, streak>>
  <2>1. CallInv' /\ ReadyInv' /\ Onward
    BY <1>2, <1>7, ReturnMoves DEF TradeInv
  <2> QED
    BY <1>1, <1>3, <1>5, <1>7, <2>1, OnwardGood
<1> QED
  BY <1>4, <1>6, <1>7 DEF DataArrives

LEMMA FoundStep ==
    ASSUME TradeInv, NEW c \in Clients, Holds(c), task[c].phase = "sent",
           NEW h \in Headers, NEW s \in Fresh, NEW ids \in SUBSET Listings, Found(c, h, s, ids)
    PROVE  TradeInv'
<1> DEFINE q == task[c].query
           row == [l \in Listings |-> IF l \in ids THEN "missing" ELSE None]
           entry == [id |-> s, age |-> 0, row |-> row]
<1>1. /\ task[c].goal = "search" /\ Heard(c, h) /\ UNCHANGED <<blocked, meta>>
      /\ searches' = Trim(Append(searches, entry))
      /\ cache' = Trim(Put(cache, [query |-> q, id |-> s]))
      /\ failed' = Drop(failed, q) /\ streak' = [streak EXCEPT ![q] = NoStreak]
      /\ GivePage(c, task[c], entry, ids, gate', FALSE, Tail(queue))
  BY DEF Found
<1>2. /\ Rid(queue, Tail(queue), c) /\ MayAsk(c, task[c]) /\ task[c].goal \in Goal
      /\ blocked' \in BOOLEAN /\ q \in Queries /\ c \in ToSet(searching) /\ c = Head(searching)
  BY <1>1, SentIs
<1>3. GateInv'
  BY <1>1, <1>2, HeardGood DEF TradeInv
<1>4. row \in [Listings -> Row \cup {None}]
  BY DEF Row
<1>5. s \in SearchIds /\ ~Kept(s) /\ entry.id = s
  BY DEF Fresh
<1> HIDE DEF row
<1>6. KeptInv'
  BY <1>1, <1>2, <1>4, <1>5, FoundKept DEF TradeInv
<1>7. FailedInv'
  <2>1. streak \in [Queries -> Streak]
    BY DEF TradeInv, FailedInv
  <2>2. /\ streak' \in [Queries -> Streak] /\ \A p \in Queries : p # q => streak'[p] = streak[p]
        /\ streak'[q] = NoStreak
    BY <1>1, <1>2, <2>1, NoStreakIs
  <2> QED
    BY <1>1, <1>2, <2>2, NoStreakIs, ForgottenGood DEF TradeInv
<1> HIDE DEF entry
<1>8. /\ CallInv' /\ ReadyInv' /\ ~Pursuing(task'[c])
      /\ \A d \in Clients : d # c => task'[d] = task[d]
  BY <1>1, <1>2, <1>5, GivePageMoves DEF TradeInv
<1>9. PursuitInv'
  BY <1>2, <1>8, PursuitOver DEF TradeInv
<1> QED
  BY <1>3, <1>6, <1>7, <1>8, <1>9 DEF TradeInv

LEMMA MisfitStep ==
    ASSUME TradeInv, NEW c \in Clients, Holds(c), task[c].phase = "sent",
           NEW h \in Headers, Misfit(c, h)
    PROVE  TradeInv'
<1> DEFINE q == task[c].query
<1>1. /\ task[c].goal = "search" /\ Heard(c, h) /\ UNCHANGED <<blocked, meta, searches, cache>>
      /\ failed' = Drop(failed, q) /\ streak' = OneMore(q, TRUE)
      /\ Return(c, Tail(queue))
  BY DEF Misfit
<1>2. /\ Rid(queue, Tail(queue), c) /\ task[c].goal \in Goal
      /\ blocked' \in BOOLEAN /\ q \in Queries /\ c \in ToSet(searching) /\ c = Head(searching)
  BY <1>1, SentIs
<1>3. GateInv'
  BY <1>1, <1>2, HeardGood DEF TradeInv
<1>4. KeptInv'
  BY <1>1, SameKept DEF TradeInv, KeptInv
<1>5. FailedInv'
  <2>1. streak \in [Queries -> Streak]
    BY DEF TradeInv, FailedInv
  <2>2. /\ OneMore(q, TRUE) \in [Queries -> Streak]
        /\ OneMore(q, TRUE)[q].misfit = (streak[q].misfit \/ TRUE)
        /\ \A p \in Queries : p # q => OneMore(q, TRUE)[p] = streak[p]
    BY <1>2, <2>1, OneMoreIs
  <2> QED
    BY <1>1, <1>2, <2>2, ForgottenGood DEF TradeInv
<1>6. /\ CallInv' /\ ReadyInv' /\ task'[c] = None
      /\ \A d \in Clients : d # c => task'[d] = task[d]
  BY <1>1, <1>2, ReturnMoves DEF TradeInv
<1>7. PursuitInv'
  BY <1>2, <1>6, PursuitOver DEF TradeInv, Pursuing
<1> QED
  BY <1>3, <1>4, <1>5, <1>6, <1>7 DEF TradeInv

LEMMA RowsArriveStep ==
    ASSUME TradeInv, NEW c \in Clients, Holds(c), task[c].phase = "sent",
           NEW h \in Headers, NEW found, RowsArrive(c, h, found)
    PROVE  TradeInv'
<1> DEFINE t == task[c]
           rest == Rest(t.todo)
<1>1. /\ t.goal = "fetch" /\ Heard(c, h) /\ UNCHANGED <<blocked, meta, cache, failed, streak>>
      /\ \/ Ask(c, t, "fetch", rest, Tail(queue))
         \/ t.op = "detail" /\ Ask(c, t, "data", << >>, Tail(queue))
         \/ Return(c, Tail(queue))
  BY DEF RowsArrive
<1>2. /\ Rid(queue, Tail(queue), c) /\ MayAsk(c, t) /\ t.goal \in Goal /\ t \in Task
      /\ blocked' \in BOOLEAN
  BY <1>1, SentIs
<1>3. GateInv'
  BY <1>1, <1>2, HeardGood DEF TradeInv
<1>4. KeptInv' /\ \A q : Untried(q) => Untried(q)'
  BY RowsKept DEF TradeInv
<1>5. FailedInv'
  BY <1>1, SameFailed DEF TradeInv
<1>6. rest \in Seq(Listings) /\ "fetch" \in Goal /\ << >> \in Seq(Listings)
  <2>1. t.todo \in Seq(Listings)
    BY <1>2, TaskFields
  <2>2. Len(t.todo) \in Nat /\ \A i \in 1 .. Len(t.todo) : t.todo[i] \in Listings
    BY <2>1
  <2>3. GroupSize + 1 >= 1 /\ GroupSize + 1 \in Nat
    BY Constants
  <2>4. \A i \in (GroupSize + 1) .. Len(t.todo) : t.todo[i] \in Listings
    BY <2>2, <2>3
  <2>5. SubSeq(t.todo, GroupSize + 1, Len(t.todo)) \in Seq(Listings)
    BY <2>1, <2>2, <2>3, <2>4, SubSeqProperties
  <2> QED
    BY <2>5 DEF Rest, Goal
<1> HIDE DEF t, rest
<1>7. CallInv' /\ ReadyInv' /\ Onward
  <2>1. CASE Ask(c, t, "fetch", rest, Tail(queue))
    BY <1>2, <1>6, <2>1, AskMoves DEF TradeInv
  <2>2. CASE t.op = "detail" /\ Ask(c, t, "data", << >>, Tail(queue))
    BY <1>2, <1>6, <2>2, OtherAsks DEF TradeInv
  <2>3. CASE Return(c, Tail(queue))
    BY <1>2, <2>3, ReturnMoves DEF TradeInv
  <2> QED
    BY <1>1, <2>1, <2>2, <2>3
<1>8. PursuitInv'
  BY <1>1, <1>4, <1>7, OnwardPursuit DEF TradeInv
<1> QED
  BY <1>3, <1>4, <1>5, <1>7, <1>8 DEF TradeInv

LEMMA AnswerStep ==
    ASSUME TradeInv, NEW c \in Clients, Answer(c)
    PROVE  TradeInv'
BY UnreadableStep, UnansweredStep, ErrorStep, DataArrivesStep, FoundStep, MisfitStep,
   RowsArriveStep DEF Answer

LEMMA LessIs == \A n \in Nat : Less(n) \in Nat /\ Less(n) <= n /\ (n > 0 => Less(n) = n - 1)
                              /\ \A m \in Nat : n <= m => Less(n) <= Less(m)
BY DEF Less

LEMMA TickStep ==
    ASSUME TradeInv, Tick
    PROVE  TradeInv'
<1>1. GateInv' /\ CallInv' /\ FailedInv'
  BY TickGateGood, WaitingGood, TickFailedGood DEF TradeInv
<1>2. KeptInv' /\ \A q : Untried(q) => Untried(q)'
  BY TickKeptGood DEF TradeInv
<1>3. /\ gate' = [until |-> Less(gate.until), next |-> Less(gate.next),
                  rule |-> [p \in Goal |-> IF gate.rule[p].reset <= 1 THEN NoRule
                                           ELSE [gate.rule[p] EXCEPT !.reset = @ - 1]]]
      /\ task' = [c \in Clients |-> IF task[c] = None THEN None
                                    ELSE [task[c] EXCEPT !.wake = Less(@)]]
      /\ streak' = [q \in Queries |-> IF streak[q].left <= 1 THEN NoStreak
                                      ELSE [streak[q] EXCEPT !.left = @ - 1]]
      /\ UNCHANGED blocked
  BY DEF Tick
<1>4. ASSUME NEW c \in Clients, task'[c] # None
      PROVE  /\ task[c] # None /\ task[c] \in Task /\ task'[c].phase = task[c].phase
             /\ task'[c].op = task[c].op /\ task'[c].goal = task[c].goal
             /\ task'[c].query = task[c].query /\ task'[c].failures = task[c].failures
             /\ task'[c].wake = Less(task[c].wake)
  <2>1. task[c] # None /\ task'[c] = [task[c] EXCEPT !.wake = Less(task[c].wake)]
    BY <1>3, <1>4
  <2>2. task[c] \in Task
    BY <2>1 DEF TradeInv, CallInv
  <2> QED
    BY <2>1, <2>2 DEF Task
<1>5. ASSUME NEW n \in Nat, Permits(gate, n) PROVE Permits(gate', Less(n))
  <2>1. gate \in GateType
    BY DEF TradeInv, GateInv
  <2>2. /\ gate.until \in Nat
        /\ \A p \in Goal : gate.rule[p] \in [used : Nat, reset : Nat]
                           /\ gate.rule[p].used \in Nat /\ gate.rule[p].reset \in Nat
    BY <2>1, GateFields
  <2>3. gate'.until = Less(gate.until) /\ gate'.until <= Less(n)
    BY <1>3, <1>5, <2>2, LessIs DEF Permits
  <2>4. ASSUME NEW p \in Goal, gate'.rule[p].used >= Cap[p]
        PROVE  gate'.rule[p].reset <= Less(n)
    <3>1. gate'.rule[p] = IF gate.rule[p].reset <= 1 THEN NoRule
                          ELSE [gate.rule[p] EXCEPT !.reset = @ - 1]
      BY <1>3
    <3>2. CASE gate.rule[p].reset <= 1
      BY <2>4, <3>1, <3>2, Constants DEF NoRule
    <3>3. CASE ~ (gate.rule[p].reset <= 1)
      <4>1. gate'.rule[p].used = gate.rule[p].used /\ gate'.rule[p].reset = gate.rule[p].reset - 1
        BY <2>2, <3>1, <3>3
      <4>2. gate.rule[p].reset <= n
        BY <1>5, <2>4, <4>1 DEF Permits
      <4> QED
        BY <2>2, <3>3, <4>1, <4>2 DEF Less
    <3> QED
      BY <3>2, <3>3
  <2> QED
    BY <2>3, <2>4 DEF Permits
<1>6. ReadyInv'
  <2> SUFFICES ASSUME NEW c \in Clients, task'[c] # None
               PROVE  /\ task'[c].phase \in {"asleep", "sent"} => ~blocked'
                      /\ task'[c].phase = "asleep" => Permits(gate', task'[c].wake)
    BY DEF ReadyInv, Permits
  <2>1. task[c].wake \in Nat
    BY <1>4, TaskFields
  <2> QED
    BY <1>3, <1>4, <1>5, <2>1 DEF TradeInv, ReadyInv
<1>7. Onward
  BY <1>4 DEF Onward, Pursuing
<1>8. \A q \in Queries : \/ streak'[q].count = streak[q].count /\ streak'[q].misfit = streak[q].misfit
                         \/ streak'[q].count = 0
  <2> SUFFICES ASSUME NEW q \in Queries
               PROVE  \/ streak'[q].count = streak[q].count /\ streak'[q].misfit = streak[q].misfit
                      \/ streak'[q].count = 0
    OBVIOUS
  <2>1. streak[q] \in Streak
    BY DEF TradeInv, FailedInv
  <2>2. streak'[q] = NoStreak \/ streak'[q] = [streak[q] EXCEPT !.left = @ - 1]
    BY <1>3
  <2> QED
    BY <2>1, <2>2, NoStreakIs DEF Streak
<1>9. PursuitInv'
  BY <1>2, <1>7, <1>8, OnwardPursuit DEF TradeInv
<1> QED
  BY <1>1, <1>2, <1>6, <1>9 DEF TradeInv

-------------------------------------------------------------------------------
(* The invariant holds *)

LEMMA TradeInit ==
    ASSUME Init
    PROVE  TradeInv
<1>1. \A c \in Clients : task[c] = None
  BY DEF Init
<1>2. GateInv
  <2>1. gate \in GateType
    BY Constants DEF Init, NoRule, GateType
  <2>2. \A p : Seen(p) = {}
    BY DEF Init, Seen
  <2>3. \A p \in Goal : gate.rule[p].used = 0
    BY DEF Init, NoRule
  <2>4. load = {} /\ blocked = FALSE /\ IsFiniteSet(load)
    BY FS_EmptySet DEF Init
  <2>5. \A p \in Goal : Cardinality(Seen(p)) = 0
    BY <2>2, FS_EmptySet
  <2>6. \A p \in Goal : Cardinality(Seen(p)) <= gate.rule[p].used
    BY <2>3, <2>5
  <2>7. \A p \in Goal : \A r \in Seen(p) : r.left <= gate.rule[p].reset
    BY <2>2
  <2>8. /\ load \subseteq [goal : Goal, left : Nat, seen : BOOLEAN]
        /\ \A r \in load : 1 <= r.left /\ r.left <= Window[r.goal]
    BY <2>4
  <2> QED
    BY <2>1, <2>4, <2>6, <2>7, <2>8 DEF GateInv
<1>3. CallInv
  <2>1. LocksMove
    BY <1>1 DEF Init, LocksMove, IsInjective, ToSet
  <2> QED
    BY <1>1, <2>1 DEF Init, CallInv
<1>4. ReadyInv /\ PursuitInv
  BY <1>1 DEF ReadyInv, PursuitInv, Pursuing
<1>5. KeptInv
  BY Constants DEF Init, KeptInv
<1>6. FailedInv
  <2>1. \A q \in Queries : streak[q] = NoStreak
    BY DEF Init
  <2>2. \A q \in Queries : Remembered(q)
    BY <2>1, NoStreakIs DEF Remembered
  <2> QED
    BY <2>1, <2>2, NoStreakIs, Constants DEF Init, FailedInv
<1> QED
  BY <1>2, <1>3, <1>4, <1>5, <1>6 DEF TradeInv

LEMMA TradeStep ==
    ASSUME TradeInv, [Next]_vars
    PROVE  TradeInv'
<1>1. ASSUME NEW c \in Clients, Call(c) PROVE TradeInv'
  BY <1>1, SearchCallStep, PageCallStep, DetailCallStep, StatsCallStep DEF Call
<1>2. ASSUME NEW c \in Clients, SearchBegin(c) PROVE TradeInv'
  <2>1. task[c] # None
    <3>1. searching # << >> /\ Head(searching) = c /\ searching \in Seq(Clients)
      BY <1>2 DEF SearchBegin, Serves, TradeInv, CallInv
    <3>2. c \in ToSet(searching)
      BY <3>1, HeadIn
    <3> QED
      BY <3>2 DEF TradeInv, CallInv, LocksMove
  <2> QED
    BY <1>2, <2>1, SearchBeginStep
<1>3. ASSUME NEW c \in Clients, Admit(c) \/ Send(c) \/ Answer(c) \/ Cancel(c) PROVE TradeInv'
  BY <1>3, AdmitStep, SendStep, AnswerStep, CancelStep
<1>4. CASE Tick
  BY <1>4, TickStep
<1>5. CASE UNCHANGED vars
  <2>1. /\ UNCHANGED <<gate, blocked, meta, searches, cache, failed, queue, searching, task>>
        /\ UNCHANGED <<load, streak>>
    BY <1>5 DEF vars
  <2>2. GateInv'
    BY <2>1, SameGateGood DEF TradeInv, GateInv
  <2>3. CallInv'
    BY <2>1, LocksArePlaces, LocksArePlacesNext DEF TradeInv, CallInv
  <2>4. ReadyInv'
    BY <2>1 DEF TradeInv, ReadyInv, Permits
  <2>5. Onward
    BY <2>1 DEF Onward
  <2> QED
    BY <2>1, <2>2, <2>3, <2>4, <2>5, OnwardGood DEF TradeInv, KeptInv
<1> QED
  BY <1>1, <1>2, <1>3, <1>4, <1>5 DEF Next

\* The inductive invariant of the trade client, for any number of calls, queries
\* and listings and for any limits.
THEOREM TradeInvariant == Spec => []TradeInv
<1>1. Init => TradeInv
  BY TradeInit
<1>2. TradeInv /\ [Next]_vars => TradeInv'
  BY TradeStep
<1> QED
  BY <1>1, <1>2, PTL DEF Spec

\* Every list and counter of the trade client stays in its bounds: at most MaxKept
\* searches, cached queries and failures, and every suspended call well formed.
THEOREM TradeTypes == Spec => []TypeOK
<1>1. TradeInv => TypeOK
  <2> SUFFICES ASSUME TradeInv PROVE TypeOK
    OBVIOUS
  <2>1. /\ gate \in [until : Nat, next : 0 .. Interval, rule : [Goal -> [used : Nat, reset : Nat]]]
        /\ blocked \in BOOLEAN /\ load \subseteq [goal : Goal, left : Nat, seen : BOOLEAN]
    BY DEF TradeInv, GateInv, GateType
  <2>2. /\ queue \in Seq(Clients) /\ searching \in Seq(Clients)
        /\ task \in [Clients -> Task \cup {None}]
    BY DEF TradeInv, CallInv
  <2>3. /\ meta \in 0 .. MetaLife /\ searches \in Seq(Search) /\ Len(searches) <= MaxKept
        /\ cache \in Seq([query : Queries, id : SearchIds]) /\ Len(cache) <= MaxKept
    BY DEF TradeInv, KeptInv
  <2>4. /\ failed \in Seq([query : Queries, count : Nat, left : 0 .. FailLife])
        /\ Len(failed) <= MaxKept /\ streak \in [Queries -> Streak]
    BY DEF TradeInv, FailedInv
  <2> QED
    BY <2>1, <2>2, <2>3, <2>4 DEF TypeOK
<1> QED
  BY <1>1, TradeInvariant, PTL

\* Nobody waits for a lock whose holder has nothing to do, and no call is in a
\* line twice, however calls queue, fail, return and are cancelled.
THEOREM LocksAlwaysMove == Spec => []LocksMove
<1>1. TradeInv => LocksMove
  BY DEF TradeInv, CallInv
<1> QED
  BY <1>1, TradeInvariant, PTL

-------------------------------------------------------------------------------
(* What is sent *)

\* Only Send sends.
LEMMA OnlySend ==
    ASSUME TradeInv, [Next]_vars, NEW c \in Clients, Sending(c)
    PROVE  Send(c)
<1>1. task[c] # None /\ task[c].phase = "asleep" /\ task'[c] # None /\ task'[c].phase = "sent"
  BY DEF Sending
<1>2. Holds(c) /\ task \in [Clients -> Task \cup {None}]
  BY <1>1 DEF TradeInv, CallInv, LocksMove
<1>3. \A d \in Clients : Holds(d) => d = c
  BY <1>2 DEF Holds
<1>4. task'[c] # task[c]
  BY <1>1
<1>5. ASSUME NEW d \in Clients, d # c, NEW others, Return(d, others) PROVE FALSE
  BY <1>2, <1>4, <1>5 DEF Return
<1>6. ASSUME NEW d \in Clients, d # c, NEW t, NEW goal, NEW todo, NEW others,
             Ask(d, t, goal, todo, others)
      PROVE  FALSE
  BY <1>2, <1>4, <1>6 DEF Ask
<1>7. ASSUME NEW d \in Clients, d # c, NEW t, NEW entry, NEW ids, NEW g, NEW cachedOnly,
             NEW others, GivePage(d, t, entry, ids, g, cachedOnly, others)
      PROVE  FALSE
  BY <1>5, <1>6, <1>7 DEF GivePage
<1>8. ASSUME NEW d \in Clients, Call(d) PROVE FALSE
  <2>1. task[d] = None
    BY <1>8 DEF Call, SearchCall, PageCall, DetailCall, StatsCall
  <2>2. d # c
    BY <1>1, <2>1
  <2>3. ASSUME NEW q, SearchCall(d, q) PROVE FALSE
    BY <1>2, <1>4, <2>2, <2>3 DEF SearchCall
  <2>4. ASSUME NEW s, NEW ids, NEW cachedOnly, PageCall(d, s, ids, cachedOnly) PROVE FALSE
    BY <1>7, <2>2, <2>4 DEF PageCall
  <2>5. ASSUME NEW s, NEW l, DetailCall(d, s, l) PROVE FALSE
    BY <1>5, <1>6, <2>2, <2>5 DEF DetailCall
  <2>6. ASSUME StatsCall(d) PROVE FALSE
    BY <1>6, <2>2, <2>6 DEF StatsCall
  <2> QED
    BY <1>8, <2>3, <2>4, <2>5, <2>6 DEF Call
<1>9. ASSUME NEW d \in Clients, SearchBegin(d) PROVE FALSE
  <2>1. d # c
    BY <1>1, <1>9 DEF SearchBegin
  <2> QED
    BY <1>5, <1>6, <1>7, <1>9, <2>1 DEF SearchBegin, QueryStep
<1>10. ASSUME NEW d \in Clients, Admit(d) \/ Answer(d) PROVE FALSE
  BY <1>1, <1>3, <1>10 DEF Admit, Answer
<1>11. ASSUME NEW d \in Clients, Cancel(d) PROVE FALSE
  <2>1. Return(d, Leave(queue, d))
    BY <1>11 DEF Cancel
  <2>2. d = c
    BY <1>5, <2>1
  <2> QED
    BY <1>1, <1>2, <2>1, <2>2 DEF Return
<1>12. ~Tick
  <2> SUFFICES ASSUME Tick PROVE FALSE
    OBVIOUS
  <2>1. task'[c] = [task[c] EXCEPT !.wake = Less(@)] /\ task[c] \in Task
    BY <1>1, <1>2 DEF Tick
  <2> QED
    BY <1>1, <2>1 DEF Task
<1>13. ~UNCHANGED vars
  BY <1>4 DEF vars
<1>14. ASSUME NEW d \in Clients, Send(d) PROVE Send(c)
  BY <1>3, <1>14 DEF Send
<1> QED
  BY <1>8, <1>9, <1>10, <1>11, <1>12, <1>13, <1>14 DEF Next

\* The site's requests of a kind that have all been shown to the client are fewer
\* than its policy allows, when the gate lets a request pass.
LEMMA AllowanceLeft ==
    ASSUME GateInv, NEW p \in Goal, Permits(gate, 0), \A r \in Counted(p) : r.seen
    PROVE  Cardinality(Counted(p)) < Cap[p]
<1>1. Counted(p) = Seen(p)
  BY DEF Counted, Seen
<1>2. /\ Cardinality(Seen(p)) \in Nat /\ Cardinality(Seen(p)) <= gate.rule[p].used
      /\ Seen(p) \in SUBSET load
  BY LoadTyped DEF GateInv
<1>3. gate \in GateType
  BY DEF GateInv
<1>4. gate.rule[p].used \in Nat /\ gate.rule[p].reset \in Nat /\ Cap[p] \in Nat /\ Cap[p] >= 1
  BY <1>3, GateFields, Constants
<1>5. CASE gate.rule[p].used < Cap[p]
  BY <1>1, <1>2, <1>4, <1>5
<1>6. CASE ~ (gate.rule[p].used < Cap[p])
  <2>1. gate.rule[p].reset = 0
    BY <1>4, <1>6 DEF Permits
  <2>2. \A r \in Seen(p) : r.left <= 0 /\ 1 <= r.left /\ r.left \in Nat
    BY <1>2, <2>1, LoadTyped DEF GateInv
  <2>3. Seen(p) = {}
    BY <2>2
  <2> QED
    BY <1>1, <1>4, <2>3, FS_EmptySet
<1> QED
  BY <1>5, <1>6

\* What holds whenever a call sends: the site has not refused access or asked for a
\* pause, and the policy, as far as the client has seen it, allows one more.
THEOREM TradeSendsPermitted == Spec => SendsPermitted
<1>1. TradeInv /\ [Next]_vars =>
        [\A c \in Clients : Sending(c) => ~blocked /\ gate.until = 0]_vars
  <2> SUFFICES ASSUME TradeInv, [Next]_vars, NEW c \in Clients, Sending(c)
               PROVE  ~blocked /\ gate.until = 0
    OBVIOUS
  <2>1. Send(c) /\ task[c] # None /\ task[c].phase = "asleep"
    BY OnlySend DEF Sending
  <2>2. ~blocked /\ Permits(gate, 0)
    BY <2>1 DEF Send, TradeInv, ReadyInv
  <2>3. gate.until \in Nat /\ gate.until <= 0
    BY <2>2, GateFields DEF Permits, TradeInv, GateInv
  <2> QED
    BY <2>2, <2>3
<1>2. TradeInv /\ [Next]_vars =>
        [\A c \in Clients : Sending(c) =>
           LET p == task[c].goal
           IN  (\A r \in Counted(p) : r.seen) => Cardinality(Counted(p)) < Cap[p]]_vars
  <2> SUFFICES ASSUME TradeInv, [Next]_vars, NEW c \in Clients, Sending(c),
                      \A r \in Counted(task[c].goal) : r.seen
               PROVE  Cardinality(Counted(task[c].goal)) < Cap[task[c].goal]
    OBVIOUS
  <2>1. Send(c) /\ task[c] # None /\ task[c].phase = "asleep"
    BY OnlySend DEF Sending
  <2>2. Permits(gate, 0)
    BY <2>1 DEF Send, TradeInv, ReadyInv
  <2>3. task[c].goal \in Goal
    BY <2>1, TaskFields DEF TradeInv, CallInv
  <2> QED
    BY <2>2, <2>3, AllowanceLeft DEF TradeInv
<1> QED
  BY <1>1, <1>2, TradeInvariant, PTL DEF Spec, SendsPermitted, StopsWhenTold, AllowanceKept

\* What holds whenever a search is sent: no young result of it is retained, and the
\* requests for it have not failed FailLimit times in a row.
THEOREM TradeSearchesSpared == Spec => SearchesSpared
<1>1. TradeInv /\ [Next]_vars =>
        [\A c \in Clients : Sending(c) /\ task[c].goal = "search" =>
           ~ \E i \in DOMAIN searches :
               /\ [query |-> task[c].query, id |-> searches[i].id] \in ToSet(cache)
               /\ searches[i].age < CacheLife]_vars
  <2> SUFFICES ASSUME TradeInv, [Next]_vars, NEW c \in Clients, Sending(c),
                      task[c].goal = "search", NEW i \in DOMAIN searches,
                      [query |-> task[c].query, id |-> searches[i].id] \in ToSet(cache)
               PROVE  ~ (searches[i].age < CacheLife)
    OBVIOUS
  <2>1. Pursuing(task[c])
    BY DEF Sending, Pursuing, TradeInv, CallInv
  <2>2. searches[i].age >= CacheLife
    BY <2>1 DEF TradeInv, PursuitInv, Untried
  <2>3. searches[i].age \in Nat /\ CacheLife \in Nat
    <3>1. searches[i] \in Search
      BY InSet DEF TradeInv, KeptInv
    <3> QED
      BY <3>1, SearchFields, Constants
  <2> QED
    BY <2>2, <2>3
<1>2. TradeInv /\ [Next]_vars =>
        [\A c \in Clients :
           Sending(c) /\ task[c].goal = "search" /\ task[c].attempt = 0 =>
             \/ streak[task[c].query].count < FailLimit
             \/ streak[task[c].query].misfit]_vars
  <2> SUFFICES ASSUME TradeInv, [Next]_vars, NEW c \in Clients, Sending(c),
                      task[c].goal = "search"
               PROVE  \/ streak[task[c].query].count < FailLimit
                      \/ streak[task[c].query].misfit
    OBVIOUS
  <2>1. Pursuing(task[c]) /\ task[c] \in Task /\ task[c].query \in Queries
    BY DEF Sending, Pursuing, TradeInv, CallInv
  <2>2. /\ task[c].failures < FailLimit
        /\ \/ streak[task[c].query].count <= task[c].failures
           \/ streak[task[c].query].misfit
    BY <2>1 DEF TradeInv, PursuitInv
  <2>3. /\ streak[task[c].query].count \in Nat /\ task[c].failures \in Nat /\ FailLimit \in Nat
    <3>1. streak[task[c].query] \in Streak
      BY <2>1 DEF TradeInv, FailedInv
    <3> QED
      BY <2>1, <3>1, StreakFields, TaskFields, Constants
  <2> QED
    BY <2>2, <2>3
<1> QED
  BY <1>1, <1>2, TradeInvariant, PTL DEF Spec, SearchesSpared, SearchOnce, FailuresBounded

================================================================================
