------------------------------ MODULE ListsProofs ------------------------------
(* Sums over lists of every length, what is kept of them, and searches in       *)
(* rounds. The induction is by the least number for which a claim fails: a      *)
(* well-founded order has one, and a set can be given to the theorem that says  *)
(* so where a predicate could not.                                              *)
EXTENDS Lists, TLAPS, WellFoundedInduction, FiniteSetTheorems

\* A set of naturals that is not empty has a least element.
LEMMA LeastNatural ==
    ASSUME NEW T \in SUBSET Nat, T # {}
    PROVE  \E m \in T : \A k \in T : m <= k
<1> DEFINE R == OpToRel(<, Nat)
<1>1. IsWellFoundedOn(R, Nat)
  BY NatLessThanWellFounded
<1>2. \A x, y \in Nat : x < y => <<x, y>> \in R
  BY DEF OpToRel
<1> HIDE DEF R
<1>3. PICK m \in T : \A k \in T : <<k, m>> \notin R
  BY <1>1, WFMin
<1>4. ASSUME NEW k \in T PROVE m <= k
  <2>1. m \in Nat /\ k \in Nat /\ ~ (k < m)
    BY <1>2, <1>3
  <2> QED
    BY <2>1
<1> QED
  BY <1>4

\* Induction, for the naturals of which a claim holds.
LEMMA NaturalsIn ==
    ASSUME NEW S, 0 \in S, \A n \in Nat : n \in S => n + 1 \in S
    PROVE  Nat \subseteq S
<1> DEFINE T == Nat \ S
<1> SUFFICES ASSUME T # {} PROVE FALSE
  OBVIOUS
<1>1. PICK m \in T : \A k \in T : m <= k
  BY LeastNatural
<1>2. m # 0 /\ m \in Nat /\ m - 1 \in Nat
  BY <1>1
<1>3. m - 1 \in S
  BY <1>1, <1>2
<1> QED
  BY <1>2, <1>3

-------------------------------------------------------------------------------
(* The function of partial sums. *)

IsRunning(f, base, amounts, len) ==
    f = [n \in 0 .. len |-> IF n = 0 THEN base ELSE f[n - 1] + amounts[n]]

LEMMA RunningExists ==
    ASSUME NEW amounts \in Seq(Int), NEW base \in Int
    PROVE  \E f \in [0 .. Len(amounts) -> Int] : IsRunning(f, base, amounts, Len(amounts))
<1> DEFINE S == {l \in Nat : l <= Len(amounts) =>
                               \E f \in [0 .. l -> Int] : IsRunning(f, base, amounts, l)}
<1>1. 0 \in S
  <2> DEFINE f == [n \in 0 .. 0 |-> base]
  <2>1. f \in [0 .. 0 -> Int] /\ IsRunning(f, base, amounts, 0)
    BY DEF IsRunning
  <2> QED
    BY <2>1
<1>2. ASSUME NEW l \in Nat, l \in S PROVE l + 1 \in S
  <2>1. ASSUME l + 1 <= Len(amounts)
        PROVE  \E f \in [0 .. l + 1 -> Int] : IsRunning(f, base, amounts, l + 1)
    <3>1. PICK g \in [0 .. l -> Int] : IsRunning(g, base, amounts, l)
      BY <1>2, <2>1
    <3> DEFINE f == [n \in 0 .. l + 1 |-> IF n = l + 1 THEN g[l] + amounts[l + 1] ELSE g[n]]
    <3>2. f \in [0 .. l + 1 -> Int]
      BY <2>1, <3>1
    <3>3. ASSUME NEW n \in 0 .. l + 1
          PROVE  f[n] = IF n = 0 THEN base ELSE f[n - 1] + amounts[n]
      <4>1. CASE n = l + 1
        BY <4>1
      <4>2. CASE n # l + 1
        BY <3>1, <4>2 DEF IsRunning
      <4> QED
        BY <4>1, <4>2
    <3>4. IsRunning(f, base, amounts, l + 1)
      BY <3>3 DEF IsRunning
    <3> QED
      BY <3>2, <3>4
  <2> QED
    BY <2>1
<1> HIDE DEF S
<1>3. Len(amounts) \in S
  BY <1>1, <1>2, NaturalsIn, SMTT(60)
<1> QED
  BY <1>3 DEF S

\* Two running sums agree as far as their amounts do.
Adds(f, base, amounts, len) ==
    \A n \in 0 .. len : f[n] = IF n = 0 THEN base ELSE f[n - 1] + amounts[n]

LEMMA RunningAgree ==
    ASSUME NEW base \in Int, NEW len \in Nat, NEW v, NEW w, NEW f, NEW g,
           Adds(f, base, v, len), Adds(g, base, w, len),
           \A i \in 1 .. len : v[i] = w[i]
    PROVE  \A n \in 0 .. len : f[n] = g[n]
<1> DEFINE S == {n \in Nat : n <= len => f[n] = g[n]}
<1>1. 0 \in S
  BY DEF Adds
<1>2. ASSUME NEW n \in Nat, n \in S PROVE n + 1 \in S
  <2>1. ASSUME n + 1 <= len PROVE f[n + 1] = g[n + 1]
    <3>1. f[n + 1] = f[n] + v[n + 1] /\ g[n + 1] = g[n] + w[n + 1]
      BY <2>1 DEF Adds
    <3> QED
      BY <1>2, <2>1, <3>1
  <2> QED
    BY <2>1
<1> HIDE DEF S
<1>3. Nat \subseteq S
  BY <1>1, <1>2, NaturalsIn
<1> QED
  BY <1>3 DEF S

\* What Total chooses is a running sum.
LEMMA TotalRunning ==
    ASSUME NEW amounts \in Seq(Int), NEW base \in Int
    PROVE  \E f \in [0 .. Len(amounts) -> Int] :
             IsRunning(f, base, amounts, Len(amounts)) /\ Total(base, amounts) = f[Len(amounts)]
<1> DEFINE F == CHOOSE f : IsRunning(f, base, amounts, Len(amounts))
<1>1. PICK g \in [0 .. Len(amounts) -> Int] : IsRunning(g, base, amounts, Len(amounts))
  BY RunningExists
<1>2. IsRunning(F, base, amounts, Len(amounts))
  BY <1>1
<1>3. Total(base, amounts) = F[Len(amounts)]
  BY DEF Total, IsRunning
<1> HIDE DEF F
<1>4. \A n \in 0 .. Len(amounts) : F[n] = g[n]
  <2>1. Adds(F, base, amounts, Len(amounts)) /\ Adds(g, base, amounts, Len(amounts))
    BY <1>1, <1>2 DEF IsRunning, Adds
  <2> QED
    BY <2>1, RunningAgree
<1>5. F \in [0 .. Len(amounts) -> Int]
  BY <1>2, <1>4 DEF IsRunning
<1> QED
  BY <1>2, <1>3, <1>5

LEMMA TotalType ==
    ASSUME NEW amounts \in Seq(Int), NEW base \in Int
    PROVE  Total(base, amounts) \in Int
<1>1. PICK f \in [0 .. Len(amounts) -> Int] : Total(base, amounts) = f[Len(amounts)]
  BY TotalRunning
<1> QED
  BY <1>1

\* The sum of no amounts, and of one more.
LEMMA TotalEmpty ==
    ASSUME NEW base \in Int
    PROVE  Total(base, << >>) = base
<1>1. << >> \in Seq(Int) /\ Len(<< >>) = 0
  OBVIOUS
<1>2. PICK f \in [0 .. 0 -> Int] : IsRunning(f, base, << >>, 0) /\ Total(base, << >>) = f[0]
  BY <1>1, TotalRunning
<1> QED
  BY <1>2 DEF IsRunning

LEMMA TotalAppend ==
    ASSUME NEW amounts \in Seq(Int), NEW base \in Int, NEW x \in Int
    PROVE  Total(base, Append(amounts, x)) = Total(base, amounts) + x
<1> DEFINE longer == Append(amounts, x)
           len == Len(amounts)
<1>1. /\ longer \in Seq(Int) /\ Len(longer) = len + 1 /\ len \in Nat
      /\ longer[len + 1] = x /\ \A i \in 1 .. len : longer[i] = amounts[i]
  OBVIOUS
<1>2. PICK f \in [0 .. len -> Int] :
        IsRunning(f, base, amounts, len) /\ Total(base, amounts) = f[len]
  BY TotalRunning
<1> HIDE DEF longer
<1>3. PICK g \in [0 .. len + 1 -> Int] :
        IsRunning(g, base, longer, len + 1) /\ Total(base, longer) = g[len + 1]
  BY <1>1, TotalRunning
<1>4. \A n \in 0 .. len : f[n] = g[n]
  <2>1. \A i \in 1 .. len : amounts[i] = longer[i]
    BY <1>1
  <2>2. len \in Nat
    BY <1>1
  <2> HIDE DEF len
  <2>3. Adds(f, base, amounts, len)
    BY <1>2, <2>2 DEF IsRunning, Adds
  <2>4. Adds(g, base, longer, len)
    BY <1>3, <2>2, SMTT(60) DEF IsRunning, Adds
  <2> QED
    BY ONLY <2>1, <2>2, <2>3, <2>4, RunningAgree, SMTT(60)
<1>5. g[len + 1] = g[len] + longer[len + 1]
  BY <1>1, <1>3 DEF IsRunning
<1> QED
  BY <1>1, <1>2, <1>3, <1>4, <1>5, SMTT(60) DEF longer

-------------------------------------------------------------------------------
(* The places that are kept *)

IsPlacing(f, kept, len) ==
    f = [n \in 0 .. len |->
          IF n = 0 THEN << >> ELSE IF n \in kept THEN Append(f[n - 1], n) ELSE f[n - 1]]

LEMMA PlacingExists ==
    ASSUME NEW kept, NEW len \in Nat
    PROVE  \E f \in [0 .. len -> Seq(Nat)] : IsPlacing(f, kept, len)
<1> DEFINE S == {l \in Nat : \E f \in [0 .. l -> Seq(Nat)] : IsPlacing(f, kept, l)}
<1>1. 0 \in S
  <2> DEFINE f == [n \in 0 .. 0 |-> << >>]
  <2>1. f \in [0 .. 0 -> Seq(Nat)] /\ IsPlacing(f, kept, 0)
    BY DEF IsPlacing
  <2> QED
    BY <2>1
<1>2. ASSUME NEW l \in Nat, l \in S PROVE l + 1 \in S
  <2>1. PICK g \in [0 .. l -> Seq(Nat)] : IsPlacing(g, kept, l)
    BY <1>2
  <2> DEFINE last == IF l + 1 \in kept THEN Append(g[l], l + 1) ELSE g[l]
             f == [n \in 0 .. l + 1 |-> IF n = l + 1 THEN last ELSE g[n]]
  <2>2. g[l] \in Seq(Nat) /\ last \in Seq(Nat)
    BY <2>1
  <2> HIDE DEF last
  <2>3. f \in [0 .. l + 1 -> Seq(Nat)]
    BY <2>1, <2>2
  <2>4. ASSUME NEW n \in 0 .. l + 1
        PROVE  f[n] = IF n = 0 THEN << >> ELSE IF n \in kept THEN Append(f[n - 1], n) ELSE f[n - 1]
    <3>1. CASE n = l + 1
      BY <3>1 DEF last
    <3>2. CASE n # l + 1
      <4>1. n \in 0 .. l /\ f[n] = g[n] /\ (n # 0 => n - 1 \in 0 .. l + 1 /\ f[n - 1] = g[n - 1])
        BY <3>2
      <4>2. g[n] = IF n = 0 THEN << >> ELSE IF n \in kept THEN Append(g[n - 1], n) ELSE g[n - 1]
        BY <2>1, <4>1 DEF IsPlacing
      <4> QED
        BY <4>1, <4>2
    <3> QED
      BY <3>1, <3>2
  <2>5. IsPlacing(f, kept, l + 1)
    BY <2>4 DEF IsPlacing
  <2> QED
    BY <2>3, <2>5
<1> HIDE DEF S
<1>3. len \in S
  BY <1>1, <1>2, NaturalsIn, SMTT(60)
<1> QED
  BY <1>3 DEF S

\* What Places chooses is such a function, and two of them agree.
PlacesTo(f, kept, len) ==
    \A n \in 0 .. len :
      f[n] = IF n = 0 THEN << >> ELSE IF n \in kept THEN Append(f[n - 1], n) ELSE f[n - 1]

LEMMA PlacingAgree ==
    ASSUME NEW kept, NEW len \in Nat, NEW f, NEW g, PlacesTo(f, kept, len), PlacesTo(g, kept, len)
    PROVE  \A n \in 0 .. len : f[n] = g[n]
<1> DEFINE S == {n \in Nat : n <= len => f[n] = g[n]}
<1>1. 0 \in S
  BY DEF PlacesTo
<1>2. ASSUME NEW n \in Nat, n \in S PROVE n + 1 \in S
  <2>1. ASSUME n + 1 <= len PROVE f[n + 1] = g[n + 1]
    <3>1. /\ f[n + 1] = IF n + 1 \in kept THEN Append(f[n], n + 1) ELSE f[n]
          /\ g[n + 1] = IF n + 1 \in kept THEN Append(g[n], n + 1) ELSE g[n]
      BY <2>1 DEF PlacesTo
    <3> QED
      BY <1>2, <2>1, <3>1
  <2> QED
    BY <2>1
<1> HIDE DEF S
<1>3. Nat \subseteq S
  BY <1>1, <1>2, NaturalsIn
<1> QED
  BY <1>3 DEF S

LEMMA PlacesPlacing ==
    ASSUME NEW kept, NEW len \in Nat
    PROVE  \E f : f[len] \in Seq(Nat) /\ PlacesTo(f, kept, len) /\ Places(len, kept) = f[len]
<1> DEFINE F == CHOOSE f : IsPlacing(f, kept, len)
<1>1. PICK g \in [0 .. len -> Seq(Nat)] : IsPlacing(g, kept, len)
  BY PlacingExists
<1>2. IsPlacing(F, kept, len)
  BY <1>1
<1>3. Places(len, kept) = F[len]
  BY DEF Places, IsPlacing
<1> HIDE DEF F
<1>4. PlacesTo(F, kept, len) /\ PlacesTo(g, kept, len)
  BY <1>1, <1>2 DEF IsPlacing, PlacesTo
<1>5. F[len] = g[len]
  BY <1>4, PlacingAgree
<1>6. g[len] \in Seq(Nat)
  BY <1>1
<1> QED
  BY <1>3, <1>4, <1>5, <1>6

\* One number more.
LEMMA PlacesStep ==
    ASSUME NEW kept, NEW len \in Nat
    PROVE  /\ Places(0, kept) = << >>
           /\ Places(len, kept) \in Seq(Nat)
           /\ Places(len + 1, kept) =
                IF len + 1 \in kept THEN Append(Places(len, kept), len + 1) ELSE Places(len, kept)
<1>0. len + 1 \in Nat /\ 0 .. len \subseteq 0 .. len + 1
  OBVIOUS
<1>1. PICK f : PlacesTo(f, kept, len + 1) /\ Places(len + 1, kept) = f[len + 1]
  BY <1>0, PlacesPlacing
<1>2. PICK g : g[len] \in Seq(Nat) /\ PlacesTo(g, kept, len) /\ Places(len, kept) = g[len]
  BY PlacesPlacing
<1>3. PICK h : PlacesTo(h, kept, 0) /\ Places(0, kept) = h[0]
  BY PlacesPlacing
<1>4. PlacesTo(f, kept, len)
  BY <1>0, <1>1, Zenon DEF PlacesTo
<1>5. f[len] = g[len]
  <2>1. \A n \in 0 .. len : f[n] = g[n]
    BY <1>2, <1>4, PlacingAgree
  <2> QED
    BY <2>1
<1>6. f[len + 1] = IF len + 1 \in kept THEN Append(f[len], len + 1) ELSE f[len]
  <2>1. len + 1 \in 0 .. len + 1 /\ len + 1 # 0 /\ (len + 1) - 1 = len
    OBVIOUS
  <2>2. f[len + 1] = IF len + 1 = 0 THEN << >>
                     ELSE IF len + 1 \in kept THEN Append(f[(len + 1) - 1], len + 1) ELSE f[(len + 1) - 1]
    BY <1>1, <2>1, Zenon DEF PlacesTo
  <2> QED
    BY <2>1, <2>2
<1>7. h[0] = << >>
  BY <1>3 DEF PlacesTo
<1>8. g[len] \in Seq(Nat)
  BY <1>2
<1> QED
  BY <1>1, <1>2, <1>3, <1>5, <1>6, <1>7, <1>8, Zenon

\* The places are those that are kept, in their order.
InOrder(places, kept, len) ==
    /\ places \in Seq(Nat)
    /\ \A i \in DOMAIN places : places[i] \in kept /\ places[i] \in 1 .. len
    /\ \A i, j \in DOMAIN places : i < j => places[i] < places[j]
    /\ \A n \in 1 .. len : n \in kept => \E i \in DOMAIN places : places[i] = n

LEMMA PlacesInOrder ==
    ASSUME NEW kept, NEW len \in Nat
    PROVE  InOrder(Places(len, kept), kept, len)
<1> DEFINE S == {l \in Nat : InOrder(Places(l, kept), kept, l)}
<1>1. 0 \in S
  <2>1. Places(0, kept) = << >> /\ << >> \in Seq(Nat) /\ DOMAIN << >> = {}
    BY PlacesStep
  <2>2. InOrder(<< >>, kept, 0)
    BY <2>1 DEF InOrder
  <2> QED
    BY <2>1, <2>2
<1>2. ASSUME NEW l \in Nat, l \in S PROVE l + 1 \in S
  <2> DEFINE before == Places(l, kept)
             after == Places(l + 1, kept)
  <2>1. /\ before \in Seq(Nat)
        /\ after = IF l + 1 \in kept THEN Append(before, l + 1) ELSE before
    BY PlacesStep
  <2>2. InOrder(before, kept, l)
    BY <1>2
  <2> HIDE DEF before, after
  <2>3. CASE l + 1 \notin kept
    <3>1. after = before
      BY <2>1, <2>3
    <3>2. \A n \in 1 .. l + 1 : n \in kept => n \in 1 .. l
      BY <2>3
    <3>3. 1 .. l \subseteq 1 .. l + 1
      OBVIOUS
    <3> QED
      BY <2>2, <3>1, <3>2, <3>3 DEF InOrder, after
  <2>4. CASE l + 1 \in kept
    <3> DEFINE m == Len(before)
    <3>1. /\ m \in Nat /\ DOMAIN before = 1 .. m /\ DOMAIN after = 1 .. m + 1
          /\ after \in Seq(Nat) /\ after[m + 1] = l + 1
          /\ \A i \in 1 .. m : after[i] = before[i]
      BY <2>1, <2>4
    <3> HIDE DEF m
    <3>2. \A i \in 1 .. m + 1 : after[i] \in kept /\ after[i] \in 1 .. l + 1
      <4>1. \A i \in 1 .. m : before[i] \in kept /\ before[i] \in 1 .. l
        BY <2>2, <3>1 DEF InOrder
      <4>2. \A i \in 1 .. m : after[i] \in kept /\ after[i] \in 1 .. l + 1
        BY <3>1, <4>1
      <4>3. after[m + 1] \in kept /\ after[m + 1] \in 1 .. l + 1
        BY <2>4, <3>1
      <4> QED
        BY <3>1, <4>2, <4>3
    <3>3. ASSUME NEW i \in 1 .. m + 1, NEW j \in 1 .. m + 1, i < j PROVE after[i] < after[j]
      <4>1. i \in 1 .. m /\ after[i] = before[i] /\ before[i] \in 1 .. l
        BY <2>2, <3>1, <3>3 DEF InOrder
      <4>2. CASE j = m + 1
        BY <3>1, <4>1, <4>2
      <4>3. CASE j # m + 1
        <5>1. j \in 1 .. m /\ after[j] = before[j]
          BY <3>1, <4>3
        <5>2. before[i] < before[j]
          BY <2>2, <3>1, <3>3, <4>1, <5>1 DEF InOrder
        <5> QED
          BY <4>1, <5>1, <5>2
      <4> QED
        BY <4>2, <4>3
    <3>4. ASSUME NEW n \in 1 .. l + 1, n \in kept PROVE \E i \in 1 .. m + 1 : after[i] = n
      <4>1. CASE n = l + 1
        BY <3>1, <4>1
      <4>2. CASE n # l + 1
        <5>1. PICK i \in 1 .. m : before[i] = n
          BY <2>2, <3>1, <3>4, <4>2 DEF InOrder
        <5> QED
          BY <3>1, <5>1
      <4> QED
        BY <4>1, <4>2
    <3>5. InOrder(after, kept, l + 1)
      BY <3>1, <3>2, <3>3, <3>4 DEF InOrder
    <3> QED
      BY <3>5 DEF after
  <2> QED
    BY <2>3, <2>4
<1> HIDE DEF S
<1>3. len \in S
  BY <1>1, <1>2, NaturalsIn, SMTT(60)
<1> QED
  BY <1>3 DEF S

-------------------------------------------------------------------------------
(* The entries that are kept *)

\* The picked entries are those at the kept places, in their order.
LEMMA PickedEntries ==
    ASSUME NEW T, NEW list \in Seq(T), NEW kept
    PROVE  LET places == Places(Len(list), kept)
               short == Picked(list, kept)
           IN  /\ InOrder(places, kept, Len(list))
               /\ short \in Seq(T) /\ Len(short) <= Len(list)
               /\ DOMAIN short = DOMAIN places /\ Len(short) = Len(places)
               /\ \A i \in DOMAIN short : places[i] \in DOMAIN list /\ short[i] = list[places[i]]
<1> DEFINE places == Places(Len(list), kept)
           short == Picked(list, kept)
           n == Len(places)
<1>1. InOrder(places, kept, Len(list)) /\ Len(list) \in Nat /\ DOMAIN list = 1 .. Len(list)
  BY PlacesInOrder
<1>2. short = [i \in DOMAIN places |-> list[places[i]]]
  BY DEF Picked
<1> HIDE DEF places, short
<1>3. /\ places \in Seq(Nat) /\ n \in Nat /\ DOMAIN places = 1 .. n
      /\ \A i \in 1 .. n : places[i] \in DOMAIN list
      /\ \A i, j \in 1 .. n : i < j => places[i] < places[j]
  BY <1>1 DEF InOrder
<1> HIDE DEF n
<1>4. short \in [1 .. n -> T]
  BY <1>2, <1>3
<1>5. short \in Seq(T) /\ Len(short) = n /\ DOMAIN short = 1 .. n
  BY <1>3, <1>4
<1>6. n <= Len(list)
  <2> DEFINE S == {k \in Nat : k <= n /\ k # 0 => k <= places[k]}
  <2>1. 0 \in S
    OBVIOUS
  <2>2. ASSUME NEW k \in Nat, k \in S PROVE k + 1 \in S
    <3>1. ASSUME k + 1 <= n PROVE k + 1 <= places[k + 1]
      <4>1. places[k + 1] \in 1 .. Len(list)
        BY <1>1, <1>3, <3>1
      <4>2. CASE k = 0
        BY <4>1, <4>2
      <4>3. CASE k # 0
        <5>1. k <= places[k] /\ places[k] \in Nat
          BY <1>1, <1>3, <2>2, <3>1, <4>3
        <5>2. places[k] < places[k + 1]
          BY <1>3, <3>1, <4>3
        <5> QED
          BY <4>1, <5>1, <5>2
      <4> QED
        BY <4>2, <4>3
    <3> QED
      BY <3>1
  <2> HIDE DEF S
  <2>3. Nat \subseteq S
    BY ONLY <2>1, <2>2, NaturalsIn
  <2>4. n # 0 => n <= places[n] /\ places[n] \in 1 .. Len(list)
    BY <1>1, <1>3, <2>3 DEF S
  <2> QED
    BY <1>1, <1>3, <2>4
<1> QED
  BY <1>1, <1>2, <1>3, <1>5, <1>6 DEF places, short, n

\* The amounts at the places and those elsewhere are all amounts.
LEMMA TotalSplit ==
    ASSUME NEW amounts \in Seq(Int), NEW kept, NEW gone,
           \A n \in 1 .. Len(amounts) : n \in gone <=> n \notin kept
    PROVE  Total(0, amounts) = Total(0, Picked(amounts, kept)) + Total(0, Picked(amounts, gone))
<1> DEFINE len == Len(amounts)
           At(places) == [i \in DOMAIN places |-> amounts[places[i]]]
           Upto(n) == [i \in 1 .. n |-> amounts[i]]
           S == {n \in Nat : n <= len =>
                   /\ At(Places(n, kept)) \in Seq(Int) /\ At(Places(n, gone)) \in Seq(Int)
                   /\ Upto(n) \in Seq(Int)
                   /\ Total(0, Upto(n)) = Total(0, At(Places(n, kept))) + Total(0, At(Places(n, gone)))}
<1>1. len \in Nat /\ amounts \in [1 .. len -> Int]
  OBVIOUS
<1>2. 0 \in S
  <2>1. Places(0, kept) = << >> /\ Places(0, gone) = << >>
    BY PlacesStep
  <2>2. At(<< >>) = << >> /\ Upto(0) = << >> /\ << >> \in Seq(Int)
    OBVIOUS
  <2>3. Total(0, << >>) = 0
    BY TotalEmpty
  <2> QED
    BY <2>1, <2>2, <2>3
<1>3. ASSUME NEW places \in Seq(Nat), NEW n \in Nat, n + 1 <= len, At(places) \in Seq(Int)
      PROVE  /\ At(Append(places, n + 1)) = Append(At(places), amounts[n + 1])
             /\ At(Append(places, n + 1)) \in Seq(Int)
             /\ Total(0, At(Append(places, n + 1))) = Total(0, At(places)) + amounts[n + 1]
  <2> DEFINE m == Len(places)
             longer == Append(places, n + 1)
             x == amounts[n + 1]
  <2>1. /\ m \in Nat /\ DOMAIN places = 1 .. m /\ DOMAIN longer = 1 .. m + 1
        /\ longer[m + 1] = n + 1 /\ \A i \in 1 .. m : longer[i] = places[i]
    OBVIOUS
  <2>2. x \in Int
    BY <1>1, <1>3
  <2>3. At(places) \in Seq(Int) /\ DOMAIN At(places) = 1 .. m /\ Len(At(places)) = m
    BY <1>3, <2>1
  <2>4. At(longer) = Append(At(places), x)
    <3>1. At(longer) = [i \in 1 .. m + 1 |-> amounts[longer[i]]]
      BY <2>1
    <3>2. Append(At(places), x) = [i \in 1 .. m + 1 |-> IF i = m + 1 THEN x ELSE At(places)[i]]
      BY <2>1, <2>3
    <3>3. \A i \in 1 .. m + 1 : amounts[longer[i]] = IF i = m + 1 THEN x ELSE At(places)[i]
      BY <2>1
    <3> QED
      BY <3>1, <3>2, <3>3
  <2> HIDE DEF At, longer, x
  <2>5. Append(At(places), x) \in Seq(Int) /\ Total(0, Append(At(places), x)) = Total(0, At(places)) + x
    BY <2>2, <2>3, TotalAppend
  <2> QED
    BY <2>4, <2>5 DEF longer, x
<1>4. ASSUME NEW n \in Nat, n \in S PROVE n + 1 \in S
  <2>1. ASSUME n + 1 <= len
        PROVE  /\ At(Places(n + 1, kept)) \in Seq(Int) /\ At(Places(n + 1, gone)) \in Seq(Int)
               /\ Upto(n + 1) \in Seq(Int)
               /\ Total(0, Upto(n + 1)) =
                    Total(0, At(Places(n + 1, kept))) + Total(0, At(Places(n + 1, gone)))
    <3> DEFINE x == amounts[n + 1]
               k == Places(n, kept)
               g == Places(n, gone)
    <3>1. /\ At(k) \in Seq(Int) /\ At(g) \in Seq(Int) /\ Upto(n) \in Seq(Int)
          /\ Total(0, Upto(n)) = Total(0, At(k)) + Total(0, At(g))
      BY <1>4, <2>1
    <3>2. Upto(n + 1) = Append(Upto(n), x) /\ x \in Int /\ Upto(n + 1) \in Seq(Int)
      BY <1>1, <2>1
    <3>3. k \in Seq(Nat) /\ g \in Seq(Nat)
      BY PlacesStep
    <3>4. /\ Places(n + 1, kept) = IF n + 1 \in kept THEN Append(k, n + 1) ELSE k
          /\ Places(n + 1, gone) = IF n + 1 \in gone THEN Append(g, n + 1) ELSE g
      BY PlacesStep
    <3>5. n + 1 \in gone <=> n + 1 \notin kept
      BY <2>1
    <3> DEFINE u == Upto(n)
               longer == Upto(n + 1)
               v == At(k)
               w == At(g)
    <3> HIDE DEF At, Upto, k, g, x, u, v, w, longer
    <3>6. Total(0, longer) = Total(0, u) + x
      <4>1. u \in Seq(Int) /\ x \in Int /\ longer = Append(u, x)
        BY <3>1, <3>2 DEF u, longer
      <4> QED
        BY <4>1, TotalAppend
    <3>7. Total(0, v) \in Int /\ Total(0, w) \in Int
      <4>1. v \in Seq(Int) /\ w \in Seq(Int)
        BY <3>1 DEF v, w
      <4>2. \A some \in Seq(Int) : Total(0, some) \in Int
        BY TotalType
      <4> QED
        BY <4>1, <4>2
    <3>10. Total(0, u) = Total(0, v) + Total(0, w)
      BY <3>1 DEF u, v, w
    <3>8. CASE n + 1 \in kept
      <4>1. /\ At(Append(k, n + 1)) \in Seq(Int)
            /\ Total(0, At(Append(k, n + 1))) = Total(0, At(k)) + x
        BY <1>3, <2>1, <3>1, <3>3 DEF x
      <4>2. Places(n + 1, kept) = Append(k, n + 1) /\ Places(n + 1, gone) = g
        BY <3>4, <3>5, <3>8
      <4>3. Total(0, longer) = (Total(0, v) + x) + Total(0, w)
        BY <3>2, <3>6, <3>7, <3>10
      <4>4. /\ Total(0, Upto(n + 1)) = Total(0, longer) /\ Total(0, At(g)) = Total(0, w)
            /\ Total(0, At(Append(k, n + 1))) = Total(0, v) + x
        BY <4>1 DEF longer, v, w
      <4> QED
        BY <3>1, <3>2, <4>1, <4>2, <4>3, <4>4
    <3>9. CASE n + 1 \notin kept
      <4>1. /\ At(Append(g, n + 1)) \in Seq(Int)
            /\ Total(0, At(Append(g, n + 1))) = Total(0, At(g)) + x
        BY <1>3, <2>1, <3>1, <3>3 DEF x
      <4>2. Places(n + 1, gone) = Append(g, n + 1) /\ Places(n + 1, kept) = k
        BY <3>4, <3>5, <3>9
      <4>3. Total(0, longer) = Total(0, v) + (Total(0, w) + x)
        BY <3>2, <3>6, <3>7, <3>10
      <4>4. /\ Total(0, Upto(n + 1)) = Total(0, longer) /\ Total(0, At(k)) = Total(0, v)
            /\ Total(0, At(Append(g, n + 1))) = Total(0, w) + x
        BY <4>1 DEF longer, v, w
      <4> QED
        BY <3>1, <3>2, <4>1, <4>2, <4>3, <4>4
    <3> QED
      BY <3>8, <3>9
  <2> QED
    BY <2>1
<1> HIDE DEF S
<1>5. len \in S
  BY <1>1, <1>2, <1>4, NaturalsIn, SMTT(60)
<1>6. Total(0, Upto(len)) = Total(0, At(Places(len, kept))) + Total(0, At(Places(len, gone)))
  BY <1>1, <1>5 DEF S
<1>7. Upto(len) = amounts
  OBVIOUS
<1> QED
  BY <1>6, <1>7 DEF Picked

LEMMA PickedOne ==
    ASSUME NEW T, NEW list \in Seq(T), NEW n \in DOMAIN list
    PROVE  Picked(list, {n}) = <<list[n]>>
<1> DEFINE places == Places(Len(list), {n})
           short == Picked(list, {n})
<1>1. /\ InOrder(places, {n}, Len(list)) /\ short \in Seq(T) /\ DOMAIN short = DOMAIN places
      /\ \A i \in DOMAIN short : short[i] = list[places[i]]
  BY PickedEntries
<1>2. n \in 1 .. Len(list)
  OBVIOUS
<1> HIDE DEF places, short
<1>3. /\ DOMAIN short = 1 .. Len(short) /\ Len(short) \in Nat
  BY <1>1
<1>4. /\ \A i \in DOMAIN short : places[i] = n
      /\ \A i, j \in DOMAIN short : i < j => places[i] < places[j]
      /\ \E i \in DOMAIN short : places[i] = n
  BY <1>1, <1>2 DEF InOrder
<1>5. Len(short) = 1
  <2>1. Len(short) # 0
    BY <1>3, <1>4
  <2>2. ASSUME Len(short) >= 2 PROVE FALSE
    <3>1. 1 \in DOMAIN short /\ 2 \in DOMAIN short
      BY <1>3, <2>2
    <3>2. n < n
      BY <1>4, <3>1
    <3> QED
      BY <1>2, <3>2
  <2> QED
    BY <1>3, <2>1, <2>2
<1>6. short[1] = list[n]
  BY <1>1, <1>3, <1>4, <1>5
<1> QED
  BY <1>1, <1>5, <1>6 DEF short

\* Amounts that are natural numbers add up to one.
LEMMA TotalNat ==
    ASSUME NEW amounts \in Seq(Nat)
    PROVE  Total(0, amounts) \in Nat
<1> DEFINE len == Len(amounts)
           Upto(n) == [i \in 1 .. n |-> amounts[i]]
           S == {n \in Nat : n <= len => Upto(n) \in Seq(Int) /\ Total(0, Upto(n)) \in Nat}
<1>1. len \in Nat /\ amounts \in [1 .. len -> Nat]
  OBVIOUS
<1>2. 0 \in S
  <2>1. Upto(0) = << >> /\ << >> \in Seq(Int)
    OBVIOUS
  <2>2. Total(0, << >>) = 0
    BY TotalEmpty
  <2> QED
    BY <2>1, <2>2
<1>3. ASSUME NEW n \in Nat, n \in S PROVE n + 1 \in S
  <2>1. ASSUME n + 1 <= len
        PROVE  Upto(n + 1) \in Seq(Int) /\ Total(0, Upto(n + 1)) \in Nat
    <3> DEFINE u == Upto(n)
               longer == Upto(n + 1)
               x == amounts[n + 1]
    <3>1. x \in Nat /\ longer = Append(u, x) /\ longer \in Seq(Int)
      BY <1>1, <2>1
    <3>2. u \in Seq(Int) /\ Total(0, u) \in Nat
      BY <1>3, <2>1
    <3> HIDE DEF u, longer, x
    <3>3. Total(0, longer) = Total(0, u) + x
      BY <3>1, <3>2, TotalAppend
    <3> QED
      BY <3>1, <3>2, <3>3 DEF longer
  <2> QED
    BY <2>1
<1> HIDE DEF S
<1>4. Nat \subseteq S
  BY ONLY <1>2, <1>3, NaturalsIn
<1>5. Upto(len) = amounts
  OBVIOUS
<1> QED
  BY <1>1, <1>4, <1>5 DEF S

\* A sum grows with its amounts.
LEMMA TotalMono ==
    ASSUME NEW low \in Seq(Int), NEW high \in Seq(Int), Len(low) = Len(high),
           \A i \in 1 .. Len(low) : low[i] <= high[i]
    PROVE  Total(0, low) <= Total(0, high)
<1> DEFINE len == Len(low)
<1>1. len \in Nat /\ \A i \in 1 .. len : low[i] \in Int /\ high[i] \in Int
  OBVIOUS
<1>2. PICK f \in [0 .. len -> Int] : IsRunning(f, 0, low, len) /\ Total(0, low) = f[len]
  BY TotalRunning
<1>3. PICK g \in [0 .. len -> Int] : IsRunning(g, 0, high, len) /\ Total(0, high) = g[len]
  BY TotalRunning
<1> HIDE DEF len
<1> DEFINE S == {n \in Nat : n <= len => f[n] <= g[n]}
<1>4. 0 \in S
  BY <1>1, <1>2, <1>3 DEF IsRunning
<1>5. ASSUME NEW n \in Nat, n \in S PROVE n + 1 \in S
  <2>1. ASSUME n + 1 <= len PROVE f[n + 1] <= g[n + 1]
    <3>1. f[n + 1] = f[n] + low[n + 1] /\ g[n + 1] = g[n] + high[n + 1]
      BY <1>1, <1>2, <1>3, <2>1 DEF IsRunning
    <3>2. low[n + 1] <= high[n + 1] /\ low[n + 1] \in Int /\ high[n + 1] \in Int
      BY <1>1, <2>1 DEF len
    <3>3. f[n] <= g[n] /\ f[n] \in Int /\ g[n] \in Int
      BY <1>1, <1>5, <2>1
    <3> QED
      BY <3>1, <3>2, <3>3
  <2> QED
    BY <2>1
<1> HIDE DEF S
<1>6. len \in S
  BY <1>1, <1>4, <1>5, NaturalsIn
<1> QED
  BY <1>1, <1>2, <1>3, <1>6 DEF S

LEMMA UpdateAgree ==
    ASSUME NEW len \in Nat, NEW k \in 1 .. len,
           NEW v \in [1 .. len -> Int], NEW w \in [1 .. len -> Int],
           NEW f \in [0 .. len -> Int], NEW g \in [0 .. len -> Int],
           Adds(f, 0, v, len), Adds(g, 0, w, len),
           \A i \in 1 .. len : i # k => w[i] = v[i]
    PROVE  g[len] = f[len] - v[k] + w[k]
<1> DEFINE S == {n \in Nat : n <= len => g[n] = IF n < k THEN f[n] ELSE f[n] - v[k] + w[k]}
<1>1. 0 \in S
  BY DEF Adds
<1>2. ASSUME NEW n \in Nat, n \in S PROVE n + 1 \in S
  <2>1. ASSUME n + 1 <= len
        PROVE  g[n + 1] = IF n + 1 < k THEN f[n + 1] ELSE f[n + 1] - v[k] + w[k]
    <3>1. f[n + 1] = f[n] + v[n + 1] /\ g[n + 1] = g[n] + w[n + 1]
      <4>1. n + 1 \in 0 .. len /\ n + 1 # 0 /\ n + 1 - 1 = n
        BY <2>1
      <4>2. f[n + 1] = IF n + 1 = 0 THEN 0 ELSE f[n + 1 - 1] + v[n + 1]
        BY ONLY Adds(f, 0, v, len), <4>1 DEF Adds
      <4>3. g[n + 1] = IF n + 1 = 0 THEN 0 ELSE g[n + 1 - 1] + w[n + 1]
        BY ONLY Adds(g, 0, w, len), <4>1 DEF Adds
      <4> QED
        BY ONLY <4>1, <4>2, <4>3
    <3>2. /\ v[n + 1] \in Int /\ w[n + 1] \in Int /\ v[k] \in Int /\ w[k] \in Int
          /\ n + 1 # k => v[n + 1] = w[n + 1]
      BY <2>1
    <3>3. /\ g[n] = IF n < k THEN f[n] ELSE f[n] - v[k] + w[k]
          /\ f[n] \in Int /\ g[n] \in Int
      BY <1>2, <2>1
    <3>4. k \in Int /\ n \in Int
      OBVIOUS
    <3>5. n + 1 = k => v[n + 1] = v[k] /\ w[n + 1] = w[k]
      OBVIOUS
    <3> DEFINE fn == f[n]
               gn == g[n]
               vn == v[n + 1]
               wn == w[n + 1]
               vk == v[k]
               wk == w[k]
    <3>6. fn \in Int /\ gn \in Int /\ vn \in Int /\ wn \in Int /\ vk \in Int /\ wk \in Int
      BY <3>2, <3>3
    <3>7. /\ f[n + 1] = fn + vn /\ g[n + 1] = gn + wn
          /\ gn = IF n < k THEN fn ELSE fn - vk + wk
          /\ n + 1 # k => vn = wn
          /\ n + 1 = k => vn = vk /\ wn = wk
      BY <3>1, <3>2, <3>3, <3>5
    <3> HIDE DEF fn, gn, vn, wn, vk, wk
    <3>8. g[n + 1] = IF n + 1 < k THEN f[n + 1] ELSE f[n + 1] - vk + wk
      BY ONLY <3>4, <3>6, <3>7
    <3> QED
      BY <3>8 DEF vk, wk
  <2> QED
    BY <2>1
<1> HIDE DEF S
<1>3. len \in S
  BY <1>1, <1>2, NaturalsIn
<1> QED
  BY <1>3 DEF S

\* A sum in which one amount is replaced by another.
LEMMA TotalUpdate ==
    ASSUME NEW old \in Seq(Int), NEW new \in Seq(Int), Len(old) = Len(new), NEW k \in 1 .. Len(old),
           \A i \in 1 .. Len(old) : i # k => new[i] = old[i]
    PROVE  Total(0, new) = Total(0, old) - old[k] + new[k]
<1>1. Len(old) \in Nat /\ \A i \in 1 .. Len(old) : old[i] \in Int /\ new[i] \in Int
  OBVIOUS
<1>2. PICK f \in [0 .. Len(old) -> Int] : IsRunning(f, 0, old, Len(old)) /\ Total(0, old) = f[Len(old)]
  BY TotalRunning
<1>3. PICK g \in [0 .. Len(old) -> Int] : IsRunning(g, 0, new, Len(old)) /\ Total(0, new) = g[Len(old)]
  BY TotalRunning
<1>4. Adds(f, 0, old, Len(old)) /\ Adds(g, 0, new, Len(old))
  BY <1>2, <1>3 DEF IsRunning, Adds
<1>5. old \in [1 .. Len(old) -> Int] /\ new \in [1 .. Len(old) -> Int]
  OBVIOUS
<1>6. g[Len(old)] = f[Len(old)] - old[k] + new[k]
  BY <1>1, <1>4, <1>5, UpdateAgree
<1> QED
  BY <1>2, <1>3, <1>6

\* Nothing adds up to nothing.
LEMMA TotalZero ==
    ASSUME NEW amounts \in Seq(Int), \A i \in 1 .. Len(amounts) : amounts[i] = 0
    PROVE  Total(0, amounts) = 0
<1> DEFINE len == Len(amounts)
<1>1. len \in Nat
  OBVIOUS
<1>2. PICK f \in [0 .. len -> Int] : IsRunning(f, 0, amounts, len) /\ Total(0, amounts) = f[len]
  BY TotalRunning
<1> DEFINE S == {n \in Nat : n <= len => f[n] = 0}
<1>3. 0 \in S
  BY <1>1, <1>2 DEF IsRunning
<1>4. ASSUME NEW n \in Nat, n \in S PROVE n + 1 \in S
  <2>1. ASSUME n + 1 <= len PROVE f[n + 1] = 0
    <3>1. f[n + 1] = f[n] + amounts[n + 1]
      BY <1>1, <1>2, <2>1 DEF IsRunning
    <3> QED
      BY <1>4, <2>1, <3>1
  <2> QED
    BY <2>1
<1> HIDE DEF S
<1>5. len \in S
  BY <1>1, <1>3, <1>4, NaturalsIn
<1> QED
  BY <1>1, <1>2, <1>5 DEF S

-------------------------------------------------------------------------------
(* What a search meets in rounds. *)

Beyond(next, met) == met \cup (UNION {next[p] : p \in met})

IsSearch(f, from, next, rounds) ==
    f = [k \in 0 .. rounds |-> IF k = 0 THEN from ELSE f[k - 1] \cup (UNION {next[p] : p \in f[k - 1]})]

LEMMA SearchExists ==
    ASSUME NEW from, NEW next, NEW rounds \in Nat
    PROVE  \E f : IsSearch(f, from, next, rounds)
<1> DEFINE S == {l \in Nat : \E f : IsSearch(f, from, next, l)}
<1>1. 0 \in S
  <2> DEFINE f == [k \in 0 .. 0 |-> from]
  <2>1. IsSearch(f, from, next, 0)
    BY DEF IsSearch
  <2> QED
    BY <2>1
<1>2. ASSUME NEW l \in Nat, l \in S PROVE l + 1 \in S
  <2>1. PICK g : IsSearch(g, from, next, l)
    BY <1>2
  <2> DEFINE f == [k \in 0 .. l + 1 |-> IF k = l + 1 THEN Beyond(next, g[l]) ELSE g[k]]
  <2>2. ASSUME NEW k \in 0 .. l + 1
        PROVE  f[k] = IF k = 0 THEN from ELSE Beyond(next, f[k - 1])
    <3>1. CASE k = l + 1
      BY <3>1
    <3>2. CASE k # l + 1
      <4>1. k \in 0 .. l /\ f[k] = g[k] /\ (k # 0 => f[k - 1] = g[k - 1])
        BY <3>2
      <4>2. g[k] = IF k = 0 THEN from ELSE Beyond(next, g[k - 1])
        BY <2>1, <4>1 DEF IsSearch, Beyond
      <4> QED
        BY <4>1, <4>2
    <3> QED
      BY <3>1, <3>2
  <2>3. f = [k \in 0 .. l + 1 |-> IF k = 0 THEN from ELSE Beyond(next, f[k - 1])]
    BY <2>2
  <2>4. IsSearch(f, from, next, l + 1)
    BY <2>3 DEF IsSearch, Beyond
  <2> QED
    BY <2>4
<1> HIDE DEF S
<1>3. rounds \in S
  BY <1>1, <1>2, NaturalsIn, SMTT(60)
<1> QED
  BY <1>3 DEF S

LEMMA WavesIs ==
    ASSUME NEW from, NEW next, NEW rounds \in Nat
    PROVE  /\ DOMAIN Waves(from, next, rounds) = 0 .. rounds
           /\ Waves(from, next, rounds)[0] = from
           /\ \A k \in 0 .. rounds : k + 1 <= rounds =>
                Waves(from, next, rounds)[k + 1] = Beyond(next, Waves(from, next, rounds)[k])
<1> DEFINE F == CHOOSE f : IsSearch(f, from, next, rounds)
<1>1. IsSearch(F, from, next, rounds)
  BY SearchExists
<1>2. Waves(from, next, rounds) = F
  BY DEF Waves, IsSearch
<1> HIDE DEF F
<1> QED
  BY <1>1, <1>2 DEF IsSearch, Beyond

\* A set that holds the start and whatever follows its elements holds what is met.
LEMMA WavesWithin ==
    ASSUME NEW from, NEW next, NEW rounds \in Nat, NEW U,
           from \subseteq U, \A p \in U : next[p] \subseteq U
    PROVE  \A k \in 0 .. rounds : Waves(from, next, rounds)[k] \subseteq U
<1> DEFINE wave == Waves(from, next, rounds)
           S == {k \in Nat : k <= rounds => wave[k] \subseteq U}
<1>1. 0 \in S
  BY WavesIs
<1>2. ASSUME NEW k \in Nat, k \in S PROVE k + 1 \in S
  <2>1. ASSUME k + 1 <= rounds PROVE wave[k + 1] \subseteq U
    <3>1. wave[k] \subseteq U /\ wave[k + 1] = Beyond(next, wave[k])
      BY <1>2, <2>1, WavesIs
    <3> QED
      BY <3>1 DEF Beyond
  <2> QED
    BY <2>1
<1> HIDE DEF S
<1>3. Nat \subseteq S
  BY <1>1, <1>2, NaturalsIn
<1> QED
  BY <1>3 DEF S

\* Later waves hold the earlier ones.
LEMMA WavesGrow ==
    ASSUME NEW from, NEW next, NEW rounds \in Nat, NEW j \in 0 .. rounds, NEW k \in j .. rounds
    PROVE  Waves(from, next, rounds)[j] \subseteq Waves(from, next, rounds)[k]
<1> DEFINE wave == Waves(from, next, rounds)
           S == {n \in Nat : j <= n /\ n <= rounds => wave[j] \subseteq wave[n]}
<1>1. 0 \in S
  OBVIOUS
<1>2. ASSUME NEW n \in Nat, n \in S PROVE n + 1 \in S
  <2>1. ASSUME j <= n + 1, n + 1 <= rounds PROVE wave[j] \subseteq wave[n + 1]
    <3>1. CASE j = n + 1
      BY <3>1
    <3>2. CASE j # n + 1
      <4>1. wave[j] \subseteq wave[n]
        BY <1>2, <2>1, <3>2
      <4>2. wave[n + 1] = Beyond(next, wave[n])
        BY <2>1, WavesIs
      <4> QED
        BY <4>1, <4>2 DEF Beyond
    <3> QED
      BY <3>1, <3>2
  <2> QED
    BY <2>1
<1> HIDE DEF S
<1>3. Nat \subseteq S
  BY <1>1, <1>2, NaturalsIn
<1> QED
  BY <1>3 DEF S

\* With as many rounds as there are nodes nothing is left to be met.
LEMMA WavesClosed ==
    ASSUME NEW U, IsFiniteSet(U), NEW from \in SUBSET U, NEW next,
           \A p \in U : next[p] \subseteq U
    PROVE  LET met == Waves(from, next, Cardinality(U))[Cardinality(U)]
           IN  from \subseteq met /\ met \subseteq U /\ \A p \in met : next[p] \subseteq met
<1> DEFINE n == Cardinality(U)
           wave == Waves(from, next, n)
           Still(met) == \A p \in met : next[p] \subseteq met
           S == {k \in Nat : k <= n => Still(wave[k]) \/ Cardinality(wave[k]) >= k}
<1>1. n \in Nat
  BY FS_CardinalityType
<1> HIDE DEF n
<1>2. /\ wave[0] = from /\ \A k \in 0 .. n : wave[k] \subseteq U
      /\ \A k \in 0 .. n : k + 1 <= n => wave[k + 1] = Beyond(next, wave[k])
  <2>1. \A k \in 0 .. n : wave[k] \subseteq U
    BY <1>1, WavesWithin
  <2> QED
    BY <1>1, <2>1, WavesIs
<1> HIDE DEF wave
<1>3. \A k \in 0 .. n : IsFiniteSet(wave[k]) /\ Cardinality(wave[k]) \in Nat
  BY <1>2, FS_Subset, FS_CardinalityType
<1>4. 0 \in S
  BY <1>1, <1>3
<1>5. ASSUME NEW k \in Nat, k \in S PROVE k + 1 \in S
  <2>1. ASSUME k + 1 <= n, ~Still(wave[k + 1]) PROVE Cardinality(wave[k + 1]) >= k + 1
    <3>1. k \in 0 .. n /\ k + 1 \in 0 .. n
      BY <1>1, <2>1
    <3>2. wave[k + 1] = Beyond(next, wave[k])
      BY <1>2, <2>1, <3>1
    <3>3. wave[k] \subseteq wave[k + 1] /\ (wave[k] = wave[k + 1] \/ ~Still(wave[k]))
      BY <3>2 DEF Beyond
    <3>4. ~Still(wave[k]) /\ wave[k] # wave[k + 1]
      <4>1. ~Still(wave[k])
        BY <2>1, <3>3
      <4>2. PICK p \in wave[k] : \E q \in next[p] : q \notin wave[k]
        BY <4>1
      <4>3. next[p] \subseteq wave[k + 1]
        BY <3>2, <4>2 DEF Beyond
      <4> QED
        BY <4>1, <4>2, <4>3
    <3>5. Cardinality(wave[k]) >= k
      BY <1>1, <1>5, <2>1, <3>4
    <3>6. Cardinality(wave[k]) < Cardinality(wave[k + 1])
      <4>1. IsFiniteSet(wave[k + 1]) /\ wave[k] \in SUBSET wave[k + 1]
        BY <1>3, <3>1, <3>3
      <4>2. /\ Cardinality(wave[k]) <= Cardinality(wave[k + 1])
            /\ Cardinality(wave[k]) = Cardinality(wave[k + 1]) => wave[k + 1] = wave[k]
        BY <4>1, FS_Subset
      <4> QED
        BY <1>3, <3>1, <3>4, <4>2
    <3> QED
      BY <1>3, <3>1, <3>5, <3>6
  <2> QED
    BY <2>1
<1> HIDE DEF S
<1>6. n \in S
  BY <1>1, <1>4, <1>5, NaturalsIn, SMTT(60)
<1>7. n \in 0 .. n /\ (Still(wave[n]) \/ Cardinality(wave[n]) >= n)
  BY <1>1, <1>6 DEF S
<1>8. Still(wave[n])
  <2>1. CASE Cardinality(wave[n]) >= n
    <3>1. /\ wave[n] \in SUBSET U /\ Cardinality(wave[n]) <= n
          /\ Cardinality(wave[n]) = n => U = wave[n]
      BY <1>2, <1>7, FS_Subset DEF n
    <3>2. U = wave[n]
      BY <1>1, <1>3, <1>7, <2>1, <3>1
    <3> QED
      BY <3>2
  <2> QED
    BY <1>7, <2>1
<1>9. from \subseteq wave[n]
  BY <1>1, <1>2, WavesGrow DEF wave
<1> QED
  BY <1>2, <1>7, <1>8, <1>9 DEF n, wave

===============================================================================
