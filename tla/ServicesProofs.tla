----------------------------- MODULE ServicesProofs -----------------------------
(* What the services promise for every value of their constants: any number of *)
(* price calls, assertions, keys, characters, builds and contents.             *)
EXTENDS MCServices, FiniteSetTheorems, TLAPS

-------------------------------------------------------------------------------
(* Quotas *)

\* The cardinality the provider's module counts with.
LEMMA SameCardinality ==
    ASSUME NEW S
    PROVE  Provider!Cardinality(S) = Cardinality(S)
BY DEF Provider!Cardinality, Cardinality

LEMMA Fewer ==
    ASSUME NEW S, IsFiniteSet(S), NEW n \in Nat, Cardinality(S) <= n,
           NEW T, T \subseteq S
    PROVE  IsFiniteSet(T) /\ Cardinality(T) <= n
<1>1. IsFiniteSet(T) /\ Cardinality(T) <= Cardinality(S)
  BY FS_Subset
<1>2. Cardinality(T) \in Nat /\ Cardinality(S) \in Nat
  BY <1>1, FS_CardinalityType
<1> QED BY <1>1, <1>2

LEMMA OneMore ==
    ASSUME NEW S, IsFiniteSet(S), NEW n \in Nat, Cardinality(S) < n,
           NEW x, NEW T, T \subseteq S \cup {x}
    PROVE  IsFiniteSet(T) /\ Cardinality(T) <= n
<1>1. /\ IsFiniteSet(S \cup {x}) /\ Cardinality(S) \in Nat
      /\ Cardinality(S \cup {x}) \in {Cardinality(S), Cardinality(S) + 1}
  BY FS_AddElement, FS_CardinalityType
<1>2. Cardinality(S \cup {x}) <= n
  BY <1>1
<1> QED BY <1>1, <1>2, Fewer

LEMMA AddOne ==
    ASSUME NEW S, IsFiniteSet(S), NEW n \in Nat, Cardinality(S) <= n, NEW x
    PROVE  IsFiniteSet(S \cup {x}) /\ Cardinality(S \cup {x}) <= n + 1
<1>1. /\ IsFiniteSet(S \cup {x}) /\ Cardinality(S) \in Nat
      /\ Cardinality(S \cup {x}) \in {Cardinality(S), Cardinality(S) + 1}
  BY FS_AddElement, FS_CardinalityType
<1> QED BY <1>1

LEMMA GreaterOfTwo ==
    ASSUME NEW m \in Nat, NEW n \in Nat
    PROVE  Provider!Max({m, n}) \in {m, n} /\ Provider!Max({m, n}) >= m /\ Provider!Max({m, n}) >= n
<1>1. \E x \in {m, n} : \A y \in {m, n} : x >= y
  <2>1. CASE m >= n
    BY <2>1
  <2>2. CASE n >= m
    BY <2>2
  <2> QED BY <2>1, <2>2
<1> QED BY <1>1 DEF Provider!Max

-------------------------------------------------------------------------------
(* Imports: the lock, the files and the quota *)

Importing == task # None /\ task.step \in Provider!Writing

\* The files of an import that are there before it writes the next one.
Written(d, step) ==
    CASE step = "projection" -> {"pob"}
      [] step = "beasts"     -> {"pob", "projection"}
      [] step = "origin"     -> {"pob", "projection", "beasts"}
      [] step = "index"      -> Provider!Parts(d)
      [] OTHER               -> {}

\* The build an import writes is its own: nobody was told of it, and what is there
\* of it is what was written so far.
WrittenSoFar ==
    Importing =>
      /\ task.build \in BuildIds /\ task.content \in Contents
      /\ \A t \in told : t[2] # task.build
      /\ task.content \in Attached => task.step \notin {"beasts", "origin"}
      /\ IF task.step = "pob" THEN builds[task.build] = None
         ELSE /\ builds[task.build] # None
              /\ builds[task.build].content = task.content
              /\ builds[task.build].parts = Written(task.content, task.step)

\* The builds and the files that are there or will be when the import has ended.
ReservedBuilds == Provider!WithPob \cup (IF Importing THEN {task.build} ELSE {})
SizedParts(d) == Provider!Parts(d) \ {"projection"}
ReservedFiles ==
    Provider!Files \cup (IF Importing THEN {task.build} \X SizedParts(task.content) ELSE {})

RoomInv ==
    /\ IsFiniteSet(ReservedBuilds) /\ Cardinality(ReservedBuilds) <= MaxBuilds
    /\ IsFiniteSet(ReservedFiles) /\ Cardinality(ReservedFiles) <= MaxBytes

ImportInv == Provider!ProviderTypeOK /\ Provider!ToldIsWhole /\ WrittenSoFar /\ RoomInv

\* The sizes an import adds: the code, or the code, the metadata and the origin.
LEMMA SizedFiles ==
    ASSUME NEW S, IsFiniteSet(S), NEW n \in Nat, Cardinality(S) <= n, NEW b, NEW d
    PROVE  /\ IsFiniteSet(S \cup ({b} \X SizedParts(d)))
           /\ Cardinality(SizedParts(d)) = IF d \in Attached THEN 1 ELSE 3
           /\ Cardinality(S \cup ({b} \X SizedParts(d))) <= n + Cardinality(SizedParts(d))
<1>1. CASE d \in Attached
  <2>1. SizedParts(d) = {"pob"}
    BY <1>1 DEF SizedParts, Provider!Parts
  <2>2. Cardinality(SizedParts(d)) = 1
    BY <2>1, FS_Singleton
  <2>3. {b} \X SizedParts(d) = {<<b, "pob">>}
    BY <2>1
  <2>4. IsFiniteSet(S \cup {<<b, "pob">>}) /\ Cardinality(S \cup {<<b, "pob">>}) <= n + 1
    BY AddOne
  <2> QED BY <1>1, <2>2, <2>3, <2>4
<1>2. CASE d \notin Attached
  <2>1. SizedParts(d) = (({} \cup {"pob"}) \cup {"beasts"}) \cup {"origin"}
    BY <1>2 DEF SizedParts, Provider!Parts
  <2>2. Cardinality(SizedParts(d)) = 3
    <3>1. IsFiniteSet({}) /\ Cardinality({}) = 0
      BY FS_EmptySet
    <3>2. IsFiniteSet({} \cup {"pob"}) /\ Cardinality({} \cup {"pob"}) = 1
      BY <3>1, "pob" \notin {}, FS_AddElement
    <3>3. /\ IsFiniteSet(({} \cup {"pob"}) \cup {"beasts"})
          /\ Cardinality(({} \cup {"pob"}) \cup {"beasts"}) = 2
      BY <3>2, "beasts" \notin {} \cup {"pob"}, FS_AddElement
    <3>4. "origin" \notin ({} \cup {"pob"}) \cup {"beasts"}
      OBVIOUS
    <3> QED BY <2>1, <3>3, <3>4, FS_AddElement
  <2>3. S \cup ({b} \X SizedParts(d))
          = ((S \cup {<<b, "pob">>}) \cup {<<b, "beasts">>}) \cup {<<b, "origin">>}
    BY <2>1
  <2> DEFINE one == S \cup {<<b, "pob">>}
             two == one \cup {<<b, "beasts">>}
  <2>4. IsFiniteSet(one) /\ Cardinality(one) <= n + 1
    BY AddOne
  <2> HIDE DEF one
  <2>5. IsFiniteSet(two) /\ Cardinality(two) <= (n + 1) + 1
    BY <2>4, n + 1 \in Nat, AddOne
  <2> HIDE DEF two
  <2>6. /\ IsFiniteSet(two \cup {<<b, "origin">>})
        /\ Cardinality(two \cup {<<b, "origin">>}) <= ((n + 1) + 1) + 1
    BY <2>5, (n + 1) + 1 \in Nat, AddOne
  <2>7. S \cup ({b} \X SizedParts(d)) = two \cup {<<b, "origin">>}
    BY <2>3 DEF one, two
  <2>8. Cardinality(two \cup {<<b, "origin">>}) <= n + 3
    BY <2>6, FS_CardinalityType
  <2> QED BY <1>2, <2>2, <2>6, <2>7, <2>8
<1> QED BY <1>1, <1>2

\* The task, field by field.
LEMMA TaskFields ==
    ASSUME Provider!ProviderTypeOK, task # None
    PROVE  /\ task.op \in {"list", "get", "refresh", "attach"}
           /\ task.who \in Characters \cup {None}
           /\ task.step \in Provider!Awaiting \cup Provider!Writing
           /\ task.build \in BuildIds \cup {None} /\ task.content \in Contents \cup {None}
           /\ \A step \in Provider!Awaiting \cup Provider!Writing :
                /\ [task EXCEPT !.step = step] \in
                     [op : {"list", "get", "refresh", "attach"}, who : Characters \cup {None},
                      step : Provider!Awaiting \cup Provider!Writing,
                      build : BuildIds \cup {None}, content : Contents \cup {None}]
                /\ [task EXCEPT !.step = step].step = step
                /\ [task EXCEPT !.step = step].build = task.build
                /\ [task EXCEPT !.step = step].content = task.content
BY DEF Provider!ProviderTypeOK

\* A step that writes no file and is in no import afterwards, or in the same.
LEMMA NoWriteStep ==
    ASSUME ImportInv, Provider!ProviderTypeOK', builds' = builds,
           task' # None /\ task'.step \in Provider!Writing => task' = task,
           \A t \in told' : t \in told \/
             /\ builds[t[2]] # None /\ builds[t[2]].content = t[1]
             /\ builds[t[2]].parts = Provider!Parts(t[1]),
           task' # None /\ task'.step \in Provider!Writing => told' = told
    PROVE  ImportInv'
<1>1. Provider!ToldIsWhole'
  BY DEF ImportInv, Provider!ToldIsWhole, Provider!Parts
<1>2. Importing' => task' = task /\ told' = told /\ Importing
  BY DEF Importing, Provider!Writing
<1>3. WrittenSoFar'
  BY <1>2 DEF ImportInv, WrittenSoFar, Written, Provider!Parts
<1>4. ReservedBuilds' \subseteq ReservedBuilds /\ ReservedFiles' \subseteq ReservedFiles
  BY <1>2 DEF ReservedBuilds, ReservedFiles, Provider!WithPob, Provider!Stored,
              Provider!Files, SizedParts, Provider!Parts
<1>5. RoomInv'
  BY <1>4, Fewer, ProviderAssumption DEF ImportInv, RoomInv
<1> QED BY <1>1, <1>3, <1>5 DEF ImportInv
LEMMA ImportInit == Provider!Init => ImportInv
<1> SUFFICES ASSUME Provider!Init PROVE ImportInv
  OBVIOUS
<1> USE DEF Provider!Init
<1>1. Provider!ToldIsWhole /\ ~Importing
  BY DEF Provider!ToldIsWhole, Importing
<1>2. CASE builds = [b \in BuildIds |-> None] /\ index = [d \in Contents |-> None]
  <2>1. Provider!ProviderTypeOK
    BY <1>2, ProviderAssumption DEF Provider!ProviderTypeOK
  <2>2. ReservedBuilds = {} /\ ReservedFiles = {}
    BY <1>1, <1>2 DEF ReservedBuilds, ReservedFiles, Provider!WithPob, Provider!Stored,
                      Provider!Files
  <2> QED
    BY <1>1, <2>1, <2>2, FS_EmptySet, ProviderAssumption DEF ImportInv, WrittenSoFar, RoomInv
<1>3. ASSUME NEW b \in BuildIds, NEW d \in Contents \ Attached,
             builds = [x \in BuildIds |-> IF x = b
                         THEN [content |-> d, parts |-> Provider!Parts(d), current |-> FALSE]
                         ELSE None],
             index = [x \in Contents |-> IF x = d THEN b ELSE None]
      PROVE  ImportInv
  <2>1. Provider!Parts(d) = {"pob", "projection", "beasts", "origin"}
    BY DEF Provider!Parts
  <2>2. Provider!ProviderTypeOK
    <3>1. builds \in [BuildIds -> {None} \cup
            [content : Contents, parts : SUBSET (Provider!Writing \ {"index"}),
             current : BOOLEAN]]
      BY <1>3, <2>1 DEF Provider!Writing
    <3>2. index \in [Contents -> BuildIds \cup {None}]
      BY <1>3
    <3> QED BY <3>1, <3>2, ProviderAssumption DEF Provider!ProviderTypeOK
  <2>3. \A x \in BuildIds : builds[x] # None => x = b /\ builds[x].parts = Provider!Parts(d)
    BY <1>3
  <2>4. ReservedBuilds \subseteq {} \cup {b}
    BY <1>1, <2>3 DEF ReservedBuilds, Provider!WithPob, Provider!Stored
  <2>5. ReservedFiles \subseteq {} \cup ({b} \X SizedParts(d))
    BY <1>1, <2>1, <2>3 DEF ReservedFiles, Provider!Files, SizedParts
  <2>6. RoomInv
    <3>1. IsFiniteSet({}) /\ Cardinality({}) = 0
      BY FS_EmptySet
    <3>2. IsFiniteSet(ReservedBuilds) /\ Cardinality(ReservedBuilds) <= 1
      BY <2>4, <3>1, OneMore
    <3>3. /\ IsFiniteSet({} \cup ({b} \X SizedParts(d)))
          /\ Cardinality({} \cup ({b} \X SizedParts(d))) <= 3
      <4>1. \A S : IsFiniteSet(S) /\ Cardinality(S) <= 0 =>
              /\ IsFiniteSet(S \cup ({b} \X SizedParts(d)))
              /\ Cardinality(S \cup ({b} \X SizedParts(d))) <= 0 + Cardinality(SizedParts(d))
              /\ Cardinality(SizedParts(d)) = IF d \in Attached THEN 1 ELSE 3
        BY SizedFiles
      <4> QED BY <3>1, <4>1
    <3>4. IsFiniteSet(ReservedFiles) /\ Cardinality(ReservedFiles) <= 3
      BY <2>5, <3>3, Fewer
    <3>6. Cardinality(ReservedFiles) \in Nat /\ Cardinality(ReservedBuilds) \in Nat
      BY <3>2, <3>4, FS_CardinalityType
    <3> QED BY <3>2, <3>4, <3>6, ProviderAssumption DEF RoomInv
  <2> QED BY <1>1, <2>2, <2>6 DEF ImportInv, WrittenSoFar
<1> QED BY <1>2, <1>3

\* The process begins, ends or goes on with a request that writes nothing.
LEMMA RequestStep ==
    ASSUME ImportInv, builds' = builds, index' = index, told' = told,
           blocked' \in Nat, now' \in 0 .. MaxNow, session' \in {None, "own"},
           deadline' \in [Characters -> Nat], asked' \in [Characters -> Nat \cup {None}],
           \/ task' = task
           \/ task' = None
           \/ task # None /\ \E step \in Provider!Awaiting : task' = [task EXCEPT !.step = step]
           \/ \E op \in {"list", "get", "refresh", "attach"}, who \in Characters \cup {None},
                 step \in Provider!Awaiting :
                task' = [op |-> op, who |-> who, step |-> step, build |-> None, content |-> None]
    PROVE  ImportInv'
<1>1. Provider!ProviderTypeOK
  BY DEF ImportInv
<1> DEFINE Asking == task' # None /\ task'.step \in Provider!Writing => task' = task
           Fields == [op : {"list", "get", "refresh", "attach"}, who : Characters \cup {None},
                      step : Provider!Awaiting \cup Provider!Writing,
                      build : BuildIds \cup {None}, content : Contents \cup {None}]
<1>2. task' \in {None} \cup Fields /\ Asking
  <2>1. CASE task' = task \/ task' = None
    BY <1>1, <2>1 DEF Provider!ProviderTypeOK
  <2>2. ASSUME task # None, NEW step \in Provider!Awaiting,
               task' = [task EXCEPT !.step = step]
        PROVE  task' \in {None} \cup Fields /\ Asking
    BY <1>1, <2>2, TaskFields DEF Provider!Awaiting, Provider!Writing
  <2>3. ASSUME NEW op \in {"list", "get", "refresh", "attach"},
               NEW who \in Characters \cup {None}, NEW step \in Provider!Awaiting,
               task' = [op |-> op, who |-> who, step |-> step, build |-> None, content |-> None]
        PROVE  task' \in {None} \cup Fields /\ Asking
    BY <2>3 DEF Provider!Awaiting, Provider!Writing
  <2> QED BY <2>1, <2>2, <2>3
<1>3. Provider!ProviderTypeOK'
  BY <1>1, <1>2 DEF Provider!ProviderTypeOK, Provider!Awaiting, Provider!Writing
<1> QED
  BY <1>2, <1>3, NoWriteStep

\* The import takes a build of its own once there is room for all of it.
LEMMA StoreStep ==
    ASSUME ImportInv, NEW d \in Contents, Provider!Store(d)
    PROVE  ImportInv'
<1>1. /\ Provider!ProviderTypeOK /\ builds' = builds /\ index' = index
      /\ blocked' = blocked /\ now' = now /\ session' = session
      /\ deadline' = deadline /\ asked' = asked
  BY DEF ImportInv, Provider!Store
<1>2. task # None /\ task.step \in Provider!Awaiting
  BY DEF Provider!Store, Provider!At, Provider!Awaiting
<1>3. CASE Provider!Reusable(d) /\ told' = told \cup {<<d, index[d]>>} /\ task' = None
  <2>1. index[d] \in BuildIds
    BY <1>1, <1>3 DEF Provider!Reusable, Provider!ProviderTypeOK
  <2>2. \A t \in told' : t \in told \/
          /\ builds[t[2]] # None /\ builds[t[2]].content = t[1]
          /\ builds[t[2]].parts = Provider!Parts(t[1])
    BY <1>3 DEF Provider!Reusable
  <2>3. Provider!ProviderTypeOK'
    BY <1>1, <1>3, <2>1 DEF Provider!ProviderTypeOK
  <2> QED BY <1>1, <1>3, <2>2, <2>3, NoWriteStep
<1>4. CASE told' = told /\ task' = None
  BY <1>1, <1>4, RequestStep DEF Provider!ProviderTypeOK
<1>5. ASSUME Provider!Fits(d), told' = told, NEW b \in BuildIds, builds[b] = None,
             \A t \in told : t[2] # b,
             task' = [task EXCEPT !.step = "pob", !.build = b, !.content = d]
      PROVE  ImportInv'
  <2>1. /\ task' \in [op : {"list", "get", "refresh", "attach"}, who : Characters \cup {None},
                      step : Provider!Awaiting \cup Provider!Writing,
                      build : BuildIds \cup {None}, content : Contents \cup {None}]
        /\ task'.step = "pob" /\ task'.build = b /\ task'.content = d
    BY <1>1, <1>2, <1>5 DEF Provider!ProviderTypeOK, Provider!Writing
  <2>2. Provider!ProviderTypeOK'
    BY <1>1, <1>5, <2>1 DEF Provider!ProviderTypeOK
  <2>3. Provider!ToldIsWhole'
    BY <1>1, <1>5 DEF ImportInv, Provider!ToldIsWhole
  <2>4. WrittenSoFar'
    BY <1>1, <1>5, <2>1 DEF WrittenSoFar
  <2>5. ReservedBuilds' \subseteq Provider!WithPob \cup {b}
    BY <1>1, <2>1 DEF ReservedBuilds, Provider!WithPob, Provider!Stored
  <2>6. ReservedFiles' \subseteq Provider!Files \cup ({b} \X SizedParts(d))
    BY <1>1, <2>1 DEF ReservedFiles, Provider!Files, SizedParts, Provider!Parts
  <2>7. /\ Cardinality(Provider!WithPob) < MaxBuilds
        /\ Cardinality(Provider!Files) + Cardinality(SizedParts(d)) <= MaxBytes
    BY <1>5, SameCardinality DEF Provider!Fits, Provider!UsedBytes, SizedParts
  <2>8. IsFiniteSet(Provider!WithPob) /\ IsFiniteSet(Provider!Files)
    BY FS_Subset DEF ImportInv, RoomInv, ReservedBuilds, ReservedFiles
  <2>9. IsFiniteSet(ReservedBuilds)' /\ Cardinality(ReservedBuilds)' <= MaxBuilds
    BY <2>5, <2>7, <2>8, OneMore, ProviderAssumption
  <2> DEFINE n == Cardinality(Provider!Files)
             all == Provider!Files \cup ({b} \X SizedParts(d))
  <2>10. /\ IsFiniteSet(all) /\ Cardinality(all) <= n + Cardinality(SizedParts(d))
         /\ Cardinality(SizedParts(d)) \in Nat
    <3>1. n \in Nat /\ n <= n
      BY <2>8, FS_CardinalityType
    <3>2. /\ IsFiniteSet(all) /\ Cardinality(all) <= n + Cardinality(SizedParts(d))
          /\ Cardinality(SizedParts(d)) = IF d \in Attached THEN 1 ELSE 3
      <4> HIDE DEF n
      <4>1. Cardinality(Provider!Files) <= n
        BY <3>1 DEF n
      <4> QED BY <2>8, <3>1, <4>1, SizedFiles
    <3> QED BY <3>2
  <2>11. Cardinality(all) <= MaxBytes /\ n \in Nat
    BY <2>7, <2>8, <2>10, FS_CardinalityType, ProviderAssumption
  <2> HIDE DEF all
  <2>12. IsFiniteSet(ReservedFiles)' /\ Cardinality(ReservedFiles)' <= MaxBytes
    <3>1. ReservedFiles' \subseteq all
      BY <2>6 DEF all
    <3> QED BY <2>10, <2>11, <3>1, Fewer, ProviderAssumption
  <2> QED BY <2>2, <2>3, <2>4, <2>9, <2>12 DEF ImportInv, RoomInv
<1> QED
  BY <1>3, <1>4, <1>5 DEF Provider!Store, Provider!Done

\* One more file of the import.
LEMMA WriteStep ==
    ASSUME ImportInv, NEW written \in Provider!Writing, Provider!Write(written)
    PROVE  ImportInv'
<1>1. /\ Provider!ProviderTypeOK /\ told' = told /\ index' = index
      /\ blocked' = blocked /\ now' = now /\ session' = session
      /\ deadline' = deadline /\ asked' = asked
      /\ task # None /\ task.step = written /\ written # "index" /\ Importing
  BY DEF ImportInv, Provider!Write, Provider!At, Importing
<1> DEFINE b == task.build
           d == task.content
           next == Provider!NextWrite(task.content, written)
           had == IF builds[b] = None THEN {} ELSE builds[b].parts
           file == [content |-> d, current |-> TRUE, parts |-> {written} \cup had]
<1>2. /\ b \in BuildIds /\ d \in Contents /\ \A t \in told : t[2] # b
      /\ d \in Attached => written \notin {"beasts", "origin"}
      /\ had = Written(d, written)
      /\ written \in {"pob", "projection", "beasts", "origin"}
  BY <1>1 DEF ImportInv, WrittenSoFar, Written, Provider!Writing
<1>3. /\ next \in Provider!Writing \ {"pob"} /\ Written(d, next) = {written} \cup Written(d, written)
      /\ d \in Attached => next \notin {"beasts", "origin"}
      /\ written \in Provider!Parts(d)
  BY <1>2 DEF Provider!NextWrite, Written, Provider!Parts, Provider!Writing
<1>4. builds' = [builds EXCEPT ![b] = file] /\ task' = [task EXCEPT !.step = next]
  BY DEF Provider!Write, Provider!Go
<1>5. {written} \cup had \in SUBSET {"pob", "projection", "beasts", "origin"}
  BY <1>2 DEF Written, Provider!Parts
<1> HIDE DEF next, had
<1>6. /\ file \in [content : Contents, current : BOOLEAN,
                   parts : SUBSET {"pob", "projection", "beasts", "origin"}]
      /\ file.content = d /\ file.parts = Written(d, next) /\ file # None
  <2>1. d \in Contents
    BY <1>2
  <2> HIDE DEF d
  <2>2. file \in [content : Contents, current : BOOLEAN,
                  parts : SUBSET {"pob", "projection", "beasts", "origin"}]
    BY <1>5, <2>1
  <2>3. file.content = d /\ file.parts = {written} \cup had
    OBVIOUS
  <2> HIDE DEF file
  <2>4. Written(d, next) = {written} \cup had
    BY <1>2, <1>3 DEF d
  <2> QED BY <2>2, <2>3, <2>4, ProviderAssumption
<1> HIDE DEF file
<1>7. /\ builds' \in [BuildIds -> {None} \cup
           [content : Contents, parts : SUBSET (Provider!Writing \ {"index"}), current : BOOLEAN]]
      /\ builds'[b] = file /\ \A x \in BuildIds : x # b => builds'[x] = builds[x]
  <2>1. file \in [content : Contents, parts : SUBSET (Provider!Writing \ {"index"}),
                  current : BOOLEAN]
    BY <1>6 DEF Provider!Writing
  <2> QED BY <1>1, <1>2, <1>4, <2>1 DEF Provider!ProviderTypeOK
<1>8. /\ task' \in [op : {"list", "get", "refresh", "attach"}, who : Characters \cup {None},
                    step : Provider!Awaiting \cup Provider!Writing,
                    build : BuildIds \cup {None}, content : Contents \cup {None}]
      /\ task'.step = next /\ task'.build = b /\ task'.content = d
  BY <1>1, <1>3, <1>4, TaskFields
<1>9. Provider!ProviderTypeOK'
  BY <1>1, <1>7, <1>8 DEF Provider!ProviderTypeOK
<1>10. Provider!ToldIsWhole'
  BY <1>1, <1>2, <1>7 DEF ImportInv, Provider!ToldIsWhole, Provider!ProviderTypeOK
<1>11. WrittenSoFar'
  <2>1. /\ task'.step # "pob" /\ task'.build \in BuildIds /\ task'.content \in Contents
        /\ task'.content \in Attached => task'.step \notin {"beasts", "origin"}
    BY <1>2, <1>3, <1>8
  <2>2. \A t \in told' : t[2] # task'.build
    BY <1>1, <1>2, <1>8
  <2>3. /\ builds'[task'.build] # None /\ builds'[task'.build].content = task'.content
        /\ builds'[task'.build].parts = Written(task'.content, task'.step)
    BY <1>6, <1>7, <1>8
  <2> QED BY <2>1, <2>2, <2>3, Zenon DEF WrittenSoFar
<1>12. ReservedBuilds' \subseteq ReservedBuilds
  BY <1>1, <1>2, <1>7, <1>8 DEF ReservedBuilds, Provider!WithPob, Provider!Stored
<1>13. ReservedFiles' \subseteq ReservedFiles
  <2>1. file.parts = {written} \cup Written(d, written)
    BY <1>3, <1>6
  <2>2. \A q \in Written(d, written) : builds[b] # None /\ q \in builds[b].parts
    BY <1>1 DEF ImportInv, WrittenSoFar, Written
  <2>3. \A f \in Provider!Files' : f \in Provider!Files \/ f = <<b, written>>
    BY <1>2, <1>7, <2>1, <2>2 DEF Provider!Files
  <2>4. \A f \in Provider!Files' : f[2] # "projection"
    BY DEF Provider!Files
  <2> QED
    BY <1>1, <1>3, <1>8, <2>3, <2>4 DEF ReservedFiles, SizedParts, Provider!Parts
<1>14. RoomInv'
  BY <1>12, <1>13, Fewer, ProviderAssumption DEF ImportInv, RoomInv
<1> QED BY <1>9, <1>10, <1>11, <1>14 DEF ImportInv

\* The index is written last and the caller is told.
LEMMA IndexedStep ==
    ASSUME ImportInv, Provider!Indexed
    PROVE  ImportInv'
<1>1. /\ Provider!ProviderTypeOK /\ builds' = builds /\ task' = None
      /\ told' = told \cup {<<task.content, task.build>>}
      /\ index' = [index EXCEPT ![task.content] = task.build]
      /\ blocked' = blocked /\ now' = now /\ session' = session
      /\ deadline' = deadline /\ asked' = asked
      /\ Importing /\ task.step = "index"
  BY DEF ImportInv, Provider!Indexed, Provider!At, Provider!Done, Importing, Provider!Writing
<1>2. /\ task.build \in BuildIds /\ task.content \in Contents
      /\ builds[task.build] # None /\ builds[task.build].content = task.content
      /\ builds[task.build].parts = Provider!Parts(task.content)
  BY <1>1 DEF ImportInv, WrittenSoFar, Written
<1>3. Provider!ProviderTypeOK'
  BY <1>1, <1>2 DEF Provider!ProviderTypeOK
<1>4. \A t \in told' : t \in told \/
        /\ builds[t[2]] # None /\ builds[t[2]].content = t[1]
        /\ builds[t[2]].parts = Provider!Parts(t[1])
  BY <1>1, <1>2
<1> QED BY <1>1, <1>3, <1>4, NoWriteStep

\* A write fails: only what nobody was told of is removed.
LEMMA WriteFailsStep ==
    ASSUME ImportInv, Provider!WriteFails
    PROVE  ImportInv'
<1>1. /\ Provider!ProviderTypeOK /\ task' = None /\ told' = told /\ index' = index
      /\ builds' = [builds EXCEPT ![task.build] = None]
      /\ blocked' = blocked /\ now' = now /\ session' = session
      /\ deadline' = deadline /\ asked' = asked /\ Importing
  BY DEF ImportInv, Provider!WriteFails, Provider!At, Provider!Done, Importing
<1>2. \A t \in told : t[2] # task.build
  BY <1>1 DEF ImportInv, WrittenSoFar
<1>3. /\ Provider!ProviderTypeOK'
      /\ \A b \in BuildIds : builds'[b] \in {None, builds[b]}
      /\ \A b \in BuildIds : b # task.build => builds'[b] = builds[b]
  BY <1>1 DEF Provider!ProviderTypeOK
<1>4. Provider!ToldIsWhole'
  BY <1>1, <1>2, <1>3 DEF ImportInv, Provider!ToldIsWhole, Provider!ProviderTypeOK
<1>5. WrittenSoFar' /\ ~Importing'
  BY <1>1 DEF WrittenSoFar, Importing
<1>6. ReservedBuilds' \subseteq ReservedBuilds /\ ReservedFiles' \subseteq ReservedFiles
  BY <1>3, <1>5 DEF ReservedBuilds, ReservedFiles, Provider!WithPob, Provider!Stored, Provider!Files
<1>7. RoomInv'
  BY <1>6, Fewer, ProviderAssumption DEF ImportInv, RoomInv
<1> QED BY <1>3, <1>4, <1>5, <1>7 DEF ImportInv

\* Deadlines: at least the floor after the request they follow.
LEMMA RefreshTypes ==
    ASSUME Provider!ProviderTypeOK
    PROVE  /\ now \in Nat /\ Floor \in Nat /\ now + Floor \in Nat
           /\ Provider!Limited => blocked' \in Nat
           /\ Provider!Submit => /\ deadline' \in [Characters -> Nat]
                                 /\ asked' \in [Characters -> Nat \cup {None}]
           /\ Provider!Accepted => deadline' \in [Characters -> Nat]
<1>1. /\ now \in Nat /\ Floor \in Nat /\ now + Floor \in Nat /\ Waits \subseteq Nat
      /\ deadline \in [Characters -> Nat] /\ asked \in [Characters -> Nat \cup {None}]
  BY ProviderAssumption DEF Provider!ProviderTypeOK
<1>2. Provider!Limited => blocked' \in Nat
  BY <1>1 DEF Provider!Limited
<1>3. Provider!Submit => /\ deadline' \in [Characters -> Nat]
                         /\ asked' \in [Characters -> Nat \cup {None}]
  BY <1>1 DEF Provider!Submit
<1>4. Provider!Accepted => deadline' \in [Characters -> Nat]
  <2>1. \A wait \in Waits \cup {0} : now + Provider!Max({Floor, wait}) \in Nat
    BY <1>1, GreaterOfTwo
  <2> QED BY <1>1, <2>1 DEF Provider!Accepted
<1> QED BY <1>1, <1>2, <1>3, <1>4

LEMMA ImportStep ==
    ASSUME ImportInv, [Provider!Next]_(Provider!providerVars)
    PROVE  ImportInv'
<1>1. /\ Provider!ProviderTypeOK
      /\ blocked \in Nat /\ now \in 0 .. MaxNow /\ session \in {None, "own"}
      /\ deadline \in [Characters -> Nat] /\ asked \in [Characters -> Nat \cup {None}]
  BY DEF ImportInv, Provider!ProviderTypeOK
<1>2. CASE Provider!Asks
  <2>1. \E op \in {"list", "get", "refresh", "attach"}, who \in Characters \cup {None},
           step \in Provider!Awaiting :
          task' = [op |-> op, who |-> who, step |-> step, build |-> None, content |-> None]
    BY <1>2 DEF Provider!Asks, Provider!List, Provider!Get, Provider!Attach, Provider!Refresh,
                Provider!Begin, Provider!Awaiting
  <2> QED BY <1>1, <1>2, <2>1, RequestStep DEF Provider!Asks
<1>3. CASE Provider!Refused \/ Provider!TimesOut \/ Provider!Snapshot
  BY <1>1, <1>3, RequestStep DEF Provider!Refused, Provider!TimesOut, Provider!Snapshot, Provider!Done
<1>4. CASE Provider!Fails
  <2>1. blocked' \in Nat
    BY <1>1, <1>4, RefreshTypes DEF Provider!Fails
  <2> QED BY <1>1, <1>4, <2>1, RequestStep DEF Provider!Fails, Provider!Done
<1>5. CASE Provider!Entries
  BY <1>1, <1>5, RequestStep
     DEF Provider!Entries, Provider!At, Provider!Done, Provider!Go, Provider!Awaiting
<1>6. CASE Provider!Submit
  <2>1. /\ deadline' \in [Characters -> Nat] /\ asked' \in [Characters -> Nat \cup {None}]
    BY <1>1, <1>6, RefreshTypes
  <2>2. task' = None \/ (task # None /\ task' = [task EXCEPT !.step = "answer"])
    BY <1>6 DEF Provider!Submit, Provider!At, Provider!Done, Provider!Go
  <2> QED BY <1>1, <1>6, <2>1, <2>2, RequestStep DEF Provider!Submit, Provider!Awaiting
<1>7. CASE Provider!Accepted
  <2>1. deadline' \in [Characters -> Nat]
    BY <1>1, <1>7, RefreshTypes
  <2>2. task' = None \/ (task # None /\ task' = [task EXCEPT !.step = "after"])
    BY <1>7 DEF Provider!Accepted, Provider!At, Provider!Done, Provider!Go
  <2> QED BY <1>1, <1>7, <2>1, <2>2, RequestStep DEF Provider!Accepted, Provider!Awaiting
<1>8. CASE Provider!Restart
  BY <1>1, <1>8, RequestStep DEF Provider!Restart, Provider!Done
<1>9. CASE Provider!ConfigureSession
  BY <1>1, <1>9, RequestStep DEF Provider!ConfigureSession
<1>10. CASE Provider!Tick
  <2>1. now' \in 0 .. MaxNow
    BY <1>1, <1>10, ProviderAssumption DEF Provider!Tick
  <2> QED BY <1>1, <1>10, <2>1, RequestStep DEF Provider!Tick
<1>11. CASE UNCHANGED Provider!providerVars
  BY <1>1, <1>11, RequestStep DEF Provider!providerVars
<1> QED
  BY <1>2, <1>3, <1>4, <1>5, <1>6, <1>7, <1>8, <1>9, <1>10, <1>11, StoreStep, WriteStep,
     IndexedStep, WriteFailsStep
  DEF Provider!Next, Provider!Steps

\* Whatever crashes, timeouts and failing writes do to an import: a build a caller was
\* told of keeps all its files, and the directory stays within its quota.
THEOREM ImportsAreSound == Provider!Spec => []ImportsSound
<1>1. ImportInv => ImportsSound
  <2> SUFFICES ASSUME ImportInv PROVE Provider!QuotaHolds
    BY DEF ImportInv, ImportsSound
  <2>1. Provider!WithPob \subseteq ReservedBuilds /\ Provider!Files \subseteq ReservedFiles
    BY DEF ReservedBuilds, ReservedFiles
  <2>2. Cardinality(Provider!WithPob) <= MaxBuilds /\ Cardinality(Provider!Files) <= MaxBytes
    BY <2>1, Fewer, ProviderAssumption DEF ImportInv, RoomInv
  <2> QED BY <2>2, SameCardinality DEF Provider!QuotaHolds, Provider!UsedBytes
<1>2. ImportInv /\ [Provider!Next]_(Provider!providerVars) => ImportInv'
  BY ImportStep
<1> QED BY <1>1, <1>2, ImportInit, PTL DEF Provider!Spec

\* The deadline on disk stays ahead of the latest request of its character.
RefreshInv ==
    \A c \in Characters : asked[c] # None =>
        asked[c] <= now /\ deadline[c] >= asked[c] + Floor

LEMMA RefreshStep ==
    ASSUME ImportInv, RefreshInv, [Provider!Next]_(Provider!providerVars)
    PROVE  RefreshInv' /\ Provider!RefreshSpaced
<1>1. /\ now \in Nat /\ Floor \in Nat /\ Waits \subseteq Nat
      /\ deadline \in [Characters -> Nat] /\ asked \in [Characters -> Nat \cup {None}]
  BY ProviderAssumption DEF ImportInv, Provider!ProviderTypeOK
<1>2. ASSUME deadline' = deadline, asked' = asked, now' \in {now, now + 1}
      PROVE  RefreshInv' /\ Provider!RefreshSpaced
  BY <1>1, <1>2 DEF RefreshInv, Provider!RefreshSpaced
<1>3. CASE Provider!Submit
  <2>1. CASE deadline' = deadline /\ asked' = asked
    BY <1>2, <1>3, <2>1 DEF Provider!Submit
  <2>2. CASE /\ deadline[task.who] <= now
             /\ deadline' = [deadline EXCEPT ![task.who] = now + Floor]
             /\ asked' = [asked EXCEPT ![task.who] = now]
    <3>1. now' = now
      BY <1>3 DEF Provider!Submit
    <3>2. \A c \in Characters : c # task.who => asked'[c] = asked[c] /\ deadline'[c] = deadline[c]
      BY <1>1, <2>2
    <3>3. task.who \in Characters => asked'[task.who] = now /\ deadline'[task.who] = now + Floor
      BY <1>1, <2>2
    <3>4. task.who \in Characters /\ asked[task.who] # None => now >= asked[task.who] + Floor
      BY <1>1, <2>2 DEF RefreshInv
    <3> QED BY <1>1, <3>1, <3>2, <3>3, <3>4 DEF RefreshInv, Provider!RefreshSpaced
  <2>3. deadline[task.who] > now \/ ~(deadline[task.who] > now)
    OBVIOUS
  <2>4. CASE task.who \in Characters
    <3>1. deadline[task.who] \in Nat
      BY <1>1, <2>4
    <3> QED BY <1>1, <1>3, <2>1, <2>2, <3>1 DEF Provider!Submit
  <2>5. CASE task.who \notin Characters
    <3>1. deadline' = deadline /\ asked' = asked
      BY <1>1, <1>3, <2>5 DEF Provider!Submit
    <3> QED BY <2>1, <3>1
  <2> QED BY <2>4, <2>5
<1>4. CASE Provider!Accepted
  <2>1. PICK wait \in Waits \cup {0} :
          deadline' = [deadline EXCEPT ![task.who] = now + Provider!Max({Floor, wait})]
    BY <1>4 DEF Provider!Accepted
  <2>2. asked' = asked /\ now' = now
    BY <1>4 DEF Provider!Accepted
  <2>3. Provider!Max({Floor, wait}) \in Nat /\ Provider!Max({Floor, wait}) >= Floor
    BY <1>1, GreaterOfTwo
  <2>4. \A c \in Characters :
          deadline'[c] = deadline[c] \/ deadline'[c] = now + Provider!Max({Floor, wait})
    BY <1>1, <2>1
  <2> QED BY <1>1, <2>2, <2>3, <2>4 DEF RefreshInv, Provider!RefreshSpaced
<1>5. ASSUME ~Provider!Submit, ~Provider!Accepted
      PROVE  deadline' = deadline /\ asked' = asked /\ now' \in {now, now + 1}
  BY <1>5
     DEF Provider!Next, Provider!Asks, Provider!Steps, Provider!Restart, Provider!ConfigureSession,
         Provider!Tick, Provider!Refused, Provider!Fails, Provider!Entries, Provider!Snapshot,
         Provider!Store, Provider!Write, Provider!Indexed, Provider!WriteFails, Provider!TimesOut,
         Provider!providerVars
<1> QED BY <1>2, <1>3, <1>4, <1>5

\* Two refresh requests of one character are at least the floor apart: the deadline is
\* on disk before the request goes out, so no timeout or restart forgets it.
THEOREM RefreshesAreSpaced == Provider!Spec => Provider!ProviderRefreshSpaced
<1>1. Provider!Init => RefreshInv
  BY DEF Provider!Init, RefreshInv
<1>2. ImportInv /\ RefreshInv /\ [Provider!Next]_(Provider!providerVars) =>
        RefreshInv' /\ Provider!RefreshSpaced
  BY RefreshStep
<1>3. ImportInv /\ [Provider!Next]_(Provider!providerVars) => ImportInv'
  BY ImportStep
<1>4. ImportInv /\ RefreshInv /\ [Provider!Next]_(Provider!providerVars) =>
        [Provider!RefreshSpaced]_(Provider!providerVars)
  BY <1>2
<1> QED BY <1>1, <1>2, <1>3, <1>4, ImportInit, PTL
        DEF Provider!Spec, Provider!ProviderRefreshSpaced

-------------------------------------------------------------------------------
(* Assertions: the lock, the copy of the keys and the issuer *)

Fetching(v) == Access!Step(v, "fetching")

\* The lock is held exactly while a fetch is under way, by one request, and the
\* fetch is the latest one and within the client's timeouts.
FetchInv ==
    /\ \A v \in Verifications : Fetching(v) => fetched # None
    /\ \A v, w \in Verifications : Fetching(v) /\ Fetching(w) => v = w
    /\ fetched # None =>
         /\ \E v \in Verifications : Fetching(v)
         /\ lastFetch = fetched.begun /\ fetched.begun <= clock
         /\ clock <= fetched.begun + FetchTime
    /\ lastFetch # None => lastFetch <= clock
    /\ retry_at = IF lastFetch = None THEN 0 ELSE lastFetch + RetryFloor

\* What the issuer publishes: "upto" of a published key is now.
IssuerInv ==
    /\ \A k \in Kids : since[k] <= clock
    /\ \A k \in Kids : upto[k] # None => upto[k] <= clock
    /\ \A k \in keeps : upto[k] = clock

\* The copy, and the answer under way: no key in it was withdrawn before the fetch
\* began, and no key published before the fetch began is missing.
CopyInv ==
    /\ \A k \in keys : upto[k] # None /\ expires <= upto[k] + KeyLife
    /\ fetched # None /\ fetched.body # None =>
         /\ \A k \in fetched.body : upto[k] # None /\ fetched.begun <= upto[k]
         /\ \A k \in keeps : since[k] < fetched.begun => k \in fetched.body
    /\ fetched = None /\ lastFetch # None =>
         \A k \in keeps : since[k] < lastFetch =>
           \/ k \in keys /\ expires = lastFetch + KeyLife
           \/ failedAt # None /\ failedAt >= since[k]

AccessInv ==
    /\ Access!AccessTypeOK /\ FetchInv /\ IssuerInv /\ CopyInv
    /\ Access!AcceptedIsPublished /\ Access!RefusalEnds

LEMMA AccessInit == Access!Init => AccessInv
<1> SUFFICES ASSUME Access!Init PROVE AccessInv
  OBVIOUS
<1>1. 0 \in Access!AccessTimes /\ 0 \in 0..MaxClock
  BY AccessAssumption DEF Access!AccessTimes
<1>2. /\ \A v \in Verifications : verify[v] = None
      /\ \A k \in Kids : since[k] = 0 /\ upto[k] = IF k \in keeps THEN 0 ELSE None
  BY DEF Access!Init
<1>3. Access!AccessTypeOK
  BY <1>1 DEF Access!Init, Access!AccessTypeOK
<1>4. FetchInv
  BY <1>2 DEF Access!Init, FetchInv, Fetching, Access!Step
<1>5. IssuerInv /\ CopyInv
  BY <1>2, AccessAssumption DEF Access!Init, IssuerInv, CopyInv
<1> QED BY <1>3, <1>4, <1>5
        DEF Access!Init, AccessInv, Access!AcceptedIsPublished, Access!RefusalEnds

\* What a conclusion does to the requests in progress.
LEMMA Concludes ==
    ASSUME Access!AccessTypeOK, NEW v \in Verifications, verify[v] # None, NEW o,
           Access!Conclude(v, o)
    PROVE  /\ \A w \in Verifications : verify'[w] = IF w = v THEN None ELSE verify[w]
           /\ verify' \in [Verifications -> {None} \cup
                [kid : Kids, step : {"queued", "fetching"}, genuine : BOOLEAN]]
           /\ answer' = [kid |-> verify[v].kid, genuine |-> verify[v].genuine, outcome |-> o]
           /\ verify[v].kid \in Kids /\ verify[v].genuine \in BOOLEAN
<1>1. verify' = [verify EXCEPT ![v] = None]
  BY DEF Access!Conclude
<1>2. verify[v] \in [kid : Kids, step : {"queued", "fetching"}, genuine : BOOLEAN]
  BY DEF Access!AccessTypeOK
<1> QED BY <1>1, <1>2 DEF Access!Conclude, Access!AccessTypeOK

\* A request leaves the lock's state alone: only its own step may change, and not
\* into or out of a fetch.
LEMMA LockKept ==
    ASSUME FetchInv,
           \A v \in Verifications : Fetching(v)' <=> Fetching(v),
           UNCHANGED <<fetched, lastFetch, retry_at, clock>>
    PROVE  FetchInv'
BY DEF FetchInv

LEMMA LookupKeeps ==
    ASSUME AccessInv, NEW v \in Verifications, Access!Lookup(v)
    PROVE  AccessInv'
<1>1. /\ verify[v] # None /\ verify[v].step = "queued"
      /\ ~Access!Locked /\ fetched = None
      /\ UNCHANGED <<keys, expires, retry_at, fetched, keeps, since, upto, lastFetch, failedAt, clock>>
  BY DEF Access!Lookup, Access!Step, AccessInv, FetchInv, Fetching, Access!Locked
<1>2. \/ Access!Known(v) /\ Access!Conclude(v, Access!Checked(v))
      \/ /\ ~Access!Known(v) /\ clock < retry_at
         /\ Access!Conclude(v, IF clock >= expires THEN "unavailable" ELSE "denied")
  BY DEF Access!Lookup
<1>3. PICK o \in {"accepted", "denied", "unavailable"} :
        /\ Access!Conclude(v, o)
        /\ o = "accepted" => Access!Known(v) /\ verify[v].genuine
        /\ o # "accepted" /\ verify[v].genuine => ~Access!Known(v) /\ clock < retry_at
  BY <1>2 DEF Access!Checked
<1>4. /\ \A w \in Verifications : verify'[w] = IF w = v THEN None ELSE verify[w]
      /\ verify' \in [Verifications -> {None} \cup
           [kid : Kids, step : {"queued", "fetching"}, genuine : BOOLEAN]]
      /\ answer' = [kid |-> verify[v].kid, genuine |-> verify[v].genuine, outcome |-> o]
      /\ verify[v].kid \in Kids /\ verify[v].genuine \in BOOLEAN
  BY <1>1, <1>3, Concludes DEF AccessInv
<1>5. Access!AccessTypeOK'
  BY <1>1, <1>4 DEF AccessInv, Access!AccessTypeOK, Access!Answers
<1>6. \A w \in Verifications : Fetching(w)' <=> Fetching(w)
  BY <1>1, <1>4 DEF Fetching, Access!Step
<1>7. FetchInv'
  BY <1>1, <1>6, LockKept DEF AccessInv
<1>8. IssuerInv' /\ CopyInv'
  BY <1>1 DEF AccessInv, IssuerInv, CopyInv
<1>9. Access!AcceptedIsPublished'
  <2>1. o = "accepted" => upto[verify[v].kid] # None /\ clock < upto[verify[v].kid] + KeyLife
    <3> SUFFICES ASSUME o = "accepted"
                 PROVE  upto[verify[v].kid] # None /\ clock < upto[verify[v].kid] + KeyLife
      OBVIOUS
    <3>1. clock < expires /\ verify[v].kid \in keys
      BY <1>3 DEF Access!Known
    <3>2. upto[verify[v].kid] # None /\ expires <= upto[verify[v].kid] + KeyLife
      BY <3>1 DEF AccessInv, CopyInv
    <3>3. clock \in Nat /\ expires \in Nat /\ upto[verify[v].kid] \in Nat
      BY <1>4, <3>2, AccessAssumption DEF AccessInv, Access!AccessTypeOK, Access!AccessTimes
    <3> QED BY <3>1, <3>2, <3>3, AccessAssumption
  <2> QED BY <1>1, <1>3, <1>4, <2>1 DEF Access!AcceptedIsPublished
<1>10. Access!RefusalEnds'
  <2> DEFINE k == verify[v].kid
  <2>1. ASSUME o # "accepted", verify[v].genuine, k \in keeps
        PROVE  \/ clock < since[k] + RetryFloor
               \/ failedAt # None /\ failedAt >= since[k]
    <3>1. ~Access!Known(v) /\ clock < retry_at
      BY <1>3, <2>1
    <3>2. clock \in Nat /\ since[k] \in Nat /\ expires \in Nat
      BY <1>4, AccessAssumption DEF AccessInv, Access!AccessTypeOK, Access!AccessTimes
    <3>3. lastFetch # None /\ retry_at = lastFetch + RetryFloor
      BY <3>1, <3>2 DEF AccessInv, FetchInv
    <3>4. lastFetch \in Nat
      BY <3>3 DEF AccessInv, Access!AccessTypeOK, Access!AccessTimes
    <3>5. CASE since[k] >= lastFetch
      BY <3>1, <3>2, <3>3, <3>4, <3>5, AccessAssumption
    <3>6. CASE since[k] < lastFetch
      <4>1. \/ k \in keys /\ expires = lastFetch + KeyLife
            \/ failedAt # None /\ failedAt >= since[k]
        BY <1>1, <2>1, <3>3, <3>6 DEF AccessInv, CopyInv
      <4>2. k \in keys /\ expires = lastFetch + KeyLife => clock < expires
        BY <3>1, <3>2, <3>3, <3>4, AccessAssumption
      <4> QED BY <3>1, <4>1, <4>2 DEF Access!Known
    <3> QED BY <3>2, <3>4, <3>5, <3>6
  <2> QED BY <1>1, <1>4, <2>1 DEF Access!RefusalEnds
<1> QED BY <1>5, <1>7, <1>8, <1>9, <1>10 DEF AccessInv

LEMMA RequestKeeps ==
    ASSUME AccessInv, NEW v \in Verifications, NEW kid \in Kids, NEW genuine \in BOOLEAN,
           Access!Request(v, kid, genuine)
    PROVE  AccessInv'
<1>1. /\ answer' = None /\ verify[v] = None
      /\ UNCHANGED <<keys, expires, retry_at, fetched, keeps, since, upto, lastFetch, failedAt, clock>>
  BY DEF Access!Request
<1>2. \A w \in Verifications : verify'[w] =
        IF w = v THEN [kid |-> kid, step |-> "queued", genuine |-> genuine] ELSE verify[w]
  BY DEF Access!Request, AccessInv, Access!AccessTypeOK
<1>3. Access!AccessTypeOK'
  <2>1. verify' \in [Verifications -> {None} \cup
           [kid : Kids, step : {"queued", "fetching"}, genuine : BOOLEAN]]
    BY DEF Access!Request, AccessInv, Access!AccessTypeOK
  <2> QED BY <1>1, <2>1 DEF AccessInv, Access!AccessTypeOK
<1>4. \A w \in Verifications : Fetching(w)' <=> Fetching(w)
  BY <1>1, <1>2 DEF Fetching, Access!Step
<1>5. FetchInv'
  BY <1>1, <1>4, LockKept DEF AccessInv
<1>6. IssuerInv' /\ CopyInv'
  BY <1>1 DEF AccessInv, IssuerInv, CopyInv
<1> QED BY <1>1, <1>3, <1>5, <1>6 DEF AccessInv, Access!AcceptedIsPublished, Access!RefusalEnds

LEMMA FetchKeeps ==
    ASSUME AccessInv, NEW v \in Verifications, Access!Fetch(v)
    PROVE  AccessInv' /\ Access!FetchesSpaced
<1>1. /\ answer' = None /\ verify[v] # None /\ verify[v].step = "queued"
      /\ \A w \in Verifications : ~Fetching(w)
      /\ fetched = None /\ clock >= retry_at
      /\ retry_at' = clock + RetryFloor /\ lastFetch' = clock
      /\ fetched' = [begun |-> clock, body |-> None]
      /\ UNCHANGED <<keys, expires, keeps, since, upto, failedAt, clock>>
  BY DEF Access!Fetch, Access!Step, AccessInv, FetchInv, Fetching, Access!Locked
<1>2. clock \in 0..MaxClock /\ clock \in Nat /\ clock \in Access!AccessTimes
      /\ clock + RetryFloor \in Access!AccessTimes
  BY AccessAssumption DEF AccessInv, Access!AccessTypeOK, Access!AccessTimes
<1>3. verify' = [verify EXCEPT ![v].step = "fetching"]
  BY DEF Access!Fetch
<1>4. /\ verify[v] \in [kid : Kids, step : {"queued", "fetching"}, genuine : BOOLEAN]
      /\ verify \in [Verifications -> {None} \cup
           [kid : Kids, step : {"queued", "fetching"}, genuine : BOOLEAN]]
  BY <1>1 DEF AccessInv, Access!AccessTypeOK
<1>5. verify' \in [Verifications -> {None} \cup
        [kid : Kids, step : {"queued", "fetching"}, genuine : BOOLEAN]]
  BY <1>3, <1>4
<1>6. \A w \in Verifications : verify'[w] =
        IF w = v THEN [verify[v] EXCEPT !.step = "fetching"] ELSE verify[w]
  BY <1>3, <1>4
<1>7. [verify[v] EXCEPT !.step = "fetching"].step = "fetching"
      /\ [verify[v] EXCEPT !.step = "fetching"] # None
  BY <1>4, AccessAssumption
<1>8. \A w \in Verifications : Fetching(w)' <=> w = v
  BY <1>1, <1>6, <1>7 DEF Fetching, Access!Step
<1>9. fetched' # None /\ fetched'.begun = clock /\ fetched'.body = None
  <2>1. fetched' \in [begun : Nat, body : {None} \cup SUBSET Kids]
    BY <1>1, <1>2
  <2> QED BY <1>1, <2>1, AccessAssumption
<1>10. Access!AccessTypeOK'
  BY <1>1, <1>2, <1>5 DEF AccessInv, Access!AccessTypeOK
<1>11. lastFetch' # None
  BY <1>1, <1>2, AccessAssumption
<1>12. FetchInv'
  BY <1>1, <1>2, <1>8, <1>9, <1>11, AccessAssumption DEF FetchInv
<1>13. IssuerInv' /\ CopyInv'
  BY <1>1, <1>9 DEF AccessInv, IssuerInv, CopyInv
<1>14. lastFetch # None => clock >= lastFetch + RetryFloor
  BY <1>1 DEF AccessInv, FetchInv
<1>15. Access!FetchesSpaced
  BY <1>14 DEF Access!FetchesSpaced
<1> QED BY <1>1, <1>10, <1>12, <1>13, <1>15
        DEF AccessInv, Access!AcceptedIsPublished, Access!RefusalEnds

\* The record of the fetch under way.
LEMMA UnderWay ==
    ASSUME AccessInv, fetched # None
    PROVE  /\ fetched \in [begun : Access!AccessTimes, body : {None} \cup SUBSET Kids]
           /\ fetched.begun \in Nat /\ clock \in Nat
           /\ lastFetch = fetched.begun /\ lastFetch # None /\ fetched.begun <= clock
           /\ clock <= fetched.begun + FetchTime
<1>1. fetched \in [begun : Access!AccessTimes, body : {None} \cup SUBSET Kids]
  BY DEF AccessInv, Access!AccessTypeOK
<1>2. fetched.begun \in Nat /\ clock \in Nat
  BY <1>1, AccessAssumption DEF AccessInv, Access!AccessTypeOK, Access!AccessTimes
<1> QED BY <1>1, <1>2, AccessAssumption DEF AccessInv, FetchInv

LEMMA ServedKeeps ==
    ASSUME AccessInv, Access!Served
    PROVE  AccessInv' /\ Access!FetchesSpaced
<1>1. /\ answer' = None /\ fetched # None /\ fetched.body = None
      /\ fetched' = [fetched EXCEPT !.body = keeps]
      /\ UNCHANGED <<verify, keys, expires, retry_at, keeps, since, upto, lastFetch, failedAt, clock>>
  BY DEF Access!Served
<1>2. /\ fetched \in [begun : Access!AccessTimes, body : {None} \cup SUBSET Kids]
      /\ fetched.begun \in Nat /\ clock \in Nat /\ fetched.begun <= clock
  BY <1>1, UnderWay
<1>3. keeps \subseteq Kids
  BY DEF AccessInv, Access!AccessTypeOK
<1>4. /\ fetched' \in [begun : Access!AccessTimes, body : {None} \cup SUBSET Kids]
      /\ fetched'.begun = fetched.begun /\ fetched'.body = keeps
  BY <1>1, <1>2, <1>3
<1>5. fetched' # None
  <2>1. fetched' \in [begun : Nat, body : {None} \cup SUBSET Kids]
    BY <1>2, <1>4
  <2> QED BY <2>1, AccessAssumption
<1>6. Access!AccessTypeOK'
  BY <1>1, <1>4 DEF AccessInv, Access!AccessTypeOK
<1>7. \A w \in Verifications : Fetching(w)' <=> Fetching(w)
  BY <1>1 DEF Fetching, Access!Step
<1>8. FetchInv'
  BY <1>1, <1>4, <1>5, <1>7 DEF AccessInv, FetchInv
<1>9. IssuerInv'
  BY <1>1 DEF AccessInv, IssuerInv
<1>10. \A k \in keeps : upto[k] # None /\ fetched.begun <= upto[k]
  BY <1>2, AccessAssumption DEF AccessInv, IssuerInv
<1>11. CopyInv'
  BY <1>1, <1>4, <1>5, <1>10 DEF AccessInv, CopyInv
<1>12. Access!FetchesSpaced
  BY <1>1, <1>4 DEF Access!FetchesSpaced
<1> QED BY <1>1, <1>6, <1>8, <1>9, <1>11, <1>12
        DEF AccessInv, Access!AcceptedIsPublished, Access!RefusalEnds

\* A fetch that ends frees the lock.
LEMMA FetchEnds ==
    ASSUME AccessInv, NEW v \in Verifications, Fetching(v),
           \A w \in Verifications : verify'[w] = IF w = v THEN None ELSE verify[w],
           fetched' = None, UNCHANGED <<lastFetch, retry_at, clock>>
    PROVE  FetchInv'
<1>1. \A w \in Verifications : ~Fetching(w)'
  BY DEF AccessInv, FetchInv, Fetching, Access!Step
<1> QED BY <1>1 DEF AccessInv, FetchInv

LEMMA ReceivedKeeps ==
    ASSUME AccessInv, NEW v \in Verifications, Access!Received(v)
    PROVE  AccessInv'
<1>1. /\ Fetching(v) /\ verify[v] # None /\ fetched # None /\ fetched.body # None
      /\ keys' = fetched.body /\ expires' = fetched.begun + KeyLife /\ fetched' = None
      /\ UNCHANGED <<retry_at, keeps, since, upto, lastFetch, failedAt, clock>>
  BY DEF Access!Received, Access!Expiry, Access!Step, AccessInv, FetchInv, Fetching
<1> DEFINE k == verify[v].kid
           begun == fetched.begun
<1>2. PICK o \in {"accepted", "denied", "unavailable"} :
        /\ Access!Conclude(v, o)
        /\ o = "accepted" => k \in fetched.body /\ verify[v].genuine
        /\ o # "accepted" /\ verify[v].genuine => k \notin fetched.body
  BY DEF Access!Received, Access!Checked
<1>3. /\ \A w \in Verifications : verify'[w] = IF w = v THEN None ELSE verify[w]
      /\ verify' \in [Verifications -> {None} \cup
           [kid : Kids, step : {"queued", "fetching"}, genuine : BOOLEAN]]
      /\ answer' = [kid |-> k, genuine |-> verify[v].genuine, outcome |-> o]
      /\ k \in Kids /\ verify[v].genuine \in BOOLEAN
  BY <1>1, <1>2, Concludes DEF AccessInv
<1>4. /\ begun \in Nat /\ clock \in Nat /\ lastFetch = begun /\ begun <= clock
      /\ clock <= begun + FetchTime /\ fetched.body \subseteq Kids
  <2>1. fetched \in [begun : Access!AccessTimes, body : {None} \cup SUBSET Kids]
    BY <1>1, UnderWay
  <2> QED BY <1>1, <2>1, UnderWay
<1>5. begun + KeyLife \in Access!AccessTimes
  BY <1>4, AccessAssumption DEF AccessInv, Access!AccessTypeOK, Access!AccessTimes
<1>6. /\ \A j \in fetched.body : upto[j] # None /\ begun <= upto[j]
      /\ \A j \in keeps : since[j] < begun => j \in fetched.body
  BY <1>1 DEF AccessInv, CopyInv
<1>7. \A j \in Kids : since[j] \in Nat /\ (upto[j] # None => upto[j] \in Nat)
  BY AccessAssumption DEF AccessInv, Access!AccessTypeOK, Access!AccessTimes
<1> HIDE DEF k, begun
<1>8. Access!AccessTypeOK'
  <2>1. answer' \in Access!Answers
    BY <1>3 DEF Access!Answers
  <2> QED BY <1>1, <1>3, <1>4, <1>5, <2>1 DEF AccessInv, Access!AccessTypeOK, begun
<1>9. FetchInv'
  BY <1>1, <1>3, FetchEnds
<1>10. IssuerInv'
  BY <1>1 DEF AccessInv, IssuerInv
<1>11. CopyInv'
  <2>1. \A j \in keys' : upto'[j] # None /\ expires' <= upto'[j] + KeyLife
    BY <1>1, <1>4, <1>6, <1>7, AccessAssumption DEF begun
  <2>2. \A j \in keeps' : since'[j] < lastFetch' =>
          j \in keys' /\ expires' = lastFetch' + KeyLife
    BY <1>1, <1>4, <1>6 DEF begun
  <2> QED BY <1>1, <2>1, <2>2 DEF CopyInv
<1>12. o = "accepted" => upto[k] # None /\ clock < upto[k] + KeyLife
  BY <1>2, <1>3, <1>4, <1>6, <1>7, AccessAssumption
<1>13. Access!AcceptedIsPublished'
  BY <1>1, <1>2, <1>3, <1>12 DEF Access!AcceptedIsPublished
<1>14. o # "accepted" /\ verify[v].genuine /\ k \in keeps => clock < since[k] + RetryFloor
  BY <1>2, <1>3, <1>4, <1>6, <1>7, AccessAssumption
<1>15. Access!RefusalEnds'
  BY <1>1, <1>3, <1>14 DEF Access!RefusalEnds
<1> QED BY <1>8, <1>9, <1>10, <1>11, <1>13, <1>15 DEF AccessInv

\* A fetch that fails or is cancelled: the old copy stays, and the failure is new.
LEMMA FailureKeeps ==
    ASSUME AccessInv, NEW v \in Verifications, Fetching(v),
           fetched' = None, failedAt' = clock,
           UNCHANGED <<keys, expires, retry_at, keeps, since, upto, lastFetch, clock>>,
           \A w \in Verifications : verify'[w] = IF w = v THEN None ELSE verify[w],
           verify' \in [Verifications -> {None} \cup
             [kid : Kids, step : {"queued", "fetching"}, genuine : BOOLEAN]],
           answer' \in {None} \cup Access!Answers,
           answer' # None => answer'.outcome # "accepted"
    PROVE  AccessInv'
<1>1. clock \in Access!AccessTimes /\ clock # None
  BY AccessAssumption DEF AccessInv, Access!AccessTypeOK, Access!AccessTimes
<1>2. Access!AccessTypeOK'
  BY <1>1 DEF AccessInv, Access!AccessTypeOK
<1>3. FetchInv'
  BY FetchEnds
<1>4. IssuerInv'
  BY DEF AccessInv, IssuerInv
<1>5. \A k \in Kids : clock >= since[k]
  BY AccessAssumption DEF AccessInv, IssuerInv, Access!AccessTypeOK, Access!AccessTimes
<1>6. keeps \subseteq Kids
  BY DEF AccessInv, Access!AccessTypeOK
<1>7. CopyInv'
  BY <1>1, <1>5, <1>6 DEF AccessInv, CopyInv
<1> QED BY <1>1, <1>2, <1>3, <1>4, <1>5, <1>6, <1>7
        DEF AccessInv, Access!AcceptedIsPublished, Access!RefusalEnds

LEMMA FailedKeeps ==
    ASSUME AccessInv, NEW v \in Verifications, Access!Failed(v) \/ Access!Cancelled(v)
    PROVE  AccessInv'
<1>1. /\ Fetching(v) /\ verify[v] # None /\ fetched' = None /\ failedAt' = clock
      /\ UNCHANGED <<keys, expires, retry_at, keeps, since, upto, lastFetch, clock>>
  BY DEF Access!Failed, Access!Cancelled, Access!Step, Fetching
<1>2. CASE Access!Failed(v)
  <2>1. Access!Conclude(v, "unavailable")
    BY <1>2 DEF Access!Failed
  <2>2. /\ \A w \in Verifications : verify'[w] = IF w = v THEN None ELSE verify[w]
        /\ verify' \in [Verifications -> {None} \cup
             [kid : Kids, step : {"queued", "fetching"}, genuine : BOOLEAN]]
        /\ answer' = [kid |-> verify[v].kid, genuine |-> verify[v].genuine,
                      outcome |-> "unavailable"]
        /\ verify[v].kid \in Kids /\ verify[v].genuine \in BOOLEAN
    BY <1>1, <2>1, Concludes DEF AccessInv
  <2>3. answer' \in Access!Answers /\ answer'.outcome # "accepted"
    BY <2>2 DEF Access!Answers
  <2> QED BY <1>1, <2>2, <2>3, FailureKeeps
<1>3. CASE Access!Cancelled(v)
  <2>1. answer' = None /\ verify' = [verify EXCEPT ![v] = None]
    BY <1>3 DEF Access!Cancelled
  <2>2. /\ \A w \in Verifications : verify'[w] = IF w = v THEN None ELSE verify[w]
        /\ verify' \in [Verifications -> {None} \cup
             [kid : Kids, step : {"queued", "fetching"}, genuine : BOOLEAN]]
    BY <2>1 DEF AccessInv, Access!AccessTypeOK
  <2> QED BY <1>1, <2>1, <2>2, FailureKeeps
<1> QED BY <1>2, <1>3

LEMMA RotateKeeps ==
    ASSUME AccessInv, NEW kid \in Kids, Access!Rotate(kid)
    PROVE  AccessInv'
<1>1. /\ answer' = None
      /\ UNCHANGED <<verify, keys, expires, retry_at, fetched, lastFetch, failedAt, clock>>
      /\ keeps' = IF kid \in keeps THEN keeps \ {kid} ELSE keeps \cup {kid}
      /\ since' = [since EXCEPT ![kid] = IF kid \in keeps THEN since[kid] ELSE clock]
      /\ upto' = [upto EXCEPT ![kid] = clock]
  BY DEF Access!Rotate
<1>2. /\ clock \in Nat /\ clock \in Access!AccessTimes /\ clock # None /\ keeps \subseteq Kids
      /\ since \in [Kids -> Access!AccessTimes]
      /\ upto \in [Kids -> Access!AccessTimes \cup {None}]
      /\ expires \in Nat
  BY AccessAssumption DEF AccessInv, Access!AccessTypeOK, Access!AccessTimes
<1>3. /\ since' \in [Kids -> Access!AccessTimes]
      /\ upto' \in [Kids -> Access!AccessTimes \cup {None}] /\ keeps' \subseteq Kids
      /\ \A k \in Kids : since'[k] = IF k = kid /\ kid \notin keeps THEN clock ELSE since[k]
      /\ \A k \in Kids : upto'[k] = IF k = kid THEN clock ELSE upto[k]
  BY <1>1, <1>2
<1>4. Access!AccessTypeOK'
  BY <1>1, <1>3 DEF AccessInv, Access!AccessTypeOK
<1>5. \A w \in Verifications : Fetching(w)' <=> Fetching(w)
  BY <1>1 DEF Fetching, Access!Step
<1>6. FetchInv'
  BY <1>1, <1>5, LockKept DEF AccessInv
<1>7. IssuerInv'
  BY <1>1, <1>2, <1>3 DEF AccessInv, IssuerInv
<1>8. \A k \in Kids : upto[k] # None => upto[k] \in Nat /\ upto[k] <= clock
  BY <1>2, AccessAssumption DEF AccessInv, IssuerInv, Access!AccessTimes
<1>9. \A k \in Kids : upto[k] # None => upto'[k] # None /\ upto'[k] \in Nat /\ upto[k] <= upto'[k]
  BY <1>2, <1>3, <1>8
<1>10. \A k \in keeps' : (k \in keeps /\ since'[k] = since[k]) \/ since'[k] = clock
  BY <1>1, <1>2, <1>3
<1>11. \A k \in keys' : upto'[k] # None /\ expires' <= upto'[k] + KeyLife
  <2> SUFFICES ASSUME NEW k \in keys
               PROVE  upto'[k] # None /\ expires <= upto'[k] + KeyLife
    BY <1>1
  <2>1. k \in Kids /\ upto[k] # None /\ expires <= upto[k] + KeyLife
    BY DEF AccessInv, CopyInv, Access!AccessTypeOK
  <2> QED BY <1>2, <1>8, <1>9, <2>1, AccessAssumption
<1>12. fetched # None /\ fetched.body # None =>
         /\ \A k \in fetched.body : upto'[k] # None /\ fetched.begun <= upto'[k]
         /\ \A k \in keeps' : since'[k] < fetched.begun => k \in fetched.body
  <2> SUFFICES ASSUME fetched # None, fetched.body # None
               PROVE  /\ \A k \in fetched.body : upto'[k] # None /\ fetched.begun <= upto'[k]
                      /\ \A k \in keeps' : since'[k] < fetched.begun => k \in fetched.body
    OBVIOUS
  <2>1. fetched.begun \in Nat /\ fetched.begun <= clock /\ fetched.body \subseteq Kids
    <3>1. fetched \in [begun : Access!AccessTimes, body : {None} \cup SUBSET Kids]
      BY UnderWay
    <3> QED BY <3>1, UnderWay
  <2>2. /\ \A k \in fetched.body : upto[k] # None /\ fetched.begun <= upto[k]
        /\ \A k \in keeps : since[k] < fetched.begun => k \in fetched.body
    BY DEF AccessInv, CopyInv
  <2>3. \A k \in fetched.body : upto'[k] # None /\ fetched.begun <= upto'[k]
    BY <1>8, <1>9, <2>1, <2>2
  <2>4. \A k \in keeps' : since'[k] < fetched.begun => k \in fetched.body
    BY <1>2, <1>10, <2>1, <2>2
  <2> QED BY <2>3, <2>4
<1>13. fetched = None /\ lastFetch # None =>
         \A k \in keeps' : since'[k] < lastFetch =>
           \/ k \in keys /\ expires = lastFetch + KeyLife
           \/ failedAt # None /\ failedAt >= since'[k]
  <2>1. lastFetch # None => lastFetch \in Nat /\ lastFetch <= clock
    BY AccessAssumption DEF AccessInv, Access!AccessTypeOK, Access!AccessTimes, FetchInv
  <2> QED BY <1>2, <1>10, <2>1 DEF AccessInv, CopyInv
<1>14. CopyInv'
  BY <1>1, <1>11, <1>12, <1>13 DEF CopyInv
<1> QED BY <1>1, <1>4, <1>6, <1>7, <1>14
        DEF AccessInv, Access!AcceptedIsPublished, Access!RefusalEnds

LEMMA TickKeeps ==
    ASSUME AccessInv, Access!Tick
    PROVE  AccessInv'
<1>1. /\ answer' = None /\ clock' = clock + 1 /\ clock < MaxClock
      /\ fetched # None => clock < fetched.begun + FetchTime
      /\ upto' = [k \in Kids |-> IF k \in keeps THEN clock + 1 ELSE upto[k]]
      /\ UNCHANGED <<verify, keys, expires, retry_at, fetched, keeps, since, lastFetch, failedAt>>
  BY DEF Access!Tick
<1>2. /\ clock \in Nat /\ clock' \in 0..MaxClock /\ clock' \in Access!AccessTimes
      /\ expires \in Nat /\ keeps \subseteq Kids /\ keys \subseteq Kids
      /\ upto \in [Kids -> Access!AccessTimes \cup {None}]
      /\ \A k \in Kids : since[k] \in Nat /\ since[k] <= clock
      /\ \A k \in Kids : upto[k] # None => upto[k] \in Nat /\ upto[k] <= clock
  BY <1>1, AccessAssumption
     DEF AccessInv, Access!AccessTypeOK, Access!AccessTimes, IssuerInv
<1>3. /\ upto' \in [Kids -> Access!AccessTimes \cup {None}]
      /\ \A k \in Kids : upto'[k] = IF k \in keeps THEN clock + 1 ELSE upto[k]
  BY <1>1, <1>2
<1>4. Access!AccessTypeOK'
  BY <1>1, <1>2, <1>3 DEF AccessInv, Access!AccessTypeOK
<1>5. FetchInv'
  <2>1. \A w \in Verifications : Fetching(w)' <=> Fetching(w)
    BY <1>1 DEF Fetching, Access!Step
  <2>2. fetched # None =>
          fetched.begun <= clock + 1 /\ clock + 1 <= fetched.begun + FetchTime
    BY <1>1, <1>2, UnderWay, AccessAssumption
  <2>3. lastFetch # None => lastFetch \in Nat
    BY DEF AccessInv, Access!AccessTypeOK, Access!AccessTimes
  <2> QED BY <1>1, <1>2, <2>1, <2>2, <2>3 DEF AccessInv, FetchInv
<1>6. \A k \in Kids : upto'[k] # None => upto'[k] \in Nat /\ upto'[k] <= clock + 1
  BY <1>2, <1>3
<1>7. \A k \in Kids : upto[k] # None => upto'[k] # None /\ upto'[k] \in Nat /\ upto[k] <= upto'[k]
  BY <1>2, <1>3, AccessAssumption
<1>8. IssuerInv'
  BY <1>1, <1>2, <1>3, <1>6 DEF IssuerInv
<1>9. \A k \in keys : upto'[k] # None /\ expires <= upto'[k] + KeyLife
  <2> SUFFICES ASSUME NEW k \in keys
               PROVE  upto'[k] # None /\ expires <= upto'[k] + KeyLife
    OBVIOUS
  <2>1. k \in Kids /\ upto[k] # None /\ expires <= upto[k] + KeyLife
    BY <1>2 DEF AccessInv, CopyInv
  <2> QED BY <1>2, <1>7, <2>1, AccessAssumption
<1>10. fetched # None /\ fetched.body # None =>
         \A k \in fetched.body : upto'[k] # None /\ fetched.begun <= upto'[k]
  <2> SUFFICES ASSUME fetched # None, fetched.body # None
               PROVE  \A k \in fetched.body : upto'[k] # None /\ fetched.begun <= upto'[k]
    OBVIOUS
  <2>1. fetched.begun \in Nat /\ fetched.body \subseteq Kids
    <3>1. fetched \in [begun : Access!AccessTimes, body : {None} \cup SUBSET Kids]
      BY UnderWay
    <3> QED BY <3>1, UnderWay
  <2>2. \A k \in fetched.body : upto[k] # None /\ fetched.begun <= upto[k]
    BY DEF AccessInv, CopyInv
  <2> QED BY <1>2, <1>7, <2>1, <2>2
<1>11. CopyInv'
  BY <1>1, <1>9, <1>10 DEF AccessInv, CopyInv
<1> QED BY <1>1, <1>4, <1>5, <1>8, <1>11
        DEF AccessInv, Access!AcceptedIsPublished, Access!RefusalEnds

LEMMA AccessStep ==
    ASSUME AccessInv, [Access!Next]_(Access!accessVars)
    PROVE  AccessInv' /\ [Access!FetchesSpaced]_(Access!accessVars)
<1>1. ASSUME fetched' = fetched \/ fetched' = None
      PROVE  Access!FetchesSpaced
  BY <1>1 DEF Access!FetchesSpaced
<1>2. CASE UNCHANGED Access!accessVars
  BY <1>2 DEF Access!accessVars, AccessInv, Access!AccessTypeOK, FetchInv, IssuerInv, CopyInv,
              Fetching, Access!Step, Access!AcceptedIsPublished, Access!RefusalEnds
<1>3. ASSUME NEW v \in Verifications, NEW kid \in Kids, NEW genuine \in BOOLEAN,
             Access!Request(v, kid, genuine)
      PROVE  AccessInv' /\ Access!FetchesSpaced
  BY <1>1, <1>3, RequestKeeps DEF Access!Request
<1>4. ASSUME NEW v \in Verifications, Access!Lookup(v)
      PROVE  AccessInv' /\ Access!FetchesSpaced
  BY <1>1, <1>4, LookupKeeps DEF Access!Lookup
<1>5. ASSUME NEW v \in Verifications, Access!Fetch(v)
      PROVE  AccessInv' /\ Access!FetchesSpaced
  BY <1>5, FetchKeeps
<1>6. ASSUME NEW v \in Verifications, Access!Received(v)
      PROVE  AccessInv' /\ Access!FetchesSpaced
  BY <1>1, <1>6, ReceivedKeeps DEF Access!Received
<1>7. ASSUME NEW v \in Verifications, Access!Failed(v) \/ Access!Cancelled(v)
      PROVE  AccessInv' /\ Access!FetchesSpaced
  BY <1>1, <1>7, FailedKeeps DEF Access!Failed, Access!Cancelled
<1>8. ASSUME Access!Served
      PROVE  AccessInv' /\ Access!FetchesSpaced
  BY <1>8, ServedKeeps
<1>9. ASSUME Access!Tick
      PROVE  AccessInv' /\ Access!FetchesSpaced
  BY <1>1, <1>9, TickKeeps DEF Access!Tick
<1>10. ASSUME NEW kid \in Kids, Access!Rotate(kid)
       PROVE  AccessInv' /\ Access!FetchesSpaced
  BY <1>1, <1>10, RotateKeeps DEF Access!Rotate
<1> QED BY <1>2, <1>3, <1>4, <1>5, <1>6, <1>7, <1>8, <1>9, <1>10 DEF Access!Next

\* A withdrawn key stops being accepted within the life of a copy, whatever happens to
\* the fetches, and the floor between them refuses an honest owner no longer than it
\* says.
THEOREM AssertionsAreSound == Access!Spec => []AssertionsSound
<1>1. AccessInv /\ [Access!Next]_(Access!accessVars) => AccessInv'
  BY AccessStep
<1>2. AccessInv => AssertionsSound
  BY DEF AccessInv, AssertionsSound
<1> QED BY <1>1, <1>2, AccessInit, PTL DEF Access!Spec

\* Two fetches of the signing keys begin at least the floor apart, through failed and
\* cancelled ones and whatever identifiers are asked for.
THEOREM FetchesAreSpaced == Access!Spec => Access!AccessFetchesSpaced
<1>1. AccessInv /\ [Access!Next]_(Access!accessVars) =>
        AccessInv' /\ [Access!FetchesSpaced]_(Access!accessVars)
  BY AccessStep
<1> QED BY <1>1, AccessInit, PTL DEF Access!Spec, Access!AccessFetchesSpaced

-------------------------------------------------------------------------------
(* Prices: the loads, the rate lock, the cooldown and the rows *)

Pacing(c) == Scout!At(c, "pace")
Rows == {k \in ScoutKeys : cache[k] # None}

LoaderInv ==
    \A c, d \in ScoutCalls :
      c # d /\ call[c] # Scout!Idle /\ call[d] # Scout!Idle /\ call[c].key = call[d].key
        => Scout!At(c, "lock") \/ Scout!At(d, "lock")

\* The rate lock has one holder.
HolderInv == \A c, d \in ScoutCalls : Pacing(c) /\ Pacing(d) => c = d

\* The next request is an interval after the latest one, its holder waits for that, and
\* once a request was late nobody is left to be late again.
PaceInv ==
    /\ lastSent # None => lastSent + interval <= next_request
    /\ \A c \in ScoutCalls : Pacing(c) => next_request <= call[c].wake
    /\ late <= 1
    /\ late = 1 /\ scoutNow < cooldown => \A c \in ScoutCalls : ~Pacing(c)

\* No snapshot is of the future.
SavedInv ==
    /\ \A k \in ScoutKeys : cache[k] # None => cache[k] <= scoutNow
    /\ \A c \in ScoutCalls : call[c] # Scout!Idle /\ call[c].old # None => call[c].old <= scoutNow

RowsInv == IsFiniteSet(Rows) /\ Cardinality(Rows) <= MaxRows

ScoutInv ==
    /\ Scout!ScoutTypeOK /\ Scout!AgesKept /\ LoaderInv /\ HolderInv /\ PaceInv
    /\ SavedInv /\ RowsInv

LEMMA SameScoutCardinality ==
    ASSUME NEW S
    PROVE  Scout!Cardinality(S) = Cardinality(S)
BY DEF Scout!Cardinality, Cardinality

\* A set that has one element at the most.
LEMMA AtMostOne ==
    ASSUME NEW S, \A x, y \in S : x = y
    PROVE  Cardinality(S) <= 1
<1>1. CASE S = {}
  BY <1>1, FS_EmptySet
<1>2. CASE S # {}
  <2>1. PICK x \in S : TRUE
    BY <1>2
  <2>2. S = {x}
    BY <2>1
  <2> QED BY <2>2, FS_Singleton
<1> QED BY <1>1, <1>2

LEMMA ScoutInit == Scout!Init => ScoutInv
<1> SUFFICES ASSUME Scout!Init PROVE ScoutInv
  OBVIOUS
<1>1. \A c \in ScoutCalls : call[c] = Scout!Idle /\ reply[c] = None
  BY DEF Scout!Init
<1>2. \A c \in ScoutCalls : call[c].step = "idle"
  BY <1>1 DEF Scout!Idle
<1>3. Scout!ScoutTypeOK
  BY ScoutAssumption DEF Scout!Init, Scout!ScoutTypeOK
<1>4. LoaderInv /\ HolderInv
  BY <1>1, <1>2 DEF LoaderInv, HolderInv, Pacing, Scout!At
<1>5. PaceInv
  BY <1>2 DEF Scout!Init, PaceInv, Pacing, Scout!At
<1>6. SavedInv
  <2>1. \A k \in ScoutKeys : cache[k] \in {None, 0}
    BY DEF Scout!Init
  <2> QED BY <1>1, <2>1 DEF Scout!Init, SavedInv
<1>7. RowsInv
  <2>1. IsFiniteSet(Rows)
    BY ScoutAssumption, FS_Subset DEF Rows
  <2>2. Scout!Cardinality(Rows) <= MaxRows
    BY DEF Scout!Init, Rows
  <2> QED BY <2>1, <2>2, SameScoutCardinality DEF RowsInv
<1>8. Scout!AgesKept
  BY <1>1 DEF Scout!AgesKept
<1> QED BY <1>3, <1>4, <1>5, <1>6, <1>7, <1>8 DEF ScoutInv

\* A call moves: it begins, goes on with its own key, or ends. It begins a load when
\* nobody else loads its key, and takes the rate lock when nobody holds it.
LEMMA Moves ==
    ASSUME ScoutInv, NEW c \in ScoutCalls, NEW new \in {Scout!Idle} \cup Scout!Loads,
           call' = [call EXCEPT ![c] = new], scoutNow' = scoutNow,
           \/ new = Scout!Idle
           \/ new.step = "lock"
           \/ /\ call[c] # Scout!Idle /\ new.key = call[c].key
              /\ ~Scout!At(c, "lock") \/ ~Scout!Loading(call[c].key),
           new.step = "pace" => Scout!Holder = {},
           new # Scout!Idle /\ new.old # None => new.old <= scoutNow
    PROVE  /\ call' \in [ScoutCalls -> {Scout!Idle} \cup Scout!Loads]
           /\ \A d \in ScoutCalls : call'[d] = IF d = c THEN new ELSE call[d]
           /\ LoaderInv' /\ HolderInv'
           /\ \A d \in ScoutCalls :
                call'[d] # Scout!Idle /\ call'[d].old # None => call'[d].old <= scoutNow'
<1>1. /\ call' \in [ScoutCalls -> {Scout!Idle} \cup Scout!Loads]
      /\ \A d \in ScoutCalls : call'[d] = IF d = c THEN new ELSE call[d]
  BY DEF ScoutInv, Scout!ScoutTypeOK
<1>2. \A d \in ScoutCalls :
        call'[d] # Scout!Idle /\ call'[d].old # None => call'[d].old <= scoutNow'
  BY <1>1 DEF ScoutInv, SavedInv
<1>3. HolderInv'
  BY <1>1 DEF ScoutInv, HolderInv, Pacing, Scout!At, Scout!Holder
<1>4. ASSUME new # Scout!Idle, new.step # "lock",
             NEW d \in ScoutCalls, d # c, call[d] # Scout!Idle, call[d].key = new.key
      PROVE  Scout!At(d, "lock")
  <2>1. call[c] # Scout!Idle /\ call[c].key = new.key
    BY <1>4
  <2>2. CASE ~Scout!At(c, "lock")
    BY <1>4, <2>1, <2>2 DEF ScoutInv, LoaderInv
  <2>3. CASE ~Scout!Loading(call[c].key)
    BY <1>4, <2>1, <2>3 DEF Scout!Loading
  <2> QED BY <1>4, <2>2, <2>3
<1>5. LoaderInv'
  <2> SUFFICES ASSUME NEW d \in ScoutCalls, NEW e \in ScoutCalls, d # e,
                      call'[d] # Scout!Idle, call'[e] # Scout!Idle, call'[d].key = call'[e].key
               PROVE  Scout!At(d, "lock")' \/ Scout!At(e, "lock")'
    BY DEF LoaderInv
  <2>1. CASE d = c
    BY <1>1, <1>4, <2>1 DEF Scout!At
  <2>2. CASE e = c
    BY <1>1, <1>4, <2>2 DEF Scout!At
  <2>3. CASE d # c /\ e # c
    BY <1>1, <2>3 DEF ScoutInv, LoaderInv, Scout!At
  <2> QED BY <2>1, <2>2, <2>3
<1> QED BY <1>1, <1>2, <1>3, <1>5

\* The pace is kept by every move that neither takes nor uses a turn.
LEMMA PaceKept ==
    ASSUME ScoutInv, NEW c \in ScoutCalls, NEW new, new.step # "pace",
           \A d \in ScoutCalls : call'[d] = IF d = c THEN new ELSE call[d],
           UNCHANGED <<next_request, cooldown, lastSent, late, scoutNow>>
    PROVE  PaceInv'
BY DEF ScoutInv, PaceInv, Pacing, Scout!At

\* The rest of the invariant when the cache and the replies stay.
LEMMA SnapshotsKept ==
    ASSUME ScoutInv, UNCHANGED <<cache, reply, scoutNow>>,
           \A d \in ScoutCalls :
             call'[d] # Scout!Idle /\ call'[d].old # None => call'[d].old <= scoutNow'
    PROVE  SavedInv' /\ RowsInv' /\ Scout!AgesKept'
BY DEF ScoutInv, SavedInv, RowsInv, Rows, Scout!AgesKept

\* What a return does.
LEMMA Returns ==
    ASSUME ScoutInv, NEW c \in ScoutCalls, call[c] # Scout!Idle,
           NEW delivery \in {"cache", "network", "stale_cache", "error"}, NEW age \in Nat,
           delivery = "cache" => age <= ttl,
           delivery = "stale_cache" => call[c].stale /\ age <= stale_limit,
           Scout!Return(c, delivery, age), scoutNow' = scoutNow
    PROVE  /\ call' = [call EXCEPT ![c] = Scout!Idle]
           /\ \A d \in ScoutCalls : call'[d] = IF d = c THEN Scout!Idle ELSE call[d]
           /\ call' \in [ScoutCalls -> {Scout!Idle} \cup Scout!Loads]
           /\ reply' \in [ScoutCalls -> {None} \cup Scout!Replies]
           /\ Scout!AgesKept' /\ LoaderInv' /\ HolderInv'
           /\ \A d \in ScoutCalls :
                call'[d] # Scout!Idle /\ call'[d].old # None => call'[d].old <= scoutNow'
<1>1. call' = [call EXCEPT ![c] = Scout!Idle]
  BY DEF Scout!Return
<1>2. Scout!Idle.step = "idle"
  BY DEF Scout!Idle
<1>3. call[c] \in Scout!Loads
  BY DEF ScoutInv, Scout!ScoutTypeOK
<1>4. [delivery |-> delivery, age |-> age, asked |-> call[c].stale] \in Scout!Replies
  BY <1>3 DEF Scout!Loads, Scout!Replies
<1>5. reply' = [reply EXCEPT ![c] =
                  [delivery |-> delivery, age |-> age, asked |-> call[c].stale]]
  BY DEF Scout!Return
<1>6. reply' \in [ScoutCalls -> {None} \cup Scout!Replies]
  BY <1>4, <1>5 DEF ScoutInv, Scout!ScoutTypeOK
<1>7. \A d \in ScoutCalls : reply'[d] =
        IF d = c THEN [delivery |-> delivery, age |-> age, asked |-> call[c].stale] ELSE reply[d]
  BY <1>5 DEF ScoutInv, Scout!ScoutTypeOK
<1>8. Scout!AgesKept'
  BY <1>7 DEF ScoutInv, Scout!AgesKept
<1>9. /\ call' \in [ScoutCalls -> {Scout!Idle} \cup Scout!Loads]
      /\ \A d \in ScoutCalls : call'[d] = IF d = c THEN Scout!Idle ELSE call[d]
      /\ LoaderInv' /\ HolderInv'
      /\ \A d \in ScoutCalls :
           call'[d] # Scout!Idle /\ call'[d].old # None => call'[d].old <= scoutNow'
  BY <1>1, <1>2, Moves
<1> QED BY <1>1, <1>6, <1>8, <1>9

\* A failure returns a snapshot that was asked for and is not too old, or an error.
LEMMA Fails ==
    ASSUME ScoutInv, NEW c \in ScoutCalls, call[c] # Scout!Idle, NEW retryable \in BOOLEAN,
           Scout!Fail(c, retryable), scoutNow' = scoutNow
    PROVE  /\ \A d \in ScoutCalls : call'[d] = IF d = c THEN Scout!Idle ELSE call[d]
           /\ call' \in [ScoutCalls -> {Scout!Idle} \cup Scout!Loads]
           /\ reply' \in [ScoutCalls -> {None} \cup Scout!Replies]
           /\ Scout!AgesKept' /\ LoaderInv' /\ HolderInv'
           /\ \A d \in ScoutCalls :
                call'[d] # Scout!Idle /\ call'[d].old # None => call'[d].old <= scoutNow'
<1>1. CASE retryable /\ Scout!StaleServed(c)
  <2>1. Scout!Return(c, "stale_cache", scoutNow - call[c].old)
    BY <1>1 DEF Scout!Fail
  <2>2. call[c].stale /\ call[c].old # None /\ scoutNow - call[c].old <= stale_limit
    BY <1>1 DEF Scout!StaleServed
  <2>3. call[c] \in Scout!Loads /\ call[c].old <= scoutNow /\ scoutNow \in Nat
    BY <2>2 DEF ScoutInv, SavedInv, Scout!ScoutTypeOK
  <2>4. scoutNow - call[c].old \in Nat
    BY <2>2, <2>3 DEF Scout!Loads
  <2> QED BY <2>1, <2>2, <2>4, Returns
<1>2. CASE ~(retryable /\ Scout!StaleServed(c))
  <2>1. Scout!Return(c, "error", 0)
    BY <1>2 DEF Scout!Fail
  <2> QED BY <2>1, Returns
<1> QED BY <1>1, <1>2

LEMMA AskKeeps ==
    ASSUME ScoutInv, NEW c \in ScoutCalls, NEW key \in ScoutKeys, NEW stale \in BOOLEAN,
           Scout!Ask(c, key, stale)
    PROVE  ScoutInv'
<1> DEFINE new == [key |-> key, stale |-> stale, step |-> "lock",
                   old |-> None, left |-> 0, attempt |-> 0, wake |-> 0]
<1>1. /\ call' = [call EXCEPT ![c] = new]
      /\ UNCHANGED <<cache, reply, next_request, cooldown, lastSent, late, scoutNow>>
  BY DEF Scout!Ask
<1>2. new \in Scout!Loads /\ new.step = "lock" /\ new.old = None
  BY DEF Scout!Loads, Scout!Steps
<1> HIDE DEF new
<1>3. /\ call' \in [ScoutCalls -> {Scout!Idle} \cup Scout!Loads]
      /\ \A d \in ScoutCalls : call'[d] = IF d = c THEN new ELSE call[d]
      /\ LoaderInv' /\ HolderInv'
      /\ \A d \in ScoutCalls :
           call'[d] # Scout!Idle /\ call'[d].old # None => call'[d].old <= scoutNow'
  BY <1>1, <1>2, Moves
<1>4. PaceInv'
  BY <1>1, <1>2, <1>3, PaceKept
<1>5. SavedInv' /\ RowsInv' /\ Scout!AgesKept'
  BY <1>1, <1>3, SnapshotsKept
<1>6. Scout!ScoutTypeOK'
  BY <1>1, <1>3 DEF ScoutInv, Scout!ScoutTypeOK
<1> QED BY <1>3, <1>4, <1>5, <1>6 DEF ScoutInv

\* A load goes on to another step than the wait for its turn.
LEMMA GoesOn ==
    ASSUME ScoutInv, NEW c \in ScoutCalls, NEW new \in Scout!Loads,
           call' = [call EXCEPT ![c] = new],
           UNCHANGED <<cache, reply, next_request, cooldown, lastSent, late, scoutNow>>,
           call[c] # Scout!Idle, new.key = call[c].key,
           ~Scout!At(c, "lock") \/ ~Scout!Loading(call[c].key),
           new.step # "pace",
           new.old = call[c].old \/ new.old = cache[call[c].key]
    PROVE  ScoutInv'
<1>1. call[c] \in Scout!Loads
  BY DEF ScoutInv, Scout!ScoutTypeOK
<1>2. new.old # None => new.old <= scoutNow
  BY <1>1 DEF ScoutInv, SavedInv, Scout!Loads
<1>3. /\ call' \in [ScoutCalls -> {Scout!Idle} \cup Scout!Loads]
      /\ \A d \in ScoutCalls : call'[d] = IF d = c THEN new ELSE call[d]
      /\ LoaderInv' /\ HolderInv'
      /\ \A d \in ScoutCalls :
           call'[d] # Scout!Idle /\ call'[d].old # None => call'[d].old <= scoutNow'
  BY <1>2, Moves
<1>4. PaceInv'
  BY <1>3, PaceKept
<1>5. SavedInv' /\ RowsInv' /\ Scout!AgesKept'
  BY <1>3, SnapshotsKept
<1>6. Scout!ScoutTypeOK'
  BY <1>3 DEF ScoutInv, Scout!ScoutTypeOK
<1> QED BY <1>3, <1>4, <1>5, <1>6 DEF ScoutInv

\* A load that has ended leaves everything but its reply as it was.
LEMMA Ends ==
    ASSUME ScoutInv, NEW c \in ScoutCalls,
           \A d \in ScoutCalls : call'[d] = IF d = c THEN Scout!Idle ELSE call[d],
           call' \in [ScoutCalls -> {Scout!Idle} \cup Scout!Loads],
           reply' \in [ScoutCalls -> {None} \cup Scout!Replies],
           Scout!AgesKept', LoaderInv', HolderInv',
           \A d \in ScoutCalls :
             call'[d] # Scout!Idle /\ call'[d].old # None => call'[d].old <= scoutNow',
           UNCHANGED <<cache, next_request, cooldown, lastSent, late, scoutNow>>
    PROVE  ScoutInv'
<1>1. Scout!Idle.step # "pace"
  BY DEF Scout!Idle
<1>2. PaceInv'
  BY <1>1, PaceKept
<1>3. SavedInv' /\ RowsInv'
  BY DEF ScoutInv, SavedInv, RowsInv, Rows
<1>4. Scout!ScoutTypeOK'
  BY DEF ScoutInv, Scout!ScoutTypeOK
<1> QED BY <1>2, <1>3, <1>4 DEF ScoutInv

\* A call that is at a step of a load.
LEMMA Busy ==
    ASSUME ScoutInv, NEW c \in ScoutCalls, NEW step \in Scout!Steps, Scout!At(c, step)
    PROVE  call[c] # Scout!Idle /\ call[c] \in Scout!Loads
BY DEF ScoutInv, Scout!ScoutTypeOK, Scout!At, Scout!Steps, Scout!Idle

LEMMA EnterKeeps ==
    ASSUME ScoutInv, NEW c \in ScoutCalls, Scout!Enter(c)
    PROVE  ScoutInv'
<1>1. /\ Scout!At(c, "lock") /\ ~Scout!Loading(call[c].key)
      /\ UNCHANGED <<cache, next_request, cooldown, lastSent, late, scoutNow>>
  BY DEF Scout!Enter
<1>2. call[c] # Scout!Idle /\ call[c] \in Scout!Loads
  BY <1>1, Busy DEF Scout!Steps
<1> DEFINE old == cache[call[c].key]
<1>3. /\ call[c].key \in ScoutKeys /\ old \in Nat \cup {None} /\ scoutNow \in Nat
      /\ old # None => old <= scoutNow
  BY <1>2 DEF ScoutInv, SavedInv, Scout!ScoutTypeOK, Scout!Loads
<1>4. CASE old # None /\ scoutNow - old <= ttl
  <2>1. Scout!Return(c, "cache", scoutNow - old)
    BY <1>4 DEF Scout!Enter
  <2>2. scoutNow - old \in Nat
    BY <1>3, <1>4
  <2> HIDE DEF old
  <2> QED BY <1>1, <1>2, <1>4, <2>1, <2>2, Returns, Ends
<1>5. CASE ~(old # None /\ scoutNow - old <= ttl)
  <2> DEFINE new == [call[c] EXCEPT !.step = "rate", !.old = old,
                                    !.left = Requests[call[c].key]]
  <2>1. /\ call' = [call EXCEPT ![c].step = "rate", ![c].old = old,
                                ![c].left = Requests[call[c].key]]
        /\ reply' = reply
    BY <1>5 DEF Scout!Enter
  <2>2. call' = [call EXCEPT ![c] = new]
    BY <2>1 DEF ScoutInv, Scout!ScoutTypeOK
  <2>3. Requests[call[c].key] \in Nat
    BY <1>3 DEF Requests
  <2>4. new \in Scout!Loads /\ new.key = call[c].key /\ new.step = "rate" /\ new.old = old
    BY <1>2, <1>3, <2>3 DEF Scout!Loads, Scout!Steps
  <2> HIDE DEF new
  <2> QED BY <1>1, <1>2, <2>1, <2>2, <2>4, GoesOn
<1> QED BY <1>4, <1>5

LEMMA GreaterScout ==
    ASSUME NEW m \in Nat, NEW n \in Nat
    PROVE  Scout!Max({m, n}) \in Nat /\ Scout!Max({m, n}) >= m /\ Scout!Max({m, n}) >= n
<1>1. \E x \in {m, n} : \A y \in {m, n} : x >= y
  <2>1. CASE m >= n
    BY <2>1
  <2>2. CASE n >= m
    BY <2>2
  <2> QED BY <2>1, <2>2
<1> QED BY <1>1 DEF Scout!Max

LEMMA TurnKeeps ==
    ASSUME ScoutInv, NEW c \in ScoutCalls, Scout!Turn(c)
    PROVE  ScoutInv'
<1>1. /\ Scout!At(c, "rate") /\ Scout!Holder = {}
      /\ UNCHANGED <<cache, next_request, cooldown, lastSent, late, scoutNow>>
  BY DEF Scout!Turn
<1>2. call[c] # Scout!Idle /\ call[c] \in Scout!Loads
  BY <1>1, Busy DEF Scout!Steps
<1>3. CASE scoutNow < cooldown
  <2>1. Scout!Fail(c, TRUE)
    BY <1>3 DEF Scout!Turn
  <2> QED BY <1>1, <1>2, <2>1, Fails, Ends
<1>4. CASE ~(scoutNow < cooldown)
  <2> DEFINE wake == Scout!Max({next_request, scoutNow})
             new == [call[c] EXCEPT !.step = "pace", !.wake = wake]
  <2>1. call' = [call EXCEPT ![c].step = "pace", ![c].wake = wake] /\ reply' = reply
    BY <1>4 DEF Scout!Turn
  <2>2. next_request \in Nat /\ scoutNow \in Nat
    BY DEF ScoutInv, Scout!ScoutTypeOK
  <2>3. wake \in Nat /\ wake >= next_request
    BY <2>2, GreaterScout
  <2> HIDE DEF wake
  <2>4. call' = [call EXCEPT ![c] = new]
    BY <2>1 DEF ScoutInv, Scout!ScoutTypeOK
  <2>5. /\ new \in Scout!Loads /\ new.key = call[c].key /\ new.step = "pace"
        /\ new.old = call[c].old /\ new.wake = wake
    BY <1>2, <2>3 DEF Scout!Loads, Scout!Steps
  <2> HIDE DEF new
  <2>6. new.old # None => new.old <= scoutNow
    BY <1>2, <2>5 DEF ScoutInv, SavedInv
  <2>7. ~Scout!At(c, "lock")
    BY <1>1 DEF Scout!At
  <2>8. /\ call' \in [ScoutCalls -> {Scout!Idle} \cup Scout!Loads]
        /\ \A d \in ScoutCalls : call'[d] = IF d = c THEN new ELSE call[d]
        /\ LoaderInv' /\ HolderInv'
        /\ \A d \in ScoutCalls :
             call'[d] # Scout!Idle /\ call'[d].old # None => call'[d].old <= scoutNow'
    BY <1>1, <1>2, <2>4, <2>5, <2>6, <2>7, Moves
  <2>9. PaceInv'
    <3>1. \A d \in ScoutCalls : Pacing(d)' => next_request <= call'[d].wake
      BY <2>3, <2>5, <2>8 DEF ScoutInv, PaceInv, Pacing, Scout!At
    <3> QED BY <1>1, <1>4, <3>1 DEF ScoutInv, PaceInv
  <2>10. SavedInv' /\ RowsInv' /\ Scout!AgesKept'
    BY <1>1, <2>1, <2>8, SnapshotsKept
  <2>11. Scout!ScoutTypeOK'
    BY <1>1, <2>1, <2>8 DEF ScoutInv, Scout!ScoutTypeOK
  <2> QED BY <2>8, <2>9, <2>10, <2>11 DEF ScoutInv
<1> QED BY <1>3, <1>4

LEMMA SendKeeps ==
    ASSUME ScoutInv, NEW c \in ScoutCalls, Scout!Send(c)
    PROVE  ScoutInv' /\ (lastSent # None => scoutNow >= lastSent + interval)
<1>1. /\ Scout!At(c, "pace") /\ scoutNow >= call[c].wake
      /\ next_request' = scoutNow + interval /\ lastSent' = scoutNow
      /\ call' = [call EXCEPT ![c].step = "sent"]
      /\ late' = IF scoutNow < cooldown THEN late + 1 ELSE late
      /\ UNCHANGED <<cache, reply, cooldown, scoutNow>>
  BY DEF Scout!Send
<1>2. call[c] # Scout!Idle /\ call[c] \in Scout!Loads
  BY <1>1, Busy DEF Scout!Steps
<1> DEFINE new == [call[c] EXCEPT !.step = "sent"]
<1>3. call' = [call EXCEPT ![c] = new]
  BY <1>1 DEF ScoutInv, Scout!ScoutTypeOK
<1>4. /\ new \in Scout!Loads /\ new.key = call[c].key /\ new.step = "sent"
      /\ new.old = call[c].old
  BY <1>2 DEF Scout!Loads, Scout!Steps
<1> HIDE DEF new
<1>5. new.old # None => new.old <= scoutNow
  BY <1>2, <1>4 DEF ScoutInv, SavedInv
<1>6. ~Scout!At(c, "lock")
  BY <1>1 DEF Scout!At
<1>7. /\ call' \in [ScoutCalls -> {Scout!Idle} \cup Scout!Loads]
      /\ \A d \in ScoutCalls : call'[d] = IF d = c THEN new ELSE call[d]
      /\ LoaderInv' /\ HolderInv'
      /\ \A d \in ScoutCalls :
           call'[d] # Scout!Idle /\ call'[d].old # None => call'[d].old <= scoutNow'
  BY <1>1, <1>2, <1>3, <1>4, <1>5, <1>6, Moves
<1>8. \A d \in ScoutCalls : ~Pacing(d)'
  BY <1>1, <1>4, <1>7 DEF ScoutInv, HolderInv, Pacing, Scout!At
<1>9. scoutNow \in Nat /\ late \in Nat /\ cooldown \in Nat /\ next_request \in Nat
      /\ call[c].wake \in Nat /\ (lastSent # None => lastSent \in Nat)
  BY <1>2 DEF ScoutInv, Scout!ScoutTypeOK, Scout!Loads
<1>10. late' \in Nat /\ late' <= 1
  <2>1. late <= 1 /\ ~(late = 1 /\ scoutNow < cooldown)
    BY <1>1 DEF ScoutInv, PaceInv, Pacing
  <2> QED BY <1>1, <1>9, <2>1
<1>11. PaceInv'
  BY <1>1, <1>8, <1>9, <1>10, ScoutAssumption DEF PaceInv
<1>12. SavedInv' /\ RowsInv' /\ Scout!AgesKept'
  BY <1>1, <1>7, SnapshotsKept
<1>13. Scout!ScoutTypeOK'
  <2>1. next_request' \in Nat /\ lastSent' \in Nat \cup {None}
    BY <1>1, <1>9, ScoutAssumption
  <2> QED BY <1>1, <1>7, <1>10, <2>1 DEF ScoutInv, Scout!ScoutTypeOK
<1>14. lastSent # None => scoutNow >= lastSent + interval
  <2>1. next_request <= call[c].wake /\ (lastSent # None => lastSent + interval <= next_request)
    BY <1>1 DEF ScoutInv, PaceInv, Pacing
  <2> QED BY <1>1, <1>9, <2>1, ScoutAssumption
<1> QED BY <1>7, <1>11, <1>12, <1>13, <1>14 DEF ScoutInv

\* The newest snapshots are kept, and no more than there is room for.
LEMMA PutKeeps ==
    ASSUME ScoutInv, NEW key \in ScoutKeys, Scout!Put(key), scoutNow' = scoutNow
    PROVE  /\ cache' \in [ScoutKeys -> Nat \cup {None}]
           /\ \A k \in ScoutKeys : cache'[k] # None => cache'[k] <= scoutNow'
           /\ RowsInv'
<1> DEFINE saved == [cache EXCEPT ![key] = scoutNow]
           rows == {k \in ScoutKeys : saved[k] # None}
<1>1. PICK kept \in SUBSET ScoutKeys :
        /\ Scout!Newest(saved, kept)
        /\ cache' = [k \in ScoutKeys |-> IF k \in kept THEN saved[k] ELSE None]
  BY DEF Scout!Put
<1>2. scoutNow \in Nat /\ cache \in [ScoutKeys -> Nat \cup {None}]
  BY DEF ScoutInv, Scout!ScoutTypeOK
<1>3. /\ saved \in [ScoutKeys -> Nat \cup {None}]
      /\ \A k \in ScoutKeys : saved[k] # None => saved[k] <= scoutNow
  BY <1>2 DEF ScoutInv, SavedInv
<1>4. Scout!Cardinality(kept) = Scout!Min({MaxRows, Scout!Cardinality(rows)})
  BY <1>1 DEF Scout!Newest
<1> HIDE DEF saved
<1>5. /\ cache' \in [ScoutKeys -> Nat \cup {None}]
      /\ \A k \in ScoutKeys : cache'[k] # None => cache'[k] <= scoutNow'
  BY <1>1, <1>3
<1>6. IsFiniteSet(rows) /\ Cardinality(rows) \in Nat
  <2>1. rows \subseteq ScoutKeys
    OBVIOUS
  <2> HIDE DEF rows
  <2> QED BY <2>1, ScoutAssumption, FS_Subset, FS_CardinalityType
<1>7. Cardinality(kept) = Scout!Min({MaxRows, Cardinality(rows)})
  BY <1>4, SameScoutCardinality
<1> HIDE DEF rows
<1>8. Scout!Min({MaxRows, Cardinality(rows)}) <= MaxRows
  <2> SUFFICES ASSUME NEW m \in Nat, NEW n \in Nat
               PROVE  Scout!Min({m, n}) <= m
    BY <1>6, ScoutAssumption
  <2>1. \E x \in {m, n} : \A y \in {m, n} : x <= y
    <3>1. CASE m >= n
      BY <3>1
    <3>2. CASE n >= m
      BY <3>2
    <3> QED BY <3>1, <3>2
  <2> QED BY <2>1 DEF Scout!Min
<1>9. IsFiniteSet(kept) /\ Cardinality(kept) <= MaxRows
  BY <1>7, <1>8, ScoutAssumption, FS_Subset
<1>10. Rows' \subseteq kept
  BY <1>1 DEF Rows
<1>11. RowsInv'
  BY <1>9, <1>10, ScoutAssumption, Fewer DEF RowsInv
<1> QED BY <1>5, <1>11

LEMMA AnsweredKeeps ==
    ASSUME ScoutInv, NEW c \in ScoutCalls, Scout!Answered(c)
    PROVE  ScoutInv'
<1>1. Scout!At(c, "sent") /\ UNCHANGED <<next_request, cooldown, lastSent, late, scoutNow>>
  BY DEF Scout!Answered
<1>2. call[c] # Scout!Idle /\ call[c] \in Scout!Loads
  BY <1>1, Busy DEF Scout!Steps
<1>3. CASE call[c].left > 1
  <2> DEFINE new == [call[c] EXCEPT !.step = "rate", !.left = call[c].left - 1, !.attempt = 0]
  <2>1. /\ call' = [call EXCEPT ![c].step = "rate", ![c].left = @ - 1, ![c].attempt = 0]
        /\ cache' = cache /\ reply' = reply
    BY <1>3 DEF Scout!Answered
  <2>2. call' = [call EXCEPT ![c] = new]
    BY <1>2, <2>1 DEF ScoutInv, Scout!ScoutTypeOK, Scout!Loads
  <2>3. call[c].left - 1 \in Nat /\ 0 \in 0..2
    BY <1>2, <1>3 DEF Scout!Loads
  <2>4. /\ new \in Scout!Loads /\ new.key = call[c].key /\ new.step = "rate"
        /\ new.old = call[c].old
    <3> SUFFICES ASSUME NEW left \in Nat
                 PROVE  LET load == [call[c] EXCEPT !.step = "rate", !.left = left, !.attempt = 0]
                        IN  /\ load \in Scout!Loads /\ load.key = call[c].key
                            /\ load.step = "rate" /\ load.old = call[c].old
      BY <2>3
    <3> QED BY <1>2, <2>3 DEF Scout!Loads, Scout!Steps
  <2>5. ~Scout!At(c, "lock")
    BY <1>1 DEF Scout!At
  <2> HIDE DEF new
  <2> QED BY <1>1, <1>2, <2>1, <2>2, <2>4, <2>5, GoesOn
<1>4. CASE ~(call[c].left > 1)
  <2>1. Scout!Put(call[c].key) /\ Scout!Return(c, "network", 0)
    BY <1>4 DEF Scout!Answered
  <2>2. call[c].key \in ScoutKeys
    BY <1>2 DEF Scout!Loads
  <2>3. /\ \A d \in ScoutCalls : call'[d] = IF d = c THEN Scout!Idle ELSE call[d]
        /\ call' \in [ScoutCalls -> {Scout!Idle} \cup Scout!Loads]
        /\ reply' \in [ScoutCalls -> {None} \cup Scout!Replies]
        /\ Scout!AgesKept' /\ LoaderInv' /\ HolderInv'
        /\ \A d \in ScoutCalls :
             call'[d] # Scout!Idle /\ call'[d].old # None => call'[d].old <= scoutNow'
    BY <1>1, <1>2, <2>1, Returns
  <2>4. /\ cache' \in [ScoutKeys -> Nat \cup {None}]
        /\ \A k \in ScoutKeys : cache'[k] # None => cache'[k] <= scoutNow'
        /\ RowsInv'
    BY <1>1, <2>1, <2>2, PutKeeps
  <2>5. PaceInv'
    <3>1. Scout!Idle.step # "pace"
      BY DEF Scout!Idle
    <3> QED BY <1>1, <2>3, <3>1, PaceKept
  <2>6. SavedInv'
    BY <2>3, <2>4 DEF SavedInv
  <2>7. Scout!ScoutTypeOK'
    BY <1>1, <2>3, <2>4 DEF ScoutInv, Scout!ScoutTypeOK
  <2> QED BY <2>3, <2>4, <2>5, <2>6, <2>7 DEF ScoutInv
<1> QED BY <1>3, <1>4

LEMMA RateLimitedKeeps ==
    ASSUME ScoutInv, NEW c \in ScoutCalls, Scout!RateLimited(c)
    PROVE  ScoutInv'
<1>1. /\ Scout!At(c, "sent") /\ late' = 0 /\ Scout!Fail(c, TRUE)
      /\ UNCHANGED <<cache, next_request, lastSent, scoutNow>>
  BY DEF Scout!RateLimited
<1>2. PICK wait \in RetryAfters : cooldown' = scoutNow + wait
  BY DEF Scout!RateLimited
<1>3. call[c] # Scout!Idle /\ call[c] \in Scout!Loads
  BY <1>1, Busy DEF Scout!Steps
<1>4. /\ \A d \in ScoutCalls : call'[d] = IF d = c THEN Scout!Idle ELSE call[d]
      /\ call' \in [ScoutCalls -> {Scout!Idle} \cup Scout!Loads]
      /\ reply' \in [ScoutCalls -> {None} \cup Scout!Replies]
      /\ Scout!AgesKept' /\ LoaderInv' /\ HolderInv'
      /\ \A d \in ScoutCalls :
           call'[d] # Scout!Idle /\ call'[d].old # None => call'[d].old <= scoutNow'
  BY <1>1, <1>3, Fails
<1>5. cooldown' \in Nat
  BY <1>2, ScoutAssumption DEF ScoutInv, Scout!ScoutTypeOK
<1>6. PaceInv'
  <2>1. Scout!Idle.step # "pace"
    BY DEF Scout!Idle
  <2>2. \A d \in ScoutCalls : Pacing(d)' => next_request <= call'[d].wake
    BY <1>4, <2>1 DEF ScoutInv, PaceInv, Pacing, Scout!At
  <2> QED BY <1>1, <2>2 DEF ScoutInv, PaceInv
<1>7. SavedInv' /\ RowsInv'
  BY <1>1, <1>4 DEF ScoutInv, SavedInv, RowsInv, Rows
<1>8. Scout!ScoutTypeOK'
  BY <1>1, <1>4, <1>5 DEF ScoutInv, Scout!ScoutTypeOK
<1> QED BY <1>4, <1>6, <1>7, <1>8 DEF ScoutInv

LEMMA RetriedKeeps ==
    ASSUME ScoutInv, NEW c \in ScoutCalls, Scout!Retried(c) \/ Scout!Rejected(c)
    PROVE  ScoutInv'
<1>1. /\ Scout!At(c, "sent")
      /\ UNCHANGED <<cache, next_request, cooldown, lastSent, late, scoutNow>>
  BY DEF Scout!Retried, Scout!Rejected
<1>2. call[c] # Scout!Idle /\ call[c] \in Scout!Loads
  BY <1>1, Busy DEF Scout!Steps
<1>3. CASE \E retryable \in BOOLEAN : Scout!Fail(c, retryable)
  <2>1. PICK retryable \in BOOLEAN : Scout!Fail(c, retryable)
    BY <1>3
  <2> QED BY <1>1, <1>2, <2>1, Fails, Ends
<1>4. CASE Scout!Retried(c) /\ call[c].attempt # 2
  <2>1. PICK wait \in Backoffs :
          /\ call' = [call EXCEPT ![c].step = "backoff", ![c].attempt = @ + 1,
                                  ![c].wake = scoutNow + wait]
          /\ reply' = reply
    BY <1>4 DEF Scout!Retried
  <2> DEFINE new == [call[c] EXCEPT !.step = "backoff", !.attempt = call[c].attempt + 1,
                                    !.wake = scoutNow + wait]
  <2>2. call' = [call EXCEPT ![c] = new]
    BY <1>2, <2>1 DEF ScoutInv, Scout!ScoutTypeOK, Scout!Loads
  <2>3. call[c].attempt + 1 \in 0..2 /\ scoutNow + wait \in Nat
    BY <1>2, <1>4, ScoutAssumption DEF ScoutInv, Scout!ScoutTypeOK, Scout!Loads
  <2>4. /\ new \in Scout!Loads /\ new.key = call[c].key /\ new.step = "backoff"
        /\ new.old = call[c].old
    BY <1>2, <2>3 DEF Scout!Loads, Scout!Steps
  <2>5. ~Scout!At(c, "lock")
    BY <1>1 DEF Scout!At
  <2> HIDE DEF new
  <2> QED BY <1>1, <1>2, <2>1, <2>2, <2>4, <2>5, GoesOn
<1> QED BY <1>3, <1>4 DEF Scout!Retried, Scout!Rejected

LEMMA WakeKeeps ==
    ASSUME ScoutInv, NEW c \in ScoutCalls, Scout!Wake(c)
    PROVE  ScoutInv'
<1> DEFINE new == [call[c] EXCEPT !.step = "rate"]
<1>1. /\ Scout!At(c, "backoff") /\ call' = [call EXCEPT ![c].step = "rate"]
      /\ UNCHANGED <<cache, reply, next_request, cooldown, lastSent, late, scoutNow>>
  BY DEF Scout!Wake
<1>2. call[c] # Scout!Idle /\ call[c] \in Scout!Loads
  BY <1>1, Busy DEF Scout!Steps
<1>3. call' = [call EXCEPT ![c] = new]
  BY <1>1 DEF ScoutInv, Scout!ScoutTypeOK
<1>4. /\ new \in Scout!Loads /\ new.key = call[c].key /\ new.step = "rate"
      /\ new.old = call[c].old
  BY <1>2 DEF Scout!Loads, Scout!Steps
<1>5. ~Scout!At(c, "lock")
  BY <1>1 DEF Scout!At
<1> HIDE DEF new
<1> QED BY <1>1, <1>2, <1>3, <1>4, <1>5, GoesOn

LEMMA ScoutTickKeeps ==
    ASSUME ScoutInv, Scout!Tick
    PROVE  ScoutInv'
<1>1. /\ scoutNow < MaxScoutNow /\ scoutNow' = scoutNow + 1
      /\ UNCHANGED <<cache, call, reply, next_request, cooldown, lastSent, late>>
  BY DEF Scout!Tick
<1>2. /\ scoutNow \in Nat /\ scoutNow' \in 0..MaxScoutNow /\ cooldown \in Nat
      /\ \A k \in ScoutKeys : cache[k] # None => cache[k] \in Nat
      /\ \A c \in ScoutCalls : call[c] # Scout!Idle /\ call[c].old # None => call[c].old \in Nat
  BY <1>1, ScoutAssumption DEF ScoutInv, Scout!ScoutTypeOK, Scout!Loads
<1>3. SavedInv'
  BY <1>1, <1>2 DEF ScoutInv, SavedInv
<1>4. PaceInv'
  BY <1>1, <1>2 DEF ScoutInv, PaceInv, Pacing, Scout!At
<1> QED BY <1>1, <1>2, <1>3, <1>4
        DEF ScoutInv, Scout!ScoutTypeOK, LoaderInv, HolderInv, Pacing, Scout!At, RowsInv, Rows,
            Scout!AgesKept

\* Only the call that has its turn sends a request.
LEMMA OthersWait ==
    ASSUME ScoutInv, NEW c \in ScoutCalls, ~Pacing(c),
           \A d \in ScoutCalls : d # c => call'[d] = call[d]
    PROVE  Scout!Spaced
BY DEF Scout!Spaced, Pacing, Scout!At

LEMMA ScoutStep ==
    ASSUME ScoutInv, [Scout!Next]_(Scout!scoutVars)
    PROVE  ScoutInv' /\ [Scout!Spaced]_(Scout!scoutVars)
<1>1. CASE UNCHANGED Scout!scoutVars
  BY <1>1 DEF Scout!scoutVars, ScoutInv, Scout!ScoutTypeOK, Scout!AgesKept, LoaderInv,
              HolderInv, PaceInv, SavedInv, RowsInv, Rows, Pacing, Scout!At
<1>2. ASSUME NEW c \in ScoutCalls, NEW key \in ScoutKeys, NEW stale \in BOOLEAN,
             Scout!Ask(c, key, stale)
      PROVE  ScoutInv' /\ Scout!Spaced
  <2>1. ~Pacing(c) /\ \A d \in ScoutCalls : d # c => call'[d] = call[d]
    BY <1>2 DEF Scout!Ask, Pacing, Scout!At, ScoutInv, Scout!ScoutTypeOK
  <2> QED BY <1>2, <2>1, AskKeeps, OthersWait
<1>3. ASSUME NEW c \in ScoutCalls, Scout!Enter(c)
      PROVE  ScoutInv' /\ Scout!Spaced
  <2>1. ~Pacing(c) /\ \A d \in ScoutCalls : d # c => call'[d] = call[d]
    BY <1>3 DEF Scout!Enter, Scout!Return, Pacing, Scout!At, ScoutInv, Scout!ScoutTypeOK
  <2> QED BY <1>3, <2>1, EnterKeeps, OthersWait
<1>4. ASSUME NEW c \in ScoutCalls, Scout!Turn(c)
      PROVE  ScoutInv' /\ Scout!Spaced
  <2>1. ~Pacing(c) /\ \A d \in ScoutCalls : d # c => call'[d] = call[d]
    BY <1>4 DEF Scout!Turn, Scout!Fail, Scout!Return, Pacing, Scout!At, ScoutInv, Scout!ScoutTypeOK
  <2> QED BY <1>4, <2>1, TurnKeeps, OthersWait
<1>5. ASSUME NEW c \in ScoutCalls, Scout!Send(c)
      PROVE  ScoutInv' /\ Scout!Spaced
  BY <1>5, SendKeeps DEF Scout!Spaced
<1>6. ASSUME NEW c \in ScoutCalls, Scout!Answered(c)
      PROVE  ScoutInv' /\ Scout!Spaced
  <2>1. ~Pacing(c) /\ \A d \in ScoutCalls : d # c => call'[d] = call[d]
    BY <1>6 DEF Scout!Answered, Scout!Return, Pacing, Scout!At, ScoutInv, Scout!ScoutTypeOK
  <2> QED BY <1>6, <2>1, AnsweredKeeps, OthersWait
<1>7. ASSUME NEW c \in ScoutCalls, Scout!RateLimited(c)
      PROVE  ScoutInv' /\ Scout!Spaced
  <2>1. ~Pacing(c) /\ \A d \in ScoutCalls : d # c => call'[d] = call[d]
    BY <1>7 DEF Scout!RateLimited, Scout!Fail, Scout!Return, Pacing, Scout!At, ScoutInv, Scout!ScoutTypeOK
  <2> QED BY <1>7, <2>1, RateLimitedKeeps, OthersWait
<1>8. ASSUME NEW c \in ScoutCalls, Scout!Retried(c) \/ Scout!Rejected(c)
      PROVE  ScoutInv' /\ Scout!Spaced
  <2>1. ~Pacing(c) /\ \A d \in ScoutCalls : d # c => call'[d] = call[d]
    BY <1>8 DEF Scout!Retried, Scout!Rejected, Scout!Fail, Scout!Return, Pacing, Scout!At, ScoutInv,
                Scout!ScoutTypeOK
  <2> QED BY <1>8, <2>1, RetriedKeeps, OthersWait
<1>9. ASSUME NEW c \in ScoutCalls, Scout!Wake(c)
      PROVE  ScoutInv' /\ Scout!Spaced
  <2>1. ~Pacing(c) /\ \A d \in ScoutCalls : d # c => call'[d] = call[d]
    BY <1>9 DEF Scout!Wake, Pacing, Scout!At, ScoutInv, Scout!ScoutTypeOK
  <2> QED BY <1>9, <2>1, WakeKeeps, OthersWait
<1>10. ASSUME Scout!Tick
       PROVE  ScoutInv' /\ Scout!Spaced
  <2>1. Scout!Spaced
    BY <1>10 DEF Scout!Tick, Scout!Spaced, Scout!At
  <2> QED BY <1>10, <2>1, ScoutTickKeeps
<1> QED BY <1>1, <1>2, <1>3, <1>4, <1>5, <1>6, <1>7, <1>8, <1>9, <1>10 DEF Scout!Next

\* No price is served beyond its age, a key is loaded by one call at a time, the rows
\* stay within the quota, and at most one request slips past a cooldown, however many
\* calls, keys and pages there are.
THEOREM PricesAreSound == Scout!Spec => []PricesSound
<1>1. ScoutInv /\ [Scout!Next]_(Scout!scoutVars) => ScoutInv'
  BY ScoutStep
<1>2. ASSUME ScoutInv PROVE PricesSound
  <2>1. Scout!OneLoader
    <3>1. \A x, y \in Scout!Holder : x = y
      BY <1>2 DEF ScoutInv, HolderInv, Pacing, Scout!Holder
    <3>2. Scout!Cardinality(Scout!Holder) <= 1
      BY <3>1, AtMostOne, SameScoutCardinality
    <3>3. Scout!Cardinality({k \in ScoutKeys : cache[k] # None}) <= MaxRows
      BY <1>2, SameScoutCardinality DEF ScoutInv, RowsInv, Rows
    <3> QED BY <1>2, <3>2, <3>3 DEF ScoutInv, LoaderInv, Scout!OneLoader
  <2> QED BY <1>2, <2>1 DEF ScoutInv, PaceInv, PricesSound, Scout!AtMostOneLate
<1> QED BY <1>1, <1>2, ScoutInit, PTL DEF Scout!Spec

LEMMA PricesAreSpaced == Scout!Spec => Scout!ScoutSpaced
<1>1. ScoutInv /\ [Scout!Next]_(Scout!scoutVars) =>
        ScoutInv' /\ [Scout!Spaced]_(Scout!scoutVars)
  BY ScoutStep
<1> QED BY <1>1, ScoutInit, PTL DEF Scout!Spec, Scout!ScoutSpaced

\* Each service keeps its distance to the server it asks: price requests, fetches of
\* the signing keys and character refreshes.
THEOREM RequestsAreSpaced == Scout!Spec /\ Access!Spec /\ Provider!Spec => RequestsSpaced
BY PricesAreSpaced, FetchesAreSpaced, RefreshesAreSpaced DEF RequestsSpaced

\* The services side by side: a behaviour of all of them is one of each, so what is
\* proved of each holds of it.
THEOREM ServicesStandAlone == Spec => Scout!Spec /\ Access!Spec /\ Provider!Spec
<1>1. Init => Scout!Init /\ Access!Init /\ Provider!Init
  BY DEF Init
<1>2. [Next]_serviceVars => [Scout!Next]_(Scout!scoutVars)
  BY DEF Next, serviceVars, scoutVars, Scout!scoutVars
<1>3. [Next]_serviceVars => [Access!Next]_(Access!accessVars)
  BY DEF Next, serviceVars, accessVars, Access!accessVars
<1>4. [Next]_serviceVars => [Provider!Next]_(Provider!providerVars)
  BY DEF Next, serviceVars, providerVars, Provider!providerVars
<1> QED BY <1>1, <1>2, <1>3, <1>4, PTL DEF Spec, Scout!Spec, Access!Spec, Provider!Spec

================================================================================
