------------------------------ MODULE CallsProofs ------------------------------
(* What a tool call runs through: a trace whose step is alone on its document, *)
(* for every limit and any number of clients; one combat calculation at a time,*)
(* for any number of servers, workers and calls; the inspector's cache, for any*)
(* documents, sizes and quota; and the composition of them, of which a         *)
(* behaviour is one of each.                                                   *)
EXTENDS MCWorkflowTelemetry, ListsProofs

-------------------------------------------------------------------------------
(* The trace *)

\* One step runs at a time; it started from an active document, which is the
\* stored one as long as there is one. A document is never begun anew.
StepInv ==
    /\ TypeOK
    /\ \A c \in Running : task[c].base.status = "active"
    /\ \A c \in Running : stored # None => stored = task[c].base
    /\ \A c, d \in Running : c = d
    /\ Busy => used
    /\ stored # None => used

-------------------------------------------------------------------------------
(* Documents *)

LEMMA ClosedTyped ==
    ASSUME NEW t \in Trace, NEW status \in {"finished", "cancelled", "budget_exhausted"}
    PROVE  Closed(t, status) \in Trace /\ Closed(t, status).status # "active"
BY DEF Closed, Active, Trace

\* A record with other fields of the same types is of the same set.
LEMMA RecordChanged ==
    ASSUME NEW P, NEW R, NEW C, NEW B, NEW S,
           NEW t \in [persist : P, revision : R, calls : C, reported : B, status : S],
           NEW r \in R, NEW c \in C, NEW b \in B
    PROVE  /\ [t EXCEPT !.revision = r]
                \in [persist : P, revision : R, calls : C, reported : B, status : S]
           /\ [t EXCEPT !.revision = r, !.calls = c]
                \in [persist : P, revision : R, calls : C, reported : B, status : S]
           /\ [t EXCEPT !.reported = b, !.revision = r]
                \in [persist : P, revision : R, calls : C, reported : B, status : S]
OBVIOUS

LEMMA RevisedTyped ==
    ASSUME NEW t \in Trace
    PROVE  /\ [t EXCEPT !.revision = @ + 1] \in Trace
           /\ \A completed \in BOOLEAN :
                [t EXCEPT !.reported = completed, !.revision = @ + 1] \in Trace
<1>1. t.revision + 1 \in Nat /\ t.calls \in Seq(TraceCall)
  BY DEF Trace
<1> DEFINE B == BOOLEAN \cup {None}
           S == {"active", "finished", "cancelled", "budget_exhausted"}
           next == t.revision + 1
<1>2. t \in [persist : BOOLEAN, revision : Nat, calls : Seq(TraceCall), reported : B, status : S]
  BY DEF Trace
<1>3. \A completed \in BOOLEAN : completed \in B
  OBVIOUS
<1>4. next \in Nat
  BY <1>1
<1>5. Trace = [persist : BOOLEAN, revision : Nat, calls : Seq(TraceCall), reported : B, status : S]
  BY DEF Trace
<1>6. None \in B
  OBVIOUS
<1> HIDE DEF B, S, next
<1>7. [t EXCEPT !.revision = next] \in Trace
  BY <1>1, <1>2, <1>4, <1>5, <1>6, RecordChanged
<1>8. ASSUME NEW completed \in BOOLEAN
      PROVE  [t EXCEPT !.reported = completed, !.revision = next] \in Trace
  BY <1>1, <1>2, <1>3, <1>4, <1>5, RecordChanged
<1> QED
  BY <1>7, <1>8 DEF next

LEMMA RecordedTyped ==
    ASSUME NEW t \in Trace, NEW c \in Clients, task[c] \in Step,
           NEW failed \in BOOLEAN, NEW size \in Sizes
    PROVE  Recorded(t, c, failed, size) \in Trace
<1>1. [id |-> task[c].id, input |-> task[c].input, failed |-> failed, size |-> size] \in TraceCall
  BY DEF TraceCall, Step
<1>2. Append(t.calls, [id |-> task[c].id, input |-> task[c].input, failed |-> failed, size |-> size])
        \in Seq(TraceCall)
  BY <1>1 DEF Trace
<1> DEFINE entry == [id |-> task[c].id, input |-> task[c].input, failed |-> failed, size |-> size]
<1>3. Recorded(t, c, failed, size) =
        [t EXCEPT !.revision = @ + 1, !.calls = Append(t.calls, entry)]
  BY DEF Recorded, Trace
<1>4. Append(t.calls, entry) \in Seq(TraceCall)
  BY <1>2
<1>5. t.revision + 1 \in Nat /\ t.reported \in BOOLEAN \cup {None}
  BY DEF Trace
<1> HIDE DEF entry
<1>6. [t EXCEPT !.revision = t.revision + 1, !.calls = Append(t.calls, entry)] \in Trace
  BY <1>4, <1>5, RecordChanged DEF Trace
<1> QED
  BY <1>3, <1>6

\* What a task is: a step, a cancellation or nothing, and the three differ.
LEMMA TaskKinds ==
    ASSUME TypeOK, NEW c \in Clients
    PROVE  /\ task[c] = None \/ task[c] \in Step \/ task[c] \in Cancel
           /\ c \in Running => task[c] \in Step
           /\ task[c] \in Step => c \in Running
           /\ task[c] # None /\ task[c].op = "cancel" => task[c] \in Cancel
<1>1. task[c] \in Step \cup Cancel \cup {None}
  BY DEF TypeOK
<1>2. task[c] \in Step => task[c].op = "step" /\ task[c] # None
  BY NoneAssumption DEF Step
<1>3. task[c] \in Cancel => task[c].op = "cancel" /\ task[c] # None
  BY NoneAssumption DEF Cancel
<1> QED
  BY <1>1, <1>2, <1>3 DEF Running

-------------------------------------------------------------------------------
(* Steps *)

\* When a step is over, no step runs, and the tasks that are left have their type.
LEMMA ReleasedTyped ==
    ASSUME StepInv, NEW c \in Running, task' = Released(c)
    PROVE  task' \in [Clients -> Step \cup Cancel \cup {None}] /\ Running' = {}
<1>1. \A d \in Clients : Released(c)[d] \in Step \cup Cancel \cup {None}
  <2> SUFFICES ASSUME NEW d \in Clients
               PROVE  Released(c)[d] \in Step \cup Cancel \cup {None}
    OBVIOUS
  <2>1. CASE d # c /\ task[d] # None /\ task[d].op = "cancel" /\ task[d].of = c
    <3>1. task[d] \in Cancel
      BY <2>1, TaskKinds DEF StepInv
    <3>2. [task[d] EXCEPT !.joined = TRUE] \in Cancel
      BY <3>1 DEF Cancel
    <3> QED
      BY <2>1, <3>2 DEF Released
  <2>2. CASE d = c
    BY <2>2 DEF Released
  <2>3. CASE d # c /\ ~(task[d] # None /\ task[d].op = "cancel" /\ task[d].of = c)
    BY <2>3 DEF Released, StepInv, TypeOK
  <2> QED
    BY <2>1, <2>2, <2>3
<1>2. task' \in [Clients -> Step \cup Cancel \cup {None}]
  BY <1>1 DEF Released
<1>3. \A d \in Clients : d \notin Running'
  <2> SUFFICES ASSUME NEW d \in Clients, task'[d] # None, task'[d].op = "step" PROVE FALSE
    BY DEF Running
  <2>1. d # c
    BY DEF Released
  <2>2. d \notin Running
    BY <2>1 DEF StepInv
  <2>3. task[d] = None \/ task[d].op # "step"
    BY <2>2 DEF Running
  <2>4. task[d] # None /\ task[d].op = "cancel" => task[d] \in Cancel
    BY TaskKinds DEF StepInv
  <2>5. CASE task[d] # None /\ task[d].op = "cancel" /\ task[d].of = c
    <3>1. task'[d] = [task[d] EXCEPT !.joined = TRUE] /\ task[d] \in Cancel
      BY <2>1, <2>4, <2>5 DEF Released
    <3> QED
      BY <3>1 DEF Cancel
  <2>6. CASE ~(task[d] # None /\ task[d].op = "cancel" /\ task[d].of = c)
    BY <2>1, <2>3, <2>6 DEF Released
  <2> QED
    BY <2>5, <2>6
<1> QED
  BY <1>2, <1>3 DEF Running

LEMMA StepOverKeeps ==
    ASSUME StepInv, NEW c \in Clients, StepOver(c)
    PROVE  StepInv'
<1>1. c \in Running /\ task' = Released(c) /\ UNCHANGED <<used, late>> /\ refused' \in BOOLEAN
  BY DEF StepOver, StepEnd, StepCancelled, StepUnsaved, StepInv, TypeOK
<1>2. task' \in [Clients -> Step \cup Cancel \cup {None}] /\ Running' = {}
  BY <1>1, ReleasedTyped
<1>3. task[c] \in Step /\ task[c].base \in Trace
  BY <1>1, TaskKinds DEF StepInv, Step
<1>4. stored' \in Trace \cup {None} /\ (stored' # None => stored # None)
  <2>1. ASSUME NEW failed \in BOOLEAN, NEW size \in Sizes, StepEnd(c, failed, size)
        PROVE  stored' \in Trace /\ stored # None
    BY <1>3, <2>1, RecordedTyped DEF StepEnd, Unmoved
  <2>2. ASSUME NEW size \in Sizes, StepCancelled(c, size)
        PROVE  stored' \in Trace /\ stored # None
    <3>1. ClosedByCancel(task[c].base) \in Trace
      BY <1>3, ClosedTyped DEF ClosedByCancel
    <3> QED
      BY <1>3, <2>2, <3>1, RecordedTyped DEF StepCancelled, Unmoved
  <2>3. CASE StepUnsaved(c)
    BY <2>3 DEF StepUnsaved, StepInv, TypeOK
  <2> QED
    BY <2>1, <2>2, <2>3 DEF StepOver
<1> QED
  BY <1>1, <1>2, <1>4 DEF StepInv, TypeOK, Busy

\* A step begins when none runs, on the active document that is stored.
LEMMA StepBeginKeeps ==
    ASSUME StepInv, NEW c \in Clients, NEW id \in StepIds, NEW input \in Inputs,
           StepBegin(c, id, input)
    PROVE  StepInv'
<1>1. /\ stored \in Trace /\ stored # None /\ stored.status = "active"
      /\ Running = {} /\ used /\ UNCHANGED <<stored, used, late, refused>>
  BY DEF StepBegin, Askable, Active, Busy, StepInv, TypeOK
<1> DEFINE step == [op |-> "step", id |-> id, input |-> input, base |-> stored, cancelled |-> FALSE]
<1>2. step \in Step /\ task' = [task EXCEPT ![c] = step]
  BY <1>1 DEF StepBegin, Step
<1>3. Running' = {c}
  <2>1. task'[c] = step /\ step.op = "step" /\ step # None
    BY <1>2, NoneAssumption DEF StepInv, TypeOK
  <2>2. \A d \in Clients : d # c => task'[d] = task[d]
    BY <1>2 DEF StepInv, TypeOK
  <2> QED
    BY <1>1, <2>1, <2>2 DEF Running
<1>4. TypeOK'
  BY <1>1, <1>2 DEF StepInv, TypeOK
<1>5. task'[c].base = stored
  BY <1>2 DEF StepInv, TypeOK
<1> QED
  BY <1>1, <1>3, <1>4, <1>5 DEF StepInv, Busy

\* Requests that change the document without running a step do so when none runs.
LEMMA DocumentKeeps ==
    ASSUME StepInv,
           \/ \E persist \in BOOLEAN : Begin(persist)
           \/ \E id \in StepIds : RunExhausted(id)
           \/ \E completed \in BOOLEAN : Finish(completed)
           \/ CancelIdle \/ DeadlinePasses \/ Lost \/ Restart
    PROVE  StepInv'
<1> USE DEF StepInv, TypeOK
<1>1. ASSUME NEW persist \in BOOLEAN, Begin(persist) PROVE StepInv'
  <2>1. stored' \in Trace /\ used' = TRUE /\ UNCHANGED <<late, task, refused>>
    BY <1>1 DEF Begin, Trace
  <2>2. Running = {} /\ Running' = Running
    BY <1>1 DEF Begin, Busy, Running
  <2> QED
    BY <2>1, <2>2 DEF Busy
<1>2. ASSUME NEW id \in StepIds, RunExhausted(id) PROVE StepInv'
  <2>1. /\ Running = {} /\ stored \in Trace /\ used
        /\ Closed(stored, "budget_exhausted") \in Trace
        /\ stored' = [Closed(stored, "budget_exhausted") EXCEPT !.revision = @ + 1]
        /\ UNCHANGED <<used, late, task, refused>>
    BY <1>2, ClosedTyped DEF RunExhausted, Askable, Busy
  <2>2. stored' \in Trace /\ Running' = {}
    BY <2>1, RevisedTyped DEF Running
  <2> QED
    BY <2>1, <2>2 DEF Busy
<1>3. ASSUME NEW completed \in BOOLEAN, Finish(completed) PROVE StepInv'
  <2>1. /\ Running = {} /\ stored \in Trace /\ used
        /\ Closed(stored, "finished") \in Trace
        /\ stored' = [Closed(stored, "finished") EXCEPT !.reported = completed, !.revision = @ + 1]
        /\ UNCHANGED <<used, late, task, refused>>
    BY <1>3, ClosedTyped DEF Finish, Busy
  <2>2. stored' \in Trace /\ Running' = {}
    BY <2>1, RevisedTyped DEF Running
  <2> QED
    BY <2>1, <2>2 DEF Busy
<1>4. CASE CancelIdle
  <2>1. /\ Running = {} /\ stored \in Trace /\ used
        /\ ClosedByCancel(stored) \in Trace
        /\ stored' = [ClosedByCancel(stored) EXCEPT !.revision = @ + 1]
        /\ UNCHANGED <<used, late, task, refused>>
    BY <1>4, ClosedTyped DEF CancelIdle, Busy, ClosedByCancel
  <2>2. stored' \in Trace /\ Running' = {}
    BY <2>1, RevisedTyped DEF Running
  <2> QED
    BY <2>1, <2>2 DEF Busy
<1>5. CASE DeadlinePasses
  BY <1>5 DEF DeadlinePasses, Running, Busy
<1>6. CASE Lost
  BY <1>6 DEF Lost, Running, Busy
<1>7. CASE Restart
  <2>1. Running' = {} /\ task' \in [Clients -> Step \cup Cancel \cup {None}]
    BY <1>7 DEF Restart, Running
  <2>2. stored' \in {stored, None} /\ UNCHANGED <<used, late, refused>>
    BY <1>7 DEF Restart
  <2> QED
    BY <2>1, <2>2 DEF Busy
<1> QED
  BY <1>1, <1>2, <1>3, <1>4, <1>5, <1>6, <1>7

\* A cancellation marks the running step and leaves it running.
LEMMA CancelKeeps ==
    ASSUME StepInv, NEW c \in Clients, CancelBegin(c) \/ CancelEnd(c)
    PROVE  StepInv'
<1>1. CASE CancelBegin(c)
  <2> DEFINE cancel(r) == [op |-> "cancel", of |-> r, joined |-> FALSE]
  <2>1. PICK r \in Running : task' = [task EXCEPT ![c] = cancel(r), ![r].cancelled = TRUE]
    BY <1>1 DEF CancelBegin
  <2>2. task[c] = None /\ r # c /\ r \in Clients /\ task[r] \in Step
        /\ UNCHANGED <<stored, used, late, refused>>
    BY <1>1, TaskKinds DEF CancelBegin, StepInv, Running
  <2>3. cancel(r) \in Cancel /\ [task[r] EXCEPT !.cancelled = TRUE] \in Step
    BY <2>2 DEF Cancel, Step
  <2>4. /\ task'[c] = cancel(r) /\ task'[r] = [task[r] EXCEPT !.cancelled = TRUE]
        /\ \A d \in Clients : d # c /\ d # r => task'[d] = task[d]
        /\ DOMAIN task' = Clients
    BY <2>1, <2>2 DEF StepInv, TypeOK
  <2>5. task' \in [Clients -> Step \cup Cancel \cup {None}]
    <3>1. task \in [Clients -> Step \cup Cancel \cup {None}]
      BY DEF StepInv, TypeOK
    <3> HIDE DEF cancel
    <3> QED
      BY <2>1, <2>2, <2>3, <2>4, <3>1
  <2>6. Running' = Running
    <3>1. c \notin Running /\ c \notin Running'
      BY <2>2, <2>4 DEF Running
    <3>2. task'[r].op = "step" /\ task'[r] # None
      BY <2>2, <2>3, <2>4, NoneAssumption DEF Step
    <3> QED
      BY <2>2, <2>4, <3>1, <3>2 DEF Running
  <2>7. \A d \in Running : task'[d].base = task[d].base
    BY <2>2, <2>4 DEF StepInv, Step
  <2> QED
    BY <2>2, <2>5, <2>6, <2>7 DEF StepInv, TypeOK, Busy
<1>2. CASE CancelEnd(c)
  <2>1. task' = [task EXCEPT ![c] = None] /\ task[c].op = "cancel"
        /\ UNCHANGED <<stored, used, late, refused>>
    BY <1>2 DEF CancelEnd
  <2>2. Running' = Running /\ \A d \in Running : task'[d] = task[d]
    BY <2>1 DEF Running, StepInv, TypeOK
  <2>3. TypeOK'
    BY <2>1 DEF StepInv, TypeOK
  <2> QED
    BY <2>1, <2>2, <2>3 DEF StepInv, Busy
<1> QED
  BY <1>1, <1>2

LEMMA StepInvariant == Spec => []StepInv
<1>1. Init => StepInv
  BY DEF Init, StepInv, TypeOK, Running, Busy
<1>2. StepInv /\ [Next]_vars => StepInv'
  <2> SUFFICES ASSUME StepInv, [Next]_vars PROVE StepInv'
    OBVIOUS
  <2>1. CASE UNCHANGED vars
    BY <2>1 DEF vars, StepInv, TypeOK, Running, Busy
  <2>2. CASE Next
    BY <2>2, StepOverKeeps, StepBeginKeeps, DocumentKeeps, CancelKeeps DEF Next
  <2> QED
    BY <2>1, <2>2
<1> QED
  BY <1>1, <1>2, PTL DEF Spec

-------------------------------------------------------------------------------
\* As long as a step runs, the stored document is the one it started from, so
\* its result is never refused for a concurrent request (workflow_telemetry.run).
THEOREM StepsAlone == Spec => []StepIsAlone
<1>1. StepInv => StepIsAlone
  BY DEF StepInv, StepIsAlone
<1> QED
  BY <1>1, StepInvariant, PTL

\* A trace that was finished, cancelled or exhausted takes no more calls and
\* keeps the reason it was closed for, whatever was running when it was closed.
THEOREM ClosedForGood == Spec => ClosedStays
<1> DEFINE Stays == stored # None /\ stored' # None /\ stored.status # "active" =>
                      stored'.calls = stored.calls /\ stored'.status = stored.status
<1>1. StepInv /\ [Next]_vars => Stays
  <2> SUFFICES ASSUME StepInv, [Next]_vars, stored # None, stored' # None, stored.status # "active"
               PROVE  stored'.calls = stored.calls /\ stored'.status = stored.status
    OBVIOUS
  <2>1. Running = {} /\ stored \in Trace /\ used
    BY DEF StepInv, TypeOK
  <2>2. \A c \in Clients : ~StepOver(c)
    BY <2>1 DEF StepOver, StepEnd, StepCancelled, StepUnsaved
  <2>3. \A persist \in BOOLEAN : ~Begin(persist)
    BY <2>1 DEF Begin
  <2>4. \A id \in StepIds : ~RunExhausted(id)
    BY DEF RunExhausted, Askable, Active
  <2>5. ~CancelIdle
    BY DEF CancelIdle, Active
  <2>6. ASSUME NEW completed \in BOOLEAN, Finish(completed)
        PROVE  stored'.calls = stored.calls /\ stored'.status = stored.status
    <3>1. stored' = [stored EXCEPT !.reported = completed, !.revision = @ + 1]
      BY <2>6 DEF Finish, Closed, Active
    <3> QED
      BY <2>1, <3>1 DEF Trace
  <2>7. stored' = stored \/ \E completed \in BOOLEAN : Finish(completed)
    <3>1. CASE UNCHANGED vars
      BY <3>1 DEF vars
    <3>2. CASE Next
      BY <2>2, <2>3, <2>4, <2>5, <3>2
         DEF Next, StepBegin, CancelBegin, CancelEnd, DeadlinePasses, Lost, Restart
    <3> QED
      BY <3>1, <3>2
  <2> QED
    BY <2>6, <2>7
<1> QED
  BY <1>1, StepInvariant, PTL DEF Spec, ClosedStays

-------------------------------------------------------------------------------
(* What the recorded calls add up to *)

\* The size of the calls, one after another.
CallSizes(calls) == [i \in DOMAIN calls |-> calls[i].size]

LEMMA Limits ==
    /\ MaxCalls \in Nat /\ MaxOutput \in Nat /\ Reserve \in Nat
    /\ MaxCalls > 0 /\ \A size \in Sizes : size \in Nat /\ size <= Reserve
<1>1. MaxCalls \in Nat /\ MaxOutput \in Nat /\ Reserve \in Nat
  BY ConstantsAssumption
<1>2. Sizes \subseteq 0 .. Reserve /\ MaxCalls > 0
  BY ConstantsAssumption
<1> QED
  BY <1>1, <1>2

LEMMA SizesTyped ==
    ASSUME NEW calls \in Seq(TraceCall)
    PROVE  /\ CallSizes(calls) \in Seq(Int)
           /\ \A entry \in TraceCall :
                CallSizes(Append(calls, entry)) = Append(CallSizes(calls), entry.size)
<1>1. \A entry \in TraceCall : entry.size \in Int
  BY Limits DEF TraceCall
<1>2. CallSizes(calls) \in Seq(Int) /\ Len(CallSizes(calls)) = Len(calls)
  BY <1>1 DEF CallSizes
<1>3. ASSUME NEW entry \in TraceCall
      PROVE  CallSizes(Append(calls, entry)) = Append(CallSizes(calls), entry.size)
  <2>1. Append(calls, entry) \in Seq(TraceCall)
    OBVIOUS
  <2>2. \A i \in 1 .. Len(calls) + 1 :
          Append(calls, entry)[i].size = Append(CallSizes(calls), entry.size)[i]
    BY <1>2 DEF CallSizes
  <2> QED
    BY <1>2, <2>1, <2>2 DEF CallSizes
<1> QED
  BY <1>2, <1>3

WithinLimits(calls) == Len(calls) <= MaxCalls /\ Total(0, CallSizes(calls)) <= MaxOutput

\* What a step was checked for when it began, of the calls there were.
HasRoom(calls) == Len(calls) < MaxCalls /\ Total(0, CallSizes(calls)) + Reserve <= MaxOutput

FailedTries(calls, input, n) == {k \in 1 .. n : calls[k].input = input /\ calls[k].failed}

WorthTrying(calls, input) ==
    /\ \A i \in DOMAIN calls : calls[i].input \in GoalInputs => calls[i].failed
    /\ \A i \in DOMAIN calls : calls[i].input = input => calls[i].failed
    /\ Cardinality(FailedTries(calls, input, Len(calls))) < 2

\* No call was wasted, as NoStepWasted says it of the stored document.
Frugal(calls) ==
    \A i, j \in DOMAIN calls :
      i < j =>
        /\ calls[i].input \in GoalInputs => calls[i].failed
        /\ calls[i].input = calls[j].input =>
             /\ calls[i].failed
             /\ Cardinality(FailedTries(calls, calls[j].input, j - 1)) < 2

\* One more call, of an input that was worth trying, keeps the limits.
LEMMA OneMoreFits ==
    ASSUME NEW calls \in Seq(TraceCall), NEW entry \in TraceCall, HasRoom(calls)
    PROVE  WithinLimits(Append(calls, entry))
<1>1. /\ CallSizes(calls) \in Seq(Int) /\ entry.size \in Int /\ entry.size <= Reserve
      /\ CallSizes(Append(calls, entry)) = Append(CallSizes(calls), entry.size)
  <2>1. entry.size \in Sizes
    BY DEF TraceCall
  <2> QED
    BY <2>1, SizesTyped, Limits
<1>2. Total(0, CallSizes(Append(calls, entry))) = Total(0, CallSizes(calls)) + entry.size
  BY <1>1, TotalAppend
<1>3. Total(0, CallSizes(calls)) \in Int
  BY <1>1, TotalType
<1>4. Len(Append(calls, entry)) = Len(calls) + 1 /\ Len(calls) \in Nat
  OBVIOUS
<1> QED
  BY <1>1, <1>2, <1>3, <1>4, Limits DEF HasRoom, WithinLimits

LEMMA OneMoreFrugal ==
    ASSUME NEW calls \in Seq(TraceCall), NEW entry \in TraceCall,
           Frugal(calls), WorthTrying(calls, entry.input)
    PROVE  Frugal(Append(calls, entry))
<1> DEFINE longer == Append(calls, entry)
           len == Len(calls)
<1>1. /\ DOMAIN longer = 1 .. len + 1 /\ DOMAIN calls = 1 .. len /\ len \in Nat
      /\ longer[len + 1] = entry /\ \A i \in 1 .. len : longer[i] = calls[i]
  OBVIOUS
<1> HIDE DEF longer, len
<1> SUFFICES ASSUME NEW i \in 1 .. len + 1, NEW j \in 1 .. len + 1, i < j
             PROVE  /\ longer[i].input \in GoalInputs => longer[i].failed
                    /\ longer[i].input = longer[j].input =>
                         /\ longer[i].failed
                         /\ Cardinality(FailedTries(longer, longer[j].input, j - 1)) < 2
  <2>1. Frugal(longer)
    BY <1>1 DEF Frugal
  <2> QED
    BY <2>1 DEF longer
<1>2. longer[i] = calls[i] /\ i \in 1 .. len /\ 1 .. j - 1 \subseteq 1 .. len
  BY <1>1
<1>3. FailedTries(longer, longer[j].input, j - 1) = FailedTries(calls, longer[j].input, j - 1)
  BY <1>1, <1>2 DEF FailedTries
<1>4. CASE j \in 1 .. len
  BY <1>1, <1>2, <1>3, <1>4 DEF Frugal
<1>5. CASE j = len + 1
  <2>1. longer[j] = entry /\ j - 1 = len
    BY <1>1, <1>5
  <2> QED
    BY <1>1, <1>2, <1>3, <2>1 DEF WorthTrying, len
<1> QED
  BY <1>1, <1>4, <1>5

-------------------------------------------------------------------------------
(* What holds of the trace, and of the requests that wait *)

CallsInv == stored # None => WithinLimits(stored.calls) /\ Frugal(stored.calls)

\* A running step was worth its call when it began.
StartInv ==
    \A c \in Running : HasRoom(task[c].base.calls)
                         /\ WorthTrying(task[c].base.calls, task[c].input)

\* A cancellation waits for a step that is marked, and is woken when that is over.
JoinInv ==
    \A c \in Clients : task[c] # None /\ task[c].op = "cancel" =>
      /\ used
      /\ task[c].joined /\ stored # None /\ ~refused => stored.status # "active"
      /\ ~task[c].joined => task[c].of \in Running /\ task[task[c].of].cancelled

TraceInv == StepInv /\ CallsInv /\ StartInv /\ JoinInv

LEMMA RecordedFields ==
    ASSUME NEW t \in Trace, NEW c \in Clients, task[c] \in Step,
           NEW failed \in BOOLEAN, NEW size \in Sizes
    PROVE  /\ Recorded(t, c, failed, size).status = t.status
           /\ \E entry \in TraceCall : /\ entry.input = task[c].input
                                      /\ Recorded(t, c, failed, size).calls = Append(t.calls, entry)
<1> DEFINE entry == [id |-> task[c].id, input |-> task[c].input, failed |-> failed, size |-> size]
<1>1. entry \in TraceCall /\ entry.input = task[c].input
  BY DEF TraceCall, Step
<1>2. /\ Recorded(t, c, failed, size).calls = Append(t.calls, entry)
      /\ Recorded(t, c, failed, size).status = t.status
  BY DEF Recorded, Trace
<1> QED
  BY <1>1, <1>2

LEMMA ClosedFields ==
    ASSUME NEW t \in Trace, NEW status \in {"finished", "cancelled", "budget_exhausted"}
    PROVE  Closed(t, status).calls = t.calls
BY DEF Closed, Active, Trace

\* How a step ends: its call is added to the document it started from, and the
\* trace is closed if it was cancelled; or nothing is written.
LEMMA StepOverWrites ==
    ASSUME StepInv, NEW c \in Clients, StepOver(c)
    PROVE  \/ /\ stored = task[c].base /\ stored \in Trace /\ UNCHANGED refused
              /\ \E entry \in TraceCall :
                   entry.input = task[c].input /\ stored'.calls = Append(stored.calls, entry)
              /\ task[c].cancelled => stored'.status # "active"
           \/ UNCHANGED stored /\ refused'
<1>1. c \in Running /\ task[c] \in Step /\ task[c].base \in Trace
  <2>1. c \in Running
    BY DEF StepOver, StepEnd, StepCancelled, StepUnsaved
  <2> QED
    BY <2>1, TaskKinds DEF StepInv, Step
<1>2. stored # None => stored = task[c].base
  BY <1>1 DEF StepInv
<1>3. ASSUME NEW failed \in BOOLEAN, NEW size \in Sizes, StepEnd(c, failed, size)
      PROVE  /\ stored = task[c].base /\ UNCHANGED refused /\ ~task[c].cancelled
             /\ \E entry \in TraceCall :
                  entry.input = task[c].input /\ stored'.calls = Append(stored.calls, entry)
  BY <1>1, <1>2, <1>3, RecordedFields DEF StepEnd, Unmoved
<1>4. ASSUME NEW size \in Sizes, StepCancelled(c, size)
      PROVE  /\ stored = task[c].base /\ UNCHANGED refused
             /\ \E entry \in TraceCall :
                  entry.input = task[c].input /\ stored'.calls = Append(stored.calls, entry)
             /\ stored'.status # "active"
  <2> DEFINE t == Closed(task[c].base, "cancelled")
  <2>1. t \in Trace /\ t.status # "active" /\ t.calls = task[c].base.calls
    BY <1>1, ClosedTyped, ClosedFields
  <2>2. stored' = Recorded(t, c, TRUE, size) /\ stored = task[c].base /\ UNCHANGED refused
    BY <1>2, <1>4 DEF StepCancelled, Unmoved, ClosedByCancel
  <2> HIDE DEF t
  <2>3. /\ Recorded(t, c, TRUE, size).status = t.status
        /\ \E entry \in TraceCall : /\ entry.input = task[c].input
                                   /\ Recorded(t, c, TRUE, size).calls = Append(t.calls, entry)
    BY <1>1, <2>1, RecordedFields
  <2> QED
    BY <2>1, <2>2, <2>3
<1>5. CASE StepUnsaved(c)
  BY <1>5 DEF StepUnsaved
<1> QED
  BY <1>1, <1>3, <1>4, <1>5 DEF StepOver

LEMMA StepOverTrace ==
    ASSUME TraceInv, NEW c \in Clients, StepOver(c)
    PROVE  TraceInv'
<1>1. StepInv /\ c \in Running /\ task' = Released(c)
  BY DEF TraceInv, StepOver, StepEnd, StepCancelled, StepUnsaved
<1>2. StepInv' /\ Running' = {}
  BY <1>1, StepOverKeeps, ReleasedTyped
<1>3. CallsInv'
  <2>1. CASE UNCHANGED stored
    BY <2>1 DEF TraceInv, CallsInv
  <2>2. ASSUME stored = task[c].base, stored \in Trace,
               NEW entry \in TraceCall, entry.input = task[c].input,
               stored'.calls = Append(stored.calls, entry)
        PROVE  CallsInv'
    <3>1. /\ stored.calls \in Seq(TraceCall) /\ HasRoom(stored.calls)
          /\ WorthTrying(stored.calls, entry.input) /\ Frugal(stored.calls)
      BY <1>1, <2>2, NoneAssumption DEF TraceInv, StartInv, CallsInv, Trace
    <3> QED
      BY <2>2, <3>1, OneMoreFits, OneMoreFrugal DEF CallsInv
  <2> QED
    BY <1>1, <2>1, <2>2, StepOverWrites
<1>4. JoinInv'
  <2> SUFFICES ASSUME NEW d \in Clients, task'[d] # None, task'[d].op = "cancel"
               PROVE  task'[d].joined /\ (stored' # None /\ ~refused' => stored'.status # "active")
    <3>1. used' = used /\ \A d \in Clients : task'[d] # None /\ task'[d].op = "cancel" =>
                            task'[d].joined /\ (stored' # None /\ ~refused' => stored'.status # "active")
      BY DEF StepOver, StepEnd, StepCancelled, StepUnsaved
    <3>2. used
      BY <1>1 DEF StepInv, Busy
    <3> QED
      BY <3>1, <3>2 DEF JoinInv
  <2>1. d # c /\ task[d] # None
    BY <1>1 DEF Released
  <2>2. task[d].op = "cancel" /\ task[d] \in Cancel
    <3>1. task[d] \in Step \cup Cancel
      BY <1>1, <2>1, TaskKinds DEF StepInv
    <3>2. task'[d] = task[d] \/ task[d].op = "cancel"
      BY <1>1, <2>1 DEF Released
    <3> QED
      BY <1>1, <2>1, <3>1, <3>2, TaskKinds DEF StepInv, Step, Cancel
  <2>3. d \notin Running /\ \A e \in Running : e = c
    BY <1>1, <2>2 DEF StepInv, Running
  <2>4. CASE task[d].of = c
    <3>1. task'[d] = [task[d] EXCEPT !.joined = TRUE]
      BY <1>1, <2>1, <2>2, <2>4 DEF Released
    <3>2. task'[d].joined
      BY <2>2, <3>1 DEF Cancel
    <3>3. task[d].joined \/ task[c].cancelled
      BY <2>1, <2>2, <2>4 DEF TraceInv, JoinInv
    <3>4. CASE ~task[d].joined
      BY <1>1, <3>2, <3>3, <3>4, StepOverWrites
    <3>5. CASE task[d].joined
      <4>1. stored # None /\ ~refused => stored.status # "active"
        BY <2>1, <2>2, <3>5 DEF TraceInv, JoinInv
      <4>2. stored # None => stored = task[c].base /\ stored.status = "active"
        BY <1>1 DEF StepInv
      <4> QED
        BY <1>1, <3>2, <4>1, <4>2, StepOverWrites, NoneAssumption DEF Trace
    <3> QED
      BY <3>4, <3>5
  <2>5. CASE task[d].of # c
    <3>1. task'[d] = task[d]
      BY <1>1, <2>1, <2>2, <2>5 DEF Released
    <3>2. task[d].joined /\ (stored # None /\ ~refused => stored.status # "active")
      BY <2>1, <2>2, <2>3, <2>5 DEF TraceInv, JoinInv
    <3>3. stored # None => stored = task[c].base /\ stored.status = "active"
      BY <1>1 DEF StepInv
    <3> QED
      BY <1>1, <3>1, <3>2, <3>3, StepOverWrites, NoneAssumption
  <2> QED
    BY <2>4, <2>5
<1> QED
  BY <1>2, <1>3, <1>4 DEF TraceInv, StartInv

\* A step begins only when its budget allows it and it is worth trying.
LEMMA StepBeginTrace ==
    ASSUME TraceInv, NEW c \in Clients, NEW id \in StepIds, NEW input \in Inputs,
           StepBegin(c, id, input)
    PROVE  TraceInv'
<1>1. /\ StepInv /\ stored \in Trace /\ stored # None /\ stored.calls \in Seq(TraceCall)
      /\ Running = {} /\ UNCHANGED <<stored, refused>>
  BY DEF TraceInv, StepBegin, Askable, Busy, StepInv, TypeOK, Trace
<1> DEFINE step == [op |-> "step", id |-> id, input |-> input, base |-> stored, cancelled |-> FALSE]
<1>2. /\ task[c] = None /\ task' = [task EXCEPT ![c] = step] /\ task'[c] = step
      /\ \A d \in Clients : d # c => task'[d] = task[d]
  BY <1>1 DEF StepBegin, StepInv, TypeOK
<1>3. StepInv'
  BY <1>1, StepBeginKeeps
<1>4. Running' \subseteq {c}
  BY <1>1, <1>2 DEF Running
<1>5. HasRoom(stored.calls)
  <2>1. ~(Len(stored.calls) >= MaxCalls) /\ ~(Output(stored) + Reserve > MaxOutput)
    BY DEF StepBegin, Exhausted
  <2>2. Output(stored) = Total(0, CallSizes(stored.calls))
    BY DEF Output, CallSizes
  <2>3. Total(0, CallSizes(stored.calls)) \in Int
    BY <1>1, SizesTyped, TotalType
  <2> QED
    BY <1>1, <2>1, <2>2, <2>3, Limits DEF HasRoom
<1>6. WorthTrying(stored.calls, input)
  <2>1. Repeatable(stored, input) /\ ~GoalEvidence(stored)
    BY DEF StepBegin, Askable
  <2>2. \A i \in DOMAIN stored.calls : stored.calls[i] \in Calls(stored)
    BY DEF Calls
  <2>3. Failures(stored, input) = Cardinality(FailedTries(stored.calls, input, Len(stored.calls)))
    <3>1. {i \in DOMAIN stored.calls : stored.calls[i].input = input /\ stored.calls[i].failed}
            = FailedTries(stored.calls, input, Len(stored.calls))
      BY <1>1 DEF FailedTries
    <3> QED
      BY <3>1 DEF Failures
  <2> QED
    BY <2>1, <2>2, <2>3 DEF Repeatable, Succeeded, GoalEvidence, WorthTrying
<1>7. StartInv'
  BY <1>1, <1>2, <1>4, <1>5, <1>6 DEF StartInv
<1>8. JoinInv'
  <2>1. task'[c].op = "step" /\ UNCHANGED used
    BY <1>2 DEF StepBegin
  <2>2. \A d \in Clients : task[d] # None /\ task[d].op = "cancel" => task[d].joined
    BY <1>1 DEF TraceInv, JoinInv
  <2> QED
    BY <1>1, <1>2, <2>1, <2>2 DEF TraceInv, JoinInv
<1> QED
  BY <1>1, <1>3, <1>7, <1>8 DEF TraceInv, CallsInv

\* Whatever else is written is written when no step runs, and keeps the calls;
\* what was closed stays closed.
LEMMA DocumentWrites ==
    ASSUME StepInv,
           \/ \E persist \in BOOLEAN : Begin(persist)
           \/ \E id \in StepIds : RunExhausted(id)
           \/ \E completed \in BOOLEAN : Finish(completed)
           \/ CancelIdle
    PROVE  /\ Running = {} /\ UNCHANGED <<task, refused>>
           /\ \/ stored = None /\ ~used /\ stored'.calls = << >>
              \/ /\ stored # None /\ stored'.calls = stored.calls
                 /\ stored.status # "active" => stored'.status = stored.status
<1>1. ASSUME NEW t \in Trace, NEW status \in {"finished", "cancelled", "budget_exhausted"}
      PROVE  LET d == Closed(t, status)
             IN  /\ [d EXCEPT !.revision = @ + 1].calls = t.calls
                 /\ t.status # "active" => [d EXCEPT !.revision = @ + 1].status = t.status
                 /\ \A completed \in BOOLEAN :
                      LET e == [d EXCEPT !.reported = completed, !.revision = @ + 1]
                      IN  e.calls = t.calls /\ (t.status # "active" => e.status = t.status)
  BY DEF Closed, Active, Trace
<1>2. stored # None => stored \in Trace /\ used
  BY DEF StepInv, TypeOK
<1>3. ASSUME NEW persist \in BOOLEAN, Begin(persist)
      PROVE  Running = {} /\ UNCHANGED <<task, refused>> /\ stored = None /\ ~used
             /\ stored'.calls = << >>
  BY <1>2, <1>3 DEF Begin, StepInv, Busy
<1>4. ASSUME NEW id \in StepIds, RunExhausted(id)
      PROVE  /\ Running = {} /\ UNCHANGED <<task, refused>> /\ stored # None
             /\ stored'.calls = stored.calls
             /\ stored.status # "active" => stored'.status = stored.status
  BY <1>1, <1>2, <1>4 DEF RunExhausted, Askable, Busy
<1>5. ASSUME NEW completed \in BOOLEAN, Finish(completed)
      PROVE  /\ Running = {} /\ UNCHANGED <<task, refused>> /\ stored # None
             /\ stored'.calls = stored.calls
             /\ stored.status # "active" => stored'.status = stored.status
  BY <1>1, <1>2, <1>5 DEF Finish, Busy
<1>6. ASSUME CancelIdle
      PROVE  /\ Running = {} /\ UNCHANGED <<task, refused>> /\ stored # None
             /\ stored'.calls = stored.calls
             /\ stored.status # "active" => stored'.status = stored.status
  BY <1>1, <1>2, <1>6 DEF CancelIdle, Busy, ClosedByCancel
<1> QED
  BY <1>3, <1>4, <1>5, <1>6

LEMMA DocumentTrace ==
    ASSUME TraceInv,
           \/ \E persist \in BOOLEAN : Begin(persist)
           \/ \E id \in StepIds : RunExhausted(id)
           \/ \E completed \in BOOLEAN : Finish(completed)
           \/ CancelIdle \/ DeadlinePasses \/ Lost \/ Restart
    PROVE  TraceInv'
<1>1. StepInv /\ StepInv'
  BY DocumentKeeps DEF TraceInv
<1>2. CASE \/ \E persist \in BOOLEAN : Begin(persist)
           \/ \E id \in StepIds : RunExhausted(id)
           \/ \E completed \in BOOLEAN : Finish(completed)
           \/ CancelIdle
  <2>0. UNCHANGED used \/ used'
    BY <1>2 DEF Begin, RunExhausted, Finish, CancelIdle
  <2>1. /\ Running = {} /\ UNCHANGED <<task, refused>> /\ Running' = Running /\ (used => used')
        /\ \/ stored = None /\ ~used /\ stored'.calls = << >>
           \/ /\ stored # None /\ stored'.calls = stored.calls
              /\ stored.status # "active" => stored'.status = stored.status
    BY <1>1, <1>2, <2>0, DocumentWrites DEF Running
  <2>2. CallsInv'
    <3>1. WithinLimits(<< >>) /\ Frugal(<< >>)
      <4>1. CallSizes(<< >>) = << >>
        BY DEF CallSizes
      <4> QED
        BY <4>1, TotalEmpty, Limits DEF WithinLimits, Frugal
    <3> QED
      BY <2>1, <3>1 DEF TraceInv, CallsInv
  <2>3. ASSUME NEW c \in Clients, task[c] # None, task[c].op = "cancel", task[c].joined,
               stored' # None, ~refused'
        PROVE  stored'.status # "active"
    BY <2>1, <2>3 DEF TraceInv, JoinInv
  <2>4. JoinInv'
    BY <2>1, <2>3 DEF TraceInv, JoinInv
  <2> QED
    BY <1>1, <2>1, <2>2, <2>4 DEF TraceInv, StartInv
<1>3. CASE DeadlinePasses
  BY <1>1, <1>3 DEF DeadlinePasses, TraceInv, CallsInv, StartInv, JoinInv, Running
<1>4. CASE Lost
  BY <1>1, <1>4 DEF Lost, TraceInv, CallsInv, StartInv, JoinInv, Running
<1>5. CASE Restart
  <2>1. Running' = {} /\ \A c \in Clients : task'[c] = None
    BY <1>5 DEF Restart, Running
  <2>2. stored' \in {stored, None}
    BY <1>5 DEF Restart
  <2> QED
    BY <1>1, <2>1, <2>2 DEF TraceInv, CallsInv, StartInv, JoinInv
<1> QED
  BY <1>2, <1>3, <1>4, <1>5

LEMMA CancelTrace ==
    ASSUME TraceInv, NEW c \in Clients, CancelBegin(c) \/ CancelEnd(c)
    PROVE  TraceInv'
<1>1. StepInv /\ StepInv'
  BY CancelKeeps DEF TraceInv
<1>2. CASE CancelBegin(c)
  <2> DEFINE cancel(r) == [op |-> "cancel", of |-> r, joined |-> FALSE]
  <2>1. PICK r \in Running : task' = [task EXCEPT ![c] = cancel(r), ![r].cancelled = TRUE]
    BY <1>2 DEF CancelBegin
  <2>2. task[c] = None /\ r # c /\ r \in Clients /\ task[r] \in Step /\ UNCHANGED <<stored, refused>>
    BY <1>1, <1>2, TaskKinds DEF CancelBegin, StepInv, Running
  <2>3. /\ task'[c] = cancel(r) /\ task'[r] = [task[r] EXCEPT !.cancelled = TRUE]
        /\ \A d \in Clients : d # c /\ d # r => task'[d] = task[d]
    BY <1>1, <2>1, <2>2 DEF StepInv, TypeOK
  <2>4. /\ task'[r] # None /\ task'[r].op = "step" /\ task'[r].cancelled
        /\ task'[r].base = task[r].base /\ task'[r].input = task[r].input
    <3>1. task'[r] \in Step
      BY <2>2, <2>3 DEF Step
    <3> QED
      BY <2>2, <2>3, <3>1, NoneAssumption DEF Step
  <2>5. Running' = Running
    <3>1. c \notin Running /\ c \notin Running' /\ r \in Running'
      <4>1. task'[c].op = "cancel"
        BY <2>3
      <4> QED
        BY <2>2, <2>4, <4>1 DEF Running
    <3>2. \A d \in Clients : d # c /\ d # r => (d \in Running' <=> d \in Running)
      BY <2>3 DEF Running
    <3>3. Running \subseteq Clients /\ Running' \subseteq Clients
      BY DEF Running
    <3> QED
      BY <3>1, <3>2, <3>3
  <2>6. StartInv'
    BY <2>2, <2>3, <2>4, <2>5 DEF TraceInv, StartInv, Running
  <2>7. JoinInv'
    <3>1. used /\ UNCHANGED <<used, stored, refused>>
      BY <1>1, <1>2 DEF CancelBegin, StepInv, TypeOK
    <3>2. /\ task'[c].joined = FALSE /\ task'[c].of = r
      BY <2>3
    <3> SUFFICES ASSUME NEW d \in Clients, d # c, task'[d] # None, task'[d].op = "cancel"
                 PROVE  /\ task'[d].joined /\ stored' # None /\ ~refused' => stored'.status # "active"
                        /\ ~task'[d].joined => /\ task'[d].of \in Running'
                                               /\ task'[task'[d].of].cancelled
      BY <2>4, <2>5, <3>1, <3>2 DEF JoinInv
    <3>3. d # r /\ task'[d] = task[d]
      BY <2>3, <2>4
    <3>4. /\ task[d].joined /\ stored # None /\ ~refused => stored.status # "active"
          /\ ~task[d].joined => task[d].of \in Running /\ task[task[d].of].cancelled
      BY <3>3 DEF TraceInv, JoinInv
    <3>5. \A e \in Running : e = r
      BY <1>1, <2>5 DEF StepInv
    <3> QED
      BY <2>4, <2>5, <3>1, <3>3, <3>4, <3>5
  <2> QED
    BY <1>1, <2>2, <2>6, <2>7 DEF TraceInv, CallsInv
<1>3. CASE CancelEnd(c)
  <2>1. /\ task[c].op = "cancel" /\ task'[c] = None /\ UNCHANGED <<stored, used, refused>>
        /\ \A d \in Clients : d # c => task'[d] = task[d]
    BY <1>1, <1>3 DEF CancelEnd, StepInv, TypeOK
  <2>2. Running' = Running /\ c \notin Running
    BY <2>1 DEF Running
  <2>3. \A d \in Running : d # c /\ d \in Clients
    BY <2>2 DEF Running
  <2>4. StartInv'
    BY <2>1, <2>2, <2>3 DEF TraceInv, StartInv
  <2>5. JoinInv'
    <3> SUFFICES ASSUME NEW d \in Clients, d # c, task[d] # None, task[d].op = "cancel",
                        ~task[d].joined
                 PROVE  task[d].of \in Running' /\ task'[task[d].of].cancelled
      BY <2>1 DEF TraceInv, JoinInv
    <3> QED
      BY <2>1, <2>2, <2>3 DEF TraceInv, JoinInv
  <2> QED
    BY <1>1, <2>1, <2>4, <2>5 DEF TraceInv, CallsInv
<1> QED
  BY <1>2, <1>3

LEMMA TraceInvariant == Spec => []TraceInv
<1>1. Init => TraceInv
  BY DEF Init, TraceInv, StepInv, CallsInv, StartInv, JoinInv, TypeOK, Running, Busy
<1>2. TraceInv /\ [Next]_vars => TraceInv'
  <2> SUFFICES ASSUME TraceInv, [Next]_vars PROVE TraceInv'
    OBVIOUS
  <2>1. CASE UNCHANGED vars
    BY <2>1 DEF vars, TraceInv, StepInv, CallsInv, StartInv, JoinInv, TypeOK, Running, Busy
  <2>2. CASE Next
    BY <2>2, StepOverTrace, StepBeginTrace, DocumentTrace, CancelTrace DEF Next
  <2> QED
    BY <2>1, <2>2
<1> QED
  BY <1>1, <1>2, PTL DEF Spec

\* A trace stays within its budget, wastes no step, is not changed beneath a
\* running step, and is closed when a cancellation has been confirmed: for every
\* number of requests, limit and size of results (workflow_telemetry.run, finish,
\* cancel).
THEOREM TraceIsSound == Spec => []StepsSound
<1>1. TraceInv => StepsSound
  <2> SUFFICES ASSUME TraceInv PROVE StepsSound
    OBVIOUS
  <2>1. stored # None => stored.calls \in Seq(TraceCall)
    BY DEF TraceInv, StepInv, TypeOK, Trace
  <2>2. WithinBudget
    BY DEF TraceInv, CallsInv, WithinLimits, WithinBudget, Output, CallSizes
  <2>3. NoStepWasted
    BY <2>1 DEF TraceInv, CallsInv, Frugal, FailedTries, NoStepWasted
  <2>4. StepIsAlone
    BY DEF TraceInv, StepInv, StepIsAlone
  <2>5. CancelCloses
    BY DEF TraceInv, JoinInv, CancelCloses
  <2> QED
    BY <2>2, <2>3, <2>4, <2>5 DEF StepsSound
<1> QED
  BY <1>1, TraceInvariant, PTL


-------------------------------------------------------------------------------
(* Admission *)

\* The lock of a worker and the lease are held together, by the request that
\* runs there, for as long as its process may be alive; a request stays with a
\* container that is up, and one that is answered has an answer.
LeaseInv ==
    /\ \A w \in Workers : up[w] /\ proc[w] # "none" => lease = w
    /\ \A w \in Workers : lease = w => up[w] /\ job[w] # NoOne
    /\ \A w \in Workers : job[w] # NoOne =>
         lease = w /\ work[job[w]] = "running" /\ Home(job[w]) = w
    /\ \A c \in EngineCalls : work[c] # "none" => up[Home(c)] /\ call[c] # "new"
    /\ \A c \in EngineCalls : work[c] = "answered" => answer[c] \in Errors \cup {"result"}

AdmissionInv == AdmissionTypeOK /\ LeaseInv

-------------------------------------------------------------------------------
LEMMA AdmissionStart == ASSUME AdmissionInit PROVE AdmissionInv
BY PlacedAssumption DEF AdmissionInit, AdmissionInv, AdmissionTypeOK, LeaseInv, Home

\* The server's half: it touches no lock, and takes an answer only when there
\* is one.
LEMMA ServerStep ==
    ASSUME AdmissionInv, NEW c \in EngineCalls,
           \/ Refuse(c) \/ Send(c) \/ Receive(c) \/ Drop(c)
           \/ \E outcome \in Outcomes : Leave(c, outcome)
    PROVE  AdmissionInv'
<1> USE PlacedAssumption DEF AdmissionInv, AdmissionTypeOK, LeaseInv, Home
<1>1. CASE Refuse(c)
  BY <1>1 DEF Refuse, Outcomes, Errors
<1>2. CASE Send(c)
  BY <1>2 DEF Send, Outcomes, Errors
<1>3. CASE Receive(c)
  <2>1. answer[c] \in Errors \cup {"result"}
    BY <1>3 DEF Receive
  <2>2. Judged(c) \subseteq Outcomes
    BY <2>1 DEF Judged, Outcomes, Errors
  <2>3. PICK code \in Outcomes : call' = [call EXCEPT ![c] = code]
    BY <1>3, <2>2 DEF Receive
  <2>4. /\ work' = [work EXCEPT ![c] = "none"] /\ work[c] = "answered"
        /\ answer' = [answer EXCEPT ![c] = NoOne]
        /\ UNCHANGED <<job, proc, lease, up>>
    BY <1>3 DEF Receive, HungUp
  <2> QED
    BY <2>3, <2>4 DEF Outcomes, Errors
<1>4. CASE Drop(c)
  BY <1>4 DEF Drop, HungUp, Errors
<1>5. CASE \E outcome \in Outcomes : Leave(c, outcome)
  BY <1>5 DEF Leave, Outcomes, Errors
<1> QED
  BY <1>1, <1>2, <1>3, <1>4, <1>5

\* The worker's half: a request is turned away, or takes lock and lease in one
\* step; both are freed in one step, once the process is gone.
LEMMA WorkerTakes ==
    ASSUME AdmissionInv, NEW c \in EngineCalls,
           Turned(c) \/ Invalid(c) \/ Start(c)
    PROVE  AdmissionInv'
<1> USE PlacedAssumption DEF AdmissionInv, AdmissionTypeOK, LeaseInv, Home
<1>1. CASE Turned(c)
  BY <1>1 DEF Turned, Answered, Errors
<1>2. CASE Invalid(c)
  BY <1>2 DEF Invalid, Answered, Errors
<1>3. CASE Start(c)
  BY <1>3 DEF Start, Admits, Errors
<1> QED
  BY <1>1, <1>2, <1>3

LEMMA WorkerServes ==
    ASSUME AdmissionInv, NEW w \in Workers, Serve(w)
    PROVE  AdmissionInv'
<1> USE PlacedAssumption DEF AdmissionInv, AdmissionTypeOK, LeaseInv, Home
<1>1. CASE Exit(w)
  BY <1>1 DEF Exit, Errors
<1>2. CASE Kill(w)
  BY <1>2 DEF Kill, Errors
<1>3. CASE FinishJob(w)
  <2>1. job[w] \in EngineCalls /\ lease = w /\ work[job[w]] = "running"
    BY <1>3 DEF FinishJob
  <2> QED
    BY <1>3, <2>1 DEF FinishJob, Answered, Freed, Errors
<1>4. CASE Reap(w)
  <2>1. job[w] \in EngineCalls /\ lease = w /\ work[job[w]] = "running"
    BY <1>4 DEF Reap
  <2> QED
    BY <1>4, <2>1 DEF Reap, Answered, Freed, Errors
<1> QED
  BY <1>1, <1>2, <1>3, <1>4 DEF Serve

\* A container that dies frees what its worker held and nothing else.
LEMMA ContainerStep ==
    ASSUME AdmissionInv, NEW w \in Workers, Crash(w) \/ RestartWorker(w)
    PROVE  AdmissionInv'
<1> USE PlacedAssumption DEF AdmissionInv, AdmissionTypeOK, LeaseInv, Home
<1>1. CASE Crash(w)
  BY <1>1 DEF Crash, Alive, Outcomes, Errors
<1>2. CASE RestartWorker(w)
  BY <1>2 DEF RestartWorker, Errors
<1> QED
  BY <1>1, <1>2

LEMMA AdmissionStep ==
    ASSUME AdmissionInv, [AdmissionNext]_admissionVars PROVE AdmissionInv'
<1>1. CASE UNCHANGED admissionVars
  BY <1>1 DEF admissionVars, AdmissionInv, AdmissionTypeOK, LeaseInv, Home
<1>2. CASE AdmissionNext
  BY <1>2, ServerStep, WorkerTakes, WorkerServes, ContainerStep DEF AdmissionNext, Handle
<1> QED
  BY <1>1, <1>2

LEMMA AdmissionInvariant == AdmissionSpec => []AdmissionInv
<1>1. AdmissionInit => AdmissionInv
  BY AdmissionStart
<1>2. AdmissionInv /\ [AdmissionNext]_admissionVars => AdmissionInv'
  BY AdmissionStep
<1> QED
  BY <1>1, <1>2, PTL DEF AdmissionSpec

-------------------------------------------------------------------------------
\* At most one combat process runs over all workers whose containers are up, it
\* belongs to the holder of the lease, and whoever holds the lease has a request
\* that runs: through timeouts, kills, crashes and abandoned calls
\* (engine_worker.PrivateEngine.calculate, compute_lease).
THEOREM CalculationsExclude == AdmissionSpec => []OneCalculation
<1>1. AdmissionInv => OneCalculation
  BY PlacedAssumption DEF AdmissionInv, AdmissionTypeOK, LeaseInv, OneCalculation, Alive
<1> QED
  BY <1>1, AdmissionInvariant, PTL

-------------------------------------------------------------------------------
(* The inspector's cache *)

LEMMA SameLists ==
    /\ \A base, amounts : Inspector!Total(base, amounts) = Total(base, amounts)
    /\ \A list, some : Inspector!Picked(list, some) = Picked(list, some)
    /\ \A entries : Inspector!Bytes(entries) = Total(0, [i \in DOMAIN entries |-> entries[i].size])
<1>1. \A base, amounts : Inspector!Total(base, amounts) = Total(base, amounts)
  BY DEF Inspector!Total, Total
<1>2. \A len, some : Inspector!Places(len, some) = Places(len, some)
  BY DEF Inspector!Places, Places
<1> QED
  BY <1>1, <1>2 DEF Inspector!Picked, Picked, Inspector!Bytes

Entries == [key : Documents, deadline : Nat, size : Nat]
SizesOf(entries) == [i \in DOMAIN entries |-> entries[i].size]

LEMMA EntryBytes ==
    ASSUME NEW entries \in Seq(Entries)
    PROVE  /\ SizesOf(entries) \in Seq(Nat) /\ SizesOf(entries) \in Seq(Int)
           /\ Inspector!Bytes(entries) = Total(0, SizesOf(entries))
           /\ Inspector!Bytes(entries) \in Nat
<1>1. /\ DOMAIN entries = 1 .. Len(entries) /\ Len(entries) \in Nat
      /\ \A i \in DOMAIN entries : entries[i] \in Entries /\ entries[i].size \in Nat
  <2>1. \A e \in Entries : e.size \in Nat
    BY DEF Entries
  <2> HIDE DEF Entries
  <2>2. \A i \in DOMAIN entries : entries[i] \in Entries
    OBVIOUS
  <2> QED
    BY <2>1, <2>2
<1>2. SizesOf(entries) \in [1 .. Len(entries) -> Nat]
  BY <1>1 DEF SizesOf
<1>3. SizesOf(entries) \in Seq(Nat) /\ SizesOf(entries) \in Seq(Int)
  BY <1>1, <1>2
<1>4. Inspector!Bytes(entries) = Total(0, SizesOf(entries))
  BY SameLists DEF SizesOf
<1>5. Total(0, SizesOf(entries)) \in Nat
  BY <1>3, TotalNat
<1> QED
  BY <1>3, <1>4, <1>5

\* What is kept and what goes has the bytes there were.
LEMMA BytesSplit ==
    ASSUME NEW entries \in Seq(Entries), NEW some, NEW rest,
           \A n \in DOMAIN entries : n \in rest <=> n \notin some
    PROVE  Inspector!Bytes(entries) =
             Inspector!Bytes(Picked(entries, some)) + Inspector!Bytes(Picked(entries, rest))
<1> DEFINE sizes == SizesOf(entries)
<1>1. sizes \in Seq(Int) /\ Len(sizes) = Len(entries) /\ DOMAIN entries = 1 .. Len(entries)
  <2>1. DOMAIN sizes = DOMAIN entries
    BY DEF SizesOf
  <2> QED
    BY <2>1, EntryBytes
<1>2. ASSUME NEW of
      PROVE  /\ Inspector!Bytes(Picked(entries, of)) = Total(0, Picked(sizes, of))
  <2> DEFINE places == Places(Len(entries), of)
  <2>1. /\ Picked(entries, of) \in Seq(Entries) /\ DOMAIN Picked(entries, of) = DOMAIN places
        /\ \A i \in DOMAIN places :
             places[i] \in DOMAIN entries /\ Picked(entries, of)[i] = entries[places[i]]
    BY PickedEntries
  <2>2. Inspector!Bytes(Picked(entries, of)) = Total(0, SizesOf(Picked(entries, of)))
    BY <2>1, EntryBytes
  <2>3. Picked(sizes, of) = [i \in DOMAIN places |-> sizes[places[i]]]
    BY <1>1 DEF Picked
  <2>4. SizesOf(Picked(entries, of)) = [i \in DOMAIN places |-> Picked(entries, of)[i].size]
    BY <2>1 DEF SizesOf
  <2>5. \A i \in DOMAIN places : sizes[places[i]] = Picked(entries, of)[i].size
    BY <2>1 DEF SizesOf
  <2> HIDE DEF places, sizes
  <2>6. SizesOf(Picked(entries, of)) = Picked(sizes, of)
    BY <2>3, <2>4, <2>5
  <2> QED
    BY <2>2, <2>6
<1>3. Inspector!Bytes(entries) = Total(0, sizes)
  BY EntryBytes
<1>4. \A n \in 1 .. Len(sizes) : n \in rest <=> n \notin some
  BY <1>1
<1> HIDE DEF sizes
<1>5. Total(0, sizes) = Total(0, Picked(sizes, some)) + Total(0, Picked(sizes, rest))
  BY <1>1, <1>4, TotalSplit
<1> QED
  BY <1>2, <1>3, <1>5

LEMMA BytesAppend ==
    ASSUME NEW entries \in Seq(Entries), NEW e \in Entries
    PROVE  Inspector!Bytes(Append(entries, e)) = Inspector!Bytes(entries) + e.size
<1> DEFINE longer == Append(entries, e)
           sizes == SizesOf(entries)
           n == Len(entries)
<1>1. /\ longer \in Seq(Entries) /\ DOMAIN longer = 1 .. n + 1 /\ DOMAIN entries = 1 .. n
      /\ n \in Nat /\ longer[n + 1] = e /\ \A i \in 1 .. n : longer[i] = entries[i]
  OBVIOUS
<1>2. e.size \in Int
  BY DEF Entries
<1>3. sizes \in Seq(Int) /\ DOMAIN sizes = 1 .. n /\ Len(sizes) = n
  <2>1. DOMAIN sizes = 1 .. n
    BY <1>1 DEF SizesOf
  <2> QED
    BY <1>1, <2>1, EntryBytes
<1> HIDE DEF longer, n
<1>4. SizesOf(longer) = Append(sizes, e.size)
  <2>1. SizesOf(longer) = [i \in 1 .. n + 1 |-> longer[i].size]
    BY <1>1 DEF SizesOf
  <2>2. Append(sizes, e.size) = [i \in 1 .. n + 1 |-> IF i = n + 1 THEN e.size ELSE sizes[i]]
    BY <1>3
  <2>3. \A i \in 1 .. n + 1 : longer[i].size = IF i = n + 1 THEN e.size ELSE sizes[i]
    BY <1>1 DEF SizesOf
  <2> HIDE DEF sizes
  <2> QED
    BY <2>1, <2>2, <2>3
<1> HIDE DEF sizes
<1>5. Total(0, Append(sizes, e.size)) = Total(0, sizes) + e.size
  BY <1>2, <1>3, TotalAppend
<1>6. /\ Inspector!Bytes(longer) = Total(0, SizesOf(longer))
      /\ Inspector!Bytes(entries) = Total(0, sizes)
  BY <1>1, EntryBytes DEF sizes
<1> QED
  BY <1>4, <1>5, <1>6 DEF longer

LEMMA NoBytes == Inspector!Bytes(<< >>) = 0
<1>1. Inspector!Bytes(<< >>) = Total(0, [i \in DOMAIN << >> |-> << >>[i].size])
  BY SameLists
<1>2. [i \in DOMAIN << >> |-> << >>[i].size] = << >>
  OBVIOUS
<1>3. Total(0, << >>) = 0
  BY TotalEmpty
<1> QED
  BY <1>1, <1>2, <1>3

LEMMA OneEntryBytes ==
    ASSUME NEW e \in Entries
    PROVE  Inspector!Bytes(<<e>>) = e.size
<1>1. << >> \in Seq(Entries) /\ Append(<< >>, e) = <<e>>
  OBVIOUS
<1>2. Inspector!Bytes(Append(<< >>, e)) = Inspector!Bytes(<< >>) + e.size
  BY <1>1, BytesAppend
<1>3. e.size \in Nat
  BY DEF Entries
<1> QED
  BY <1>1, <1>2, <1>3, NoBytes

\* Entries in the cache: of their type, one for a key, and none beyond its time.
Tidy(entries, now) ==
    /\ entries \in Seq(Inspector!Entry)
    /\ \A i, j \in DOMAIN entries : entries[i].key = entries[j].key => i = j
    /\ \A i \in DOMAIN entries : entries[i].deadline <= now + CACHE_TTL

\* What is kept stays tidy and in its order.
LEMMA PickedTidy ==
    ASSUME NEW entries, NEW now, Tidy(entries, now), NEW some,
           NEW places, places = Places(Len(entries), some), NEW short, short = Picked(entries, some)
    PROVE  /\ Tidy(short, now) /\ DOMAIN short = DOMAIN places
           /\ \A i \in DOMAIN short :
                places[i] \in some \cap DOMAIN entries /\ short[i] = entries[places[i]]
           /\ \A n \in DOMAIN entries : n \in some => \E i \in DOMAIN short : short[i] = entries[n]
<1>1. entries \in Seq(Inspector!Entry) /\ DOMAIN entries = 1 .. Len(entries)
  BY DEF Tidy
<1>2. /\ InOrder(places, some, Len(entries)) /\ short \in Seq(Inspector!Entry)
      /\ DOMAIN short = DOMAIN places
      /\ \A i \in DOMAIN short : places[i] \in DOMAIN entries /\ short[i] = entries[places[i]]
  BY <1>1, PickedEntries
<1>3. /\ \A i \in DOMAIN short : places[i] \in some /\ places[i] \in Nat
      /\ \A i, j \in DOMAIN short : i < j => places[i] < places[j]
      /\ \A n \in DOMAIN entries : n \in some => \E i \in DOMAIN short : places[i] = n
  BY <1>1, <1>2 DEF InOrder
<1>4. ASSUME NEW i \in DOMAIN short, NEW j \in DOMAIN short, short[i].key = short[j].key PROVE i = j
  <2>1. places[i] = places[j]
    BY <1>2, <1>4 DEF Tidy
  <2>2. i \in Nat /\ j \in Nat
    BY <1>2
  <2> QED
    BY <1>3, <2>1, <2>2
<1>5. \A i \in DOMAIN short : short[i].deadline <= now + CACHE_TTL
  BY <1>2 DEF Tidy
<1>6. Tidy(short, now)
  BY <1>2, <1>4, <1>5 DEF Tidy
<1> QED
  BY <1>2, <1>3, <1>6

LEMMA AppendTidy ==
    ASSUME NEW entries, NEW now, Tidy(entries, now), NEW e \in Inspector!Entry,
           e.deadline <= now + CACHE_TTL, \A i \in DOMAIN entries : entries[i].key # e.key
    PROVE  Tidy(Append(entries, e), now)
<1> DEFINE longer == Append(entries, e)
           n == Len(entries)
<1>1. entries \in Seq(Inspector!Entry)
  BY DEF Tidy
<1>2. /\ longer \in Seq(Inspector!Entry) /\ DOMAIN longer = 1 .. n + 1 /\ DOMAIN entries = 1 .. n
      /\ n \in Nat /\ longer[n + 1] = e /\ \A i \in 1 .. n : longer[i] = entries[i]
  BY <1>1
<1> HIDE DEF longer, n
<1>3. ASSUME NEW i \in 1 .. n + 1, NEW j \in 1 .. n + 1, longer[i].key = longer[j].key PROVE i = j
  <2>1. CASE i \in 1 .. n /\ j \in 1 .. n
    <3>1. entries[i].key = entries[j].key
      BY <1>2, <1>3, <2>1
    <3> QED
      BY <1>2, <2>1, <3>1 DEF Tidy
  <2>2. CASE i \notin 1 .. n \/ j \notin 1 .. n
    BY <1>2, <1>3, <2>2
  <2> QED
    BY <2>1, <2>2
<1>4. ASSUME NEW i \in 1 .. n + 1 PROVE longer[i].deadline <= now + CACHE_TTL
  <2>1. CASE i \in 1 .. n
    BY <1>2, <2>1 DEF Tidy
  <2>2. CASE i = n + 1
    BY <1>2, <2>2
  <2> QED
    BY <1>2, <2>1, <2>2
<1>5. Tidy(longer, now)
  BY <1>2, <1>3, <1>4 DEF Tidy
<1> QED
  BY <1>5 DEF longer

LEMMA EntryFields ==
    ASSUME NEW e \in Inspector!Entry
    PROVE  /\ e.key \in Documents /\ e.size \in ResultSizes /\ e.size \in Nat
           /\ e.deadline \in 0 .. (MaxTime + CACHE_TTL) /\ e.deadline \in Nat
           /\ e \in Entries /\ e = [key |-> e.key, deadline |-> e.deadline, size |-> e.size]
<1>1. e \in [key : Documents, deadline : 0 .. (MaxTime + CACHE_TTL), size : ResultSizes]
  BY DEF Inspector!Entry
<1>2. /\ e.key \in Documents /\ e.size \in ResultSizes /\ e.deadline \in 0 .. (MaxTime + CACHE_TTL)
      /\ e = [key |-> e.key, deadline |-> e.deadline, size |-> e.size]
  BY <1>1
<1>3. e.size \in Nat /\ e.deadline \in Nat
  BY <1>2, InspectorAssumption
<1> QED
  BY <1>2, <1>3 DEF Entries

LEMMA EntrySeq ==
    ASSUME NEW entries \in Seq(Inspector!Entry)
    PROVE  entries \in Seq(Entries)
BY EntryFields

-------------------------------------------------------------------------------
(* The inductive invariant of the inspector *)

\* The key of a listing under way is not in the cache: a miss has purged it, and
\* only the listing itself will bring it back.
InspectorInv ==
    /\ Inspector!StaticTypeOK /\ Inspector!CacheAccounted /\ Inspector!ProcessUnderLock
    /\ running # Inspector!NoKey => Inspector!Find(running) = {}

LEMMA InspectorTidy ==
    ASSUME InspectorInv
    PROVE  /\ Tidy(cache, monotonic) /\ cache \in Seq(Entries)
           /\ cache_bytes = Inspector!Bytes(cache) /\ cache_bytes \in Nat /\ cache_bytes <= CACHE_BYTES
           /\ monotonic \in 0 .. MaxTime /\ CACHE_BYTES \in Nat /\ CACHE_TTL \in Nat
           /\ DOMAIN cache = 1 .. Len(cache) /\ Len(cache) \in Nat
<1>1. cache \in Seq(Inspector!Entry) /\ cache_bytes \in Nat /\ monotonic \in 0 .. MaxTime
  BY DEF InspectorInv, Inspector!StaticTypeOK
<1>2. Tidy(cache, monotonic) /\ cache_bytes = Inspector!Bytes(cache) /\ cache_bytes <= CACHE_BYTES
  BY <1>1 DEF InspectorInv, Inspector!CacheAccounted, Tidy
<1> QED
  BY <1>1, <1>2, EntrySeq, InspectorAssumption

\* A step that leaves a tidy cache with its bytes, and the rest of its type.
LEMMA InspectorKept ==
    ASSUME Tidy(cache', monotonic'), cache_bytes' = Inspector!Bytes(cache'), cache_bytes' <= CACHE_BYTES,
           running' \in Documents \cup {Inspector!NoKey}, process' \in {"none", "live", "killed"},
           monotonic' \in 0 .. MaxTime,
           replied' \in [key : Documents \cup {Inspector!NoKey}, code : Inspector!Codes \cup {"none"}],
           (process' # "none") <=> (running' # Inspector!NoKey),
           running' # Inspector!NoKey => \A i \in DOMAIN cache' : cache'[i].key # running'
    PROVE  InspectorInv'
<1>1. cache' \in Seq(Inspector!Entry)
  BY DEF Tidy
<1>2. cache_bytes' \in Nat
  BY <1>1, EntrySeq, EntryBytes
<1>3. Inspector!StaticTypeOK'
  BY <1>1, <1>2 DEF Inspector!StaticTypeOK, Inspector!Entry
<1>4. Inspector!CacheAccounted'
  <2>1. Inspector!Bytes(cache)' = Inspector!Bytes(cache')
    BY DEF Inspector!Bytes, Inspector!Total
  <2> QED
    BY <2>1 DEF Inspector!CacheAccounted, Tidy
<1>5. Inspector!ProcessUnderLock'
  BY DEF Inspector!ProcessUnderLock
<1>6. (running # Inspector!NoKey => Inspector!Find(running) = {})'
  BY DEF Inspector!Find, Inspector!NoKey
<1> QED
  BY <1>3, <1>4, <1>5, <1>6 DEF InspectorInv

LEMMA InspectorInit == ASSUME Inspector!Init PROVE InspectorInv
<1>1. /\ cache = << >> /\ cache_bytes = 0 /\ running = Inspector!NoKey /\ process = "none"
      /\ monotonic = 0 /\ replied = [key |-> Inspector!NoKey, code |-> "none"]
  BY DEF Inspector!Init
<1>2. /\ cache \in Seq(Inspector!Entry) /\ cache \in Seq(Entries) /\ DOMAIN cache = {}
  BY <1>1
<1>3. Inspector!Bytes(cache) = 0
  BY <1>1, NoBytes
<1>4. Inspector!StaticTypeOK
  BY <1>1, <1>2, InspectorAssumption DEF Inspector!StaticTypeOK, Inspector!Codes
<1>5. Inspector!CacheAccounted
  BY <1>1, <1>2, <1>3, InspectorAssumption DEF Inspector!CacheAccounted
<1>6. Inspector!ProcessUnderLock /\ (running # Inspector!NoKey => Inspector!Find(running) = {})
  BY <1>1 DEF Inspector!ProcessUnderLock
<1> QED
  BY <1>4, <1>5, <1>6 DEF InspectorInv

\* A hit moves an entry to the end.
LEMMA HitMoves ==
    ASSUME InspectorInv, NEW i \in DOMAIN cache
    PROVE  LET moved == Append(Picked(cache, DOMAIN cache \ {i}), cache[i])
           IN  /\ Tidy(moved, monotonic) /\ Inspector!Bytes(moved) = cache_bytes
               /\ \A n \in DOMAIN cache : \E m \in DOMAIN moved : moved[m] = cache[n]
               /\ \A m \in DOMAIN moved : \E n \in DOMAIN cache : moved[m] = cache[n]
<1> DEFINE kept == Picked(cache, DOMAIN cache \ {i})
           moved == Append(kept, cache[i])
           n == Len(kept)
<1>1. /\ Tidy(cache, monotonic) /\ cache \in Seq(Entries) /\ cache_bytes = Inspector!Bytes(cache)
  BY InspectorTidy
<1>2. cache[i] \in Inspector!Entry /\ cache[i] \in Entries /\ cache[i].deadline <= monotonic + CACHE_TTL
  BY <1>1, EntryFields DEF Tidy
<1>3. /\ Tidy(kept, monotonic)
      /\ \A m \in DOMAIN kept : \E k \in DOMAIN cache \ {i} : kept[m] = cache[k]
      /\ \A k \in DOMAIN cache : k # i => \E m \in DOMAIN kept : kept[m] = cache[k]
  <2> DEFINE others == DOMAIN cache \ {i}
             places == Places(Len(cache), others)
  <2>1. places = Places(Len(cache), others) /\ kept = Picked(cache, others)
    OBVIOUS
  <2> HIDE DEF kept, places, others
  <2>2. /\ Tidy(kept, monotonic) /\ DOMAIN kept = DOMAIN places
        /\ \A m \in DOMAIN kept :
             places[m] \in others \cap DOMAIN cache /\ kept[m] = cache[places[m]]
        /\ \A k \in DOMAIN cache : k \in others => \E m \in DOMAIN kept : kept[m] = cache[k]
    BY <1>1, <2>1, PickedTidy
  <2> QED
    BY <2>2 DEF others
<1>4. \A m \in DOMAIN kept : kept[m].key # cache[i].key
  BY <1>1, <1>3 DEF Tidy
<1>5. kept \in Seq(Inspector!Entry) /\ kept \in Seq(Entries)
  <2>1. kept \in Seq(Inspector!Entry)
    BY <1>3 DEF Tidy
  <2> QED
    BY <2>1, EntrySeq
<1> HIDE DEF kept
<1>6. Tidy(moved, monotonic)
  BY <1>2, <1>3, <1>4, AppendTidy
<1>7. Inspector!Bytes(moved) = Inspector!Bytes(kept) + cache[i].size
  BY <1>2, <1>5, BytesAppend
<1>8. Inspector!Bytes(cache) = Inspector!Bytes(kept) + cache[i].size
  <2>1. Picked(cache, {i}) = <<cache[i]>>
    BY <1>1, PickedOne
  <2>2. Inspector!Bytes(<<cache[i]>>) = cache[i].size
    BY <1>2, OneEntryBytes
  <2>3. \A k \in DOMAIN cache : k \in {i} <=> k \notin DOMAIN cache \ {i}
    OBVIOUS
  <2>4. Inspector!Bytes(cache) = Inspector!Bytes(kept) + Inspector!Bytes(Picked(cache, {i}))
    BY <1>1, <2>3, BytesSplit DEF kept
  <2> QED
    BY <2>1, <2>2, <2>4
<1>9. /\ DOMAIN kept = 1 .. n /\ n \in Nat /\ DOMAIN moved = 1 .. n + 1
      /\ moved[n + 1] = cache[i] /\ \A m \in 1 .. n : moved[m] = kept[m]
  BY <1>5
<1>10. \A k \in DOMAIN cache : \E m \in DOMAIN moved : moved[m] = cache[k]
  BY <1>3, <1>9
<1>11. \A m \in DOMAIN moved : \E k \in DOMAIN cache : moved[m] = cache[k]
  <2>1. \A m \in 1 .. n : \E k \in DOMAIN cache : kept[m] = cache[k]
    BY <1>3, <1>9
  <2> QED
    BY <1>9, <2>1
<1> QED
  BY <1>1, <1>6, <1>7, <1>8, <1>10, <1>11 DEF kept

LEMMA PurgeTidy ==
    ASSUME InspectorInv, Inspector!Purged
    PROVE  /\ Tidy(cache', monotonic) /\ cache_bytes' = Inspector!Bytes(cache') /\ cache_bytes' <= CACHE_BYTES
           /\ \A i \in DOMAIN cache' : cache'[i].deadline > monotonic
                                         /\ \E j \in DOMAIN cache : cache'[i] = cache[j]
           /\ \A j \in DOMAIN cache : cache[j].deadline > monotonic =>
                                         \E i \in DOMAIN cache' : cache'[i] = cache[j]
<1> DEFINE alive == Inspector!Alive
           places == Places(Len(cache), alive)
<1>1. /\ Tidy(cache, monotonic) /\ cache \in Seq(Entries)
      /\ cache_bytes = Inspector!Bytes(cache) /\ cache_bytes \in Nat /\ cache_bytes <= CACHE_BYTES
      /\ CACHE_BYTES \in Nat
  BY InspectorTidy
<1>2. \A j : j \in alive <=> j \in DOMAIN cache /\ cache[j].deadline > monotonic
  BY DEF Inspector!Alive, Inspector!Live
<1>3. /\ cache' = Picked(cache, alive)
      /\ cache_bytes' = cache_bytes - Inspector!Bytes(Picked(cache, DOMAIN cache \ alive))
  BY SameLists DEF Inspector!Purged
<1> HIDE DEF alive
<1>4. /\ Tidy(cache', monotonic) /\ DOMAIN cache' = DOMAIN places
      /\ \A i \in DOMAIN cache' : places[i] \in alive \cap DOMAIN cache /\ cache'[i] = cache[places[i]]
      /\ \A j \in DOMAIN cache : j \in alive => \E i \in DOMAIN cache' : cache'[i] = cache[j]
  BY <1>1, <1>3, PickedTidy
<1> HIDE DEF places
<1>5. \A i \in DOMAIN cache' : cache'[i].deadline > monotonic /\ \E j \in DOMAIN cache : cache'[i] = cache[j]
  BY <1>2, <1>4
<1>6. \A j \in DOMAIN cache : cache[j].deadline > monotonic => \E i \in DOMAIN cache' : cache'[i] = cache[j]
  BY <1>2, <1>4
<1>7. cache_bytes' = Inspector!Bytes(cache') /\ cache_bytes' <= CACHE_BYTES
  <2> DEFINE rest == Picked(cache, DOMAIN cache \ alive)
  <2>1. \A n \in DOMAIN cache : n \in DOMAIN cache \ alive <=> n \notin alive
    OBVIOUS
  <2>2. Inspector!Bytes(cache) = Inspector!Bytes(Picked(cache, alive)) + Inspector!Bytes(rest)
    BY <1>1, <2>1, BytesSplit
  <2>3. rest \in Seq(Entries)
    BY <1>1, PickedEntries
  <2>4. Inspector!Bytes(rest) \in Nat
    BY <2>3, EntryBytes
  <2>5. cache' \in Seq(Entries)
    BY <1>4, EntrySeq DEF Tidy
  <2>6. Inspector!Bytes(cache') \in Nat
    BY <2>5, EntryBytes
  <2> QED
    BY <1>1, <1>3, <2>2, <2>4, <2>6
<1> QED
  BY <1>4, <1>5, <1>6, <1>7

\* A new result drops the oldest entries until it fits, and is put last.
LEMMA StoreTidy ==
    ASSUME InspectorInv, NEW key \in Documents, NEW size \in ResultSizes, Inspector!Stored(key, size),
           \A i \in DOMAIN cache : cache[i].key # key
    PROVE  /\ Tidy(cache', monotonic) /\ cache_bytes' = Inspector!Bytes(cache') /\ cache_bytes' <= CACHE_BYTES
           /\ \A i, j \in DOMAIN cache :
                /\ \A k \in DOMAIN cache' : cache'[k] # cache[i]
                /\ \E k \in DOMAIN cache' : cache'[k] = cache[j]
                => i < j
<1>1. /\ Tidy(cache, monotonic) /\ cache \in Seq(Entries) /\ cache_bytes = Inspector!Bytes(cache)
      /\ cache_bytes \in Nat /\ cache_bytes <= CACHE_BYTES /\ CACHE_BYTES \in Nat /\ CACHE_TTL \in Nat
      /\ monotonic \in 0 .. MaxTime /\ DOMAIN cache = 1 .. Len(cache) /\ Len(cache) \in Nat
  BY InspectorTidy
<1>2. size \in Nat /\ MaxTime \in Nat
  BY InspectorAssumption
<1>3. CASE size > CACHE_BYTES
  <2>1. cache' = cache /\ cache_bytes' = cache_bytes
    BY <1>3 DEF Inspector!Stored
  <2> QED
    BY <1>1, <2>1
<1>4. CASE ~ (size > CACHE_BYTES)
  <2> DEFINE room == Inspector!Room(size)
             evicted == Inspector!Min(room)
             len == Len(cache)
             newest == Picked(cache, evicted + 1 .. len)
             oldest == Picked(cache, 1 .. evicted)
             e == [key |-> key, deadline |-> monotonic + CACHE_TTL, size |-> size]
             places == Places(len, evicted + 1 .. len)
  <2>1. /\ cache' = Append(newest, e)
        /\ cache_bytes' = cache_bytes - Inspector!Bytes(oldest) + size
    BY <1>4, SameLists DEF Inspector!Stored, Inspector!Newest
  <2>2. \A n : n \in room <=>
          n \in 0 .. len /\ Inspector!Bytes(Picked(cache, n + 1 .. len)) + size <= CACHE_BYTES
    BY SameLists DEF Inspector!Room, Inspector!Newest
  <2>3. len \in room
    <3>1. Places(len, len + 1 .. len) = << >>
      <4> DEFINE none == Places(len, len + 1 .. len)
      <4>1. InOrder(none, len + 1 .. len, len)
        BY <1>1, PlacesInOrder
      <4> HIDE DEF none
      <4>2. none \in Seq(Nat) /\ \A i \in DOMAIN none : FALSE
        BY <1>1, <4>1 DEF InOrder
      <4>3. Len(none) = 0
        <5>1. Len(none) \in Nat /\ (Len(none) # 0 => 1 \in DOMAIN none)
          BY <4>2
        <5> QED
          BY <4>2, <5>1
      <4>4. none = << >>
        BY <4>2, <4>3
      <4> QED
        BY <4>4 DEF none
    <3>2. Picked(cache, len + 1 .. len) = << >>
      BY <3>1 DEF Picked
    <3> QED
      BY <1>1, <1>2, <1>4, <2>2, <3>2, NoBytes
  <2>4. evicted \in room /\ evicted \in 0 .. len
    <3>1. room \in SUBSET Nat /\ room # {}
      BY <1>1, <2>2, <2>3
    <3>2. \E m \in room : \A k \in room : m <= k
      BY <3>1, LeastNatural
    <3> QED
      BY <2>2, <3>2 DEF Inspector!Min
  <2> HIDE DEF room, evicted, len
  <2>5. e \in Inspector!Entry /\ e.key = key /\ e.size = size /\ e.deadline = monotonic + CACHE_TTL
    BY <1>1, <1>2, <2>2 DEF Inspector!Entry
  <2> DEFINE left == evicted + 1 .. len
  <2>parts. newest = Picked(cache, left) /\ places = Places(len, left)
    OBVIOUS
  <2> HIDE DEF newest, places, left
  <2>6. /\ Tidy(newest, monotonic) /\ DOMAIN newest = DOMAIN places
        /\ \A i \in DOMAIN newest :
             places[i] \in left \cap DOMAIN cache /\ newest[i] = cache[places[i]]
        /\ \A n \in DOMAIN cache : n \in left => \E i \in DOMAIN newest : newest[i] = cache[n]
    BY <1>1, <2>parts, PickedTidy DEF len
  <2>7. newest \in Seq(Entries) /\ oldest \in Seq(Entries) /\ e \in Entries
    <3>1. oldest \in Seq(Entries)
      BY <1>1, PickedEntries
    <3>2. newest \in Seq(Entries)
      BY <1>1, PickedEntries DEF newest
    <3> QED
      BY <2>5, <3>1, <3>2, EntryFields
  <2>8. Inspector!Bytes(cache) = Inspector!Bytes(oldest) + Inspector!Bytes(newest)
    <3>1. \A n \in DOMAIN cache : n \in evicted + 1 .. len <=> n \notin 1 .. evicted
      BY <1>1, <2>4 DEF len
    <3> QED
      BY <1>1, <3>1, BytesSplit DEF newest
  <2>9. Inspector!Bytes(oldest) \in Nat /\ Inspector!Bytes(newest) \in Nat
    <3>1. \A entries \in Seq(Entries) : Inspector!Bytes(entries) \in Nat
      BY EntryBytes
    <3> QED
      BY <2>7, <3>1
  <2>10. Inspector!Bytes(newest) + size <= CACHE_BYTES
    BY <2>2, <2>4 DEF newest
  <2> HIDE DEF oldest, e
  <2>11. \A i \in DOMAIN newest : newest[i].key # e.key
    BY <2>5, <2>6
  <2>12. Tidy(cache', monotonic)
    BY <1>1, <2>1, <2>5, <2>6, <2>11, AppendTidy
  <2>13. Inspector!Bytes(cache') = Inspector!Bytes(newest) + size
    <3>1. cache' = Append(newest, e)
      BY <2>1 DEF newest, e
    <3> QED
      BY <2>5, <2>7, <3>1, BytesAppend
  <2>14. cache_bytes' = Inspector!Bytes(cache') /\ cache_bytes' <= CACHE_BYTES
    BY <1>1, <1>2, <2>1, <2>8, <2>9, <2>10, <2>13
  <2>15. ASSUME NEW i \in DOMAIN cache, NEW j \in DOMAIN cache,
                \A k \in DOMAIN cache' : cache'[k] # cache[i],
                NEW k \in DOMAIN cache', cache'[k] = cache[j]
         PROVE  i < j
    <3> DEFINE m == Len(newest)
    <3>1. /\ m \in Nat /\ DOMAIN newest = 1 .. m /\ DOMAIN cache' = 1 .. m + 1
          /\ cache'[m + 1] = e /\ \A n \in 1 .. m : cache'[n] = newest[n]
      BY <2>1, <2>7
    <3>2. k \in 1 .. m
      <4>1. cache[j].key # e.key
        BY <2>5
      <4> QED
        BY <2>15, <3>1, <4>1
    <3>3. cache[places[k]].key = cache[j].key /\ places[k] \in DOMAIN cache /\ places[k] \in left
      BY <2>6, <2>15, <3>1, <3>2
    <3>4. j \in left
      BY <1>1, <3>3 DEF Tidy
    <3>5. i \notin left
      <4>1. ASSUME i \in left PROVE FALSE
        <5>1. PICK n \in DOMAIN newest : newest[n] = cache[i]
          BY <2>6, <4>1
        <5> QED
          BY <2>15, <3>1, <5>1
      <4> QED
        BY <4>1
    <3>6. i \in 1 .. len /\ j \in 1 .. len /\ len \in Nat
      BY <1>1 DEF len
    <3> QED
      BY <2>4, <3>4, <3>5, <3>6 DEF left
  <2> QED
    BY <2>12, <2>14, <2>15
<1> QED
  BY <1>3, <1>4

-------------------------------------------------------------------------------
(* Every step of the inspector *)

\* The values a step need not name to have its type.
LEMMA InspectorFields ==
    ASSUME InspectorInv
    PROVE  /\ running \in Documents \cup {Inspector!NoKey} /\ process \in {"none", "live", "killed"}
           /\ replied \in [key : Documents \cup {Inspector!NoKey}, code : Inspector!Codes \cup {"none"}]
           /\ (process # "none") <=> (running # Inspector!NoKey)
           /\ running # Inspector!NoKey => \A i \in DOMAIN cache : cache[i].key # running
           /\ running \in Documents => running # Inspector!NoKey
BY InspectorAssumption
DEF InspectorInv, Inspector!StaticTypeOK, Inspector!ProcessUnderLock, Inspector!Find

LEMMA NothingGone == ASSUME cache' = cache PROVE Inspector!EvictsOldest
BY DEF Inspector!EvictsOldest

LEMMA HitStep ==
    ASSUME InspectorInv, NEW key \in Documents, Inspector!Hit(key)
    PROVE  InspectorInv' /\ Inspector!EvictsOldest
<1>1. PICK i \in Inspector!Fresh(key) : cache' = Append(Picked(cache, DOMAIN cache \ {i}), cache[i])
  BY SameLists DEF Inspector!Hit
<1>2. /\ replied' = [key |-> key, code |-> "hit"]
      /\ UNCHANGED <<cache_bytes, running, process, monotonic>>
  BY DEF Inspector!Hit, Inspector!Reply
<1>3. i \in DOMAIN cache
  BY DEF Inspector!Fresh, Inspector!Find
<1>4. /\ Tidy(cache', monotonic) /\ Inspector!Bytes(cache') = cache_bytes
      /\ \A n \in DOMAIN cache : \E m \in DOMAIN cache' : cache'[m] = cache[n]
      /\ \A m \in DOMAIN cache' : \E n \in DOMAIN cache : cache'[m] = cache[n]
  BY <1>1, <1>3, HitMoves
<1>5. Inspector!EvictsOldest
  BY <1>4 DEF Inspector!EvictsOldest
<1>6. replied' \in [key : Documents \cup {Inspector!NoKey}, code : Inspector!Codes \cup {"none"}]
  BY <1>2 DEF Inspector!Codes
<1>7. InspectorInv'
  BY <1>2, <1>4, <1>6, InspectorTidy, InspectorFields, InspectorKept
<1> QED
  BY <1>5, <1>7

\* Whoever takes the lock finds no live entry of its key, and purges the others.
LEMMA MissStep ==
    ASSUME InspectorInv, NEW key \in Documents, Inspector!Miss(key)
    PROVE  InspectorInv' /\ Inspector!EvictsOldest
<1>1. /\ Inspector!Purged /\ monotonic' = monotonic /\ running = Inspector!NoKey
      /\ \/ running' = key /\ process' = "live" /\ replied' = replied
         \/ /\ replied' = [key |-> key, code |-> "engine_invalid_build"]
            /\ running' = running /\ process' = process
  BY DEF Inspector!Miss, Inspector!Reply
<1>2. \A i \in DOMAIN cache : cache[i].deadline > monotonic => cache[i].key # key
  BY DEF Inspector!Miss, Inspector!Fresh, Inspector!Find
<1>3. /\ Tidy(cache', monotonic) /\ cache_bytes' = Inspector!Bytes(cache') /\ cache_bytes' <= CACHE_BYTES
      /\ \A i \in DOMAIN cache' : cache'[i].deadline > monotonic
                                    /\ \E j \in DOMAIN cache : cache'[i] = cache[j]
      /\ \A j \in DOMAIN cache : cache[j].deadline > monotonic =>
                                    \E i \in DOMAIN cache' : cache'[i] = cache[j]
  BY <1>1, PurgeTidy
<1>4. \A i \in DOMAIN cache' : cache'[i].key # key
  BY <1>2, <1>3
<1>5. Inspector!EvictsOldest
  BY <1>3 DEF Inspector!EvictsOldest, Inspector!Live
<1>6. key # Inspector!NoKey
  BY InspectorAssumption
<1>7. replied' \in [key : Documents \cup {Inspector!NoKey}, code : Inspector!Codes \cup {"none"}]
  BY <1>1, InspectorFields DEF Inspector!Codes
<1>8. /\ running' \in Documents \cup {Inspector!NoKey} /\ process' \in {"none", "live", "killed"}
      /\ (process' # "none") <=> (running' # Inspector!NoKey)
      /\ running' # Inspector!NoKey => running' = key
  BY <1>1, <1>6, InspectorFields
<1>9. InspectorInv'
  BY <1>1, <1>3, <1>4, <1>7, <1>8, InspectorTidy, InspectorKept
<1> QED
  BY <1>5, <1>9

LEMMA ListedStep ==
    ASSUME InspectorInv, Inspector!Listed
    PROVE  InspectorInv' /\ Inspector!EvictsOldest
<1>1. PICK size \in ResultSizes : Inspector!Stored(running, size)
  BY DEF Inspector!Listed
<1>2. /\ process = "live" /\ replied' = [key |-> running, code |-> "listed"]
      /\ running' = Inspector!NoKey /\ process' = "none" /\ monotonic' = monotonic
  BY DEF Inspector!Listed, Inspector!Reply, Inspector!Released
<1>3. running \in Documents /\ \A i \in DOMAIN cache : cache[i].key # running
  BY <1>2, InspectorFields
<1>4. /\ Tidy(cache', monotonic) /\ cache_bytes' = Inspector!Bytes(cache') /\ cache_bytes' <= CACHE_BYTES
      /\ \A i, j \in DOMAIN cache :
           /\ \A k \in DOMAIN cache' : cache'[k] # cache[i]
           /\ \E k \in DOMAIN cache' : cache'[k] = cache[j]
           => i < j
  BY <1>1, <1>3, StoreTidy
<1>5. Inspector!EvictsOldest
  BY <1>4 DEF Inspector!EvictsOldest
<1>6. replied' \in [key : Documents \cup {Inspector!NoKey}, code : Inspector!Codes \cup {"none"}]
  BY <1>2, <1>3 DEF Inspector!Codes
<1>7. InspectorInv'
  BY <1>2, <1>4, <1>6, InspectorTidy, InspectorKept
<1> QED
  BY <1>5, <1>7

\* The steps that leave the cache as it is.
LEMMA LockStep ==
    ASSUME InspectorInv,
           \/ \E key \in Documents : Inspector!Busy(key)
           \/ Inspector!Failed \/ Inspector!TimedOut \/ Inspector!Reaped \/ Inspector!Tick
    PROVE  InspectorInv' /\ Inspector!EvictsOldest
<1>1. UNCHANGED <<cache, cache_bytes>>
  BY DEF Inspector!Busy, Inspector!Failed, Inspector!TimedOut, Inspector!Reaped, Inspector!Tick
<1>2. /\ monotonic' \in 0 .. MaxTime /\ monotonic <= monotonic'
  BY InspectorTidy, InspectorAssumption
  DEF Inspector!Busy, Inspector!Failed, Inspector!TimedOut, Inspector!Reaped, Inspector!Tick
<1>3. Tidy(cache', monotonic')
  <2>1. \A i \in DOMAIN cache : cache[i].deadline \in Nat
    BY InspectorTidy, EntryFields DEF Tidy
  <2> QED
    BY <1>1, <1>2, <2>1, InspectorTidy DEF Tidy
<1>4. \/ running' = running /\ process' = process /\ replied' = replied
      \/ running' = running /\ process' = process /\ \E key \in Documents : replied' = [key |-> key, code |-> "engine_busy"]
      \/ running' = running /\ process = "live" /\ process' = "killed" /\ replied' = replied
      \/ /\ process # "none" /\ running' = Inspector!NoKey /\ process' = "none"
         /\ \E code \in Inspector!Codes : replied' = [key |-> running, code |-> code]
  BY DEF Inspector!Busy, Inspector!Failed, Inspector!TimedOut, Inspector!Reaped, Inspector!Tick,
         Inspector!Reply, Inspector!Released, Inspector!Codes
<1>5. replied' \in [key : Documents \cup {Inspector!NoKey}, code : Inspector!Codes \cup {"none"}]
  BY <1>4, InspectorFields DEF Inspector!Codes
<1>6. /\ running' \in Documents \cup {Inspector!NoKey} /\ process' \in {"none", "live", "killed"}
      /\ (process' # "none") <=> (running' # Inspector!NoKey)
      /\ running' # Inspector!NoKey => running' = running
  BY <1>4, InspectorFields
<1>7. /\ cache_bytes' = Inspector!Bytes(cache') /\ cache_bytes' <= CACHE_BYTES
      /\ running' # Inspector!NoKey => \A i \in DOMAIN cache' : cache'[i].key # running'
  BY <1>1, <1>6, InspectorTidy, InspectorFields
<1>8. InspectorInv'
  BY <1>2, <1>3, <1>5, <1>6, <1>7, InspectorKept
<1> QED
  BY <1>1, <1>8, NothingGone

LEMMA InspectorStep ==
    ASSUME InspectorInv, [Inspector!Next]_staticVars
    PROVE  InspectorInv' /\ Inspector!EvictsOldest
<1>1. CASE UNCHANGED staticVars
  <2>1. /\ UNCHANGED <<cache, cache_bytes, running, process, monotonic, replied>>
    BY <1>1 DEF staticVars
  <2>2. Tidy(cache', monotonic')
    BY <2>1, InspectorTidy
  <2>3. InspectorInv'
    BY <2>1, <2>2, InspectorTidy, InspectorFields, InspectorKept
  <2> QED
    BY <2>1, <2>3, NothingGone
<1>2. CASE Inspector!Next
  <2>1. ASSUME NEW key \in Documents, Inspector!Hit(key)
        PROVE  InspectorInv' /\ Inspector!EvictsOldest
    BY <2>1, HitStep
  <2>2. ASSUME NEW key \in Documents, Inspector!Miss(key)
        PROVE  InspectorInv' /\ Inspector!EvictsOldest
    BY <2>2, MissStep
  <2>3. CASE Inspector!Listed
    BY <2>3, ListedStep
  <2> QED
    BY <1>2, <2>1, <2>2, <2>3, LockStep DEF Inspector!Next
<1> QED
  BY <1>1, <1>2

LEMMA InspectorInvariant == Inspector!Spec => []InspectorInv
<1>1. Inspector!Init => InspectorInv
  BY InspectorInit
<1>2. InspectorInv /\ [Inspector!Next]_staticVars => InspectorInv'
  BY InspectorStep
<1>3. Inspector!Spec => Inspector!Init /\ [][Inspector!Next]_staticVars
  BY DEF Inspector!Spec, staticVars, Inspector!staticVars
<1> QED
  BY <1>1, <1>2, <1>3, PTL

\* Whatever hits, purges and evictions came before, in whatever order: the
\* running total of private_inspection's cache is the bytes of what it keeps and
\* within its quota, a key is kept once and not beyond its time to live, and a
\* listing process, until it is reaped, stands under the lock.
THEOREM InspectorIsSound == Inspector!Spec => []InspectorSound
<1>1. InspectorInv => InspectorSound
  BY DEF InspectorInv, InspectorSound
<1> QED
  BY <1>1, InspectorInvariant, PTL

\* Nothing that is still alive leaves the cache before an entry that was used
\* longer ago.
THEOREM OldestGoFirst == Inspector!Spec => EvictsOldest
<1>1. InspectorInv /\ [Inspector!Next]_staticVars => [Inspector!EvictsOldest]_staticVars
  BY InspectorStep
<1>2. Inspector!Spec => [][Inspector!Next]_staticVars
  BY DEF Inspector!Spec, staticVars, Inspector!staticVars
<1>3. [][Inspector!EvictsOldest]_staticVars => EvictsOldest
  BY DEF EvictsOldest, Inspector!InspectorEvictsOldest, staticVars, Inspector!staticVars
<1> QED
  BY <1>1, <1>2, <1>3, InspectorInvariant, PTL

-------------------------------------------------------------------------------
(* The composition *)

\* Side by side, the three parts do not touch each other: what is proved of each
\* holds of what is checked together.
THEOREM CallsStandAlone == CallsSpec => Spec /\ AdmissionSpec /\ Inspector!Spec
<1>1. CallsInit => Init /\ AdmissionInit /\ Inspector!Init
  BY DEF CallsInit
<1>2. [CallsNext]_<<part, vars, admissionVars, staticVars>>
        => [Next]_vars /\ [AdmissionNext]_admissionVars /\ [Inspector!Next]_staticVars
  BY DEF CallsNext
<1>3. Inspector!Init /\ [][Inspector!Next]_staticVars => Inspector!Spec
  BY DEF Inspector!Spec, staticVars, Inspector!staticVars
<1> QED
  BY <1>1, <1>2, <1>3, PTL DEF CallsSpec, Spec, AdmissionSpec

\* Every variable of the trace, of the workers and of the inspector keeps to its
\* type.
THEOREM CallsTypes == CallsSpec => []CallsTypeOK
<1>1. StepInv => TypeOK
  BY DEF StepInv
<1>2. AdmissionInv => AdmissionTypeOK
  BY DEF AdmissionInv
<1>3. Inspector!Spec => []Inspector!StaticTypeOK
  <2>1. InspectorInv => Inspector!StaticTypeOK
    BY DEF InspectorInv
  <2> QED
    BY <2>1, InspectorInvariant, PTL
<1>4. TypeOK /\ AdmissionTypeOK /\ Inspector!StaticTypeOK => CallsTypeOK
  BY DEF CallsTypeOK
<1> QED
  BY <1>1, <1>2, <1>3, <1>4, CallsStandAlone, StepInvariant, AdmissionInvariant, PTL

================================================================================
