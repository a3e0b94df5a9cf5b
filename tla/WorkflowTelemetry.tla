--------------------------- MODULE WorkflowTelemetry ---------------------------
(***************************************************************************)
(* One workflow trace: the document that records the tool calls a member's *)
(* assistant makes towards a goal, and the budget it may spend on them.    *)
(*                                                                         *)
(* A step is one request of the asyncio process.  It reads the document,   *)
(* awaits the tool with its own copy in hand and writes the copy back with *)
(* the call appended.  Others may finish, cancel or delete the trace, and  *)
(* the store may lose it, while the step waits.                            *)
(***************************************************************************)
EXTENDS Integers, Sequences, FiniteSets, Lists

CONSTANTS
    Clients,       \* requests that can be under way at the same time
    StepIds,
    Inputs,        \* digests of a step: the tool and its arguments
    GoalInputs,    \* the inputs whose success is evidence of the goal
    Sizes,         \* bytes of a result
    None,
    MaxCalls,      \* maximum_calls of the trace
    MaxOutput,     \* maximum_output_bytes of the trace
    Reserve,       \* 8192: room a step must leave before it starts
    MaxRevision    \* bounds the corrections of the completion report

ASSUME ConstantsAssumption ==
    /\ {MaxCalls, MaxOutput, Reserve, MaxRevision} \subseteq Nat
    /\ MaxCalls > 0 /\ MaxOutput >= Reserve
    /\ GoalInputs \subseteq Inputs
    /\ Sizes \subseteq 0 .. Reserve    \* a longer result is replaced by an error

VARIABLES
    stored,     \* the document in the artifact store, or None
    used,       \* the trace has been begun (ids are random and never return)
    late,       \* its deadline has passed
    task,       \* [Clients -> the suspended request, or None]
    refused     \* ghost: the store has refused to write a step

vars == <<stored, used, late, task, refused>>

TraceCall == [id : StepIds, input : Inputs, failed : BOOLEAN, size : Sizes]
Trace ==
    [persist : BOOLEAN, revision : Nat, calls : Seq(TraceCall), reported : BOOLEAN \cup {None},
     status : {"active", "finished", "cancelled", "budget_exhausted"}]

\* A suspended step, and a cancellation that waits for the step of a client.
Step   == [op : {"step"}, id : StepIds, input : Inputs, base : Trace, cancelled : BOOLEAN]
Cancel == [op : {"cancel"}, of : Clients, joined : BOOLEAN]

ASSUME NoneAssumption == None \notin Trace \cup Step \cup Cancel \cup BOOLEAN

TypeOK ==
    /\ stored \in Trace \cup {None}
    /\ {used, late, refused} \subseteq BOOLEAN
    /\ task \in [Clients -> Step \cup Cancel \cup {None}]

-----------------------------------------------------------------------------
(* Reading a document *)

Calls(t)      == {t.calls[i] : i \in DOMAIN t.calls}
Output(t)     == Total(0, [i \in DOMAIN t.calls |-> t.calls[i].size])
Failures(t, input) ==
    Cardinality({i \in DOMAIN t.calls : t.calls[i].input = input /\ t.calls[i].failed})
Succeeded(t, input) == \E call \in Calls(t) : call.input = input /\ ~call.failed

GoalEvidence(t) == \E call \in Calls(t) : call.input \in GoalInputs /\ ~call.failed

\* Mutants: a third identical failure is allowed; a closed trace still takes steps.
OnceMore(t, input) == Failures(t, input) < 3 /\ ~Succeeded(t, input)
AnyStatus(t) == TRUE

Exhausted(t) == Len(t.calls) >= MaxCalls \/ late \/ Output(t) + Reserve > MaxOutput
Repeatable(t, input) == Failures(t, input) < 2 /\ ~Succeeded(t, input)
Active(t) == t.status = "active"

Closed(t, status) == IF Active(t) THEN [t EXCEPT !.status = status] ELSE t

Running == {c \in Clients : task[c] # None /\ task[c].op = "step"}

Busy == Running # {}

\* The compare-and-set of update_mutable_artifact.
Unmoved(base) == stored # None /\ stored.revision = base.revision

\* Mutant: a finished step wakes nobody.
Unjoined(c) == [task EXCEPT ![c] = None]

\* The step of c is over, and the cancellations that wait for it can go on.
Released(c) ==
    [d \in Clients |->
       IF d = c THEN None
       ELSE IF task[d] # None /\ task[d].op = "cancel" /\ task[d].of = c
            THEN [task[d] EXCEPT !.joined = TRUE]
            ELSE task[d]]

\* Mutant: a result that is too large is recorded as it came.
Unreplaced(t, c, failed, size) ==
    [t EXCEPT !.revision = @ + 1,
              !.calls = Append(@, [id |-> task[c].id, input |-> task[c].input,
                                   failed |-> failed, size |-> size + Reserve])]

Recorded(t, c, failed, size) ==
    [t EXCEPT !.revision = @ + 1,
              !.calls = Append(@, [id |-> task[c].id, input |-> task[c].input,
                                   failed |-> failed, size |-> size])]

ClosedByCancel(t) == Closed(t, "cancelled")

-----------------------------------------------------------------------------
(* Requests *)

Init ==
    /\ stored = None
    /\ used = FALSE /\ late = FALSE /\ refused = FALSE
    /\ task = [c \in Clients |-> None]

Begin(persist) ==
    /\ ~used
    /\ used' = TRUE
    /\ stored' = [persist |-> persist, revision |-> 1, calls |-> << >>, reported |-> None,
                  status |-> "active"]
    /\ UNCHANGED <<late, task, refused>>

\* What run() requires before it looks at the budget.  A step id that is
\* recorded already is answered from the document or is a conflict.
Askable(id) ==
    /\ stored # None
    /\ \A call \in Calls(stored) : call.id # id
    /\ ~Busy
    /\ Active(stored)
    /\ ~GoalEvidence(stored)

RunExhausted(id) ==
    /\ Askable(id)
    /\ Exhausted(stored)
    /\ stored' = [Closed(stored, "budget_exhausted") EXCEPT !.revision = @ + 1]
    /\ UNCHANGED <<used, late, task, refused>>

StepBegin(c, id, input) ==
    /\ task[c] = None
    /\ Askable(id)
    /\ ~Exhausted(stored)
    /\ Repeatable(stored, input)
    /\ task' = [task EXCEPT ![c] = [op |-> "step", id |-> id, input |-> input,
                                    base |-> stored, cancelled |-> FALSE]]
    /\ UNCHANGED <<stored, used, late, refused>>

\* The tool answers, fails, or its time is up.
StepEnd(c, failed, size) ==
    /\ c \in Running /\ ~task[c].cancelled
    /\ Unmoved(task[c].base)
    /\ stored' = Recorded(task[c].base, c, failed, size)
    /\ task' = Released(c)
    /\ UNCHANGED <<used, late, refused>>

\* The step is cancelled, by cancel() or because its own request was given up.
StepCancelled(c, size) ==
    /\ c \in Running
    /\ Unmoved(task[c].base)
    /\ stored' = Recorded(ClosedByCancel(task[c].base), c, TRUE, size)
    /\ task' = Released(c)
    /\ UNCHANGED <<used, late, refused>>

\* The document is gone, its revision has moved, or the store is over its quota:
\* the tool has run and nothing tells that it did.
StepUnsaved(c) ==
    /\ c \in Running
    /\ task' = Released(c)
    /\ refused' = TRUE
    /\ UNCHANGED <<stored, used, late>>

Finish(completed) ==
    /\ stored # None
    /\ ~Busy
    /\ Active(stored) \/ stored.reported # completed
    /\ stored.revision < MaxRevision
    /\ stored' = [Closed(stored, "finished") EXCEPT !.reported = completed, !.revision = @ + 1]
    /\ UNCHANGED <<used, late, task, refused>>

CancelIdle ==
    /\ stored # None
    /\ ~Busy
    /\ Active(stored)
    /\ stored' = [ClosedByCancel(stored) EXCEPT !.revision = @ + 1]
    /\ UNCHANGED <<used, late, task, refused>>

CancelBegin(c) ==
    /\ task[c] = None
    /\ stored # None
    /\ \E r \in Running :
         task' = [task EXCEPT ![c] = [op |-> "cancel", of |-> r, joined |-> FALSE],
                              ![r].cancelled = TRUE]
    /\ UNCHANGED <<stored, used, late, refused>>

CancelEnd(c) ==
    /\ task[c] # None /\ task[c].op = "cancel" /\ task[c].joined
    /\ task' = [task EXCEPT ![c] = None]
    /\ UNCHANGED <<stored, used, late, refused>>

DeadlinePasses ==
    /\ stored # None /\ ~late
    /\ late' = TRUE
    /\ UNCHANGED <<stored, used, task, refused>>

\* Deleted by the member, expired, or pushed out of memory by other artifacts.
Lost ==
    /\ stored # None
    /\ stored' = None
    /\ UNCHANGED <<used, late, task, refused>>

\* The process restarts: what is in memory and the suspended requests are gone.
Restart ==
    /\ stored' = IF stored # None /\ stored.persist THEN stored ELSE None
    /\ task' = [c \in Clients |-> None]
    /\ UNCHANGED <<used, late, refused>>

StepOver(c) ==
    \/ \E failed \in BOOLEAN, size \in Sizes : StepEnd(c, failed, size)
    \/ \E size \in Sizes : StepCancelled(c, size)
    \/ StepUnsaved(c)

Next ==
    \/ \E persist \in BOOLEAN : Begin(persist)
    \/ \E id \in StepIds : RunExhausted(id)
    \/ \E c \in Clients, id \in StepIds, input \in Inputs : StepBegin(c, id, input)
    \/ \E c \in Clients : StepOver(c) \/ CancelBegin(c) \/ CancelEnd(c)
    \/ \E completed \in BOOLEAN : Finish(completed)
    \/ CancelIdle \/ DeadlinePasses \/ Lost \/ Restart

Spec == Init /\ [][Next]_vars

\* A step waits at most 90 seconds for its tool (asyncio.timeout), and a joined
\* cancellation is woken by the event loop.
FairSpec ==
    Spec /\ \A c \in Clients : WF_vars(StepOver(c)) /\ WF_vars(CancelEnd(c))

-----------------------------------------------------------------------------
(* Safety *)

\* The recorded calls never exceed the trace's limits, the last one included.
WithinBudget ==
    stored # None => Len(stored.calls) <= MaxCalls /\ Output(stored) <= MaxOutput

\* No step is wasted: none follows the first evidence of the goal, and the same
\* input is not tried after it succeeded, nor a third time after two failures,
\* under whatever step ids.
NoStepWasted ==
    stored # None =>
      \A i, j \in DOMAIN stored.calls :
        LET earlier == stored.calls[i]  later == stored.calls[j]
        IN  i < j =>
              /\ earlier.input \in GoalInputs => earlier.failed
              /\ earlier.input = later.input =>
                   /\ earlier.failed
                   /\ Cardinality({k \in 1 .. j - 1 : /\ stored.calls[k].input = later.input
                                                      /\ stored.calls[k].failed}) < 2

\* As long as a step runs, the document is the one it started from: the write
\* of its result cannot be refused because of a concurrent request.
StepIsAlone ==
    stored # None => \A c \in Running : stored = task[c].base

\* When a cancellation has joined the step, the trace is closed, unless the
\* store would not take the write.
CancelCloses ==
    stored # None /\ ~refused =>
      \A c \in Clients :
        task[c] # None /\ task[c].op = "cancel" /\ task[c].joined =>
          stored.status # "active"

\* The steps of a trace: within its budget, none wasted, each alone on the
\* document, and none running when a cancellation has been confirmed.
StepsSound == WithinBudget /\ NoStepWasted /\ StepIsAlone /\ CancelCloses

\* A closed trace takes no more calls and keeps the reason it was closed for.
ClosedStays ==
    [][stored # None /\ stored' # None /\ stored.status # "active" =>
         stored'.calls = stored.calls /\ stored'.status = stored.status]_vars

(* Liveness *)

\* A cancellation returns: the step it joins is bounded by its timeout.
CancelReturns ==
    \A c \in Clients : (task[c] # None /\ task[c].op = "cancel") ~> (task[c] = None)

=============================================================================
