---------------------------- MODULE EngineAdmission ----------------------------
(* Admission of combat calculations: engine.EngineClient.batch in each server, *)
(* engine_worker.PrivateEngine in the worker behind that server's own socket,  *)
(* and the lock file all the workers share (compute_lease).                    *)
(*                                                                             *)
(* A call takes the client's lock, sends its request and waits at most 90 s.   *)
(* The worker's handler outlives a client that stopped waiting; it refuses     *)
(* when its own lock or the shared lease is taken, and otherwise runs one      *)
(* LuaJIT process for at most 85 s, kills it, waits for its end, and only then *)
(* frees both. Time is a choice: any timer may fire while it is set.           *)
EXTENDS Naturals, FiniteSets

CONSTANTS Workers, EngineCalls, HomeOf, NoOne

\* Every call belongs to a server with one worker; NoOne is neither.
ASSUME PlacedAssumption ==
    /\ HomeOf \in [EngineCalls -> Workers]
    /\ NoOne \notin EngineCalls /\ NoOne \notin Workers

VARIABLES
    call,     \* what the MCP call has: "new", "waiting", or its outcome
    work,     \* the request in its worker: "none", "sent", "running", "answered"
    answer,   \* the answer the worker produced for the request
    job,      \* the request whose calculation holds the worker's lock
    proc,     \* the LuaJIT process: "none", "live", "exited", "failed", "killed"
    lease,    \* the worker that holds the flock of the shared file
    up        \* the worker's container is running

admissionVars == <<call, work, answer, job, proc, lease, up>>

\* "engine_error" stands for every refusal that depends on the data only: version
\* mismatch, invalid build or request, failed calculation, protocol error.
Errors == {"engine_busy", "engine_timeout", "engine_unavailable", "engine_error"}
Outcomes == Errors \cup {"result", "cancelled"}

Home(c) == HomeOf[c]
Held(w) == \E c \in EngineCalls : Home(c) = w /\ call[c] = "waiting"
Alive(w) == proc[w] \in {"live", "killed"}

AdmissionTypeOK ==
    /\ call \in [EngineCalls -> {"new", "waiting"} \cup Outcomes]
    /\ work \in [EngineCalls -> {"none", "sent", "running", "answered"}]
    /\ answer \in [EngineCalls -> Errors \cup {"result", NoOne}]
    /\ job \in [Workers -> EngineCalls \cup {NoOne}]
    /\ proc \in [Workers -> {"none", "live", "exited", "failed", "killed"}]
    /\ lease \in Workers \cup {NoOne}
    /\ up \in [Workers -> BOOLEAN]

AdmissionInit ==
    /\ call = [c \in EngineCalls |-> "new"]
    /\ work = [c \in EngineCalls |-> "none"]
    /\ answer = [c \in EngineCalls |-> NoOne]
    /\ job = [w \in Workers |-> NoOne]
    /\ proc = [w \in Workers |-> "none"]
    /\ lease = NoOne
    /\ up = [w \in Workers |-> TRUE]

-------------------------------------------------------------------------------
(* The server. *)

\* Another call of the same server is waiting: refused without a request.
Refuse(c) ==
    /\ call[c] = "new"
    /\ Held(Home(c))
    /\ call' = [call EXCEPT ![c] = "engine_busy"]
    /\ UNCHANGED <<work, answer, job, proc, lease, up>>

Send(c) ==
    /\ call[c] = "new"
    /\ ~Held(Home(c))
    /\ IF up[Home(c)]
       THEN /\ call' = [call EXCEPT ![c] = "waiting"]
            /\ work' = [work EXCEPT ![c] = "sent"]
       ELSE /\ call' = [call EXCEPT ![c] = "engine_unavailable"]
            /\ UNCHANGED work
    /\ UNCHANGED <<answer, job, proc, lease, up>>

HungUp(c) ==
    /\ work' = [work EXCEPT ![c] = "none"]
    /\ answer' = [answer EXCEPT ![c] = NoOne]

\* The server checks the provenance and the counts of a result against its own
\* pins and the request; one whose form it does not know is as good as none.
Judged(c) == IF answer[c] = "result" THEN {"result", "engine_error", "engine_unavailable"} ELSE {answer[c]}

Receive(c) ==
    /\ call[c] = "waiting" /\ work[c] = "answered"
    /\ call' \in {[call EXCEPT ![c] = code] : code \in Judged(c)}
    /\ HungUp(c)
    /\ UNCHANGED <<job, proc, lease, up>>

\* The HTTP timeout or the cancellation of the MCP call frees the client's lock;
\* the handler in the worker goes on.
Leave(c, outcome) ==
    /\ call[c] = "waiting"
    /\ outcome \in {"engine_timeout", "cancelled"}
    /\ call' = [call EXCEPT ![c] = outcome]
    /\ UNCHANGED <<work, answer, job, proc, lease, up>>

\* An answer nobody waits for is dropped with its connection.
Drop(c) ==
    /\ call[c] # "waiting" /\ work[c] = "answered"
    /\ HungUp(c)
    /\ UNCHANGED <<call, job, proc, lease, up>>

-------------------------------------------------------------------------------
(* The worker. *)

Answered(c, code) ==
    /\ work' = [work EXCEPT ![c] = "answered"]
    /\ answer' = [answer EXCEPT ![c] = code]

\* Mutant: the lease of another worker does not refuse the calculation.
AdmitsLocally(w) == job[w] = NoOne

\* The worker's lock, then the lease: LOCK_NB, so a held one refuses.
Admits(w) == job[w] = NoOne /\ lease = NoOne

Turned(c) ==
    /\ work[c] = "sent" /\ ~Admits(Home(c))
    /\ Answered(c, "engine_busy")
    /\ UNCHANGED <<call, job, proc, lease, up>>

\* The worker's files do not carry its own pins, the document or the job is
\* invalid, or the process cannot be started: what was locked is given back
\* within the step.
Invalid(c) ==
    /\ work[c] = "sent"
    /\ Answered(c, "engine_error")
    /\ UNCHANGED <<call, job, proc, lease, up>>

Start(c) ==
    LET w == Home(c)
    IN  /\ work[c] = "sent" /\ Admits(w)
        /\ work' = [work EXCEPT ![c] = "running"]
        /\ job' = [job EXCEPT ![w] = c]
        /\ lease' = w
        /\ proc' = [proc EXCEPT ![w] = "live"]
        /\ UNCHANGED <<call, answer, up>>

\* The process ends by itself, with or without a result file.
Exit(w) ==
    /\ up[w] /\ proc[w] = "live"
    /\ \E end \in {"exited", "failed"} : proc' = [proc EXCEPT ![w] = end]
    /\ UNCHANGED <<call, work, answer, job, lease, up>>

\* 85 s passed: SIGKILL to the process group, then wait for its end.
Kill(w) ==
    /\ up[w] /\ proc[w] = "live"
    /\ proc' = [proc EXCEPT ![w] = "killed"]
    /\ UNCHANGED <<call, work, answer, job, lease, up>>

\* Mutant: a failed calculation does not close the lock file.
FreedOnSuccess(w) ==
    /\ job' = [job EXCEPT ![w] = NoOne]
    /\ proc' = [proc EXCEPT ![w] = "none"]
    /\ lease' = IF proc[w] = "exited" THEN NoOne ELSE lease

Freed(w) ==
    /\ job' = [job EXCEPT ![w] = NoOne]
    /\ proc' = [proc EXCEPT ![w] = "none"]
    /\ lease' = NoOne

\* The result file of a process that ended well is validated and answered.
FinishJob(w) ==
    /\ up[w] /\ proc[w] \in {"exited", "failed"}
    /\ \E code \in IF proc[w] = "failed" THEN {"engine_error"}
                   ELSE {"result", "engine_error"} :
         Answered(job[w], code)
    /\ Freed(w)
    /\ UNCHANGED <<call, up>>

\* The killed process has been reaped.
Reap(w) ==
    /\ up[w] /\ proc[w] = "killed"
    /\ Answered(job[w], "engine_timeout")
    /\ Freed(w)
    /\ UNCHANGED <<call, up>>

-------------------------------------------------------------------------------
(* The container. *)

\* The worker's Python process dies: its connections break, its lock file is
\* closed, and what it started is killed with the container.
Crash(w) ==
    /\ up[w]
    /\ up' = [up EXCEPT ![w] = FALSE]
    /\ lease' = IF lease = w THEN NoOne ELSE lease
    /\ job' = [job EXCEPT ![w] = NoOne]
    /\ proc' = [proc EXCEPT ![w] = IF Alive(w) THEN "killed" ELSE "none"]
    /\ work' = [c \in EngineCalls |-> IF Home(c) = w THEN "none" ELSE work[c]]
    /\ call' = [c \in EngineCalls |->
                  IF Home(c) = w /\ call[c] = "waiting" THEN "engine_unavailable" ELSE call[c]]
    /\ answer' = [c \in EngineCalls |-> IF Home(c) = w THEN NoOne ELSE answer[c]]

\* The container ends with its processes and is started again.
RestartWorker(w) ==
    /\ ~up[w]
    /\ up' = [up EXCEPT ![w] = TRUE]
    /\ proc' = [proc EXCEPT ![w] = "none"]
    /\ UNCHANGED <<call, work, answer, job, lease>>

Serve(w) == Exit(w) \/ Kill(w) \/ FinishJob(w) \/ Reap(w)
Handle(c) ==
    \/ Turned(c) \/ Invalid(c) \/ Start(c) \/ Drop(c) \/ Receive(c)

AdmissionNext ==
    \/ \E c \in EngineCalls : Refuse(c) \/ Send(c) \/ Handle(c)
    \/ \E c \in EngineCalls, outcome \in Outcomes : Leave(c, outcome)
    \/ \E w \in Workers : Serve(w) \/ Crash(w) \/ RestartWorker(w)

\* The timers are set whenever something waits, the kernel reaps what it kills.
AdmissionFairness ==
    /\ \A w \in Workers : WF_admissionVars(Serve(w)) /\ WF_admissionVars(RestartWorker(w))
    /\ \A c \in EngineCalls : WF_admissionVars(Handle(c))

AdmissionSpec == AdmissionInit /\ [][AdmissionNext]_admissionVars
FairAdmission == AdmissionSpec /\ AdmissionFairness

-------------------------------------------------------------------------------
(* Properties. *)

\* One combat process at a time over all the workers: one that may still run
\* belongs to the holder of the lease, whether its calculation is in progress,
\* timed out, or was abandoned by its caller. Only a container that is going
\* down may still hold one without the lease.
OneCalculation ==
    /\ \A v, w \in Workers : up[v] /\ Alive(v) /\ up[w] /\ Alive(w) => v = w
    /\ \A w \in Workers : up[w] /\ Alive(w) => lease = w
    /\ \A w \in Workers : lease = w => job[w] # NoOne /\ work[job[w]] = "running"

\* Whoever holds the lease gives it back, so no timeout, failure, crash or
\* abandoned call leaves every later calculation refused; and a caller that
\* waits gets an answer or an error.
EngineReturns ==
    /\ \A w \in Workers : (lease = w) ~> (lease # w)
    /\ \A c \in EngineCalls : (call[c] = "waiting") ~> (call[c] \in Outcomes)

===============================================================================
