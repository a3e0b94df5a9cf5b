------------------------- MODULE MCWorkflowTelemetry -------------------------
(* What a tool call runs through, side by side: the trace of its workflow     *)
(* ("trace"), the admission of a combat calculation ("engine") and the        *)
(* worker's queries that need none ("inspect"). A behaviour follows one.      *)
EXTENDS WorkflowTelemetry, EngineAdmission, TLC

CONSTANTS
    c1, c2, s1, s2, s3, i1, i2,
    Documents, ResultSizes, CACHE_BYTES, CACHE_TTL, MaxTime

VARIABLES
    part,
    cache, cache_bytes, running, process, monotonic, replied

\* Three calls over two workers, of which one is home to a single call.
SomeHomes == [k \in {s1, s2, s3} |-> IF k = s3 THEN c2 ELSE c1]

Inspector == INSTANCE StaticInspector WITH Keys <- Documents, Sizes <- ResultSizes

ASSUME InspectorAssumption ==
    /\ ResultSizes \subseteq Nat /\ {CACHE_BYTES, CACHE_TTL, MaxTime} \subseteq Nat
    /\ Inspector!NoKey \notin Documents

staticVars == <<cache, cache_bytes, running, process, monotonic, replied>>
CallsInit ==
    /\ part \in {"trace", "engine", "inspect"} /\ Init /\ AdmissionInit /\ Inspector!Init

CallsNext ==
    \/ part = "trace" /\ Next /\ UNCHANGED <<part, admissionVars, staticVars>>
    \/ part = "engine" /\ AdmissionNext /\ UNCHANGED <<part, vars, staticVars>>
    \/ part = "inspect" /\ Inspector!Next /\ UNCHANGED <<part, vars, admissionVars>>

\* The fairness of FairSpec and of FairAdmission.
CallsFair ==
    /\ \A c \in Clients :
         /\ WF_vars(part = "trace" /\ StepOver(c) /\ UNCHANGED <<part, admissionVars, staticVars>>)
         /\ WF_vars(part = "trace" /\ CancelEnd(c) /\ UNCHANGED <<part, admissionVars, staticVars>>)
    /\ \A w \in {c1, c2} :
         /\ WF_admissionVars(part = "engine" /\ Serve(w) /\ UNCHANGED <<part, vars, staticVars>>)
         /\ WF_admissionVars(part = "engine" /\ RestartWorker(w) /\ UNCHANGED <<part, vars, staticVars>>)
    /\ \A k \in {s1, s2, s3} :
         WF_admissionVars(part = "engine" /\ Handle(k) /\ UNCHANGED <<part, vars, staticVars>>)

CallsSpec == CallsInit /\ [][CallsNext]_<<part, vars, admissionVars, staticVars>> /\ CallsFair

\* The types of the trace, of the workers and of the inspector's cache.
CallsTypeOK == TypeOK /\ AdmissionTypeOK /\ Inspector!StaticTypeOK

\* StaticInspector: one listing process, under its lock, and a cache whose total
\* is what it keeps.
InspectorSound == Inspector!CacheAccounted /\ Inspector!ProcessUnderLock

\* What the inspector's cache gives up was used before all it keeps.
EvictsOldest == Inspector!InspectorEvictsOldest

==============================================================================
