------------------------------- MODULE MCStores -------------------------------
(* Three stores for TLC, one per behaviour: published artifacts and their  *)
(* checkpoints, with two processes that may die; the semantic cache with   *)
(* its backend handles, with two threads; and the resident tensors behind  *)
(* two connections, where a replay, a cancel and a shutdown meet a load.   *)
EXTENDS OptimizerJob, SemanticState, ResidentRuntime, TLC

CONSTANTS stream1, numeric2, plain1, plain2, unload2, retry2, stop2, cancel1, status2, art, c1, c2

VARIABLE store     \* which of them this behaviour is about

MCSize == [h \in Handles |-> IF h = 1 THEN 2 ELSE 1]
MCOp ==
    stream1 :> "load_numeric_streaming" @@ numeric2 :> "load_numeric"
       @@ plain1 :> "load" @@ plain2 :> "load"
       @@ unload2 :> "unload" @@ retry2 :> "retry_quarantine" @@ status2 :> "status"
       @@ stop2 :> "shutdown" @@ cancel1 :> "cancel"
MCSequence == [r \in Commands |-> IF r \in {stream1, plain1, cancel1} THEN 1 ELSE 2]
MCSubject == [r \in Commands |-> IF r \in {unload2, cancel1} THEN stream1 ELSE NoCommand]
MCArtifactOf == [r \in {stream1, numeric2} |-> art]
MCNeeds == [r \in {stream1, numeric2, plain1, plain2} |-> 2]
MCKeeps == [r \in {stream1, numeric2, plain1, plain2} |-> 1]
MCAgendas == {
    c1 :> {stream1, numeric2} @@ c2 :> {stop2, cancel1},
    c1 :> {stream1, plain1} @@ c2 :> {plain1, plain2},
    c1 :> {stream1, unload2} @@ c2 :> {retry2, status2}}

mcVars == <<store, jobVars, semanticVars, runtimeVars>>

Jobs(A) == store = "jobs" /\ A /\ UNCHANGED <<store, semanticVars, runtimeVars>>
Cache(A) == store = "cache" /\ A /\ UNCHANGED <<store, jobVars, runtimeVars>>
Runtime(A) == store = "runtime" /\ A /\ UNCHANGED <<store, jobVars, semanticVars>>

MCInit ==
    /\ JobInit
    /\ SemanticInit
    /\ RuntimeInit
    /\ store \in {"jobs", "cache", "runtime"}
    /\ store # "runtime" => agenda = CHOOSE a \in Agendas : TRUE
MCNext == Jobs(JobNext) \/ Cache(SemanticNext) \/ Runtime(RuntimeNext)
MCFairness ==
    /\ \A w \in Workers : WF_jobVars(store = "jobs" /\ WorkerStep(w))
    /\ \A n \in Plans : SF_jobVars(store = "jobs" /\ \E w \in Workers : Acquire(w, n))
    /\ WF_runtimeVars(store = "runtime" /\ MainStep)
    /\ \A c \in Connections : WF_runtimeVars(store = "runtime" /\ ServesConnection(c))
MCSpec == MCInit /\ [][MCNext]_mcVars /\ MCFairness

(* RestartCompletes, in the behaviours that are about the jobs: after      *)
(* finitely many faults, running a plan again completes it.                *)
JobsComplete == store = "jobs" => RestartCompletes
=============================================================================
