----------------------------- MODULE OptimizerJob -----------------------------
(***************************************************************************)
(* Checkpointed conversion jobs (optimizer/worker.py, checkpoint.py) and   *)
(* the sidecar manifest their command writes (optimizer/adapters.py).      *)
(* Several plans may name the same output directory; several processes may *)
(* run the same plan, one after the other, each with --resume.             *)
(*                                                                         *)
(* What survives a process: the checkpoint files, the workspaces next to   *)
(* the output, the output, its manifest and the promotion lock FILE.  What *)
(* does not: the flock lease of a plan and all of the worker's variables.  *)
(* A conversion child runs in a session of its own and outlives its worker.*)
(*                                                                         *)
(* A workspace's contents are "partial" (files missing), "whole", or       *)
(* "rejected" (what _validate_and_sync_tree refuses: empty, a symbolic     *)
(* link, over a limit); validation cannot tell partial from whole.  An     *)
(* artifact's hash is the name of the workspace it was renamed from.       *)
(***************************************************************************)
EXTENDS Naturals, FiniteSets

CONSTANTS
    Workers,      \* optimizer processes
    Plans,        \* plan IDs, all with the same output path
    Workspaces,   \* the directory names mkdtemp may return
    None,         \* no worker, no plan, no workspace
    MaxFaults     \* bound: crashes, failed saves, failed or cancelled conversions

ASSUME JobAssumption ==
    /\ None \notin Workers \cup Plans \cup Workspaces
    /\ MaxFaults \in Nat

VARIABLES
    stage,        \* per plan: the stage of its checkpoint file
    bound,        \* per plan: workspace_path of its checkpoint, or output_hash
    disk,         \* per workspace name: its contents, or "absent"
    writing,      \* workspaces a conversion child or its descendant writes into
    output,       \* the workspace that became the output, or None
    lock,         \* who created the promotion lock file, or None
    manifest,     \* the plan and the hash the sidecar manifest records
    lease,        \* per plan: the worker that holds the flock
    pc,           \* per worker: where it is
    plan,         \* per worker: its plan
    ws,           \* per worker: its workspace
    verdict,      \* per worker: the terminal stage it is about to save
    faults,       \* how many faults have happened
    lost          \* history: plans left converted by a save that raised

diskVars == <<stage, bound, disk, writing, output, lock, manifest>>
workerVars == <<lease, pc, plan, ws, verdict>>
jobVars == <<diskVars, workerVars, faults, lost>>

Stages == {"absent", "prepared", "converted", "completed", "failed", "cancelled"}
Contents == {"absent", "partial", "whole", "rejected"}
Places == {"idle", "load", "reconcile", "enter", "begin", "converting", "converted",
           "saved", "validate", "lock", "rename", "unlock", "unlock_failed",
           "complete", "terminal", "cleanup", "manifest"}

JobTypeOK ==
    /\ stage \in [Plans -> Stages]
    /\ bound \in [Plans -> Workspaces \cup {None}]
    /\ disk \in [Workspaces -> Contents]
    /\ writing \subseteq Workspaces
    /\ output \in Workspaces \cup {None}
    /\ lock \in Workers \cup {None}
    /\ manifest \in (Plans \X Workspaces) \cup {<<None, None>>}
    /\ lease \in [Plans -> Workers \cup {None}]
    /\ pc \in [Workers -> Places]
    /\ plan \in [Workers -> Plans \cup {None}]
    /\ ws \in [Workers -> Workspaces \cup {None}]
    /\ verdict \in [Workers -> {"failed", "cancelled"}]
    /\ faults \in 0 .. MaxFaults
    /\ lost \subseteq Plans

JobInit ==
    /\ stage = [p \in Plans |-> "absent"]
    /\ bound = [p \in Plans |-> None]
    /\ disk = [s \in Workspaces |-> "absent"]
    /\ writing = {}
    /\ output = None
    /\ lock = None
    /\ manifest = <<None, None>>
    /\ lease = [p \in Plans |-> None]
    /\ pc = [w \in Workers |-> "idle"]
    /\ plan = [w \in Workers |-> None]
    /\ ws = [w \in Workers |-> None]
    /\ verdict = [w \in Workers |-> "failed"]
    /\ faults = 0
    /\ lost = {}

-----------------------------------------------------------------------------
(* Steps of a worker's control, and what a fault costs.                    *)

Goto(w, place) == pc' = [pc EXCEPT ![w] = place]
At(w, place) == pc[w] = place

Fault == faults < MaxFaults /\ faults' = faults + 1

(* The path exists as a workspace; renamed to the output, it does not.     *)
OnDisk(s) == s # None /\ s # output /\ disk[s] # "absent"

(* The run raises or fails: its lease is closed.                           *)
Released(w) == [p \in Plans |-> IF lease[p] = w THEN None ELSE lease[p]]
Release(w) ==
    /\ lease' = Released(w)
    /\ plan' = [plan EXCEPT ![w] = None]
    /\ ws' = [ws EXCEPT ![w] = None]
    /\ Goto(w, "idle")
    /\ UNCHANGED verdict

(* The run returns a completed result with this hash; its lease is closed  *)
(* before the command goes on.                                             *)
Return(w, hash) ==
    /\ lease' = Released(w)
    /\ ws' = [ws EXCEPT ![w] = hash]
    /\ Goto(w, "manifest")
    /\ UNCHANGED <<plan, verdict>>

(* CheckpointStore.save: atomic.                                           *)
Save(p, s, b) ==
    /\ stage' = [stage EXCEPT ![p] = s]
    /\ bound' = [bound EXCEPT ![p] = b]

(* save raises: before os.replace, or in the fsync after it.               *)
SaveRaises(p, s, b) == Fault /\ (Save(p, s, b) \/ UNCHANGED <<stage, bound>>)

(* The exception removes the workspace of a checkpoint that names it.      *)
NoteLost(w) == lost' = IF stage'[plan[w]] = "converted" THEN lost \cup {plan[w]} ELSE lost

(* decide_resume, with every binding equal.                                *)
DecideResumeAdopts(p) ==
    CASE stage[p] = "converted" ->
             IF output # None THEN "verify_promoted"
             ELSE IF ~OnDisk(bound[p]) THEN "raise" ELSE "resume_validation"
      [] stage[p] = "completed" ->
             IF output = None THEN "raise" ELSE "already_completed"
      [] OTHER -> IF output # None THEN "raise" ELSE "restart_conversion"
DecideResumeOnce(p) ==
    CASE stage[p] = "converted" ->
             IF output # None /\ ~OnDisk(bound[p]) THEN "verify_promoted"
             ELSE IF output # None \/ ~OnDisk(bound[p]) THEN "raise"
             ELSE "resume_validation"
      [] stage[p] = "completed" -> "already_completed"
      [] OTHER -> IF output # None \/ stage[p] = "failed" THEN "raise" ELSE "restart_conversion"
DecideResume(p) ==
    CASE stage[p] = "converted" ->
             IF output # None /\ ~OnDisk(bound[p]) THEN "verify_promoted"
             ELSE IF output # None \/ ~OnDisk(bound[p]) THEN "raise"
             ELSE "resume_validation"
      [] stage[p] = "completed" ->
             IF output = None THEN "raise" ELSE "already_completed"
      [] OTHER -> IF output # None THEN "raise" ELSE "restart_conversion"

-----------------------------------------------------------------------------
(* run(): the lease, the checkpoint, the decision.                         *)

Acquire(w, p) ==
    /\ At(w, "idle")
    /\ lease[p] = None
    /\ lease' = [lease EXCEPT ![p] = w]
    /\ plan' = [plan EXCEPT ![w] = p]
    /\ Goto(w, "load")
    /\ UNCHANGED <<diskVars, ws, verdict, faults, lost>>

Load(w) ==
    LET p == plan[w]
        action == DecideResume(p)
    IN
    /\ At(w, "load")
    /\ \/ /\ action = "raise"
          /\ Release(w)
          /\ UNCHANGED <<diskVars, faults>>
       \/ /\ action = "already_completed"
          /\ Return(w, bound[p])
          /\ UNCHANGED <<diskVars, faults>>
       \/ /\ action = "verify_promoted"
          /\ Goto(w, "reconcile")
          /\ UNCHANGED <<diskVars, lease, plan, ws, verdict, faults>>
       \/ /\ action = "resume_validation"
          /\ Goto(w, "enter")
          /\ ws' = [ws EXCEPT ![w] = bound[p]]
          /\ UNCHANGED <<diskVars, lease, plan, verdict, faults>>
       \/ /\ action = "restart_conversion"
          /\ \/ /\ Save(p, "prepared", None)
                /\ Goto(w, "enter")
                /\ UNCHANGED <<lease, plan, ws, verdict, faults>>
             \/ /\ SaveRaises(p, "prepared", None)
                /\ Release(w)
          /\ UNCHANGED <<disk, writing, output, lock, manifest>>
    /\ UNCHANGED lost

(* _reconcile_promoted hashes whatever is at the output path.  What was    *)
(* promoted passes validation again; only an outsider could change that.   *)
Reconcile(w) ==
    /\ At(w, "reconcile")
    /\ \/ /\ Save(plan[w], "completed", output)
          /\ Return(w, output)
          /\ UNCHANGED faults
       \/ /\ SaveRaises(plan[w], "completed", output)
          /\ Release(w)
    /\ UNCHANGED <<disk, writing, output, lock, manifest, lost>>

-----------------------------------------------------------------------------
(* _run_once(): the transaction, the child, the promotion.                 *)

(* mkdtemp returns a name nobody uses; which one makes no difference.  The *)
(* new directory is empty, which validation rejects.                       *)
Unused(s) ==
    /\ disk[s] = "absent"
    /\ s \notin writing
    /\ s # output
    /\ \A p \in Plans : bound[p] # s
    /\ \A w \in Workers : ws[w] # s

Enter(w) ==
    /\ At(w, "enter")
    /\ \/ /\ output # None
          /\ Release(w)
          /\ UNCHANGED disk
       \/ /\ output = None
          /\ IF ws[w] # None
             THEN UNCHANGED <<ws, disk>>
             ELSE LET s == CHOOSE t \in Workspaces : Unused(t) IN
                     /\ \E t \in Workspaces : Unused(t)
                     /\ ws' = [ws EXCEPT ![w] = s]
                     /\ disk' = [disk EXCEPT ![s] = "rejected"]
          /\ Goto(w, "begin")
          /\ UNCHANGED <<lease, plan, verdict>>
    /\ UNCHANGED <<stage, bound, writing, output, lock, manifest, faults, lost>>

(* A terminal result other than COMPLETED.                                 *)
Ends(w, v) ==
    /\ verdict' = [verdict EXCEPT ![w] = v]
    /\ Goto(w, "terminal")

Resumed(w) == stage[plan[w]] = "converted"

(* Cancelled before it starts, not startable, or under way; a resumed run  *)
(* goes straight to validation.                                            *)
Begin(w) ==
    /\ At(w, "begin")
    /\ \/ /\ Fault
          /\ \/ Ends(w, "cancelled")
             \/ ~Resumed(w) /\ Ends(w, "failed")
          /\ UNCHANGED <<disk, writing>>
       \/ /\ Resumed(w)
          /\ Goto(w, "validate")
          /\ UNCHANGED <<verdict, disk, writing, faults>>
       \/ /\ ~Resumed(w)
          /\ Goto(w, "converting")
          /\ writing' = writing \cup {ws[w]}
          /\ disk' = [disk EXCEPT ![ws[w]] = "partial"]
          /\ UNCHANGED <<verdict, faults>>
    /\ UNCHANGED <<stage, bound, output, lock, manifest, lease, plan, ws, lost>>

(* The child exits with 0 (and its subdirectory is flattened), or it fails,*)
(* times out or is cancelled, and its group is stopped.  A descendant that *)
(* outlives it holds its output pipes: joining them raises, which ends the *)
(* run without a terminal result while the descendant writes on.           *)
ConvertIgnoresExit(w) ==
    /\ At(w, "converting")
    /\ writing' = writing \ {ws[w]}
    /\ Goto(w, "converted")
    /\ \/ disk' = [disk EXCEPT ![ws[w]] = "whole"] /\ UNCHANGED faults
       \/ Fault /\ UNCHANGED disk
    /\ UNCHANGED <<stage, bound, output, lock, manifest, lease, plan, ws, verdict, lost>>
Convert(w) ==
    /\ At(w, "converting")
    /\ \/ /\ writing' = writing \ {ws[w]}
          /\ \/ /\ disk' = [disk EXCEPT ![ws[w]] = "whole"]
                /\ Goto(w, "converted")
                /\ UNCHANGED <<verdict, faults>>
             \/ /\ Fault
                /\ disk' = [disk EXCEPT ![ws[w]] = "rejected"]
                /\ Goto(w, "converted")
                /\ UNCHANGED verdict
             \/ /\ Fault
                /\ \E v \in {"failed", "cancelled"} : Ends(w, v)
                /\ UNCHANGED disk
       \/ /\ Fault
          /\ Goto(w, "cleanup")
          /\ UNCHANGED <<writing, verdict, disk>>
    /\ UNCHANGED <<stage, bound, output, lock, manifest, lease, plan, ws, lost>>

(* on_converted                                                            *)
SaveConverted(w) ==
    /\ At(w, "converted")
    /\ \/ /\ Save(plan[w], "converted", ws[w])
          /\ Goto(w, "saved")
          /\ UNCHANGED <<faults, lost>>
       \/ /\ SaveRaises(plan[w], "converted", ws[w])
          /\ Goto(w, "cleanup")
          /\ NoteLost(w)
    /\ UNCHANGED <<disk, writing, output, lock, manifest, lease, plan, ws, verdict>>

CheckCancel(w) ==
    /\ At(w, "saved")
    /\ \/ Fault /\ Ends(w, "cancelled")
       \/ Goto(w, "validate") /\ UNCHANGED <<verdict, faults>>
    /\ UNCHANGED <<diskVars, lease, plan, ws, lost>>

(* promote(): validate, create the lock file, look again, rename, unlink.  *)
Validate(w) ==
    /\ At(w, "validate")
    /\ IF disk[ws[w]] = "rejected" THEN Ends(w, "failed")
       ELSE Goto(w, "lock") /\ UNCHANGED verdict
    /\ UNCHANGED <<diskVars, lease, plan, ws, faults, lost>>

LockCompletes(w) ==
    /\ At(w, "lock")
    /\ lock = None
    /\ lock' = w
    /\ Goto(w, "rename")
    /\ Save(plan[w], "completed", ws[w])
    /\ UNCHANGED <<disk, writing, output, manifest, lease, plan, ws, verdict, faults, lost>>
Lock(w) ==
    /\ At(w, "lock")
    /\ IF lock = None
       THEN lock' = w /\ Goto(w, "rename") /\ UNCHANGED verdict
       ELSE Ends(w, "failed") /\ UNCHANGED lock
    /\ UNCHANGED <<stage, bound, disk, writing, output, manifest, lease, plan, ws, faults, lost>>

RenameAnyway(w) ==
    /\ At(w, "rename")
    /\ output' = ws[w]
    /\ Goto(w, "unlock")
    /\ UNCHANGED <<stage, bound, disk, writing, lock, manifest, lease, plan, ws, verdict, faults, lost>>
Rename(w) ==
    /\ At(w, "rename")
    /\ IF output = None
       THEN output' = ws[w] /\ Goto(w, "unlock")
       ELSE Goto(w, "unlock_failed") /\ UNCHANGED output
    /\ UNCHANGED <<stage, bound, disk, writing, lock, manifest, lease, plan, ws, verdict, faults, lost>>

(* The finally clause.  An fsync of the parent that raises after the       *)
(* rename makes the run fail with its artifact published.                  *)
Unlock(w) ==
    /\ pc[w] \in {"unlock", "unlock_failed"}
    /\ lock' = None
    /\ \/ At(w, "unlock") /\ Goto(w, "complete") /\ UNCHANGED <<verdict, faults>>
       \/ At(w, "unlock") /\ Fault /\ Ends(w, "failed")
       \/ At(w, "unlock_failed") /\ Ends(w, "failed") /\ UNCHANGED faults
    /\ UNCHANGED <<stage, bound, disk, writing, output, manifest, lease, plan, ws, lost>>

(* on_terminal of a completed run, outside the transaction.                *)
Complete(w) ==
    /\ At(w, "complete")
    /\ \/ /\ Save(plan[w], "completed", ws[w])
          /\ Return(w, ws[w])
          /\ UNCHANGED faults
       \/ /\ SaveRaises(plan[w], "completed", ws[w])
          /\ Release(w)
    /\ UNCHANGED <<disk, writing, output, lock, manifest, lost>>

(* __exit__ removes the workspace path; a promoted one is not there any    *)
(* more.                                                                   *)
Removed(w) == [s \in Workspaces |-> IF s = ws[w] /\ s # output THEN "absent" ELSE disk[s]]

(* on_terminal of any other run, inside the transaction: the checkpoint is *)
(* saved first, the workspace removed after it.                            *)
Terminal(w) ==
    /\ At(w, "terminal")
    /\ \/ /\ Save(plan[w], verdict[w], None)
          /\ UNCHANGED <<faults, lost>>
       \/ /\ SaveRaises(plan[w], verdict[w], None)
          /\ NoteLost(w)
    /\ Goto(w, "cleanup")
    /\ UNCHANGED <<disk, writing, output, lock, manifest, lease, plan, ws, verdict>>

(* The transaction is left, then the lease is closed.                      *)
Cleanup(w) ==
    /\ At(w, "cleanup")
    /\ disk' = Removed(w)
    /\ Release(w)
    /\ UNCHANGED <<stage, bound, writing, output, lock, manifest, faults, lost>>

(* The command records the artifact: an existing manifest must agree.      *)
PersistManifest(w) ==
    /\ At(w, "manifest")
    /\ manifest' = IF manifest = <<None, None>> THEN <<plan[w], ws[w]>> ELSE manifest
    /\ Release(w)
    /\ UNCHANGED <<stage, bound, disk, writing, output, lock, faults, lost>>

-----------------------------------------------------------------------------
(* A crash drops the flock and leaves the rest; a crash while the          *)
(* workspace is being removed leaves part of it.                           *)
Crash(w) ==
    /\ pc[w] # "idle"
    /\ Fault
    /\ Release(w)
    /\ \/ UNCHANGED disk
       \/ /\ At(w, "cleanup")
          /\ disk' = [s \in Workspaces |->
                        IF s = ws[w] /\ s # output /\ disk[s] = "whole" THEN "partial" ELSE disk[s]]
    /\ UNCHANGED <<stage, bound, writing, output, lock, manifest, lost>>

(* What a worker left behind ends; nobody waits for it.                    *)
OrphanEnds(s) ==
    /\ s \in writing
    /\ \A w \in Workers : ws[w] # s
    /\ writing' = writing \ {s}
    /\ UNCHANGED <<stage, bound, disk, output, lock, manifest, workerVars, faults, lost>>

WorkerStep(w) ==
    \/ Load(w) \/ Reconcile(w) \/ Enter(w) \/ Begin(w) \/ Convert(w)
    \/ SaveConverted(w) \/ CheckCancel(w) \/ Validate(w) \/ Lock(w) \/ Rename(w)
    \/ Unlock(w) \/ Complete(w) \/ Terminal(w) \/ Cleanup(w) \/ PersistManifest(w)

JobNext ==
    \/ \E w \in Workers : WorkerStep(w) \/ Crash(w) \/ \E p \in Plans : Acquire(w, p)
    \/ \E s \in Workspaces : OrphanEnds(s)

(* A process that runs goes on.  Acquire is fair too: the operator runs    *)
(* every plan again and again, with --resume; a hypothesis on the operator *)
(* that only RestartCompletes uses.                                        *)
JobFairness ==
    /\ \A w \in Workers : WF_jobVars(WorkerStep(w))
    /\ \A p \in Plans : SF_jobVars(\E w \in Workers : Acquire(w, p))

JobSpec == JobInit /\ [][JobNext]_jobVars
FairJobSpec == JobSpec /\ JobFairness

-----------------------------------------------------------------------------
(* Only a finished conversion is ever published, and nothing writes into   *)
(* it afterwards: not the child of a crashed worker, not a half-removed    *)
(* workspace.  It needs every terminal checkpoint save to have succeeded:  *)
(* a failed save followed by a crash during the removal leaves a partial   *)
(* workspace that a resume publishes.                                      *)
PublishedIsWhole ==
    output # None /\ lost = {} => disk[output] = "whole" /\ output \notin writing

(* The artifact at the output path never changes and never goes away.      *)
OutputImmutable == [][output # None => output' = output]_output

(* A completed checkpoint and the manifest record the hash of the artifact *)
(* that is at the output path.                                             *)
CompletedIsPublished ==
    /\ \A p \in Plans : stage[p] = "completed" => output # None /\ bound[p] = output
    /\ manifest # <<None, None>> => manifest[2] = output /\ stage[manifest[1]] = "completed"

(* Two plans never both complete with one output, unless a terminal save   *)
(* failed: a converted checkpoint without a workspace adopts whatever      *)
(* artifact another plan has published.                                    *)
OnePlanCompletes ==
    lost = {} =>
        \A p, q \in Plans : stage[p] = "completed" /\ stage[q] = "completed" => p = q

(* A plan at rest in the converted stage still has its workspace, or its   *)
(* artifact is the output.                                                 *)
ConvertedIsResumable ==
    \A p \in Plans :
        stage[p] = "converted" /\ lease[p] = None /\ p \notin lost =>
            OnDisk(bound[p]) \/ bound[p] = output

(* What no restart gets past: the output is another plan's, or is there    *)
(* although the checkpoint says failed; a terminal save failed; the lock   *)
(* file of a crashed promotion.                                            *)
StaleLock == \E w \in Workers : lock = w /\ pc[w] \notin {"rename", "unlock", "unlock_failed"}
Blocked(p) == p \in lost \/ StaleLock \/ (output # None /\ stage[p] # "completed" /\ bound[p] # output)

(* After finitely many faults, running the plan again completes it.        *)
RestartCompletes == \A p \in Plans : <>[]~Blocked(p) => <>(stage[p] = "completed")
=============================================================================
