------------------------- MODULE OptimizerJobProofs -------------------------
(***************************************************************************)
(* What holds of the conversion jobs for any number of processes, plans,   *)
(* workspaces and faults.                                                  *)
(***************************************************************************)
EXTENDS OptimizerJob, TLAPS

-----------------------------------------------------------------------------
(* The inductive invariant.                                                *)

Resting == {"idle", "manifest"}
HasWorkspace == {"begin", "converting", "converted", "saved", "validate", "lock", "rename",
                 "unlock", "unlock_failed", "complete", "terminal", "cleanup"}

(* A process that is under way holds the lease of its plan, and a lease is *)
(* held by a process that is under way.                                    *)
Leases ==
    /\ \A w \in Workers : pc[w] \notin Resting => plan[w] \in Plans /\ lease[plan[w]] = w
    /\ \A p \in Plans : lease[p] # None => plan[lease[p]] = p /\ pc[lease[p]] \notin Resting

(* What a process has at each of its places.                               *)
Holds ==
    \A w \in Workers :
        /\ pc[w] \in {"idle", "load", "reconcile"} => ws[w] = None
        /\ pc[w] = "idle" => plan[w] = None
        /\ pc[w] \in HasWorkspace => ws[w] \in Workspaces
        /\ pc[w] = "manifest" =>
              /\ plan[w] \in Plans
              /\ stage[plan[w]] = "completed"
              /\ ws[w] = output

(* How far the checkpoint of its plan is.                                  *)
Progress ==
    \A w \in Workers :
        LET p == plan[w] IN
        /\ pc[w] = "reconcile" => stage[p] = "converted" /\ output # None /\ ~OnDisk(bound[p])
        /\ pc[w] = "enter" => stage[p] = IF ws[w] = None THEN "prepared" ELSE "converted"
        /\ pc[w] \in {"converting", "converted"} => stage[p] = "prepared"
        /\ pc[w] \in {"begin", "terminal"} => stage[p] \in {"prepared", "converted"}
        /\ pc[w] \in {"saved", "validate", "lock", "rename", "unlock", "unlock_failed",
                      "complete"} => stage[p] = "converted"
        /\ pc[w] \notin {"load", "reconcile", "cleanup"} \cup Resting /\ stage[p] = "converted"
              => bound[p] = ws[w]
        /\ pc[w] = "cleanup" /\ stage[p] = "converted" => p \in lost

(* A checkpoint names a workspace only when it is converted or completed.  *)
Bindings ==
    \A p \in Plans :
        /\ stage[p] \notin {"converted", "completed"} => bound[p] = None
        /\ stage[p] \in {"converted", "completed"} => bound[p] \in Workspaces
        /\ stage[p] = "completed" => bound[p] = output

(* No two processes share a workspace, no process has another plan's, and  *)
(* no two converted plans name the same one.                               *)
Apart ==
    /\ \A w, v \in Workers :
          w # v /\ pc[w] # "manifest" /\ pc[v] # "manifest" /\ ws[w] # None => ws[w] # ws[v]
    /\ \A w \in Workers : \A p \in Plans :
          stage[p] = "converted" /\ plan[w] # p /\ pc[w] # "manifest" /\ ws[w] # None
              => ws[w] # bound[p]
    /\ \A p, q \in Plans :
          p # q /\ stage[p] = "converted" /\ stage[q] = "converted" => bound[p] # bound[q]

(* When a process's workspace is the output.                               *)
Promoted ==
    \A w \in Workers :
        /\ pc[w] \in {"enter", "begin", "converting", "converted", "saved", "validate", "lock",
                      "rename", "unlock_failed"} /\ ws[w] # None => ws[w] # output
        /\ pc[w] \in {"unlock", "complete"} => ws[w] = output

(* What a conversion child writes into is nobody's result.                 *)
Written ==
    \A s \in writing :
        /\ disk[s] \in {"partial", "absent"}
        /\ s # output
        /\ \A p \in Plans : bound[p] # s
        /\ \A w \in Workers : ws[w] = s => pc[w] \in {"converting", "cleanup"}

(* A converted workspace is finished, and a validated one is whole.        *)
Finished ==
    /\ \A p \in Plans :
          stage[p] = "converted" /\ p \notin lost => disk[bound[p]] \in {"whole", "rejected"}
    /\ \A w \in Workers :
          /\ pc[w] = "converted" => disk[ws[w]] \in {"whole", "rejected"}
          /\ pc[w] \in {"lock", "rename"} /\ plan[w] \notin lost => disk[ws[w]] = "whole"
    /\ output # None /\ lost = {} => disk[output] = "whole"

(* One plan per artifact, while no terminal save has failed.               *)
OnePlan == lost = {} => \A p, q \in Plans : p # q /\ bound[p] # None => bound[p] # bound[q]

Recorded ==
    manifest # <<None, None>> =>
        manifest[1] \in Plans /\ manifest[2] = output /\ stage[manifest[1]] = "completed"

JobInv ==
    /\ JobTypeOK /\ Leases /\ Holds /\ Progress /\ Bindings
    /\ Apart /\ Promoted /\ Written /\ Finished /\ OnePlan /\ Recorded


(* A process takes the flock of its plan.                                  *)
LEMMA AcquireKeeps ==
    ASSUME JobInv, NEW w \in Workers, NEW p \in Plans, Acquire(w, p)
    PROVE  JobInv'
<1> USE JobAssumption DEF JobInv, JobTypeOK, Places, Stages, Resting, HasWorkspace,
      Acquire, Goto, At, diskVars
<1>1. JobTypeOK'  BY DEF Contents, Holds, Leases, Bindings
<1>2. Leases'  BY DEF Leases
<1>3. Holds'  BY DEF Holds, Leases, Bindings, Progress, Promoted
<1>4. Progress'  BY DEF Progress, Leases, Holds, Bindings, Apart, OnDisk
<1>5. Bindings'  BY DEF Bindings, Leases, Holds, Progress, Promoted
<1>6. Apart'  BY DEF Apart, Leases, Holds, Progress, Bindings, Promoted
<1>7. Promoted'  BY DEF Promoted, Leases, Holds, Progress, Bindings, Apart
<1>8. Written'  BY DEF Written, Leases, Holds, Progress, Bindings, Promoted, Apart
<1>9. Finished'  BY DEF Finished, Leases, Holds, Progress, Bindings, Promoted, Apart, Written
<1>10. OnePlan'  BY DEF OnePlan, Leases, Holds, Progress, Bindings, Promoted, Apart,
      Finished, OnDisk
<1>11. Recorded'  BY DEF Recorded, Leases, Holds, Progress, Bindings, Promoted
<1> QED  BY <1>1, <1>2, <1>3, <1>4, <1>5, <1>6, <1>7, <1>8, <1>9, <1>10, <1>11

(* The checkpoint is read and the way to resume decided.                   *)
LEMMA LoadKeeps ==
    ASSUME JobInv, NEW w \in Workers, Load(w)
    PROVE  JobInv'
<1> USE JobAssumption DEF JobInv, JobTypeOK, Places, Stages, Resting, HasWorkspace, Load,
      Goto, At, Save, SaveRaises, Fault, Return, Release, Released, diskVars, DecideResume
<1>1. JobTypeOK'  BY DEF Contents, Holds, Leases, Bindings
<1>2. Leases'  BY DEF Leases
<1>3. Holds'  BY DEF Holds, Leases, Bindings, Progress, Promoted
<1>4. Progress'  BY DEF Progress, Leases, Holds, Bindings, Apart, OnDisk
<1>5. Bindings'  BY DEF Bindings, Leases, Holds, Progress, Promoted
<1>6. Apart'  BY DEF Apart, Leases, Holds, Progress, Bindings, Promoted
<1>7. Promoted'  BY DEF Promoted, Leases, Holds, Progress, Bindings, Apart
<1>8. Written'  BY DEF Written, Leases, Holds, Progress, Bindings, Promoted, Apart
<1>9. Finished'  BY DEF Finished, Leases, Holds, Progress, Bindings, Promoted, Apart, Written
<1>10. OnePlan'  BY DEF OnePlan, Leases, Holds, Progress, Bindings, Promoted, Apart,
      Finished, OnDisk
<1>11. Recorded'  BY DEF Recorded, Leases, Holds, Progress, Bindings, Promoted
<1> QED  BY <1>1, <1>2, <1>3, <1>4, <1>5, <1>6, <1>7, <1>8, <1>9, <1>10, <1>11

(* An artifact that was promoted before the crash is recognised.           *)
LEMMA ReconcileKeeps ==
    ASSUME JobInv, NEW w \in Workers, Reconcile(w)
    PROVE  JobInv'
<1> USE JobAssumption DEF JobInv, JobTypeOK, Places, Stages, Resting, HasWorkspace,
      Reconcile, Goto, At, Save, SaveRaises, Fault, Return, Release, Released
<1>1. JobTypeOK'  BY DEF Contents, Holds, Leases, Bindings
<1>2. Leases'  BY DEF Leases
<1>3. Holds'  BY DEF Holds, Leases, Bindings, Progress, Promoted
<1>4. Progress'  BY DEF Progress, Leases, Holds, Bindings, Apart, OnDisk
<1>5. Bindings'  BY DEF Bindings, Leases, Holds, Progress, Promoted
<1>6. Apart'  BY DEF Apart, Leases, Holds, Progress, Bindings, Promoted
<1>7. Promoted'  BY DEF Promoted, Leases, Holds, Progress, Bindings, Apart
<1>8. Written'  BY DEF Written, Leases, Holds, Progress, Bindings, Promoted, Apart
<1>9. Finished'  BY DEF Finished, Leases, Holds, Progress, Bindings, Promoted, Apart, Written
<1>10. OnePlan'  BY DEF OnePlan, Leases, Holds, Progress, Bindings, Promoted, Apart,
      Finished, OnDisk
<1>11. Recorded'  BY DEF Recorded, Leases, Holds, Progress, Bindings, Promoted
<1> QED  BY <1>1, <1>2, <1>3, <1>4, <1>5, <1>6, <1>7, <1>8, <1>9, <1>10, <1>11

(* Enter, with the directory name mkdtemp returns as any unused one.       *)
EnterTakes(w) ==
    /\ At(w, "enter")
    /\ \/ output # None /\ Release(w) /\ UNCHANGED disk
       \/ /\ output = None
          /\ \/ ws[w] # None /\ UNCHANGED <<ws, disk>>
             \/ /\ ws[w] = None
                /\ \E s \in Workspaces :
                      /\ Unused(s)
                      /\ ws' = [ws EXCEPT ![w] = s]
                      /\ disk' = [disk EXCEPT ![s] = "rejected"]
          /\ Goto(w, "begin")
          /\ UNCHANGED <<lease, plan, verdict>>
    /\ UNCHANGED <<stage, bound, writing, output, lock, manifest, faults, lost>>

LEMMA EnterPicks ==
    ASSUME NEW w \in Workers, Enter(w)
    PROVE  EnterTakes(w)
<1> DEFINE s == CHOOSE t \in Workspaces : Unused(t)
<1>1. ASSUME \E t \in Workspaces : Unused(t)
      PROVE  s \in Workspaces /\ Unused(s)
    BY <1>1, Zenon
<1> HIDE DEF s
<1>2. \/ output # None /\ Release(w) /\ UNCHANGED disk
      \/ /\ output = None /\ Goto(w, "begin") /\ UNCHANGED <<lease, plan, verdict>>
         /\ \/ ws[w] # None /\ UNCHANGED <<ws, disk>>
            \/ /\ ws[w] = None
               /\ \E t \in Workspaces : Unused(t)
               /\ ws' = [ws EXCEPT ![w] = s]
               /\ disk' = [disk EXCEPT ![s] = "rejected"]
    BY Zenon DEF Enter, s
<1> QED  BY <1>1, <1>2 DEF Enter, EnterTakes


(* The workspace of a transaction is created or taken over.                *)
LEMMA EnterKeeps ==
    ASSUME JobInv, NEW w \in Workers, Enter(w)
    PROVE  JobInv'
<1>0. EnterTakes(w)  BY EnterPicks
<1> USE JobAssumption DEF JobInv, JobTypeOK, Places, Stages, Resting, HasWorkspace,
      EnterTakes, Goto, At, Unused, Release, Released
<1>1. JobTypeOK'  BY <1>0 DEF Contents, Holds, Leases, Bindings
<1>2. Leases'  BY <1>0 DEF Leases
<1>3. Holds'  BY <1>0 DEF Holds, Leases, Bindings, Progress, Promoted
<1>4. Progress'  BY <1>0 DEF Progress, Leases, Holds, Bindings, Apart, OnDisk
<1>5. Bindings'  BY <1>0 DEF Bindings, Leases, Holds, Progress, Promoted
<1>6. Apart'  BY <1>0 DEF Apart, Leases, Holds, Progress, Bindings, Promoted
<1>7. Promoted'  BY <1>0 DEF Promoted, Leases, Holds, Progress, Bindings, Apart
<1>8. Written'  BY <1>0 DEF Written, Leases, Holds, Progress, Bindings, Promoted, Apart
<1>9. Finished'  BY <1>0 DEF Finished, Leases, Holds, Progress, Bindings, Promoted, Apart,
      Written
<1>10. OnePlan'  BY <1>0 DEF OnePlan, Leases, Holds, Progress, Bindings, Promoted, Apart,
      Finished, OnDisk
<1>11. Recorded'  BY <1>0 DEF Recorded, Leases, Holds, Progress, Bindings, Promoted
<1> QED  BY <1>1, <1>2, <1>3, <1>4, <1>5, <1>6, <1>7, <1>8, <1>9, <1>10, <1>11

(* The conversion child is started, or skipped.                            *)
LEMMA BeginKeeps ==
    ASSUME JobInv, NEW w \in Workers, Begin(w)
    PROVE  JobInv'
<1> USE JobAssumption DEF JobInv, JobTypeOK, Places, Stages, Resting, HasWorkspace, Begin,
      Goto, At, Fault, Ends, Resumed
<1>1. JobTypeOK'  BY DEF Contents, Holds, Leases, Bindings
<1>2. Leases'  BY DEF Leases
<1>3. Holds'  BY DEF Holds, Leases, Bindings, Progress, Promoted
<1>4. Progress'  BY DEF Progress, Leases, Holds, Bindings, Apart, OnDisk
<1>5. Bindings'  BY DEF Bindings, Leases, Holds, Progress, Promoted
<1>6. Apart'  BY DEF Apart, Leases, Holds, Progress, Bindings, Promoted
<1>7. Promoted'  BY DEF Promoted, Leases, Holds, Progress, Bindings, Apart
<1>8. Written'  BY DEF Written, Leases, Holds, Progress, Bindings, Promoted, Apart
<1>9. Finished'  BY DEF Finished, Leases, Holds, Progress, Bindings, Promoted, Apart, Written
<1>10. OnePlan'  BY DEF OnePlan, Leases, Holds, Progress, Bindings, Promoted, Apart,
      Finished, OnDisk
<1>11. Recorded'  BY DEF Recorded, Leases, Holds, Progress, Bindings, Promoted
<1> QED  BY <1>1, <1>2, <1>3, <1>4, <1>5, <1>6, <1>7, <1>8, <1>9, <1>10, <1>11

(* The child ends.                                                         *)
LEMMA ConvertKeeps ==
    ASSUME JobInv, NEW w \in Workers, Convert(w)
    PROVE  JobInv'
<1> USE JobAssumption DEF JobInv, JobTypeOK, Places, Stages, Resting, HasWorkspace,
      Convert, Goto, At, Fault, Ends
<1>1. JobTypeOK'  BY DEF Contents, Holds, Leases, Bindings
<1>2. Leases'  BY DEF Leases
<1>3. Holds'  BY DEF Holds, Leases, Bindings, Progress, Promoted
<1>4. Progress'  BY DEF Progress, Leases, Holds, Bindings, Apart, OnDisk
<1>5. Bindings'  BY DEF Bindings, Leases, Holds, Progress, Promoted
<1>6. Apart'  BY DEF Apart, Leases, Holds, Progress, Bindings, Promoted
<1>7. Promoted'  BY DEF Promoted, Leases, Holds, Progress, Bindings, Apart
<1>8. Written'  BY DEF Written, Leases, Holds, Progress, Bindings, Promoted, Apart
<1>9. Finished'  BY DEF Finished, Leases, Holds, Progress, Bindings, Promoted, Apart, Written
<1>10. OnePlan'  BY DEF OnePlan, Leases, Holds, Progress, Bindings, Promoted, Apart,
      Finished, OnDisk
<1>11. Recorded'  BY DEF Recorded, Leases, Holds, Progress, Bindings, Promoted
<1> QED  BY <1>1, <1>2, <1>3, <1>4, <1>5, <1>6, <1>7, <1>8, <1>9, <1>10, <1>11

(* The converted checkpoint is saved, or its save raises.                  *)
LEMMA SaveConvertedKeeps ==
    ASSUME JobInv, NEW w \in Workers, SaveConverted(w)
    PROVE  JobInv'
<1> USE JobAssumption DEF JobInv, JobTypeOK, Places, Stages, Resting, HasWorkspace,
      SaveConverted, Goto, At, Save, SaveRaises, Fault, NoteLost
<1>1. JobTypeOK'  BY DEF Contents, Holds, Leases, Bindings
<1>2. Leases'  BY DEF Leases
<1>3. Holds'  BY DEF Holds, Leases, Bindings, Progress, Promoted
<1>4. Progress'  BY DEF Progress, Leases, Holds, Bindings, Apart, OnDisk
<1>5. Bindings'  BY DEF Bindings, Leases, Holds, Progress, Promoted
<1>6. Apart'  BY DEF Apart, Leases, Holds, Progress, Bindings, Promoted
<1>7. Promoted'  BY DEF Promoted, Leases, Holds, Progress, Bindings, Apart
<1>8. Written'  BY DEF Written, Leases, Holds, Progress, Bindings, Promoted, Apart
<1>9. Finished'  BY DEF Finished, Leases, Holds, Progress, Bindings, Promoted, Apart, Written
<1>10. OnePlan'  BY DEF OnePlan, Leases, Holds, Progress, Bindings, Promoted, Apart,
      Finished, OnDisk
<1>11. Recorded'  BY DEF Recorded, Leases, Holds, Progress, Bindings, Promoted
<1> QED  BY <1>1, <1>2, <1>3, <1>4, <1>5, <1>6, <1>7, <1>8, <1>9, <1>10, <1>11

(* A cancellation after the conversion.                                    *)
LEMMA CheckCancelKeeps ==
    ASSUME JobInv, NEW w \in Workers, CheckCancel(w)
    PROVE  JobInv'
<1> USE JobAssumption DEF JobInv, JobTypeOK, Places, Stages, Resting, HasWorkspace,
      CheckCancel, Goto, At, Fault, Ends, diskVars
<1>1. JobTypeOK'  BY DEF Contents, Holds, Leases, Bindings
<1>2. Leases'  BY DEF Leases
<1>3. Holds'  BY DEF Holds, Leases, Bindings, Progress, Promoted
<1>4. Progress'  BY DEF Progress, Leases, Holds, Bindings, Apart, OnDisk
<1>5. Bindings'  BY DEF Bindings, Leases, Holds, Progress, Promoted
<1>6. Apart'  BY DEF Apart, Leases, Holds, Progress, Bindings, Promoted
<1>7. Promoted'  BY DEF Promoted, Leases, Holds, Progress, Bindings, Apart
<1>8. Written'  BY DEF Written, Leases, Holds, Progress, Bindings, Promoted, Apart
<1>9. Finished'  BY DEF Finished, Leases, Holds, Progress, Bindings, Promoted, Apart, Written
<1>10. OnePlan'  BY DEF OnePlan, Leases, Holds, Progress, Bindings, Promoted, Apart,
      Finished, OnDisk
<1>11. Recorded'  BY DEF Recorded, Leases, Holds, Progress, Bindings, Promoted
<1> QED  BY <1>1, <1>2, <1>3, <1>4, <1>5, <1>6, <1>7, <1>8, <1>9, <1>10, <1>11

(* The tree is validated.                                                  *)
LEMMA ValidateKeeps ==
    ASSUME JobInv, NEW w \in Workers, Validate(w)
    PROVE  JobInv'
<1> USE JobAssumption DEF JobInv, JobTypeOK, Places, Stages, Resting, HasWorkspace,
      Validate, Goto, At, Ends, diskVars
<1>1. JobTypeOK'  BY DEF Contents, Holds, Leases, Bindings
<1>2. Leases'  BY DEF Leases
<1>3. Holds'  BY DEF Holds, Leases, Bindings, Progress, Promoted
<1>4. Progress'  BY DEF Progress, Leases, Holds, Bindings, Apart, OnDisk
<1>5. Bindings'  BY DEF Bindings, Leases, Holds, Progress, Promoted
<1>6. Apart'  BY DEF Apart, Leases, Holds, Progress, Bindings, Promoted
<1>7. Promoted'  BY DEF Promoted, Leases, Holds, Progress, Bindings, Apart
<1>8. Written'  BY DEF Written, Leases, Holds, Progress, Bindings, Promoted, Apart
<1>9. Finished'  BY DEF Finished, Leases, Holds, Progress, Bindings, Promoted, Apart, Written
<1>10. OnePlan'  BY DEF OnePlan, Leases, Holds, Progress, Bindings, Promoted, Apart,
      Finished, OnDisk
<1>11. Recorded'  BY DEF Recorded, Leases, Holds, Progress, Bindings, Promoted
<1> QED  BY <1>1, <1>2, <1>3, <1>4, <1>5, <1>6, <1>7, <1>8, <1>9, <1>10, <1>11

(* The promotion lock is created, or found.                                *)
LEMMA LockKeeps ==
    ASSUME JobInv, NEW w \in Workers, Lock(w)
    PROVE  JobInv'
<1> USE JobAssumption DEF JobInv, JobTypeOK, Places, Stages, Resting, HasWorkspace, Lock,
      Goto, At, Ends
<1>1. JobTypeOK'  BY DEF Contents, Holds, Leases, Bindings
<1>2. Leases'  BY DEF Leases
<1>3. Holds'  BY DEF Holds, Leases, Bindings, Progress, Promoted
<1>4. Progress'  BY DEF Progress, Leases, Holds, Bindings, Apart, OnDisk
<1>5. Bindings'  BY DEF Bindings, Leases, Holds, Progress, Promoted
<1>6. Apart'  BY DEF Apart, Leases, Holds, Progress, Bindings, Promoted
<1>7. Promoted'  BY DEF Promoted, Leases, Holds, Progress, Bindings, Apart
<1>8. Written'  BY DEF Written, Leases, Holds, Progress, Bindings, Promoted, Apart
<1>9. Finished'  BY DEF Finished, Leases, Holds, Progress, Bindings, Promoted, Apart, Written
<1>10. OnePlan'  BY DEF OnePlan, Leases, Holds, Progress, Bindings, Promoted, Apart,
      Finished, OnDisk
<1>11. Recorded'  BY DEF Recorded, Leases, Holds, Progress, Bindings, Promoted
<1> QED  BY <1>1, <1>2, <1>3, <1>4, <1>5, <1>6, <1>7, <1>8, <1>9, <1>10, <1>11

(* The workspace becomes the output.                                       *)
LEMMA RenameKeeps ==
    ASSUME JobInv, NEW w \in Workers, Rename(w)
    PROVE  JobInv'
<1> USE JobAssumption DEF JobInv, JobTypeOK, Places, Stages, Resting, HasWorkspace,
      Rename, Goto, At
<1>1. JobTypeOK'  BY DEF Contents, Holds, Leases, Bindings
<1>2. Leases'  BY DEF Leases
<1>3. Holds'  BY DEF Holds, Leases, Bindings, Progress, Promoted
<1>4. Progress'  BY DEF Progress, Leases, Holds, Bindings, Apart, OnDisk
<1>5. Bindings'  BY DEF Bindings, Leases, Holds, Progress, Promoted
<1>6. Apart'  BY DEF Apart, Leases, Holds, Progress, Bindings, Promoted
<1>7. Promoted'  BY DEF Promoted, Leases, Holds, Progress, Bindings, Apart
<1>8. Written'  BY DEF Written, Leases, Holds, Progress, Bindings, Promoted, Apart
<1>9. Finished'  BY DEF Finished, Leases, Holds, Progress, Bindings, Promoted, Apart, Written
<1>10. OnePlan'  BY DEF OnePlan, Leases, Holds, Progress, Bindings, Promoted, Apart,
      Finished, OnDisk
<1>11. Recorded'  BY DEF Recorded, Leases, Holds, Progress, Bindings, Promoted
<1> QED  BY <1>1, <1>2, <1>3, <1>4, <1>5, <1>6, <1>7, <1>8, <1>9, <1>10, <1>11

(* The promotion lock is removed.                                          *)
LEMMA UnlockKeeps ==
    ASSUME JobInv, NEW w \in Workers, Unlock(w)
    PROVE  JobInv'
<1> USE JobAssumption DEF JobInv, JobTypeOK, Places, Stages, Resting, HasWorkspace,
      Unlock, Goto, At, Fault, Ends
<1>1. JobTypeOK'  BY DEF Contents, Holds, Leases, Bindings
<1>2. Leases'  BY DEF Leases
<1>3. Holds'  BY DEF Holds, Leases, Bindings, Progress, Promoted
<1>4. Progress'  BY DEF Progress, Leases, Holds, Bindings, Apart, OnDisk
<1>5. Bindings'  BY DEF Bindings, Leases, Holds, Progress, Promoted
<1>6. Apart'  BY DEF Apart, Leases, Holds, Progress, Bindings, Promoted
<1>7. Promoted'  BY DEF Promoted, Leases, Holds, Progress, Bindings, Apart
<1>8. Written'  BY DEF Written, Leases, Holds, Progress, Bindings, Promoted, Apart
<1>9. Finished'  BY DEF Finished, Leases, Holds, Progress, Bindings, Promoted, Apart, Written
<1>10. OnePlan'  BY DEF OnePlan, Leases, Holds, Progress, Bindings, Promoted, Apart,
      Finished, OnDisk
<1>11. Recorded'  BY DEF Recorded, Leases, Holds, Progress, Bindings, Promoted
<1> QED  BY <1>1, <1>2, <1>3, <1>4, <1>5, <1>6, <1>7, <1>8, <1>9, <1>10, <1>11

(* The completed checkpoint is saved.                                      *)
LEMMA CompleteKeeps ==
    ASSUME JobInv, NEW w \in Workers, Complete(w)
    PROVE  JobInv'
<1> USE JobAssumption DEF JobInv, JobTypeOK, Places, Stages, Resting, HasWorkspace,
      Complete, Goto, At, Save, SaveRaises, Fault, Return, Release, Released
<1>1. JobTypeOK'  BY DEF Contents, Holds, Leases, Bindings
<1>2. Leases'  BY DEF Leases
<1>3. Holds'  BY DEF Holds, Leases, Bindings, Progress, Promoted
<1>4. Progress'  BY DEF Progress, Leases, Holds, Bindings, Apart, OnDisk
<1>5. Bindings'  BY DEF Bindings, Leases, Holds, Progress, Promoted
<1>6. Apart'  BY DEF Apart, Leases, Holds, Progress, Bindings, Promoted
<1>7. Promoted'  BY DEF Promoted, Leases, Holds, Progress, Bindings, Apart
<1>8. Written'  BY DEF Written, Leases, Holds, Progress, Bindings, Promoted, Apart
<1>9. Finished'  BY DEF Finished, Leases, Holds, Progress, Bindings, Promoted, Apart, Written
<1>10. OnePlan'  BY DEF OnePlan, Leases, Holds, Progress, Bindings, Promoted, Apart,
      Finished, OnDisk
<1>11. Recorded'  BY DEF Recorded, Leases, Holds, Progress, Bindings, Promoted
<1> QED  BY <1>1, <1>2, <1>3, <1>4, <1>5, <1>6, <1>7, <1>8, <1>9, <1>10, <1>11

(* A failed or cancelled checkpoint is saved, or its save raises.          *)
LEMMA TerminalKeeps ==
    ASSUME JobInv, NEW w \in Workers, Terminal(w)
    PROVE  JobInv'
<1> USE JobAssumption DEF JobInv, JobTypeOK, Places, Stages, Resting, HasWorkspace,
      Terminal, Goto, At, Save, SaveRaises, Fault, NoteLost
<1>1. JobTypeOK'  BY DEF Contents, Holds, Leases, Bindings
<1>2. Leases'  BY DEF Leases
<1>3. Holds'  BY DEF Holds, Leases, Bindings, Progress, Promoted
<1>4. Progress'  BY DEF Progress, Leases, Holds, Bindings, Apart, OnDisk
<1>5. Bindings'  BY DEF Bindings, Leases, Holds, Progress, Promoted
<1>6. Apart'  BY DEF Apart, Leases, Holds, Progress, Bindings, Promoted
<1>7. Promoted'  BY DEF Promoted, Leases, Holds, Progress, Bindings, Apart
<1>8. Written'  BY DEF Written, Leases, Holds, Progress, Bindings, Promoted, Apart
<1>9. Finished'  BY DEF Finished, Leases, Holds, Progress, Bindings, Promoted, Apart, Written
<1>10. OnePlan'  BY DEF OnePlan, Leases, Holds, Progress, Bindings, Promoted, Apart,
      Finished, OnDisk
<1>11. Recorded'  BY DEF Recorded, Leases, Holds, Progress, Bindings, Promoted
<1> QED  BY <1>1, <1>2, <1>3, <1>4, <1>5, <1>6, <1>7, <1>8, <1>9, <1>10, <1>11

(* The workspace is removed.                                               *)
LEMMA CleanupKeeps ==
    ASSUME JobInv, NEW w \in Workers, Cleanup(w)
    PROVE  JobInv'
<1> USE JobAssumption DEF JobInv, JobTypeOK, Places, Stages, Resting, HasWorkspace,
      Cleanup, Goto, At, Removed, Release, Released
<1>1. JobTypeOK'  BY DEF Contents, Holds, Leases, Bindings
<1>2. Leases'  BY DEF Leases
<1>3. Holds'  BY DEF Holds, Leases, Bindings, Progress, Promoted
<1>4. Progress'  BY DEF Progress, Leases, Holds, Bindings, Apart, OnDisk
<1>5. Bindings'  BY DEF Bindings, Leases, Holds, Progress, Promoted
<1>6. Apart'  BY DEF Apart, Leases, Holds, Progress, Bindings, Promoted
<1>7. Promoted'  BY DEF Promoted, Leases, Holds, Progress, Bindings, Apart
<1>8. Written'  BY DEF Written, Leases, Holds, Progress, Bindings, Promoted, Apart
<1>9. Finished'  BY DEF Finished, Leases, Holds, Progress, Bindings, Promoted, Apart, Written
<1>10. OnePlan'  BY DEF OnePlan, Leases, Holds, Progress, Bindings, Promoted, Apart,
      Finished, OnDisk
<1>11. Recorded'  BY DEF Recorded, Leases, Holds, Progress, Bindings, Promoted
<1> QED  BY <1>1, <1>2, <1>3, <1>4, <1>5, <1>6, <1>7, <1>8, <1>9, <1>10, <1>11

(* The sidecar manifest is written.                                        *)
LEMMA PersistManifestKeeps ==
    ASSUME JobInv, NEW w \in Workers, PersistManifest(w)
    PROVE  JobInv'
<1> USE JobAssumption DEF JobInv, JobTypeOK, Places, Stages, Resting, HasWorkspace,
      PersistManifest, Goto, At, Release, Released
<1>1. JobTypeOK'  BY DEF Contents, Holds, Leases, Bindings
<1>2. Leases'  BY DEF Leases
<1>3. Holds'  BY DEF Holds, Leases, Bindings, Progress, Promoted
<1>4. Progress'  BY DEF Progress, Leases, Holds, Bindings, Apart, OnDisk
<1>5. Bindings'  BY DEF Bindings, Leases, Holds, Progress, Promoted
<1>6. Apart'  BY DEF Apart, Leases, Holds, Progress, Bindings, Promoted
<1>7. Promoted'  BY DEF Promoted, Leases, Holds, Progress, Bindings, Apart
<1>8. Written'  BY DEF Written, Leases, Holds, Progress, Bindings, Promoted, Apart
<1>9. Finished'  BY DEF Finished, Leases, Holds, Progress, Bindings, Promoted, Apart, Written
<1>10. OnePlan'  BY DEF OnePlan, Leases, Holds, Progress, Bindings, Promoted, Apart,
      Finished, OnDisk
<1>11. Recorded'  BY DEF Recorded, Leases, Holds, Progress, Bindings, Promoted
<1> QED  BY <1>1, <1>2, <1>3, <1>4, <1>5, <1>6, <1>7, <1>8, <1>9, <1>10, <1>11

(* A process dies.                                                         *)
LEMMA CrashKeeps ==
    ASSUME JobInv, NEW w \in Workers, Crash(w)
    PROVE  JobInv'
<1> USE JobAssumption DEF JobInv, JobTypeOK, Places, Stages, Resting, HasWorkspace, Crash,
      Goto, At, Fault, Release, Released
<1>1. JobTypeOK'  BY DEF Contents, Holds, Leases, Bindings
<1>2. Leases'  BY DEF Leases
<1>3. Holds'  BY DEF Holds, Leases, Bindings, Progress, Promoted
<1>4. Progress'  BY DEF Progress, Leases, Holds, Bindings, Apart, OnDisk
<1>5. Bindings'  BY DEF Bindings, Leases, Holds, Progress, Promoted
<1>6. Apart'  BY DEF Apart, Leases, Holds, Progress, Bindings, Promoted
<1>7. Promoted'  BY DEF Promoted, Leases, Holds, Progress, Bindings, Apart
<1>8. Written'  BY DEF Written, Leases, Holds, Progress, Bindings, Promoted, Apart
<1>9. Finished'  BY DEF Finished, Leases, Holds, Progress, Bindings, Promoted, Apart, Written
<1>10. OnePlan'  BY DEF OnePlan, Leases, Holds, Progress, Bindings, Promoted, Apart,
      Finished, OnDisk
<1>11. Recorded'  BY DEF Recorded, Leases, Holds, Progress, Bindings, Promoted
<1> QED  BY <1>1, <1>2, <1>3, <1>4, <1>5, <1>6, <1>7, <1>8, <1>9, <1>10, <1>11

(* The child of a dead process ends.                                       *)
LEMMA OrphanEndsKeeps ==
    ASSUME JobInv, NEW s \in Workspaces, OrphanEnds(s)
    PROVE  JobInv'
<1> USE JobAssumption DEF JobInv, JobTypeOK, Places, Stages, Resting, HasWorkspace,
      OrphanEnds, workerVars
<1>1. JobTypeOK'  BY DEF Contents, Holds, Leases, Bindings
<1>2. Leases'  BY DEF Leases
<1>3. Holds'  BY DEF Holds, Leases, Bindings, Progress, Promoted
<1>4. Progress'  BY DEF Progress, Leases, Holds, Bindings, Apart, OnDisk
<1>5. Bindings'  BY DEF Bindings, Leases, Holds, Progress, Promoted
<1>6. Apart'  BY DEF Apart, Leases, Holds, Progress, Bindings, Promoted
<1>7. Promoted'  BY DEF Promoted, Leases, Holds, Progress, Bindings, Apart
<1>8. Written'  BY DEF Written, Leases, Holds, Progress, Bindings, Promoted, Apart
<1>9. Finished'  BY DEF Finished, Leases, Holds, Progress, Bindings, Promoted, Apart, Written
<1>10. OnePlan'  BY DEF OnePlan, Leases, Holds, Progress, Bindings, Promoted, Apart,
      Finished, OnDisk
<1>11. Recorded'  BY DEF Recorded, Leases, Holds, Progress, Bindings, Promoted
<1> QED  BY <1>1, <1>2, <1>3, <1>4, <1>5, <1>6, <1>7, <1>8, <1>9, <1>10, <1>11

-----------------------------------------------------------------------------
(* Steps that change nothing keep the invariant.                           *)
LEMMA StutterKeeps ==
    ASSUME JobInv, UNCHANGED jobVars
    PROVE  JobInv'
BY DEF JobInv, JobTypeOK, Leases, Holds, Progress, Bindings, Apart, Promoted, Written,
       Finished, OnePlan, Recorded, OnDisk, jobVars, diskVars, workerVars

(* No process has started.                                                 *)
LEMMA StartHolds ==
    ASSUME JobInit
    PROVE  JobInv
BY JobAssumption DEF JobInit, JobInv, JobTypeOK, Leases, Holds, Progress, Bindings, Apart,
       Promoted, Written, Finished, OnePlan, Recorded, Places, Stages, Contents, Resting,
       HasWorkspace

(* Every step of a process, of its child and every crash keeps it.         *)
LEMMA NextKeeps ==
    ASSUME JobInv, [JobNext]_jobVars
    PROVE  JobInv'
<1>1. ASSUME NEW w \in Workers, WorkerStep(w)
      PROVE  JobInv'
    BY <1>1, LoadKeeps, ReconcileKeeps, EnterKeeps, BeginKeeps, ConvertKeeps,
       SaveConvertedKeeps, CheckCancelKeeps, ValidateKeeps, LockKeeps, RenameKeeps,
       UnlockKeeps, CompleteKeeps, TerminalKeeps, CleanupKeeps, PersistManifestKeeps
    DEF WorkerStep
<1>2. ASSUME NEW w \in Workers, NEW p \in Plans, Acquire(w, p)
      PROVE  JobInv'
    BY <1>2, AcquireKeeps
<1>3. ASSUME NEW w \in Workers, Crash(w)
      PROVE  JobInv'
    BY <1>3, CrashKeeps
<1>4. ASSUME NEW s \in Workspaces, OrphanEnds(s)
      PROVE  JobInv'
    BY <1>4, OrphanEndsKeeps
<1>5. CASE UNCHANGED jobVars
    BY <1>5, StutterKeeps
<1> QED  BY <1>1, <1>2, <1>3, <1>4, <1>5 DEF JobNext

(* The inductive invariant of the conversion jobs holds in every state,    *)
(* for any number of processes, plans, workspaces and faults.              *)
THEOREM JobSafety == JobSpec => []JobInv
<1>1. JobInit => JobInv
    BY StartHolds
<1>2. JobInv /\ [JobNext]_jobVars => JobInv'
    BY NextKeeps
<1> QED  BY <1>1, <1>2, PTL DEF JobSpec

(* Whatever crashes, fails or runs at the same time, only a finished       *)
(* conversion is published and no conversion child writes into it.         *)
THEOREM JobPublishesWhole == JobSpec => []PublishedIsWhole
<1>1. JobInv => PublishedIsWhole
    BY DEF JobInv, Finished, Written, PublishedIsWhole
<1> QED  BY <1>1, JobSafety, PTL

(* A completed checkpoint and the manifest tell the truth about the        *)
(* artifact at the output path.                                            *)
THEOREM JobCompletesPublished == JobSpec => []CompletedIsPublished
<1>1. JobInv => CompletedIsPublished
    BY JobAssumption DEF JobInv, Bindings, Recorded, CompletedIsPublished
<1> QED  BY <1>1, JobSafety, PTL

(* Of the plans that share an output at most one completes, unless a       *)
(* checkpoint save failed.                                                 *)
THEOREM JobOnePlanCompletes == JobSpec => []OnePlanCompletes
<1>1. JobInv => OnePlanCompletes
    BY JobAssumption DEF JobInv, Bindings, OnePlan, OnePlanCompletes
<1> QED  BY <1>1, JobSafety, PTL

(* A converted checkpoint can be resumed: its workspace exists, or is the  *)
(* output already.                                                         *)
THEOREM JobResumable == JobSpec => []ConvertedIsResumable
<1>1. JobInv => ConvertedIsResumable
    BY JobAssumption DEF JobInv, Bindings, Finished, ConvertedIsResumable, OnDisk
<1> QED  BY <1>1, JobSafety, PTL

(* No step replaces or removes the artifact at the output path.            *)
THEOREM JobKeepsOutput == JobSpec => OutputImmutable
<1>1. ASSUME NEW w \in Workers, WorkerStep(w)
      PROVE  output # None => output' = output
    BY <1>1 DEF WorkerStep, Load, Reconcile, Enter, Begin, Convert, SaveConverted, CheckCancel,
       Validate, Lock, Rename, Unlock, Complete, Terminal, Cleanup, PersistManifest, diskVars
<1>2. [JobNext]_jobVars => [output # None => output' = output]_output
    BY <1>1 DEF JobNext, Acquire, Crash, OrphanEnds, jobVars, diskVars
<1> QED  BY <1>2, PTL DEF JobSpec, OutputImmutable
=============================================================================
