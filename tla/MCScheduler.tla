------------------------------ MODULE MCScheduler ------------------------------
(* Instances of the scheduler for TLC.  Each configuration picks the       *)
(* processes and the control threads of one question; what a job asks for  *)
(* is fixed here.  Two jobs of one unit and the pipeline's two stages fill *)
(* the memory of three, so every capacity refusal is reached.              *)
EXTENDS BasicScheduler, TLC

CONSTANTS cpu, mlx, c1, c2, t1, t2, t3, plan1

MCGPUs == {mlx}
MCCapacity == [memory |-> 3, cpu |-> 2, gpu |-> 1, ane |-> 0, bandwidth |-> 3]
MCResIds == Jobs \cup UNION {StageIds(p) : p \in Pipelines}
MCBytes == [j \in Jobs |-> IF j \in {t2} THEN 2 ELSE 1]
MCBatch == [j \in Jobs |-> IF j \in {t1, c2} THEN 5 ELSE 1]
MCPhase == [j \in Jobs |-> IF j \in {c1, t1} THEN "decode" ELSE "auxiliary"]
MCRank == [t \in Tokens |-> IF t = t3 THEN 1 ELSE 2]
MCChain == [j \in Jobs |-> <<mlx, cpu>>]
MCStages == [p \in Pipelines |-> {cpu, mlx}]
MCPlanBatch == [p \in Plans |-> [prefill |-> 8, decode |-> IF p = plan1 THEN 1 ELSE 8]]
MCPlacedOn == [p \in Placements |-> [j \in Jobs |-> IF j = c1 THEN cpu ELSE None]]
MCDispatchers == {{mlx}}
MCDispatcherChoices == {{}, {mlx}}
=============================================================================
