----------------------------- MODULE MCSubmission -----------------------------
(* Instances of the submission scheduler for TLC.  Only one GPU queue and  *)
(* two units of memory: commands compete, are refused, stolen and restored.*)
EXTENDS Submission, TLC

CONSTANTS cpu, mlx, t1, t2

MCGPUs == {mlx}
MCCapacity == [memory |-> 2, cpu |-> 2, gpu |-> 1, ane |-> 0, bandwidth |-> 3]
MCBytes == [j \in Jobs |-> 1]
MCBatch == [j \in Jobs |-> IF j = t1 THEN 2 ELSE 1]
MCPhase == [j \in Jobs |-> "decode"]
MCRank == [t \in Tokens |-> IF t = t1 THEN 2 ELSE 1]
MCChain == [j \in Jobs |-> <<mlx, cpu>>]
MCStages == [p \in Pipelines |-> {}]
MCPlanBatch == [p \in Plans |-> [prefill |-> 1, decode |-> 1]]
MCPlacedOn == [p \in Placements |-> [j \in Jobs |-> None]]
MCDispatchers == {{mlx}}
=============================================================================
