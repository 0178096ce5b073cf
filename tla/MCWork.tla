------------------------------- MODULE MCWork -------------------------------
(* Model-checking instance of the background work: the process with its    *)
(* worker pool, the pool alone with jobs that keep coming and a context    *)
(* that may be cancelled, and the orchestrator.  An execution looks at one *)
(* of them: the state spaces add up instead of multiplying.                *)
EXTENDS Lifecycle, Orchestrator

-----------------------------------------------------------------------------

VARIABLE focus

allVars == <<focus, appVars, poolVars, orchVars>>

MCInit ==
  /\ focus \in {"process", "pool", "orchestrator"}
  /\ AppInit /\ OrchInit
  /\ focus # "process" => PoolInit

\* A step of one part: the rest is as it was.
ProcessPart ==
  /\ focus = "process" /\ AppNext
  /\ UNCHANGED <<focus, orchVars>>
PoolPart ==
  /\ focus = "pool" /\ PoolNext
  /\ UNCHANGED <<focus, appVars, orchVars>>
OrchestratorPart ==
  /\ focus = "orchestrator" /\ OrchNext
  /\ UNCHANGED <<focus, appVars, poolVars>>

MCNext == ProcessPart \/ PoolPart \/ OrchestratorPart

MCFairness ==
  \/ focus = "process" /\ AppFairness
  \/ focus = "pool" /\ PoolFairness
  \/ focus = "orchestrator" /\ OrchFairness

MCSpec == MCInit /\ [][MCNext]_allVars /\ MCFairness
=============================================================================
