------------------------------ MODULE MCWorker ------------------------------
(***************************************************************************)
(* The worker process's own machinery: its life cycle and its error sink,  *)
(* each explored while the other rests.                                    *)
(***************************************************************************)
EXTENDS Lifecycle, ErrorSink

LifecycleRests == LifecycleInit /\ lConf = {} /\ lHolding = {} /\ lLeverage = [p \in Pairs |-> TRUE]

WorkerInit == LifecycleInit /\ SinkInit

(* A step of one part while the other rests.                               *)
WorkerNext ==
    \/ LifecycleNext /\ SinkInit /\ UNCHANGED sVars
    \/ SinkNext /\ LifecycleRests /\ UNCHANGED lVars

(* Every await of start(), the shutdown and the flusher ends; signals and  *)
(* log events are the environment's.                                       *)
WorkerSpec ==
    /\ WorkerInit
    /\ [][WorkerNext]_<<lVars, sVars>>
    /\ WF_<<lVars, sVars>>(LifecycleSteps /\ SinkInit /\ UNCHANGED sVars)
    /\ SinkFairness
=============================================================================
