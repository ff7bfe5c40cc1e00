----------------------------- MODULE MCDaemonRun -----------------------------
(***************************************************************************)
(* The goroutines of history-ragd: main.run with its watcher and handlers, *)
(* and Loop.Run, which the daemon does not start yet.  They share nothing, *)
(* so a behaviour follows one of them.                                     *)
(***************************************************************************)
EXTENDS DaemonRun, WatchLoop

VARIABLE part

allVars == <<runVars, loopVars, part>>

Init ==
    \/ part = "run" /\ RunInit /\ LoopInit
    \/ part = "loop" /\ RunInit /\ LoopInit /\ config = CHOOSE c \in Configs : TRUE

Next ==
    \/ part = "run" /\ RunNext /\ UNCHANGED <<loopVars, part>>
    \/ part = "loop" /\ LoopNext /\ UNCHANGED <<runVars, part>>

Spec == Init /\ [][Next]_allVars

(* The fairness of DaemonRun and of WatchLoop, each for its part           *)
FairSpec ==
    /\ Spec
    /\ WF_runVars(part = "run" /\ Down)
    /\ SF_runVars(part = "run" /\ CloseProducer) /\ SF_runVars(part = "run" /\ CloseRoots)
    /\ WF_runVars(part = "run" /\ Copying /\ (Upsert \/ Captured \/ SweepFails))
    /\ \A r \in Requests : SF_runVars(part = "run" /\ \E root \in Roots : Verify(r, root))
    /\ WF_loopVars(part = "loop" /\ Passes) /\ SF_loopVars(part = "loop" /\ Tick)
    /\ WF_loopVars(part = "loop" /\ \E p \in Paths : Dispatch(p))
=============================================================================
