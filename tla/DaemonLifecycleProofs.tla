------------------------ MODULE DaemonLifecycleProofs ------------------------
(***************************************************************************)
(* For any number of runs, any other processes and any reuse of PIDs: a    *)
(* run that replaces another comes up only when that one is dead.  The     *)
(* invariant adds what the argument rests on: a living run is one between  *)
(* launch and exit, records and targets name runs that have been launched  *)
(* (so they never come to life again), and the target is dead already      *)
(* when its record is retired.                                             *)
(***************************************************************************)
EXTENDS DaemonLifecycle, TLAPS

Launched ==
    /\ \A d \in Daemons : d \in alive <=> pc[d] \notin {"new", "done"}
    /\ record # None => pc[record] # "new"
    /\ \A d \in Daemons : target[d] # None => pc[target[d]] # "new"

RetiredIsDead ==
    \A d \in Daemons : pc[d] \in {"retire", "retireMove"} => target[d] \notin alive

Targeted ==
    \A d \in Daemons :
        /\ pc[d] \in {"new", "exists", "read"} => target[d] = None
        /\ pc[d] \in Preparing \ {"exists", "read"} => target[d] # None

IInv == TypeOK /\ ReplacedIsDead /\ Launched /\ RetiredIsDead /\ Targeted

(* Nothing runs and nothing is recorded when the first run is launched.    *)
LEMMA InitIInv == Init => IInv
  BY LifecycleAssumption DEF Init, IInv, TypeOK, ReplacedIsDead, Launched, RetiredIsDead,
     Targeted, Preparing, Prepared, Processes

(* The steps of Prepare.                                                   *)
LEMMA PrepareIInv ==
  ASSUME IInv, NEW d \in Daemons, Prepare(d)
  PROVE  IInv'
  <1> USE LifecycleAssumption DEF IInv, TypeOK, ReplacedIsDead, Launched, RetiredIsDead,
          Targeted, Preparing, Prepared, Processes
  <1>1. CASE RecordExists(d)
    BY <1>1 DEF RecordExists, Goto
  <1>2. CASE ReadRecord(d)
    BY <1>2 DEF ReadRecord, Goto, Exit
  <1>3. CASE Inspect(d)
    BY <1>3 DEF Inspect, Gone, Matches, Holders, Goto, Exit
  <1>4. CASE Terminate(d)
    BY <1>4 DEF Terminate, Gone, Holders, Goto, Signalled, Fell, Handling
  <1>5. CASE WaitTerm(d)
    BY <1>5 DEF WaitTerm, Gone, Matches, Holders, Goto, Exit
  <1>6. CASE Recheck(d)
    BY <1>6 DEF Recheck, Matches, Goto, Exit
  <1>7. CASE Kill(d)
    BY <1>7 DEF Kill, Gone, Holders, Goto, Exit, Signalled, Fell
  <1>8. CASE WaitKill(d)
    BY <1>8 DEF WaitKill, Gone, Holders, Goto, Exit
  <1>9. CASE Retire(d)
    BY <1>9 DEF Retire, Goto, Exit
  <1>10. CASE RetireMove(d)
    BY <1>10 DEF RetireMove, Goto, Exit
  <1> QED
    BY <1>1, <1>2, <1>3, <1>4, <1>5, <1>6, <1>7, <1>8, <1>9, <1>10, Zenon DEF Prepare

(* Launch, service and end of a run.                                       *)
LEMMA ServeIInv ==
  ASSUME IInv, NEW d \in Daemons, Launch(d) \/ Serve(d) \/ End(d)
  PROVE  IInv'
  <1> USE LifecycleAssumption DEF IInv, TypeOK, ReplacedIsDead, Launched, RetiredIsDead,
          Targeted, Preparing, Prepared, Processes
  <1>1. CASE Launch(d)
    BY <1>1 DEF Launch, Goto
  <1>2. CASE Construct(d)
    BY <1>2 DEF Construct, Goto
  <1>3. CASE WriteState(d)
    BY <1>3 DEF WriteState
  <1>4. CASE ScanDone(d)
    BY <1>4 DEF ScanDone, Goto
  <1>5. CASE Listen(d)
    BY <1>5 DEF Listen, Goto, Exit
  <1>6. CASE WriteRecord(d)
    BY <1>6 DEF WriteRecord, Goto, Exit
  <1>7. CASE Shutdown(d)
    BY <1>7 DEF Shutdown, Goto
  <1>8. CASE RemoveRecord(d)
    BY <1>8 DEF RemoveRecord, Goto
  <1>9. CASE RemoveMove(d)
    BY <1>9 DEF RemoveMove, Goto
  <1>10. CASE End(d)
    BY <1>10 DEF End, Goto, Exit
  <1> QED
    BY <1>1, <1>2, <1>3, <1>4, <1>5, <1>6, <1>7, <1>8, <1>9, <1>10, Zenon DEF Serve

(* No step takes the invariant away.                                       *)
LEMMA StepIInv == IInv /\ [Next]_vars => IInv'
  <1> SUFFICES ASSUME IInv, [Next]_vars PROVE IInv'
    OBVIOUS
  <1> USE LifecycleAssumption
  <1>1. ASSUME NEW d \in Daemons, Prepare(d) PROVE IInv'
    BY <1>1, PrepareIInv
  <1>2. ASSUME NEW d \in Daemons, Launch(d) \/ Serve(d) \/ End(d) PROVE IInv'
    BY <1>2, ServeIInv
  <1>3. ASSUME NEW s \in Strangers, SpawnStranger(s) \/ StrangerEnds(s) PROVE IInv'
    BY <1>3 DEF SpawnStranger, StrangerEnds, IInv, TypeOK, ReplacedIsDead, Launched,
       RetiredIsDead, Targeted, Preparing, Prepared, Processes
  <1>4. CASE UNCHANGED vars
    BY <1>4 DEF vars, IInv, TypeOK, ReplacedIsDead, Launched, RetiredIsDead, Targeted,
       Preparing, Prepared, Processes
  <1> QED
    BY <1>1, <1>2, <1>3, <1>4 DEF Next

(* For all runs, strangers and PIDs, Prepare lets a run come up only over  *)
(* a dead predecessor.                                                     *)
THEOREM ReplacementIsSafe == Spec => []ReplacedIsDead
  <1>1. IInv => ReplacedIsDead
    BY DEF IInv
  <1> QED
    BY <1>1, InitIInv, StepIInv, PTL DEF Spec
=============================================================================
