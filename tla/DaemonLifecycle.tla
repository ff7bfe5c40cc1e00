--------------------------- MODULE DaemonLifecycle ---------------------------
(***************************************************************************)
(* Several runs of history-ragd (cmd/history-ragd/main.go) on one state    *)
(* directory, from launch to exit: the process controller's Prepare        *)
(* (process/process.go), the PID record kept with durable.Root, the        *)
(* listening port, and forward.json as far as overlapping runs write it.   *)
(*                                                                         *)
(* A process is its identity (PID, executable, checkout and start time),   *)
(* so a PID that is used again belongs to another process.  A record is    *)
(* the identity it names; a record's payload and its file are as unique.   *)
(***************************************************************************)
EXTENDS Naturals

CONSTANTS
    Daemons,        \* runs of history-ragd
    Supervised,     \* those launched with "supervise"; the others with "start"
    Strangers,      \* other processes
    PidOf,          \* the PID a process has while it lives
    Keys,           \* exclusions in forward.json
    None

Processes == Daemons \cup Strangers

ASSUME LifecycleAssumption ==
    /\ Supervised \subseteq Daemons /\ None \notin Processes
    /\ Daemons \cap Strangers = {}

VARIABLES
    alive,          \* living processes
    pc,             \* where each run is
    target,         \* the record Prepare has read
    record,         \* the PID record on disk
    port,           \* the run that listens
    watching,       \* runs whose producer may write forward.json
    disk,           \* exclusions in forward.json
    known           \* exclusions in each run's tracker.state

vars == <<alive, pc, target, record, port, watching, disk, known>>

Preparing == {"exists", "read", "inspect", "term", "waitTerm", "recheck", "kill", "waitKill",
              "retire", "retireMove"}
Prepared == {"construct", "scan", "listen", "record", "serving", "closing", "closeMove", "closed"}
Handling == {"listen", "record", "serving", "closing", "closeMove"}

Init ==
    /\ alive = {} /\ pc = [d \in Daemons |-> "new"]
    /\ target = [d \in Daemons |-> None]
    /\ record = None /\ port = None /\ watching = {}
    /\ disk = {} /\ known = [d \in Daemons |-> {}]

Holders(pid) == {p \in alive : PidOf[p] = pid}

Goto(d, l) == pc' = [pc EXCEPT ![d] = l]

-----------------------------------------------------------------------------
Launch(d) ==
    /\ pc[d] = "new" /\ Holders(PidOf[d]) = {}
    /\ alive' = alive \cup {d} /\ Goto(d, "exists")
    /\ UNCHANGED <<target, record, port, watching, disk, known>>

SpawnStranger(s) ==
    /\ s \notin alive /\ Holders(PidOf[s]) = {}
    /\ alive' = alive \cup {s}
    /\ UNCHANGED <<pc, target, record, port, watching, disk, known>>

(* The end of a run, in whatever way; the host releases its port.          *)
Exit(d) ==
    /\ alive' = alive \ {d} /\ Goto(d, "done")
    /\ port' = IF port = d THEN None ELSE port
    /\ watching' = watching \ {d}

-----------------------------------------------------------------------------
(* Prepare: readRecord asks whether the record exists and then reads it.   *)
RecordExists(d) ==
    /\ pc[d] = "exists" /\ Goto(d, IF record = None THEN "construct" ELSE "read")
    /\ UNCHANGED <<alive, target, record, port, watching, disk, known>>

ReadRecord(d) ==
    /\ pc[d] = "read"
    /\ \/ /\ record # None /\ target' = [target EXCEPT ![d] = record]
          /\ Goto(d, "inspect") /\ UNCHANGED <<alive, port, watching>>
       \/ record = None /\ Exit(d) /\ UNCHANGED target
    /\ UNCHANGED <<record, disk, known>>

(* What Ops.Snapshot shows of the target's PID.                            *)
Gone(d) == Holders(PidOf[target[d]]) = {}
Matches(d) == target[d] \in alive

(* A PID that cannot be inspected, or is another process, ends the run, as *)
(* does a living target when the mode is "start".                          *)
Inspect(d) ==
    /\ pc[d] = "inspect"
    /\ \/ Gone(d) /\ Goto(d, "retire") /\ UNCHANGED <<alive, port, watching>>
       \/ Matches(d) /\ d \in Supervised /\ Goto(d, "term") /\ UNCHANGED <<alive, port, watching>>
       \/ ~Gone(d) /\ Exit(d)
    /\ UNCHANGED <<target, record, disk, known>>

(* A signal ends the processes hit, whoever holds the PID when it is sent. *)
Fell(d, hit, next) ==
    /\ alive' = alive \ hit
    /\ pc' = [p \in Daemons |-> IF p \in hit THEN "done" ELSE IF p = d THEN next ELSE pc[p]]
    /\ port' = IF port \in hit THEN None ELSE port
    /\ watching' = watching \ hit

(* A process that is hit may take its time to go (End, StrangerEnds): the  *)
(* wait for it can time out, after a kill too.                             *)
Signalled(d, hit, next) == \E dead \in {{}, hit} : Fell(d, dead, next)

(* A run that has registered its handler takes the signal as a request, to *)
(* which Shutdown is the answer.  A signal that cannot be sent leads on to *)
(* the kill.                                                               *)
Terminate(d) ==
    /\ pc[d] = "term"
    /\ \/ Gone(d) /\ Goto(d, "retire") /\ UNCHANGED <<alive, port, watching>>
       \/ /\ ~Gone(d)
          /\ Signalled(d, {p \in Holders(PidOf[target[d]]) : p \in Strangers \/ pc[p] \notin Handling},
                       "waitTerm")
       \/ ~Gone(d) /\ Goto(d, "recheck") /\ UNCHANGED <<alive, port, watching>>
    /\ UNCHANGED <<target, record, disk, known>>

\* Mutant: a wait that times out counts as an exit.
WaitTermHopeful(d) ==
    /\ pc[d] = "waitTerm"
    /\ \/ (Gone(d) \/ Matches(d)) /\ Goto(d, "retire") /\ UNCHANGED <<alive, port, watching>>
       \/ ~Gone(d) /\ ~Matches(d) /\ Exit(d)
    /\ UNCHANGED <<target, record, disk, known>>

\* Mutant: the wait has no deadline.
WaitTermForever(d) ==
    /\ pc[d] = "waitTerm"
    /\ \/ Gone(d) /\ Goto(d, "retire") /\ UNCHANGED <<alive, port, watching>>
       \/ ~Gone(d) /\ ~Matches(d) /\ Exit(d)
    /\ UNCHANGED <<target, record, disk, known>>

(* waitForExit; a living target may use up the timeout.                    *)
WaitTerm(d) ==
    /\ pc[d] = "waitTerm"
    /\ \/ Gone(d) /\ Goto(d, "retire") /\ UNCHANGED <<alive, port, watching>>
       \/ Matches(d) /\ Goto(d, "recheck") /\ UNCHANGED <<alive, port, watching>>
       \/ ~Gone(d) /\ ~Matches(d) /\ Exit(d)
    /\ UNCHANGED <<target, record, disk, known>>

(* The identity is inspected again before the kill.                        *)
Recheck(d) ==
    /\ pc[d] = "recheck"
    /\ \/ Matches(d) /\ Goto(d, "kill") /\ UNCHANGED <<alive, port, watching>>
       \/ ~Matches(d) /\ Exit(d)
    /\ UNCHANGED <<target, record, disk, known>>

Kill(d) ==
    /\ pc[d] = "kill"
    /\ IF Gone(d) THEN Exit(d) ELSE Signalled(d, Holders(PidOf[target[d]]), "waitKill")
    /\ UNCHANGED <<target, record, disk, known>>

(* ErrTerminationUnproven and ErrUncertainTarget end the run.              *)
WaitKill(d) ==
    /\ pc[d] = "waitKill"
    /\ \/ Gone(d) /\ Goto(d, "retire") /\ UNCHANGED <<alive, port, watching>>
       \/ ~Gone(d) /\ Exit(d)
    /\ UNCHANGED <<target, record, disk, known>>

(* durable.Root.Remove compares the payload and then renames whatever has  *)
(* the name by then; its mutex does not reach into another process.        *)
Retire(d) ==
    /\ pc[d] = "retire"
    /\ \/ record = None /\ Goto(d, "construct") /\ UNCHANGED <<alive, port, watching>>
       \/ record = target[d] /\ Goto(d, "retireMove") /\ UNCHANGED <<alive, port, watching>>
       \/ record \notin {None, target[d]} /\ Exit(d)
    /\ UNCHANGED <<target, record, disk, known>>

\* Mutant: the moved file is not compared with the one that was read.
RetireBlindly(d) ==
    /\ pc[d] = "retireMove" /\ record' = None
    /\ IF record = None THEN Exit(d) ELSE Goto(d, "construct") /\ UNCHANGED <<alive, port, watching>>
    /\ UNCHANGED <<target, disk, known>>

RetireMove(d) ==
    /\ pc[d] = "retireMove" /\ record' = None
    /\ IF record = target[d] THEN Goto(d, "construct") /\ UNCHANGED <<alive, port, watching>> ELSE Exit(d)
    /\ UNCHANGED <<target, disk, known>>

-----------------------------------------------------------------------------
(* NewForwardProducer loads forward.json into the run's own copy, ...      *)
Construct(d) ==
    /\ pc[d] = "construct" /\ Goto(d, "scan")
    /\ known' = [known EXCEPT ![d] = disk] /\ watching' = watching \cup {d}
    /\ UNCHANGED <<alive, target, record, port, disk>>

(* ... and a refusal or an acknowledgement writes the whole copy back.     *)
WriteState(d) ==
    /\ d \in watching
    /\ \E new \in SUBSET Keys :
          /\ disk' = known[d] \cup new
          /\ known' = [known EXCEPT ![d] = known[d] \cup new]
    /\ UNCHANGED <<alive, pc, target, record, port, watching>>

(* The initial scan is over: the producer runs on its own, and the signal  *)
(* handler is registered.                                                  *)
ScanDone(d) ==
    /\ pc[d] = "scan" /\ Goto(d, "listen")
    /\ UNCHANGED <<alive, target, record, port, watching, disk, known>>

Listen(d) ==
    /\ pc[d] = "listen"
    /\ IF port = None THEN port' = d /\ Goto(d, "record") /\ UNCHANGED <<alive, watching>> ELSE Exit(d)
    /\ UNCHANGED <<target, record, disk, known>>

(* A write that fails may have put the record in place all the same.       *)
WriteRecord(d) ==
    /\ pc[d] = "record"
    /\ \/ record' = d /\ Goto(d, "serving") /\ UNCHANGED <<alive, port, watching>>
       \/ record' \in {record, d} /\ Exit(d)
    /\ UNCHANGED <<target, disk, known>>

(* A signal or the end of Serve closes the listener first and leaves the   *)
(* producer running; the end of the producer leaves the listener open.     *)
Shutdown(d) ==
    /\ pc[d] = "serving" /\ Goto(d, "closing")
    /\ \/ port' = None /\ UNCHANGED watching
       \/ watching' = watching \ {d} /\ UNCHANGED port
    /\ UNCHANGED <<alive, target, record, disk, known>>

(* RemoveRecord, deferred: its error is dropped.                           *)
RemoveRecord(d) ==
    /\ pc[d] = "closing" /\ Goto(d, IF record = d THEN "closeMove" ELSE "closed")
    /\ UNCHANGED <<alive, target, record, port, watching, disk, known>>

RemoveMove(d) ==
    /\ pc[d] = "closeMove" /\ Goto(d, "closed") /\ record' = None
    /\ UNCHANGED <<alive, target, port, watching, disk, known>>

(* The last deferred calls; and an end at any point before them, by an     *)
(* error that main.run returns or because the process is killed.           *)
End(d) ==
    /\ d \in alive /\ Exit(d) /\ UNCHANGED <<target, record, disk, known>>

StrangerEnds(s) ==
    /\ s \in alive /\ alive' = alive \ {s}
    /\ UNCHANGED <<pc, target, record, port, watching, disk, known>>

-----------------------------------------------------------------------------
Prepare(d) ==
    \/ RecordExists(d) \/ ReadRecord(d) \/ Inspect(d) \/ Terminate(d) \/ WaitTerm(d)
    \/ Recheck(d) \/ Kill(d) \/ WaitKill(d) \/ Retire(d) \/ RetireMove(d)

Serve(d) ==
    \/ Construct(d) \/ WriteState(d) \/ ScanDone(d) \/ Listen(d) \/ WriteRecord(d)
    \/ Shutdown(d) \/ RemoveRecord(d) \/ RemoveMove(d)

Next ==
    \/ \E d \in Daemons : Launch(d) \/ Prepare(d) \/ Serve(d) \/ End(d)
    \/ \E s \in Strangers : SpawnStranger(s) \/ StrangerEnds(s)

Spec == Init /\ [][Next]_vars

(* The host keeps running a process that prepares.  Nothing is assumed of  *)
(* the process that is to be replaced: it may hang.                        *)
FairSpec == Spec /\ \A d \in Daemons : WF_vars(Prepare(d))

-----------------------------------------------------------------------------
(* The values the variables range over.                                    *)
TypeOK ==
    /\ alive \subseteq Processes
    /\ pc \in [Daemons -> {"new", "done"} \cup Preparing \cup Prepared]
    /\ target \in [Daemons -> Daemons \cup {None}]
    /\ record \in Daemons \cup {None} /\ port \in Daemons \cup {None}
    /\ watching \subseteq Daemons
    /\ disk \subseteq Keys /\ known \in [Daemons -> SUBSET Keys]

(* A run that replaces another (Prepare returned true after it had read a  *)
(* record) comes up only when the process the record names is dead, and it *)
(* stays dead: whatever timed out, ended by itself or was replaced by      *)
(* another process under the same PID on the way.                          *)
ReplacedIsDead ==
    \A d \in Daemons : pc[d] \in Prepared => target[d] \notin alive

(* Remove may, in its window, take away the record of a run that serves;   *)
(* then the one that took it does not come up in its place, because the    *)
(* identity of the moved file is compared (durable.go, Remove).            *)
RecordTakerEnds ==
    [][\A d \in Daemons :
          (pc[d] = "serving" /\ record = d /\ pc'[d] = "serving" /\ record' # d)
          => \E e \in Daemons \ {d} : pc[e] # pc'[e] /\ pc'[e] \in {"closed", "done"}]_vars

(* Prepare always comes to an end: every wait for a process that does not  *)
(* exit has its timeout.                                                   *)
PrepareEnds ==
    \A d \in Daemons : pc[d] \in Preparing ~> pc[d] \notin Preparing

(* An exclusion in forward.json is never lost, by whichever runs write it. *)
ExclusionsKept == [][disk \subseteq disk']_vars
=============================================================================
