------------------------------ MODULE DaemonRun ------------------------------
(***************************************************************************)
(* One run of history-ragd from the inside (cmd/history-ragd/main.go): the *)
(* resources main.run acquires one after another and gives back by its     *)
(* deferred calls, the watcher's goroutine (watch/producer.go), and the    *)
(* HTTP handlers that ask whether the daemon is ready or use the store     *)
(* (api/server.go).                                                        *)
(***************************************************************************)
EXTENDS Naturals, Sequences

CONSTANTS
    Requests,       \* connections of HTTP clients
    Roots,          \* the watch roots
    MaxMoves        \* bound: how often a root's path changes what it names

VARIABLES
    config,         \* what config.Load and the environment say
    pc,             \* where main.run is
    deferred,       \* its deferred calls, the last one first to run
    open,           \* what is held: descriptors, clients, the PID record
    signalled,      \* a signal waits in the channel
    serve,          \* httpServer.Serve: "none", "running", "failed" or "closed"
    cancelled,      \* the watcher's context
    watcher,        \* where Producer.Run is
    ready, closed,  \* Producer
    moved, moves,   \* roots whose path names another directory
    calls,          \* who is inside a call of the executor
    request,        \* per connection: what was asked, how far it is
    sweep           \* history: how the last sweep ended

runVars == <<config, pc, deferred, open, signalled, serve, cancelled, watcher, ready, closed,
          moved, moves, calls, request, sweep>>
main == <<pc, deferred, open, serve>>
producer == <<cancelled, watcher, ready, closed, sweep>>
outside == <<config, signalled, moved, moves>>

Configs == [readOnly : BOOLEAN, container : BOOLEAN, auth : BOOLEAN, roots : BOOLEAN,
            contract : BOOLEAN, envReadOnly : BOOLEAN]
NoRequest == [kind |-> "none", at |-> "idle", ok |-> FALSE, left |-> {}, facts |-> {}]

RunInit ==
    /\ config \in Configs /\ pc = "load" /\ deferred = << >> /\ open = {} /\ signalled = FALSE
    /\ serve = "none" /\ cancelled = FALSE /\ watcher = "none" /\ ready = FALSE /\ closed = FALSE
    /\ moved = {} /\ moves = 0 /\ calls = {} /\ request = [r \in Requests |-> NoRequest] /\ sweep = "none"

Alive == pc \notin {"exited", "killed"}
Mode(c) == /\ c.readOnly => c.auth /\ ~c.roots
           /\ c.container /\ ~c.readOnly => c.auth /\ c.roots

-----------------------------------------------------------------------------
(* main.run: a step on the way up, what it defers and what it holds then.  *)
Step(at, next, defers, holds) ==
    /\ pc = at /\ pc' = next /\ deferred' = deferred \o defers /\ open' = open \cup holds
    /\ UNCHANGED <<outside, serve, producer, calls, request>>

(* run returns: its deferred calls are left.                               *)
Return(held) ==
    /\ pc' = "unwind" /\ open' = held
    /\ UNCHANGED <<outside, deferred, serve, cancelled, watcher, calls, request, sweep>>

Load == Mode(config) /\ Step("load", "root", << >>, {})
OpenRoot == Step("root", "auth", <<"root">>, {"root"})
Authority == Step("auth", "prepare", << >>, {})
Prepare == Step("prepare", "contract", << >>, {})
Contract ==
    /\ config.contract => config.readOnly = config.envReadOnly
    /\ Step("contract", IF config.contract THEN "data" ELSE "signal", << >>, {})

(* openProductionStore                                                     *)
DataClient == Step("data", "admin", << >>, {"data"})
AdminClient == Step("admin", "store", << >>, {"admin"})
NewStore == Step("store", "discover", <<"store">>, {})

Discover == Step("discover", IF config.roots THEN "construct" ELSE "signal", << >>, {})
Construct == Step("construct", "scan", << >>, {"producer"})

(* The initial scan, which is main's own; then the goroutine is started.   *)
FirstScan ==
    /\ pc = "scan" /\ pc' = "signal" /\ deferred' = Append(deferred, "watcher")
    /\ ready' = TRUE /\ sweep' = "complete" /\ watcher' = "start"
    /\ UNCHANGED <<outside, open, serve, cancelled, closed, calls, request>>

ShutdownSignal == Step("signal", "listen", <<"signal">>, {"signal"})
Listen == Step("listen", "record", <<"listener">>, {"listener"})
WriteRecord ==
    LET record == IF config.container THEN {} ELSE {"record"}
    IN  Step("record", "api", IF config.container THEN << >> ELSE <<"record">>, record)

(* api.New, and Serve in its goroutine                                     *)
NewServer ==
    /\ pc = "api" /\ pc' = "select" /\ (config.readOnly => config.contract) /\ serve' = "running"
    /\ UNCHANGED <<outside, deferred, open, producer, calls, request>>

Startup == {"load", "root", "auth", "prepare", "contract", "data", "admin", "store", "discover",
            "construct", "scan", "listen", "record", "api"}

\* Mutant: the data client is left open when there is no admin client.
HeldAfterLeaving(at) == IF at = "scan" THEN open \ {"producer"} ELSE IF at = "store" THEN open \ {"data", "admin"} ELSE open

(* What is still held when the step at fails: newLiveClients closes the    *)
(* data client, openProductionStore the executor, and run the producer     *)
(* when its scan fails.  A record may be in place though its write failed. *)
HeldAfter(at) ==
    CASE at = "admin" -> open \ {"data"}
      [] at = "store" -> open \ {"data", "admin"}
      [] at = "scan" -> open \ {"producer"}
      [] OTHER -> open

StartupFails ==
    /\ pc \in Startup
    /\ \E left \in {{}, {"record"}} : (left # {} => pc = "record") /\ Return(HeldAfter(pc) \cup left)
    /\ closed' = (closed \/ pc = "scan") /\ UNCHANGED ready

-----------------------------------------------------------------------------
(* The select at the end of run                                            *)
ServeEnded ==
    /\ pc = "select" /\ serve = "failed" /\ Return(open) /\ UNCHANGED <<ready, closed>>

Ended == watcher = "ended"
WatcherEnded == pc = "select" /\ Ended /\ Return(open) /\ UNCHANGED <<ready, closed>>

(* Shutdown closes the listener, and Serve returns at once.                *)
TakeSignal ==
    /\ pc = "select" /\ signalled /\ pc' = "shutdown" /\ signalled' = FALSE
    /\ serve' = "closed" /\ open' = open \ {"listener"}
    /\ UNCHANGED <<config, moved, moves, deferred, producer, calls, request>>

Busy(r) == request[r].at \notin {"idle", "answered"}

\* Mutant: Shutdown is called without a deadline.
ShutdownPatient ==
    pc = "shutdown" /\ (\A r \in Requests : ~Busy(r)) /\ Return(open) /\ UNCHANGED <<ready, closed>>

(* Every request is answered, or the 15 seconds are over.                  *)
ShutdownEnds == pc = "shutdown" /\ Return(open) /\ UNCHANGED <<ready, closed>>

-----------------------------------------------------------------------------
Top == deferred[Len(deferred)]
Popped == deferred' = SubSeq(deferred, 1, Len(deferred) - 1)
Unwinding(what) == pc = "unwind" /\ deferred # << >> /\ Top = what /\ Popped

(* RemoveRecord, listener.Close, stopShutdownSignal, root.Close            *)
Release ==
    /\ \E what \in {"record", "listener", "signal", "root"} :
          /\ Unwinding(what) /\ open' = open \ {what}
          /\ serve' = IF what = "listener" /\ serve = "running" THEN "failed" ELSE serve
    /\ UNCHANGED <<outside, pc, producer, calls, request>>

StopWatcher ==
    /\ Unwinding("watcher") /\ cancelled' = TRUE /\ pc' = "close producer"
    /\ UNCHANGED <<outside, open, serve, watcher, ready, closed, sweep, calls, request>>

(* Who holds Producer.mu for reading, and a root's mutex                   *)
Reading == \E r \in Requests : request[r].at = "verify"
Copying == watcher = "snapshot"

CloseProducer ==
    /\ pc = "close producer" /\ ~Reading /\ pc' = "close roots" /\ closed' = TRUE /\ ready' = FALSE
    /\ UNCHANGED <<outside, deferred, open, serve, cancelled, watcher, sweep, calls, request>>

(* PinnedRoot.Close waits for a Snapshot in progress.                      *)
CloseRoots ==
    /\ pc = "close roots" /\ ~Copying /\ pc' = "unwind" /\ open' = open \ {"producer"}
    /\ UNCHANGED <<outside, deferred, serve, producer, calls, request>>

(* SpannerStore.Close: Executor.Close closes both clients, ...             *)
CloseStore ==
    /\ Unwinding("store") /\ pc' = "closing"
    /\ UNCHANGED <<outside, open, serve, producer, calls, request>>

(* ... and returns when both are closed.                                   *)
StoreClosed ==
    /\ pc = "closing" /\ pc' = "unwind" /\ open' = open \ {"data", "admin"}
    /\ UNCHANGED <<outside, deferred, serve, producer, calls, request>>

(* The process ends with its main goroutine.                               *)
Gone == calls' = {} /\ request' = [r \in Requests |-> NoRequest] /\ watcher' = "gone"

Exit ==
    /\ pc = "unwind" /\ deferred = << >> /\ pc' = "exited" /\ Gone
    /\ UNCHANGED <<outside, deferred, open, serve, cancelled, ready, closed, sweep>>

-----------------------------------------------------------------------------
(* Producer.Run and the sweeps of Producer.Scan                            *)
SetReady(value) == ~Reading /\ ready' = value

Watch ==
    /\ watcher \in {"start", "tick"}
    /\ watcher' = IF cancelled \/ closed THEN "ended" ELSE "sweep"
    /\ UNCHANGED <<outside, main, cancelled, ready, closed, calls, request, sweep>>

(* A source is copied: PinnedRoot.Snapshot holds the root's mutex.         *)
Snapshot ==
    /\ watcher = "sweep" /\ ~cancelled /\ "producer" \in open /\ watcher' = "snapshot"
    /\ UNCHANGED <<outside, main, cancelled, ready, closed, calls, request, sweep>>

(* Its chunks are sent, unless the context is cancelled.                   *)
Upsert ==
    /\ watcher = "snapshot" /\ ~cancelled /\ watcher' = "upsert" /\ calls' = calls \cup {"watcher"}
    /\ UNCHANGED <<outside, main, cancelled, ready, closed, request, sweep>>

(* They are stored, or there was nothing to send.                          *)
Captured ==
    /\ watcher \in {"snapshot", "upsert"} /\ watcher' = "sweep" /\ calls' = calls \ {"watcher"}
    /\ UNCHANGED <<outside, main, cancelled, ready, closed, request, sweep>>

SweepDone ==
    /\ watcher = "sweep" /\ SetReady(TRUE) /\ watcher' = "tick" /\ sweep' = "complete"
    /\ UNCHANGED <<outside, main, cancelled, closed, calls, request>>

\* Mutant: a failed sweep leaves the producer ready.
SweepFailsQuietly ==
    /\ watcher \in {"sweep", "snapshot", "upsert"} /\ UNCHANGED ready
    /\ watcher' = "ended" /\ sweep' = "failed" /\ calls' = calls \ {"watcher"}
    /\ UNCHANGED <<outside, main, cancelled, closed, request>>

(* Any error of a walk, a copy, a parser, the store or the state file.     *)
SweepFails ==
    /\ watcher \in {"sweep", "snapshot", "upsert"} /\ SetReady(FALSE)
    /\ watcher' = "ended" /\ sweep' = "failed" /\ calls' = calls \ {"watcher"}
    /\ UNCHANGED <<outside, main, cancelled, closed, request>>

-----------------------------------------------------------------------------
(* The API: a connection can bring a request until Shutdown, even when the *)
(* listener is closed.                                                     *)
Set(r, value) == request' = [request EXCEPT ![r] = value] /\ UNCHANGED <<outside, main, producer>>

Dependencies == (IF config.contract THEN {"store"} ELSE {}) \cup
                (IF config.contract /\ config.roots THEN {"watcher"} ELSE {})
Wanted == IF config.readOnly THEN {"store"} ELSE {"store", "watcher"}

(* handleReadiness asks the dependencies in the order of their names.      *)
Arrive(r, kind) ==
    /\ Alive /\ serve \in {"running", "failed"} /\ ~Busy(r)
    /\ LET counts == kind = "search" \/ Dependencies = Wanted
       IN  Set(r, [NoRequest EXCEPT !.kind = kind, !.ok = counts,
                               !.at = IF "store" \in Dependencies THEN "store" ELSE "answered"])
    /\ UNCHANGED calls

(* Executor.Query; a closed client refuses.                                *)
Call(r) ==
    /\ request[r].at = "store"
    /\ IF "data" \in open
       THEN calls' = calls \cup {r} /\ Set(r, [request[r] EXCEPT !.at = "call"])
       ELSE calls' = calls /\ Set(r, [request[r] EXCEPT !.at = "answered", !.ok = FALSE])

Returned(r, good) ==
    /\ request[r].at = "call" /\ calls' = calls \ {r}
    /\ LET asks == request[r].kind = "ready" /\ "watcher" \in Dependencies
       IN  Set(r, [request[r] EXCEPT !.at = IF asks THEN "watcher" ELSE "answered", !.ok = @ /\ good,
                                     !.facts = IF good THEN {"store"} ELSE {}])

(* Producer.Ready: the flags, ...                                          *)
Watching == sweep = "complete" /\ (cancelled \/ ~Ended)

CheckWatcher(r) ==
    /\ request[r].at = "watcher"
    /\ LET fine == ready /\ ~closed
       IN  Set(r, [request[r] EXCEPT !.at = IF fine THEN "verify" ELSE "answered", !.ok = @ /\ fine,
                                     !.left = IF fine THEN Roots ELSE {},
                                     !.facts = @ \cup (IF Watching /\ ~closed THEN {"watcher"} ELSE {})])
    /\ UNCHANGED calls

\* Mutant: one root is verified for all of them.
VerifyFirst(r, root) ==
    /\ request[r].at = "verify" /\ root \in request[r].left /\ ~Copying
    /\ LET fine == "producer" \in open /\ root \notin moved
       IN  Set(r, [request[r] EXCEPT !.at = "answered", !.ok = @ /\ fine, !.left = {},
                                     !.facts = @ \cup ({root} \ moved)])
    /\ UNCHANGED calls

(* ... and each root under its mutex: does its path name what it held?     *)
Verify(r, root) ==
    /\ request[r].at = "verify" /\ root \in request[r].left /\ ~Copying
    /\ LET fine == "producer" \in open /\ root \notin moved
           rest == IF fine THEN request[r].left \ {root} ELSE {}
       IN  Set(r, [request[r] EXCEPT !.at = IF rest = {} THEN "answered" ELSE "verify", !.ok = @ /\ fine,
                                     !.left = rest, !.facts = @ \cup ({root} \ moved)])
    /\ UNCHANGED calls

-----------------------------------------------------------------------------
(* A signal: before its channel is registered, and after, it kills.        *)
Signal ==
    /\ Alive
    /\ IF "signal" \in open
       THEN signalled' = TRUE /\ UNCHANGED <<main, producer, calls, request>>
       ELSE pc' = "killed" /\ Gone /\ UNCHANGED <<signalled, deferred, open, serve, cancelled, ready, closed, sweep>>
    /\ UNCHANGED <<config, moved, moves>>

ServeFails ==
    /\ serve = "running" /\ Alive /\ serve' = "failed"
    /\ UNCHANGED <<outside, pc, deferred, open, producer, calls, request>>

Move(root) ==
    /\ moves < MaxMoves /\ moves' = moves + 1
    /\ moved' = IF root \in moved THEN moved \ {root} ELSE moved \cup {root}
    /\ UNCHANGED <<config, signalled, main, producer, calls, request>>

-----------------------------------------------------------------------------
Up == \/ Load \/ OpenRoot \/ Authority \/ Prepare \/ Contract \/ DataClient \/ AdminClient \/ NewStore
      \/ Discover \/ Construct \/ FirstScan \/ ShutdownSignal \/ Listen \/ WriteRecord \/ NewServer
      \/ StartupFails
Down == \/ ServeEnded \/ WatcherEnded \/ TakeSignal \/ ShutdownEnds
        \/ Release \/ StopWatcher \/ CloseProducer \/ CloseRoots \/ CloseStore \/ StoreClosed \/ Exit
Goroutine == Watch \/ Snapshot \/ Upsert \/ Captured \/ SweepDone \/ SweepFails
Handler(r) ==
    \/ \E kind \in {"ready", "search"} : Arrive(r, kind)
    \/ \E good \in BOOLEAN : Returned(r, good)
    \/ Call(r) \/ CheckWatcher(r)
    \/ \E root \in Roots : Verify(r, root)

RunNext ==
    \/ Up \/ Down \/ Goroutine \/ Signal \/ ServeFails
    \/ \E r \in Requests : Handler(r)
    \/ \E root \in Roots : Move(root)

RunSpec == RunInit /\ [][RunNext]_runVars

(* The main goroutine runs; a Snapshot and a Verify end; and a goroutine   *)
(* that waits for a mutex gets it, as sync.RWMutex and sync.Mutex promise. *)
(* A request may hang in a call of the store.                              *)
RunFairSpec ==
    /\ RunSpec /\ WF_runVars(Down) /\ SF_runVars(CloseProducer) /\ SF_runVars(CloseRoots)
    /\ WF_runVars(Copying /\ (Upsert \/ Captured \/ SweepFails))
    /\ \A r \in Requests : SF_runVars(\E root \in Roots : Verify(r, root))

-----------------------------------------------------------------------------
(* A readiness probe is answered "ready" only if, since it came, the store *)
(* answered a query, and, unless the daemon is read-only, the last sweep   *)
(* was complete, the watcher had not ended by itself, and each root's path *)
(* named the directory that was bound.  The flags that say so are set by   *)
(* another goroutine, while roots move and the daemon stops.               *)
ReadyHonest ==
    \A r \in Requests : request[r].at = "answered" /\ request[r].kind = "ready" /\ request[r].ok =>
        {"store"} \cup (IF config.readOnly THEN {} ELSE {"watcher"} \cup Roots)
            \subseteq request[r].facts

(* When run has returned, by whichever of its returns, everything it held  *)
(* has been released.  (The PID record can be left by a write or a removal *)
(* that failed; the next run retires it.)                                  *)
NothingLeftOpen == pc = "exited" => open \subseteq {"record"}

(* Once a signal is taken, the watcher ends or Serve fails, the process    *)
(* ends, whatever requests are under way and whatever the watcher does.    *)
StopsForGood ==
    (pc = "select" /\ (signalled \/ Ended \/ serve = "failed")) ~> ~Alive

(* Nobody is inside a call of the executor while it is closed.             *)
CloseIsAlone == pc = "closing" => calls = {}
=============================================================================
