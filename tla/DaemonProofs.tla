----------------------------- MODULE DaemonProofs -----------------------------
(***************************************************************************)
(* Proofs about one daemon: its run (any number of requests, roots and     *)
(* moves), and the two decisions it makes on the way: is a source current  *)
(* (files of any number of records, any times and any cutoff), and does a  *)
(* credential speak for the configured identity (any identities,           *)
(* selectors, carriers and environments, any number of selections and of   *)
(* replaced files).                                                        *)
(***************************************************************************)
EXTENDS DaemonRun, MCForwardEligibility, CredentialSelector, TLAPS

-----------------------------------------------------------------------------
(* From the first line of run to its last.                                 *)

Resources == {"root", "data", "admin", "producer", "signal", "listener", "record"}
Deferrable == {"root", "store", "watcher", "signal", "listener", "record"}
Request == [kind : {"none", "ready", "search"}, ok : BOOLEAN, left : SUBSET Roots,
            at : {"idle", "store", "call", "watcher", "verify", "answered"},
            facts : SUBSET ({"store", "watcher"} \cup Roots)]

(* The calls that are still deferred.                                      *)
Pending(stack) == {stack[i] : i \in 1 .. Len(stack)}

(* Where run has not begun to return: nothing of the producer is closed.   *)
Rising == Startup \cup {"signal"}

(* Where it has not started the watcher.                                   *)
Alone == Startup \ {"listen", "record", "api"}

RunTypeOK ==
    /\ config \in Configs /\ deferred \in Seq(Deferrable) /\ open \subseteq Resources
    /\ cancelled \in BOOLEAN /\ ready \in BOOLEAN /\ closed \in BOOLEAN
    /\ request \in [Requests -> Request]

(* What is open is given back by a deferred call, or by the step that run  *)
(* is at: its clients until the store has them, its producer until the     *)
(* watcher's call is deferred.  (A process that is killed gives back what  *)
(* it holds by ending.)                                                    *)
Accounted ==
    /\ \A x \in {"root", "listener", "signal"} \cap open : pc = "killed" \/ x \in Pending(deferred)
    /\ {"data", "admin"} \cap open # {} =>
           "store" \in Pending(deferred) \/ pc \in {"admin", "store", "closing", "killed"}
    /\ "producer" \in open =>
           "watcher" \in Pending(deferred) \/ pc \in {"scan", "close producer", "close roots", "killed"}
    /\ pc \in {"load", "root", "auth", "prepare", "contract", "data", "admin"} => "admin" \notin open
    /\ pc = "exited" => deferred = << >>

(* The flag of the producer is true only after a complete sweep, while the *)
(* watcher runs or was told to stop.                                       *)
Flagged ==
    /\ ready => Watching
    /\ closed => pc \notin Rising /\ (cancelled \/ watcher \in {"none", "gone"})
    /\ pc \in Alone => watcher = "none"
    /\ pc = "close producer" => cancelled

(* A probe that may still be answered "ready" has seen what its stage      *)
(* says.                                                                   *)
Honest(q) ==
    q.kind = "ready" /\ q.ok =>
        /\ Dependencies = Wanted
        /\ q.at \in {"watcher", "verify"} => "store" \in q.facts
        /\ q.at = "verify" => "watcher" \in q.facts /\ Roots \subseteq q.facts \cup q.left
        /\ q.at = "answered" =>
               {"store"} \cup (IF config.readOnly THEN {} ELSE {"watcher"} \cup Roots) \subseteq q.facts

RunInv ==
    /\ RunTypeOK /\ Accounted /\ Flagged
    /\ \A r \in Requests : Honest(request[r])

-----------------------------------------------------------------------------
(* The deferred calls                                                      *)
LEMMA PendingOnto ==
    ASSUME NEW S, NEW s \in Seq(S), NEW t \in Seq(S)
    PROVE  Pending(s \o t) = Pending(s) \cup Pending(t)
<1>1. Len(s \o t) = Len(s) + Len(t) /\ Len(s) \in Nat /\ Len(t) \in Nat
  OBVIOUS
<1>2. \A i \in 1 .. Len(s) : (s \o t)[i] = s[i] /\ i \in 1 .. Len(s \o t)
  BY <1>1
<1>3. \A i \in 1 .. Len(t) : (s \o t)[Len(s) + i] = t[i] /\ Len(s) + i \in 1 .. Len(s \o t)
  BY <1>1
<1>4. ASSUME NEW i \in 1 .. Len(s \o t)
      PROVE  (s \o t)[i] \in Pending(s) \cup Pending(t)
  <2>1. CASE i <= Len(s)
    BY <1>1, <1>2, <2>1 DEF Pending
  <2>2. CASE i > Len(s)
    <3>1. i - Len(s) \in 1 .. Len(t) /\ Len(s) + (i - Len(s)) = i
      BY <1>1, <2>2
    <3> QED BY <1>3, <3>1 DEF Pending
  <2> QED BY <1>1, <2>1, <2>2
<1>5. Pending(s) \subseteq Pending(s \o t)
  BY <1>2 DEF Pending
<1>6. Pending(t) \subseteq Pending(s \o t)
  BY <1>3 DEF Pending
<1>7. Pending(s \o t) \subseteq Pending(s) \cup Pending(t)
  <2> SUFFICES ASSUME NEW x \in Pending(s \o t) PROVE x \in Pending(s) \cup Pending(t)
    OBVIOUS
  <2>1. PICK i \in 1 .. Len(s \o t) : x = (s \o t)[i]
    BY DEF Pending
  <2> QED BY <1>4, <2>1
<1> QED BY <1>5, <1>6, <1>7

LEMMA PendingOne == \A x : Pending(<<x>>) = {x} /\ Pending(<< >>) = {}
BY DEF Pending

(* Only the call that runs is no longer pending.                           *)
LEMMA PendingPopped ==
    ASSUME NEW S, NEW s \in Seq(S), s # << >>
    PROVE  /\ SubSeq(s, 1, Len(s) - 1) \in Seq(S)
           /\ \A x \in Pending(s) : x # s[Len(s)] => x \in Pending(SubSeq(s, 1, Len(s) - 1))
<1>0. Len(s) \in Nat \ {0}
  OBVIOUS
<1> DEFINE n == Len(s) - 1
<1>1. n \in Nat /\ n = Len(s) - 1 /\ n <= Len(s)
  BY <1>0
<1> HIDE DEF n
<1>2. SubSeq(s, 1, n) \in Seq(S) /\ Len(SubSeq(s, 1, n)) = n
  BY <1>1
<1>3. \A i \in 1 .. n : SubSeq(s, 1, n)[i] = s[i]
  BY <1>1
<1>4. ASSUME NEW i \in 1 .. Len(s), s[i] # s[Len(s)]
      PROVE  s[i] \in Pending(SubSeq(s, 1, n))
  <2>1. i \in 1 .. n
    BY <1>0, <1>1, <1>4
  <2> QED BY <1>2, <1>3, <2>1 DEF Pending
<1>5. \A x \in Pending(s) : x # s[Len(s)] => x \in Pending(SubSeq(s, 1, n))
  BY <1>4, Zenon DEF Pending
<1> QED BY <1>1, <1>2, <1>5

-----------------------------------------------------------------------------
(* Types                                                                   *)
LEMMA TypesStay ==
    ASSUME RunTypeOK, config' = config, deferred' \in Seq(Deferrable), open' \subseteq Resources,
           cancelled' \in BOOLEAN, ready' \in BOOLEAN, closed' \in BOOLEAN,
           request' \in [Requests -> Request]
    PROVE  RunTypeOK'
BY DEF RunTypeOK

LEMMA NoRequestType == NoRequest \in Request /\ [r \in Requests |-> NoRequest] \in [Requests -> Request]
BY DEF NoRequest, Request

LEMMA UpTypes == RunTypeOK /\ Up => RunTypeOK'
<1> SUFFICES ASSUME RunTypeOK, Up PROVE RunTypeOK'
  OBVIOUS
<1>1. ASSUME NEW at, NEW next, NEW defers \in Seq(Deferrable), NEW keeps \in SUBSET Resources,
             Step(at, next, defers, keeps)
      PROVE  RunTypeOK'
  <2>1. deferred' \in Seq(Deferrable)
    BY <1>1 DEF Step, RunTypeOK
  <2> QED BY <1>1, <2>1, TypesStay DEF Step, RunTypeOK, outside, producer
<1>2. << >> \in Seq(Deferrable) /\ \A x \in Deferrable : <<x>> \in Seq(Deferrable)
  OBVIOUS
<1>3. CASE Load \/ Authority \/ Prepare \/ Contract \/ DataClient \/ AdminClient \/ Discover \/ Construct
  BY <1>1, <1>2, <1>3, Zenon DEF Load, Authority, Prepare, Contract, DataClient, AdminClient, Discover, Construct, Resources
<1>4. CASE OpenRoot \/ NewStore \/ ShutdownSignal \/ Listen
  BY <1>1, <1>2, <1>4, Zenon DEF OpenRoot, NewStore, ShutdownSignal, Listen, Resources, Deferrable
<1>5. CASE WriteRecord
  <2>1. CASE config.container
    BY <1>1, <1>2, <1>5, <2>1, Zenon DEF WriteRecord
  <2>2. CASE ~config.container
    BY <1>1, <1>2, <1>5, <2>2 DEF WriteRecord, Resources, Deferrable
  <2> QED BY <2>1, <2>2
<1>6. CASE FirstScan
  <2>1. deferred' \in Seq(Deferrable)
    BY <1>6 DEF FirstScan, RunTypeOK, Deferrable
  <2> QED BY <1>6, <2>1, TypesStay DEF FirstScan, RunTypeOK, outside
<1>7. CASE NewServer
  BY <1>7 DEF NewServer, RunTypeOK, outside, producer
<1>8. CASE StartupFails
  <2>1. UNCHANGED <<config, deferred, cancelled, ready, request>>
    BY <1>8 DEF StartupFails, Return, outside
  <2>2. closed' \in BOOLEAN
    BY <1>8 DEF StartupFails
  <2>3. HeldAfter(pc) \subseteq open
    BY DEF HeldAfter
  <2>4. open' \subseteq open \cup {"record"}
    BY <1>8, <2>3 DEF StartupFails, Return
  <2> QED BY <2>1, <2>2, <2>4 DEF RunTypeOK, Resources
<1> QED BY <1>3, <1>4, <1>5, <1>6, <1>7, <1>8 DEF Up

LEMMA DownTypes == RunTypeOK /\ Down => RunTypeOK'
<1> SUFFICES ASSUME RunTypeOK, Down PROVE RunTypeOK'
  OBVIOUS
<1>1. CASE ServeEnded \/ WatcherEnded \/ TakeSignal \/ ShutdownEnds
  BY <1>1 DEF ServeEnded, WatcherEnded, TakeSignal, ShutdownEnds, Return, RunTypeOK, outside, producer
<1>2. CASE CloseProducer \/ CloseRoots \/ StoreClosed
  BY <1>2, Zenon DEF CloseProducer, CloseRoots, StoreClosed, RunTypeOK, outside, producer
<1>3. ASSUME NEW what, Unwinding(what)
      PROVE  deferred' \in Seq(Deferrable)
  BY <1>3, PendingPopped DEF Unwinding, Popped, RunTypeOK
<1>4. CASE Release
  BY <1>3, <1>4 DEF Release, RunTypeOK, outside, producer
<1>5. CASE StopWatcher \/ CloseStore
  BY <1>3, <1>5, Zenon DEF StopWatcher, CloseStore, RunTypeOK, outside, producer
<1>6. CASE Exit
  BY <1>6, NoRequestType DEF Exit, Gone, RunTypeOK, outside
<1> QED BY <1>1, <1>2, <1>4, <1>5, <1>6 DEF Down

LEMMA SetTypes ==
    ASSUME RunTypeOK, NEW r \in Requests, NEW q \in Request, Set(r, q)
    PROVE  RunTypeOK' /\ request' = [request EXCEPT ![r] = q]
<1>1. request' = [request EXCEPT ![r] = q] /\ UNCHANGED <<config, deferred, open, cancelled, ready, closed>>
  BY DEF Set, outside, main, producer
<1> QED BY <1>1 DEF RunTypeOK

(* A handler's step: what its request becomes, field by field.             *)
LEMMA HandlerStep ==
    ASSUME RunTypeOK, Flagged, NEW r \in Requests, Honest(request[r]), Handler(r)
    PROVE  \E q \in Request : Set(r, q) /\ Honest(q)
<1> DEFINE old == request[r]
<1>1. old \in Request
  BY DEF RunTypeOK
<1>2. ASSUME NEW kind \in {"ready", "search"}, Arrive(r, kind)
      PROVE  \E q \in Request : Set(r, q) /\ Honest(q)
  <2> DEFINE counts == kind = "search" \/ Dependencies = Wanted
             q == [NoRequest EXCEPT !.kind = kind, !.ok = counts,
                               !.at = IF "store" \in Dependencies THEN "store" ELSE "answered"]
  <2>1. Set(r, q)
    BY <1>2 DEF Arrive
  <2>2. q \in Request
    BY Zenon DEF Request, NoRequest
  <2>3. /\ q.kind = kind /\ q.at \in {"store", "answered"} /\ (q.ok => counts)
        /\ q.at = "answered" => "store" \notin Dependencies
    BY Zenon DEF NoRequest
  <2>4. "store" \in Wanted
    BY DEF Wanted
  <2>5. Honest(q)
    <3> HIDE DEF q
    <3> QED BY <2>3, <2>4 DEF Honest
  <2> HIDE DEF q
  <2> QED BY <2>1, <2>2, <2>5
<1>3. ASSUME Call(r)
      PROVE  \E q \in Request : Set(r, q) /\ Honest(q)
  <2>1. old.at = "store"
    BY <1>3 DEF Call
  <2>2. CASE "data" \in open
    <3> DEFINE q == [old EXCEPT !.at = "call"]
    <3>1. Set(r, q) /\ q \in Request
      BY <1>1, <1>3, <2>2 DEF Call, Request
    <3>2. q.kind = old.kind /\ q.ok = old.ok /\ q.at = "call"
      BY <1>1 DEF Request
    <3>3. Honest(q)
      <4> HIDE DEF q
      <4> QED BY <3>2 DEF Honest
    <3> HIDE DEF q
    <3> QED BY <3>1, <3>3
  <2>3. CASE "data" \notin open
    <3> DEFINE q == [old EXCEPT !.at = "answered", !.ok = FALSE]
    <3>1. Set(r, q) /\ q \in Request
      BY <1>1, <1>3, <2>3, Zenon DEF Call, Request
    <3>2. ~q.ok
      BY <1>1 DEF Request
    <3>3. Honest(q)
      <4> HIDE DEF q
      <4> QED BY <3>2 DEF Honest
    <3> HIDE DEF q
    <3> QED BY <3>1, <3>3
  <2> QED BY <2>2, <2>3
<1>4. ASSUME NEW good \in BOOLEAN, Returned(r, good)
      PROVE  \E q \in Request : Set(r, q) /\ Honest(q)
  <2> DEFINE asks == old.kind = "ready" /\ "watcher" \in Dependencies
             q == [old EXCEPT !.at = IF asks THEN "watcher" ELSE "answered", !.ok = @ /\ good,
                              !.facts = IF good THEN {"store"} ELSE {}]
  <2>1. Set(r, q)
    BY <1>4 DEF Returned
  <2>2. q \in Request
    BY <1>1, Zenon DEF Request
  <2>3. /\ q.kind = old.kind /\ (q.ok => old.ok /\ q.facts = {"store"}) /\ q.at \in {"watcher", "answered"}
        /\ q.at = "answered" => ~asks
    BY <1>1 DEF Request
  <2>4. "watcher" \notin Wanted => config.readOnly
    BY DEF Wanted
  <2>5. Honest(q)
    <3> HIDE DEF q
    <3> QED BY <2>3, <2>4 DEF Honest
  <2> HIDE DEF q
  <2> QED BY <2>1, <2>2, <2>5
<1>5. ASSUME CheckWatcher(r)
      PROVE  \E q \in Request : Set(r, q) /\ Honest(q)
  <2> DEFINE fine == ready /\ ~closed
             q == [old EXCEPT !.at = IF fine THEN "verify" ELSE "answered", !.ok = @ /\ fine,
                              !.left = IF fine THEN Roots ELSE {},
                              !.facts = @ \cup (IF Watching /\ ~closed THEN {"watcher"} ELSE {})]
  <2>1. Set(r, q) /\ old.at = "watcher"
    BY <1>5 DEF CheckWatcher
  <2>2. q \in Request
    BY <1>1, Zenon DEF Request
  <2>3. fine => Watching /\ ~closed
    BY Zenon DEF Flagged
  <2>4. /\ q.kind = old.kind /\ (q.ok => old.ok /\ fine) /\ (fine => q.at = "verify" /\ q.left = Roots)
        /\ old.facts \subseteq q.facts /\ (fine => "watcher" \in q.facts)
    BY <1>1, <2>3, Zenon DEF Request
  <2>5. Honest(q)
    <3> HIDE DEF q
    <3> QED BY <2>1, <2>4 DEF Honest
  <2> HIDE DEF q
  <2> QED BY <2>1, <2>2, <2>5
<1>6. ASSUME NEW root \in Roots, Verify(r, root)
      PROVE  \E q \in Request : Set(r, q) /\ Honest(q)
  <2> DEFINE fine == "producer" \in open /\ root \notin moved
             rest == IF fine THEN old.left \ {root} ELSE {}
             q == [old EXCEPT !.at = IF rest = {} THEN "answered" ELSE "verify", !.ok = @ /\ fine,
                              !.left = rest, !.facts = @ \cup ({root} \ moved)]
  <2>1. Set(r, q) /\ old.at = "verify"
    BY <1>6 DEF Verify
  <2>2. q \in Request
    BY <1>1, Zenon DEF Request
  <2>3. /\ q.kind = old.kind /\ (q.ok => old.ok /\ fine) /\ q.at \in {"answered", "verify"}
        /\ fine => q.left = old.left \ {root} /\ q.facts = old.facts \cup {root}
        /\ q.at = "answered" => q.left = {}
    BY <1>1, Zenon DEF Request
  <2>4. Honest(q)
    <3> HIDE DEF q
    <3> QED BY <2>1, <2>3 DEF Honest
  <2> HIDE DEF q
  <2> QED BY <2>1, <2>2, <2>4
<1> QED BY <1>2, <1>3, <1>4, <1>5, <1>6 DEF Handler

-----------------------------------------------------------------------------
(* Readiness                                                               *)

(* What a request needs depends on the configuration alone.                *)
LEMMA HonestStays ==
    ASSUME NEW q, Honest(q), config' = config
    PROVE  Honest(q)'
BY DEF Honest, Dependencies, Wanted

LEMMA RequestsStep ==
    ASSUME RunInv, RunNext
    PROVE  \A r \in Requests : Honest(request[r])'
<1>1. CASE config' = config /\ request' = request
  BY <1>1, HonestStays DEF RunInv, Honest, Dependencies, Wanted
<1>2. CASE config' = config /\ Gone
  <2>1. \A r \in Requests : request'[r].kind = "none"
    BY <1>2 DEF Gone, NoRequest
  <2> QED BY <2>1 DEF Honest
<1>3. CASE \E r \in Requests : Handler(r)
  <2>1. PICK r \in Requests : Handler(r)
    BY <1>3
  <2>2. PICK q \in Request : Set(r, q) /\ Honest(q)
    BY <2>1, HandlerStep DEF RunInv
  <2>3. request' = [request EXCEPT ![r] = q] /\ config' = config
    BY <2>2 DEF Set, outside
  <2>4. \A s \in Requests : request'[s] = IF s = r THEN q ELSE request[s]
    BY <2>3 DEF RunInv, RunTypeOK
  <2>5. ASSUME NEW s \in Requests
        PROVE  Honest(request'[s]) /\ (Honest(request[s])' <=> Honest(request'[s]))
    <3>1. Honest(request'[s])
      BY <2>2, <2>4 DEF RunInv
    <3>2. Dependencies' = Dependencies /\ Wanted' = Wanted
      BY <2>3 DEF Dependencies, Wanted
    <3> QED BY <2>3, <3>1, <3>2 DEF Honest
  <2> QED BY <2>5
<1>4. CASE Up
  <2>1. config' = config /\ request' = request
    BY <1>4, Zenon DEF Up, Step, Return, outside, Load, OpenRoot, Authority, Prepare, Contract, DataClient,
                AdminClient, NewStore, Discover, Construct, FirstScan, ShutdownSignal, Listen, WriteRecord,
                NewServer, StartupFails
  <2> QED BY <1>1, <2>1
<1>5. CASE Down
  <2>1. config' = config /\ (Gone \/ request' = request)
    BY <1>5, Zenon DEF Down, Return, outside, ServeEnded, WatcherEnded, TakeSignal, ShutdownEnds, Release,
                StopWatcher, CloseProducer, CloseRoots, CloseStore, StoreClosed, Exit
  <2> QED BY <1>1, <1>2, <2>1
<1>6. CASE Goroutine \/ ServeFails \/ \E root \in Roots : Move(root)
  <2>1. config' = config /\ request' = request
    BY <1>6, Zenon DEF Goroutine, outside, Watch, Snapshot, Upsert, Captured, SweepDone, SweepFails,
                ServeFails, Move
  <2> QED BY <1>1, <2>1
<1>7. CASE Signal
  <2>1. config' = config /\ (Gone \/ request' = request)
    BY <1>7 DEF Signal
  <2> QED BY <1>1, <1>2, <2>1
<1> QED BY <1>3, <1>4, <1>5, <1>6, <1>7 DEF RunNext

(* The flag goes with the sweep that set it.                               *)
LEMMA FlagsStay ==
    ASSUME Flagged, UNCHANGED <<cancelled, watcher, ready, closed, sweep>>, pc' \in Rising => pc \in Rising,
           pc' \in Alone => pc \in Alone, pc' = "close producer" => pc = "close producer"
    PROVE  Flagged'
BY Zenon DEF Flagged, Watching, Ended

LEMMA FlagsUp == RunTypeOK /\ Flagged /\ Up => Flagged'
<1> SUFFICES ASSUME RunTypeOK, Flagged, Up PROVE Flagged'
  OBVIOUS
<1>1. ASSUME NEW at, NEW next, NEW defers, NEW keeps, Step(at, next, defers, keeps), at \in Rising,
             next \in Alone => at \in Alone, next # "close producer"
      PROVE  Flagged'
  BY <1>1, FlagsStay, Zenon DEF Step, producer
<1>2. CASE Load \/ OpenRoot \/ Authority \/ Prepare \/ Contract \/ DataClient \/ AdminClient
  BY <1>1, <1>2, Zenon DEF Load, OpenRoot, Authority, Prepare, Contract, DataClient, AdminClient, Rising, Alone, Startup
<1>3. CASE NewStore \/ Discover \/ Construct \/ ShutdownSignal \/ Listen \/ WriteRecord
  BY <1>1, <1>3, Zenon DEF NewStore, Discover, Construct, ShutdownSignal, Listen, WriteRecord, Rising, Alone, Startup
<1>4. CASE FirstScan
  <2>1. ~closed /\ closed' = closed
    BY <1>4 DEF FirstScan, Flagged, Rising, Startup
  <2>2. Watching'
    BY <1>4 DEF FirstScan, Watching, Ended
  <2>3. pc' \notin Alone /\ pc' # "close producer"
    BY <1>4 DEF FirstScan, Alone, Startup
  <2> QED BY <2>1, <2>2, <2>3, Zenon DEF Flagged
<1>5. CASE NewServer
  BY <1>5, FlagsStay DEF NewServer, producer, Rising, Alone, Startup
<1>6. CASE StartupFails
  <2>1. /\ pc \in Startup /\ pc' = "unwind" /\ UNCHANGED <<cancelled, watcher, ready, sweep>>
        /\ closed' = (closed \/ pc = "scan")
    BY <1>6 DEF StartupFails, Return
  <2>2. ready' => Watching'
    BY <2>1, Zenon DEF Flagged, Watching, Ended
  <2>3. pc' \notin Rising /\ pc' \notin Alone /\ pc' # "close producer"
    BY <2>1 DEF Rising, Alone, Startup
  <2>4. closed' => cancelled' \/ watcher' \in {"none", "gone"}
    <3>1. closed' => closed \/ pc = "scan"
      BY <2>1, Zenon
    <3> QED BY <2>1, <3>1, Zenon DEF Flagged, Alone, Startup
  <2> QED BY <2>2, <2>3, <2>4, Zenon DEF Flagged
<1> QED BY <1>2, <1>3, <1>4, <1>5, <1>6 DEF Up

LEMMA FlagsDown == RunTypeOK /\ Flagged /\ Down => Flagged'
<1> SUFFICES ASSUME RunTypeOK, Flagged, Down PROVE Flagged'
  OBVIOUS
<1> USE DEF Rising, Alone, Startup
<1>1. CASE ServeEnded \/ WatcherEnded \/ TakeSignal \/ ShutdownEnds
  BY <1>1, FlagsStay, Zenon DEF ServeEnded, WatcherEnded, TakeSignal, ShutdownEnds, Return, producer
<1>2. CASE Release \/ CloseRoots \/ CloseStore \/ StoreClosed
  BY <1>2, FlagsStay, Zenon DEF Release, CloseRoots, CloseStore, StoreClosed, Unwinding, producer
<1>3. CASE StopWatcher
  <2>1. pc' = "close producer" /\ cancelled' /\ UNCHANGED <<watcher, ready, closed, sweep>>
    BY <1>3, Zenon DEF StopWatcher
  <2> QED BY <2>1, Zenon DEF Flagged, Watching, Ended
<1>4. CASE CloseProducer
  <2>1. pc = "close producer" /\ pc' = "close roots" /\ ~ready' /\ UNCHANGED <<cancelled, watcher>>
    BY <1>4, Zenon DEF CloseProducer
  <2> QED BY <2>1, Zenon DEF Flagged
<1>5. CASE Exit
  <2>1. pc' = "exited" /\ watcher' = "gone" /\ UNCHANGED <<cancelled, ready, closed, sweep>>
    BY <1>5 DEF Exit, Gone
  <2> QED BY <2>1, Zenon DEF Flagged, Watching, Ended
<1> QED BY <1>1, <1>2, <1>3, <1>4, <1>5 DEF Down

LEMMA FlagsElsewhere ==
    ASSUME RunTypeOK, Flagged, RunNext, ~Up, ~Down
    PROVE  Flagged'
<1>1. CASE Watch
  <2>1. /\ watcher \in {"start", "tick"} /\ watcher' = IF cancelled \/ closed THEN "ended" ELSE "sweep"
        /\ UNCHANGED <<pc, cancelled, ready, closed, sweep>>
    BY <1>1 DEF Watch, main
  <2>2. closed => cancelled
    BY <2>1, Zenon DEF Flagged
  <2>3. pc \notin Alone
    BY <2>1, Zenon DEF Flagged
  <2> QED BY <2>1, <2>2, <2>3, Zenon DEF Flagged, Watching, Ended
<1>2. CASE Snapshot \/ Upsert \/ Captured
  <2>1. /\ watcher \in {"sweep", "snapshot", "upsert"} /\ watcher' \in {"sweep", "snapshot", "upsert"}
        /\ UNCHANGED <<pc, cancelled, ready, closed, sweep>>
    BY <1>2 DEF Snapshot, Upsert, Captured, main
  <2> QED BY <2>1, Zenon DEF Flagged, Watching, Ended
<1>3. CASE SweepDone
  <2>1. /\ watcher = "sweep" /\ watcher' = "tick" /\ sweep' = "complete"
        /\ UNCHANGED <<pc, cancelled, closed>>
    BY <1>3 DEF SweepDone, main
  <2> QED BY <2>1, Zenon DEF Flagged, Watching, Ended
<1>4. CASE SweepFails
  <2>1. /\ watcher \in {"sweep", "snapshot", "upsert"} /\ ~ready' /\ UNCHANGED <<pc, cancelled, closed>>
    BY <1>4 DEF SweepFails, SetReady, main
  <2> QED BY <2>1, Zenon DEF Flagged
<1>5. CASE ServeFails \/ (\E root \in Roots : Move(root)) \/ (\E r \in Requests : Handler(r))
  <2>1. UNCHANGED <<pc, cancelled, watcher, ready, closed, sweep>>
    BY <1>5, Zenon DEF ServeFails, Move, Handler, Arrive, Returned, Call, CheckWatcher, Verify, Set, main, producer
  <2> QED BY <2>1, FlagsStay, Zenon
<1>6. CASE Signal
  <2>1. CASE "signal" \in open
    BY <1>6, <2>1, FlagsStay, Zenon DEF Signal, main, producer
  <2>2. CASE "signal" \notin open
    <3>1. pc' = "killed" /\ watcher' = "gone" /\ UNCHANGED <<cancelled, ready, closed, sweep>>
      BY <1>6, <2>2 DEF Signal, Gone
    <3> QED BY <3>1, Zenon DEF Flagged, Watching, Ended, Rising, Alone, Startup
  <2> QED BY <2>1, <2>2
<1> QED BY <1>1, <1>2, <1>3, <1>4, <1>5, <1>6 DEF RunNext, Goroutine

-----------------------------------------------------------------------------
(* What is open                                                            *)
LEMMA DefersNone ==
    ASSUME RunTypeOK, deferred' = deferred \o << >>
    PROVE  Pending(deferred') = Pending(deferred)
<1> DEFINE t == << >>
<1>1. deferred \in Seq(Deferrable) /\ t \in Seq(Deferrable)
  BY DEF RunTypeOK
<1>2. deferred' = deferred \o t /\ Pending(t) = {}
  BY PendingOne
<1> HIDE DEF t
<1> QED BY <1>1, <1>2, PendingOnto

LEMMA DefersOne ==
    ASSUME RunTypeOK, NEW x \in Deferrable, deferred' = deferred \o <<x>>
    PROVE  Pending(deferred') = Pending(deferred) \cup {x}
<1> DEFINE t == <<x>>
<1>1. deferred \in Seq(Deferrable) /\ t \in Seq(Deferrable)
  BY DEF RunTypeOK
<1>2. deferred' = deferred \o t /\ Pending(t) = {x}
  BY PendingOne
<1> HIDE DEF t
<1> QED BY <1>1, <1>2, PendingOnto

LEMMA AccountedUp == RunTypeOK /\ Accounted /\ Up => Accounted'
<1> SUFFICES ASSUME RunTypeOK, Accounted, Up PROVE Accounted'
  OBVIOUS
<1>1. CASE Load
  <2>1. pc = "load" /\ pc' = "root" /\ open' = open
    BY <1>1 DEF Load, Step
  <2>2. Pending(deferred') = Pending(deferred)
    BY <1>1, DefersNone DEF Load, Step
  <2> QED BY <2>1, <2>2 DEF Accounted
<1>2. CASE OpenRoot
  <2>1. pc = "root" /\ pc' = "auth" /\ open' = open \cup {"root"}
    BY <1>2 DEF OpenRoot, Step
  <2>2. Pending(deferred') = Pending(deferred) \cup {"root"}
    BY <1>2, DefersOne DEF OpenRoot, Step, Deferrable
  <2> QED BY <2>1, <2>2 DEF Accounted
<1>3. CASE Authority
  <2>1. pc = "auth" /\ pc' = "prepare" /\ open' = open
    BY <1>3 DEF Authority, Step
  <2>2. Pending(deferred') = Pending(deferred)
    BY <1>3, DefersNone DEF Authority, Step
  <2> QED BY <2>1, <2>2 DEF Accounted
<1>4. CASE Prepare
  <2>1. pc = "prepare" /\ pc' = "contract" /\ open' = open
    BY <1>4 DEF Prepare, Step
  <2>2. Pending(deferred') = Pending(deferred)
    BY <1>4, DefersNone DEF Prepare, Step
  <2> QED BY <2>1, <2>2 DEF Accounted
<1>5. CASE DataClient
  <2>1. pc = "data" /\ pc' = "admin" /\ open' = open \cup {"data"}
    BY <1>5 DEF DataClient, Step
  <2>2. Pending(deferred') = Pending(deferred)
    BY <1>5, DefersNone DEF DataClient, Step
  <2> QED BY <2>1, <2>2 DEF Accounted
<1>6. CASE AdminClient
  <2>1. pc = "admin" /\ pc' = "store" /\ open' = open \cup {"admin"}
    BY <1>6 DEF AdminClient, Step
  <2>2. Pending(deferred') = Pending(deferred)
    BY <1>6, DefersNone DEF AdminClient, Step
  <2> QED BY <2>1, <2>2 DEF Accounted
<1>7. CASE NewStore
  <2>1. pc = "store" /\ pc' = "discover" /\ open' = open
    BY <1>7 DEF NewStore, Step
  <2>2. Pending(deferred') = Pending(deferred) \cup {"store"}
    BY <1>7, DefersOne DEF NewStore, Step, Deferrable
  <2> QED BY <2>1, <2>2 DEF Accounted
<1>8. CASE Construct
  <2>1. pc = "construct" /\ pc' = "scan" /\ open' = open \cup {"producer"}
    BY <1>8 DEF Construct, Step
  <2>2. Pending(deferred') = Pending(deferred)
    BY <1>8, DefersNone DEF Construct, Step
  <2> QED BY <2>1, <2>2 DEF Accounted
<1>9. CASE ShutdownSignal
  <2>1. pc = "signal" /\ pc' = "listen" /\ open' = open \cup {"signal"}
    BY <1>9 DEF ShutdownSignal, Step
  <2>2. Pending(deferred') = Pending(deferred) \cup {"signal"}
    BY <1>9, DefersOne DEF ShutdownSignal, Step, Deferrable
  <2> QED BY <2>1, <2>2 DEF Accounted
<1>10. CASE Listen
  <2>1. pc = "listen" /\ pc' = "record" /\ open' = open \cup {"listener"}
    BY <1>10 DEF Listen, Step
  <2>2. Pending(deferred') = Pending(deferred) \cup {"listener"}
    BY <1>10, DefersOne DEF Listen, Step, Deferrable
  <2> QED BY <2>1, <2>2 DEF Accounted
<1>11. CASE Contract
  <2>1. pc = "contract" /\ pc' \in {"data", "signal"} /\ open' = open
    BY <1>11 DEF Contract, Step
  <2>2. Pending(deferred') = Pending(deferred)
    BY <1>11, DefersNone DEF Contract, Step
  <2> QED BY <2>1, <2>2, Zenon DEF Accounted
<1>12. CASE Discover
  <2>1. pc = "discover" /\ pc' \in {"construct", "signal"} /\ open' = open
    BY <1>12 DEF Discover, Step
  <2>2. Pending(deferred') = Pending(deferred)
    BY <1>12, DefersNone DEF Discover, Step
  <2> QED BY <2>1, <2>2, Zenon DEF Accounted
<1>13. CASE FirstScan
  <2>1. pc = "scan" /\ pc' = "signal" /\ open' = open /\ deferred' = Append(deferred, "watcher")
    BY <1>13 DEF FirstScan
  <2>2. deferred' = deferred \o <<"watcher">>
    BY <2>1 DEF RunTypeOK
  <2>3. Pending(deferred') = Pending(deferred) \cup {"watcher"}
    BY <2>2, DefersOne DEF Deferrable
  <2> QED BY <2>1, <2>3 DEF Accounted
<1>14. CASE WriteRecord
  <2>1. pc = "record" /\ pc' = "api" /\ open \subseteq open' /\ open' \subseteq open \cup {"record"}
    BY <1>14 DEF WriteRecord, Step
  <2>2. Pending(deferred) \subseteq Pending(deferred')
    <3>1. CASE config.container
      BY <1>14, <3>1, DefersNone DEF WriteRecord, Step
    <3>2. CASE ~config.container
      BY <1>14, <3>2, DefersOne DEF WriteRecord, Step, Deferrable
    <3> QED BY <3>1, <3>2
  <2> QED BY <2>1, <2>2 DEF Accounted
<1>15. CASE NewServer
  BY <1>15 DEF NewServer, Accounted
<1>16. CASE StartupFails
  <2>1. /\ pc \in Startup /\ pc' = "unwind" /\ deferred' = deferred
        /\ open' \subseteq HeldAfter(pc) \cup {"record"}
    BY <1>16 DEF StartupFails, Return
  <2>2. /\ HeldAfter(pc) \subseteq open /\ (pc = "admin" => "data" \notin HeldAfter(pc))
        /\ (pc = "store" => {"data", "admin"} \cap HeldAfter(pc) = {})
        /\ (pc = "scan" => "producer" \notin HeldAfter(pc))
    BY DEF HeldAfter
  <2>3. pc \notin {"closing", "close producer", "close roots", "killed"}
    BY <2>1, Zenon DEF Startup
  <2> QED BY <2>1, <2>2, <2>3, Zenon DEF Accounted
<1> QED BY <1>1, <1>2, <1>3, <1>4, <1>5, <1>6, <1>7, <1>8, <1>9, <1>10, <1>11, <1>12, <1>13, <1>14, <1>15, <1>16 DEF Up

LEMMA AccountedDown == RunTypeOK /\ Accounted /\ Down => Accounted'
<1> SUFFICES ASSUME RunTypeOK, Accounted, Down PROVE Accounted'
  OBVIOUS
<1>1. CASE ServeEnded \/ WatcherEnded \/ ShutdownEnds
  <2>1. pc \in {"select", "shutdown"} /\ pc' = "unwind" /\ open' = open /\ deferred' = deferred
    BY <1>1 DEF ServeEnded, WatcherEnded, ShutdownEnds, Return
  <2> QED BY <2>1, Zenon DEF Accounted
<1>2. CASE TakeSignal
  <2>1. pc = "select" /\ pc' = "shutdown" /\ open' \subseteq open /\ deferred' = deferred
    BY <1>2 DEF TakeSignal
  <2> QED BY <2>1 DEF Accounted
<1>3. ASSUME NEW what, Unwinding(what)
      PROVE  pc = "unwind" /\ \A x \in Pending(deferred) : x # what => x \in Pending(deferred')
  BY <1>3, PendingPopped DEF Unwinding, Popped, Top, RunTypeOK
<1>4. CASE Release
  <2>1. PICK what \in {"record", "listener", "signal", "root"} : Unwinding(what) /\ open' = open \ {what}
    BY <1>4 DEF Release
  <2>2. pc' = pc
    BY <1>4 DEF Release
  <2>3. pc = "unwind" /\ \A x \in Pending(deferred) : x # what => x \in Pending(deferred')
    BY <1>3, <2>1
  <2> QED BY <2>1, <2>2, <2>3 DEF Accounted
<1>5. CASE StopWatcher
  <2>1. Unwinding("watcher") /\ pc' = "close producer" /\ open' = open
    BY <1>5, Zenon DEF StopWatcher
  <2>2. pc = "unwind" /\ \A x \in Pending(deferred) : x # "watcher" => x \in Pending(deferred')
    BY <1>3, <2>1, Zenon
  <2> QED BY <2>1, <2>2, Zenon DEF Accounted
<1>6. CASE CloseStore
  <2>1. Unwinding("store") /\ pc' = "closing" /\ open' = open
    BY <1>6 DEF CloseStore
  <2>2. pc = "unwind" /\ \A x \in Pending(deferred) : x # "store" => x \in Pending(deferred')
    BY <1>3, <2>1
  <2> QED BY <2>1, <2>2 DEF Accounted
<1>7. CASE CloseProducer
  BY <1>7, Zenon DEF CloseProducer, Accounted
<1>8. CASE CloseRoots
  BY <1>8, Zenon DEF CloseRoots, Accounted
<1>9. CASE StoreClosed
  BY <1>9 DEF StoreClosed, Accounted
<1>10. CASE Exit
  <2>1. pc = "unwind" /\ pc' = "exited" /\ deferred' = deferred /\ deferred = << >> /\ open' = open
    BY <1>10 DEF Exit
  <2> QED BY <2>1 DEF Accounted
<1> QED BY <1>1, <1>2, <1>4, <1>5, <1>6, <1>7, <1>8, <1>9, <1>10 DEF Down

-----------------------------------------------------------------------------
LEMMA RunInitInv == RunInit => RunInv
<1> SUFFICES ASSUME RunInit PROVE RunInv
  OBVIOUS
<1>1. RunTypeOK
  <2>1. << >> \in Seq(Deferrable)
    OBVIOUS
  <2> QED BY <2>1, NoRequestType, Zenon DEF RunInit, RunTypeOK
<1>2. Accounted /\ Flagged
  BY DEF RunInit, Accounted, Flagged, Alone, Startup
<1>3. \A r \in Requests : Honest(request[r])
  <2>1. \A r \in Requests : request[r].kind = "none"
    BY Zenon DEF RunInit, NoRequest
  <2> QED BY <2>1 DEF Honest
<1> QED BY <1>1, <1>2, <1>3 DEF RunInv

LEMMA RunStepInv == RunInv /\ [RunNext]_runVars => RunInv'
<1> SUFFICES ASSUME RunInv, [RunNext]_runVars PROVE RunInv'
  OBVIOUS
<1>1. RunTypeOK /\ Accounted /\ Flagged
  BY DEF RunInv
<1>2. CASE Up \/ Down
  <2>1. RunTypeOK' /\ Accounted' /\ Flagged'
    BY <1>1, <1>2, UpTypes, DownTypes, AccountedUp, AccountedDown, FlagsUp, FlagsDown
  <2>2. \A r \in Requests : Honest(request[r])'
    BY <1>2, RequestsStep DEF RunNext
  <2> QED BY <2>1, <2>2 DEF RunInv
<1>3. CASE RunNext /\ ~Up /\ ~Down
  <2>1. Flagged' /\ \A r \in Requests : Honest(request[r])'
    BY <1>1, <1>3, RequestsStep, FlagsElsewhere
  <2>2. CASE \E r \in Requests : Handler(r)
    <3>1. PICK r \in Requests : Handler(r)
      BY <2>2
    <3>2. PICK q \in Request : Set(r, q)
      BY <1>1, <3>1, HandlerStep DEF RunInv
    <3>3. RunTypeOK'
      BY <1>1, <3>2, SetTypes
    <3>4. UNCHANGED <<pc, deferred, open>>
      BY <3>2 DEF Set, main
    <3>5. Accounted'
      BY <1>1, <3>4, Zenon DEF Accounted
    <3> QED BY <2>1, <3>3, <3>5 DEF RunInv
  <2>3. CASE Goroutine
    <3>1. UNCHANGED <<config, pc, deferred, open, cancelled, closed, request>> /\ ready' \in BOOLEAN
      BY <1>1, <2>3, Zenon DEF Goroutine, outside, main, Watch, Snapshot, Upsert, Captured, SweepDone, SweepFails,
                        SetReady, RunTypeOK
    <3>2. RunTypeOK'
      BY <1>1, <3>1 DEF RunTypeOK
    <3>3. Accounted'
      BY <1>1, <3>1, Zenon DEF Accounted
    <3> QED BY <2>1, <3>2, <3>3 DEF RunInv
  <2>4. CASE ServeFails \/ \E root \in Roots : Move(root)
    <3>1. UNCHANGED <<config, pc, deferred, open, cancelled, ready, closed, request>>
      BY <2>4 DEF ServeFails, Move, outside, main, producer
    <3>2. RunTypeOK'
      BY <1>1, <3>1 DEF RunTypeOK
    <3>3. Accounted'
      BY <1>1, <3>1, Zenon DEF Accounted
    <3> QED BY <2>1, <3>2, <3>3 DEF RunInv
  <2>5. CASE Signal
    <3>1. /\ UNCHANGED <<config, deferred, open, cancelled, ready, closed>>
          /\ pc' = pc \/ pc' = "killed"
          /\ request' = request \/ request' = [r \in Requests |-> NoRequest]
      BY <2>5 DEF Signal, Gone, main, producer
    <3>2. RunTypeOK'
      BY <1>1, <3>1, NoRequestType DEF RunTypeOK
    <3>3. Accounted'
      BY <1>1, <3>1, Zenon DEF Accounted
    <3> QED BY <2>1, <3>2, <3>3 DEF RunInv
  <2> QED BY <1>3, <2>2, <2>3, <2>4, <2>5 DEF RunNext
<1>4. CASE UNCHANGED runVars
  <2>1. RunTypeOK'
    BY <1>1, <1>4 DEF RunTypeOK, runVars
  <2>2. Accounted' /\ Flagged'
    BY <1>1, <1>4, Zenon DEF Accounted, Flagged, Watching, Ended, runVars
  <2>3. \A r \in Requests : Honest(request[r])'
    BY <1>4 DEF RunInv, Honest, Dependencies, Wanted, runVars
  <2> QED BY <2>1, <2>2, <2>3 DEF RunInv
<1> QED BY <1>2, <1>3, <1>4

LEMMA RunInvariant == RunSpec => []RunInv
BY RunInitInv, RunStepInv, PTL DEF RunSpec

(* main.run: by whichever of its returns it ends, in whichever mode, what  *)
(* it had opened has been closed, the PID record apart.                    *)
THEOREM RunGivesBack == RunSpec => []NothingLeftOpen
<1>1. RunInv => NothingLeftOpen
  <2> SUFFICES ASSUME RunInv, pc = "exited" PROVE open \subseteq {"record"}
    BY DEF NothingLeftOpen
  <2>1. Pending(deferred) = {}
    BY PendingOne DEF RunInv, Accounted
  <2> QED BY <2>1 DEF RunInv, RunTypeOK, Accounted, Resources
<1> QED BY <1>1, RunInvariant, PTL

(* handleReadiness and Producer.Ready: a probe answered "ready" has seen   *)
(* every fact the answer claims, whatever the watcher, the roots and the   *)
(* shutdown did in between.                                                *)
THEOREM ReadyMeansReady == RunSpec => []ReadyHonest
<1>1. RunInv => ReadyHonest
  BY DEF RunInv, Honest, ReadyHonest
<1> QED BY <1>1, RunInvariant, PTL

-----------------------------------------------------------------------------
(* Is a source current?                                                    *)

(* What inspectForwardEligibility should accept.                           *)
Current(c, k) ==
    /\ c.kind # "antigravity_pb" /\ c.parse = "ok"
    /\ \E i \in 1 .. Len(c.records) : Counts(c, i)
    /\ \A i \in 1 .. Len(c.records) : Counts(c, i) => c.records[i].time >= k

LEMMA CountedRecords ==
    ASSUME NEW c \in Content
    PROVE  /\ Counted(c) = {i \in 1 .. Len(c.records) : Counts(c, i)}
           /\ \A i \in 1 .. Len(c.records) : c.records[i] \in Record /\ c.records[i].time \in Nat \cup {NoTime}
<1>1. c.records \in Seq(Record)
  BY DEF Content
<1>2. DOMAIN c.records = 1 .. Len(c.records) /\ \A i \in 1 .. Len(c.records) : c.records[i] \in Record
  BY <1>1
<1>3. \A r \in Record : r.time \in Nat \cup {NoTime}
  BY DEF Record
<1> QED BY <1>2, <1>3 DEF Counted

LEMMA VerdictCases ==
    ASSUME NEW c \in Content, NEW k
    PROVE  /\ c.kind = "antigravity_pb" => Verdict(c, k) \in {"wait", "refuse"}
           /\ c.kind # "antigravity_pb" /\ c.parse # "ok" =>
                  Verdict(c, k) = IF c.parse = "badtime" /\ c.kind \in LineKinds THEN "refuse" ELSE "wait"
           /\ c.kind # "antigravity_pb" /\ c.parse = "ok" /\ Untimed(c) # {} => Verdict(c, k) = "refuse"
           /\ c.kind # "antigravity_pb" /\ c.parse = "ok" /\ Untimed(c) = {} =>
                  Verdict(c, k) = classifyForwardTimes(c, k)
BY Zenon DEF Verdict, inspectForwardEligibility

LEMMA AcceptsCurrent ==
    ASSUME NEW c \in Content, NEW k \in Nat
    PROVE  Verdict(c, k) = "accept" <=> Current(c, k)
<1>1. CASE c.kind = "antigravity_pb" \/ c.parse # "ok"
  <2>1. Verdict(c, k) # "accept"
    BY <1>1, VerdictCases
  <2> QED BY <1>1, <2>1 DEF Current
<1>2. CASE c.kind # "antigravity_pb" /\ c.parse = "ok" /\ Untimed(c) # {}
  <2>1. PICK i \in Counted(c) : c.records[i].time = NoTime
    BY <1>2 DEF Untimed
  <2>2. i \in 1 .. Len(c.records) /\ Counts(c, i) /\ ~(c.records[i].time >= k)
    BY <2>1, CountedRecords DEF NoTime
  <2>3. Verdict(c, k) # "accept"
    BY <1>2, VerdictCases
  <2> QED BY <2>2, <2>3 DEF Current
<1>3. CASE c.kind # "antigravity_pb" /\ c.parse = "ok" /\ Untimed(c) = {}
  <2>1. Verdict(c, k) = classifyForwardTimes(c, k)
    BY <1>3, VerdictCases
  <2>2. \A i \in Counted(c) : c.records[i].time \in Nat
    BY <1>3, CountedRecords DEF Untimed
  <2>3. (\E i \in Counted(c) : c.records[i].time < k) <=> ~(\A i \in Counted(c) : c.records[i].time >= k)
    BY <2>2
  <2>4. classifyForwardTimes(c, k) = "accept" <=>
            Counted(c) # {} /\ \A i \in Counted(c) : c.records[i].time >= k
    BY <2>3 DEF classifyForwardTimes
  <2>5. Current(c, k) <=> Counted(c) # {} /\ \A i \in Counted(c) : c.records[i].time >= k
    BY <1>3, CountedRecords DEF Current
  <2> QED BY <2>1, <2>4, <2>5
<1> QED BY <1>1, <1>2, <1>3

ContentTypeOK == content \in Content /\ cutoff \in Nat

(* What an appended record leaves.                                         *)
LEMMA AppendStep ==
    ASSUME ContentTypeOK, NEW s \in Sessions \cup {NoSession}, NEW m \in BOOLEAN, NEW t \in Times \cup {NoTime},
           NEW parse \in {"ok", "partial", "badtime"}, Append1(s, m, t, parse)
    PROVE  /\ content' \in Content /\ cutoff' = cutoff /\ content'.kind = content.kind
           /\ content.parse = "badtime" => content'.parse = "badtime"
           /\ Len(content'.records) = Len(content.records) + 1
           /\ \A i \in 1 .. Len(content.records) : content'.records[i] = content.records[i]
<1> DEFINE r == [session |-> s, meaningful |-> m, time |-> t]
           new == Append(content.records, r)
<1>1. r \in Record
  BY TimesAssumption DEF Record
<1>2. content \in Content /\ content.records \in Seq(Record)
  BY DEF ContentTypeOK, Content
<1> HIDE DEF r
<1>3. /\ new \in Seq(Record) /\ Len(new) = Len(content.records) + 1
      /\ \A i \in 1 .. Len(content.records) : new[i] = content.records[i]
  BY <1>1, <1>2
<1>4. /\ content' = [content EXCEPT !.parse = IF content.parse = "badtime" THEN content.parse ELSE parse,
                                    !.records = new]
      /\ cutoff' = cutoff
  BY DEF Append1, r
<1> HIDE DEF new
<1>5. /\ content' \in Content /\ content'.kind = content.kind /\ content'.records = new
      /\ content'.parse = IF content.parse = "badtime" THEN content.parse ELSE parse
  BY <1>2, <1>3, <1>4, Zenon DEF Content
<1> QED BY <1>3, <1>4, <1>5

LEMMA ContentStep == ContentTypeOK /\ [Next]_<<content, cutoff>> => ContentTypeOK'
<1> SUFFICES ASSUME ContentTypeOK, [Next]_<<content, cutoff>> PROVE ContentTypeOK'
  OBVIOUS
<1>1. ASSUME NEW s \in Sessions \cup {NoSession}, NEW m \in BOOLEAN, NEW t \in Times \cup {NoTime},
             NEW parse \in {"ok", "partial", "badtime"}, Append1(s, m, t, parse)
      PROVE  ContentTypeOK'
  BY <1>1, AppendStep DEF ContentTypeOK
<1>2. CASE Complete
  BY <1>2 DEF Complete, ContentTypeOK, Content
<1>3. CASE Full \/ UNCHANGED <<content, cutoff>>
  BY <1>3 DEF Full, ContentTypeOK
<1> QED BY <1>1, <1>2, <1>3 DEF Next

LEMMA ContentInvariant == Spec => []ContentTypeOK
<1>1. Init => ContentTypeOK
  <2>1. \A k \in Kinds : Blank(k) \in Content
    BY DEF Blank, Content
  <2> QED BY <2>1, TimesAssumption DEF Init, ContentTypeOK
<1> QED BY <1>1, ContentStep, PTL DEF Spec

(* inspectForwardEligibility accepts a source of any length exactly when   *)
(* it parses completely, has a record that counts, and each of those is at *)
(* or after the cutoff.                                                    *)
THEOREM AcceptsCurrentSources == Spec => []AcceptsExactlyCurrent
<1>1. ContentTypeOK => AcceptsExactlyCurrent
  <2> SUFFICES ASSUME ContentTypeOK PROVE AcceptsExactlyCurrent
    OBVIOUS
  <2>1. Verdict(content, cutoff) = "accept" <=> Current(content, cutoff)
    BY AcceptsCurrent DEF ContentTypeOK
  <2> QED BY <2>1 DEF AcceptsExactlyCurrent, Current
<1> QED BY <1>1, ContentInvariant, PTL

(* What is wrong with a refused source stays wrong.                        *)
LEMMA RefusedStep ==
    ASSUME ContentTypeOK, Next, Verdict(content, cutoff) = "refuse"
    PROVE  Verdict(content', cutoff) # "accept"
<1>1. content \in Content /\ content' \in Content /\ cutoff \in Nat
  BY ContentStep DEF ContentTypeOK
<1> SUFFICES ~Current(content', cutoff)
  BY <1>1, AcceptsCurrent
<1>2. CASE content.kind = "antigravity_pb"
  <2>1. content'.kind = content.kind
    <3>1. CASE Complete \/ Full
      BY <1>1, <3>1 DEF Complete, Full, Content
    <3> QED BY <3>1, AppendStep DEF Next
  <2> QED BY <1>2, <2>1 DEF Current
<1>3. CASE content.kind # "antigravity_pb"
  <2>1. content.parse # "partial"
    BY <1>1, <1>3, VerdictCases
  <2>2. CASE Full
    BY <1>1, <2>2, AcceptsCurrent DEF Full
  <2>3. CASE content.parse = "badtime" /\ ~Full
    <3>1. content'.parse = "badtime"
      BY <2>1, <2>3, AppendStep DEF Next, Complete
    <3> QED BY <3>1 DEF Current
  <2>4. CASE content.parse = "ok" /\ ~Full
    <3>1. \E i \in 1 .. Len(content.records) : Counts(content, i) /\ ~(content.records[i].time >= cutoff)
      <4>1. CASE Untimed(content) # {}
        <5>1. PICK i \in Counted(content) : content.records[i].time = NoTime
          BY <4>1 DEF Untimed
        <5> QED BY <1>1, <5>1, CountedRecords DEF NoTime
      <4>2. CASE Untimed(content) = {}
        <5>1. classifyForwardTimes(content, cutoff) = "refuse"
          BY <1>1, <1>3, <2>4, <4>2, VerdictCases
        <5>2. PICK i \in Counted(content) : content.records[i].time < cutoff
          BY <5>1 DEF classifyForwardTimes
        <5> QED BY <1>1, <5>2, CountedRecords DEF NoTime
      <4> QED BY <4>1, <4>2
    <3>2. PICK i \in 1 .. Len(content.records) : Counts(content, i) /\ ~(content.records[i].time >= cutoff)
      BY <3>1
    <3>3. /\ content'.kind = content.kind /\ Len(content'.records) = Len(content.records) + 1
          /\ content'.records[i] = content.records[i]
      BY <2>1, <2>4, AppendStep, Zenon DEF Next, Complete
    <3>4. Len(content.records) \in Nat
      BY <1>1 DEF Content
    <3>5. i \in 1 .. Len(content'.records) /\ Counts(content', i)
      BY <3>2, <3>3, <3>4 DEF Counts
    <3> QED BY <3>2, <3>3, <3>5 DEF Current
  <2>5. content.parse \in {"ok", "partial", "badtime"}
    BY <1>1 DEF Content
  <2> QED BY <2>1, <2>2, <2>3, <2>4, <2>5
<1> QED BY <1>2, <1>3

(* A source that inspectForwardEligibility refused is never accepted after *)
(* its file has grown.                                                     *)
THEOREM RefusalIsFinal == Spec => RefusalSurvivesGrowth
<1>1. ContentTypeOK /\ [Next]_<<content, cutoff>> =>
          [Verdict(content, cutoff) = "refuse" => Verdict(content', cutoff) # "accept"]_<<content, cutoff>>
  BY RefusedStep
<1> QED BY <1>1, ContentInvariant, PTL DEF Spec, RefusalSurvivesGrowth

-----------------------------------------------------------------------------
(* Does a credential speak for the configured identity?                    *)
Said == Carriers \cup {0, 1}
CredentialFile == [id : Nat, private : BOOLEAN, says : Said]

SelectorTypeOK ==
    /\ holds \in [CredentialPaths -> CredentialFile \cup {Missing}]
    /\ read \in Seq(Said) /\ replaced \in Nat
    /\ step \in {"look", "open"} => Len(read) + 1 \in 1 .. Len(Reads)
    /\ step \notin {"look", "open", "build"} => read = << >>

(* The first file read names the identity, and every token source speaks   *)
(* for it.                                                                 *)
Bound ==
    /\ read # << >> => Speaks = selector.identity
    /\ step = "build" => read # << >>
    /\ \A s \in sources : s.speaks = selector.identity
    /\ issued \subseteq {selector.identity}

(* Past each check of the environment, and once there is a token source,   *)
(* the check would accept the environment again.                           *)
Sealed ==
    /\ step \in {"environment", "metadata", "look", "open", "build"} \/ sources # {} =>
           "transport" \notin environment /\ client = "sealed"
    /\ step \in {"metadata", "look", "open", "build"} \/ sources # {} => Accepted

SelectorInv == SelectorTypeOK /\ Bound /\ Sealed

LEMMA SelectorInitInv == SelectorInit => SelectorInv
<1> SUFFICES ASSUME SelectorInit PROVE SelectorInv
  OBVIOUS
<1>1. SelectorTypeOK
  <2>1. PICK c \in Carriers :
            holds = [p \in CredentialPaths |-> [id |-> 0, private |-> TRUE, says |-> IF p \in Documents THEN c ELSE 0]]
    BY Zenon DEF SelectorInit
  <2>2. \A p \in CredentialPaths :
            [id |-> 0, private |-> TRUE, says |-> IF p \in Documents THEN c ELSE 0] \in CredentialFile
    BY DEF CredentialFile, Said
  <2>3. holds \in [CredentialPaths -> CredentialFile \cup {Missing}]
    BY <2>1, <2>2
  <2> QED BY <2>3 DEF SelectorInit, SelectorTypeOK
<1>2. Bound /\ Sealed
  BY DEF SelectorInit, Bound, Sealed
<1> QED BY <1>1, <1>2 DEF SelectorInv

(* The first file is checked against the identity before it is kept.       *)
LEMMA FirstRead ==
    ASSUME NEW says, read = << >>, Good(says)
    PROVE  (IF selector.profile = "device" THEN says.email ELSE says.target) = selector.identity
<1>1. NextPath = IF selector.profile = "workload" THEN "carrier" ELSE "adc"
  BY DEF NextPath, Reads
<1> QED BY <1>1 DEF Good, Federates, Device, Impersonates

LEMMA ReadsPaths ==
    /\ Reads \in Seq(CredentialPaths) /\ Len(Reads) \in {1, 4}
    /\ \A i \in 1 .. Len(Reads) : Reads[i] \in CredentialPaths
<1>1. CASE selector.profile = "workload"
  <2>1. Reads = <<"carrier", "certificates", "cert", "key">>
    BY <1>1 DEF Reads
  <2> QED BY <2>1 DEF CredentialPaths
<1>2. CASE selector.profile # "workload"
  <2>1. Reads = <<"adc">>
    BY <1>2 DEF Reads
  <2> QED BY <2>1 DEF CredentialPaths
<1> QED BY <1>1, <1>2

(* A selection that ends, or a step that only moves on.                    *)
LEMMA ReturnsStep ==
    ASSUME SelectorInv, Returns, UNCHANGED <<world, client, issued>>,
           \A s \in sources' : s \in sources \/ s.speaks = selector.identity,
           sources' # {} => sources # {} \/ step \in {"metadata", "build"}
    PROVE  SelectorInv'
<1>1. UNCHANGED <<selector, environment, client, holds, replaced, issued>> /\ step' = "idle" /\ read' = << >>
  BY DEF Returns, world
<1>2. SelectorTypeOK'
  <2>1. << >> \in Seq(Said)
    OBVIOUS
  <2> QED BY <1>1, <2>1 DEF SelectorInv, SelectorTypeOK
<1>3. Bound'
  BY <1>1 DEF SelectorInv, Bound
<1>4. Sealed'
  BY <1>1 DEF SelectorInv, Sealed, Accepted
<1> QED BY <1>2, <1>3, <1>4 DEF SelectorInv

LEMMA OpenFileStep ==
    ASSUME SelectorInv, OpenFile
    PROVE  SelectorInv'
<1>1. UNCHANGED <<selector, environment, client, holds, replaced, sources, issued>> /\ step = "open"
  BY DEF OpenFile, world
<1>2. CASE Returns
  BY <1>1, <1>2, ReturnsStep DEF world
<1>3. CASE ~Returns
  <2>1. /\ File # Missing /\ Good(File.says) /\ read' = Append(read, File.says)
        /\ step' = IF Len(read) + 1 = Len(Reads) THEN "build" ELSE "look"
    BY <1>3 DEF OpenFile
  <2>2. Len(read) + 1 \in 1 .. Len(Reads) /\ read \in Seq(Said) /\ Len(read) \in Nat
    BY <1>1 DEF SelectorInv, SelectorTypeOK
  <2>3. File.says \in Said
    <3>1. NextPath \in CredentialPaths
      BY <2>2, ReadsPaths DEF NextPath
    <3> QED BY <2>1, <3>1 DEF File, SelectorInv, SelectorTypeOK, CredentialFile
  <2> DEFINE says == File.says
  <2>4. /\ read' \in Seq(Said) /\ Len(read') = Len(read) + 1 /\ read' # << >>
        /\ read'[1] = IF read = << >> THEN says ELSE read[1]
    <3> HIDE DEF says
    <3>1. read' = Append(read, says) /\ says \in Said
      BY <2>1, <2>3 DEF says
    <3>2. read = << >> => Len(read) = 0
      OBVIOUS
    <3>3. read # << >> => 1 \in 1 .. Len(read)
      BY <2>2
    <3> QED BY <2>2, <3>1, <3>2, <3>3
  <2>5. Reads' = Reads
    BY <1>1 DEF Reads
  <2>6. SelectorTypeOK'
    <3>1. step' = "look" => Len(read') + 1 \in 1 .. Len(Reads)
      BY <2>1, <2>2, <2>4, ReadsPaths
    <3>2. step' \in {"look", "build"}
      BY <2>1
    <3> QED BY <1>1, <2>4, <2>5, <3>1, <3>2 DEF SelectorInv, SelectorTypeOK
  <2>7. Bound'
    <3>1. Speaks' = selector.identity
      <4>1. CASE read = << >>
        <5>1. (IF selector.profile = "device" THEN says.email ELSE says.target) = selector.identity
          BY <2>1, <4>1, FirstRead
        <5> QED BY <1>1, <2>4, <4>1, <5>1 DEF Speaks
      <4>2. CASE read # << >>
        BY <1>1, <2>4, <4>2 DEF SelectorInv, Bound, Speaks
      <4> QED BY <4>1, <4>2
    <3> QED BY <1>1, <2>4, <3>1 DEF SelectorInv, Bound
  <2>8. Sealed'
    BY <1>1, <2>1 DEF SelectorInv, Sealed, Accepted
  <2> QED BY <2>6, <2>7, <2>8 DEF SelectorInv
<1> QED BY <1>2, <1>3

(* A step that reads nothing and hands nothing out.                        *)
LEMMA MovesOn ==
    ASSUME SelectorInv, UNCHANGED <<selector, environment, holds, replaced, read, sources>>,
           issued' \subseteq {selector.identity},
           step' \in {"look", "open"} => Len(read) + 1 \in 1 .. Len(Reads),
           step' = "build" => step = "build",
           step' \notin {"look", "open", "build"} => read = << >>,
           Sealed'
    PROVE  SelectorInv'
<1>1. Reads' = Reads
  BY DEF Reads
<1>2. SelectorTypeOK'
  BY <1>1 DEF SelectorInv, SelectorTypeOK
<1>3. Bound'
  BY DEF SelectorInv, Bound, Speaks
<1> QED BY <1>2, <1>3 DEF SelectorInv

LEMMA SelectorStepInv == SelectorInv /\ [SelectorNext]_selectorVars => SelectorInv'
<1> SUFFICES ASSUME SelectorInv, [SelectorNext]_selectorVars PROVE SelectorInv'
  OBVIOUS
<1>1. ASSUME NEW lifetime \in BOOLEAN, Select(lifetime)
      PROVE  SelectorInv'
  <2>1. /\ UNCHANGED <<selector, environment, client, holds, replaced, read, sources, issued>>
        /\ step = "idle" /\ step' \in {"seal", "idle"}
    BY <1>1 DEF Select, world
  <2>2. Sealed' /\ read = << >> /\ issued' \subseteq {selector.identity}
    BY <2>1 DEF SelectorInv, SelectorTypeOK, Bound, Sealed, Accepted
  <2> QED BY <2>1, <2>2, MovesOn
<1>2. CASE Seal
  <2>1. CASE Returns
    <3>1. UNCHANGED <<world, client, sources, issued>>
      BY <1>2, <2>1 DEF Seal, Returns, Goes
    <3> QED BY <2>1, <3>1, ReturnsStep
  <2>2. CASE ~Returns
    <3>1. /\ UNCHANGED <<selector, environment, holds, replaced, read, sources, issued>>
          /\ step = "seal" /\ step' = "environment" /\ client' = "sealed" /\ "transport" \notin environment
      BY <1>2, <2>2 DEF Seal, Goes, world
    <3>2. Sealed' /\ read = << >> /\ issued' \subseteq {selector.identity}
      BY <3>1 DEF SelectorInv, SelectorTypeOK, Bound, Sealed, Accepted
    <3> QED BY <3>1, <3>2, MovesOn
  <2> QED BY <2>1, <2>2
<1>3. CASE Environment
  <2>1. CASE Returns
    BY <1>3, <2>1, ReturnsStep DEF Environment
  <2>2. CASE ~Returns
    <3>1. /\ UNCHANGED <<selector, environment, client, holds, replaced, read, sources, issued>>
          /\ step = "environment" /\ step' \in {"metadata", "look"} /\ Accepted
      BY <1>3, <2>2 DEF Environment, Goes, world
    <3>2. Sealed' /\ read = << >> /\ issued' \subseteq {selector.identity}
      BY <3>1 DEF SelectorInv, SelectorTypeOK, Bound, Sealed, Accepted
    <3>3. Len(read) + 1 \in 1 .. Len(Reads)
      <4>1. Len(read) = 0
        BY <3>2
      <4>2. Len(Reads) \in {1, 4}
        BY ReadsPaths
      <4> QED BY <4>1, <4>2
    <3> QED BY <3>1, <3>2, <3>3, MovesOn
  <2> QED BY <2>1, <2>2
<1>4. CASE Look
  <2>1. CASE Returns
    BY <1>4, <2>1, ReturnsStep DEF Look
  <2>2. CASE ~Returns
    <3>1. /\ UNCHANGED <<selector, environment, client, holds, replaced, read, sources, issued>>
          /\ step = "look" /\ step' = "open"
      BY <1>4, <2>2 DEF Look, world
    <3>2. Sealed' /\ Len(read) + 1 \in 1 .. Len(Reads) /\ issued' \subseteq {selector.identity}
      BY <3>1 DEF SelectorInv, SelectorTypeOK, Bound, Sealed, Accepted
    <3> QED BY <3>1, <3>2, MovesOn
  <2> QED BY <2>1, <2>2
<1>5. CASE OpenFile
  BY <1>5, OpenFileStep
<1>6. CASE Build
  <2>1. Speaks = selector.identity
    BY <1>6 DEF Build, SelectorInv, Bound
  <2>2. \A s \in sources' : s \in sources \/ s.speaks = selector.identity
    BY <1>6, <2>1 DEF Build, Source
  <2> QED BY <1>6, <2>2, ReturnsStep DEF Build
<1>7. CASE Metadata
  <2>1. \A s \in sources' : s \in sources \/ s.speaks = selector.identity
    BY <1>7 DEF Metadata, Source
  <2> QED BY <1>7, <2>1, ReturnsStep DEF Metadata
<1>8. ASSUME NEW n, EndContext(n)
      PROVE  SelectorInv'
  <2>1. UNCHANGED <<world, client, sources, issued>> /\ (Returns \/ UNCHANGED <<step, read>>)
    BY <1>8 DEF EndContext, Goes
  <2>2. CASE Returns
    BY <2>1, <2>2, ReturnsStep
  <2>3. CASE UNCHANGED <<step, read>>
    <3>1. UNCHANGED <<selector, environment, client, holds, replaced, read, sources, issued, step>>
      BY <2>1, <2>3 DEF world
    <3>2. Sealed' /\ issued' \subseteq {selector.identity}
      BY <3>1 DEF SelectorInv, Bound, Sealed, Accepted
    <3>3. /\ step \in {"look", "open"} => Len(read) + 1 \in 1 .. Len(Reads)
          /\ step \notin {"look", "open", "build"} => read = << >>
      BY DEF SelectorInv, SelectorTypeOK
    <3> QED BY <3>1, <3>2, <3>3, MovesOn
  <2> QED BY <2>1, <2>2, <2>3
<1>9. ASSUME NEW s \in sources, Refresh(s)
      PROVE  SelectorInv'
  <2>1. UNCHANGED <<selector, environment, client, holds, replaced, read, sources, step>> /\ issued' = issued \cup {s.speaks}
    BY <1>9 DEF Refresh, world, call
  <2>2. Sealed' /\ issued' \subseteq {selector.identity}
    BY <2>1 DEF SelectorInv, Bound, Sealed, Accepted
  <2>3. /\ step \in {"look", "open"} => Len(read) + 1 \in 1 .. Len(Reads)
        /\ step \notin {"look", "open", "build"} => read = << >>
    BY DEF SelectorInv, SelectorTypeOK
  <2> QED BY <2>1, <2>2, <2>3, MovesOn
<1>10. ASSUME NEW p, NEW file \in NewFiles(p), ReplaceFile(p, file)
       PROVE  SelectorInv'
  <2>1. /\ UNCHANGED <<selector, environment, client, read, sources, issued, step>>
        /\ holds' = [holds EXCEPT ![p] = file] /\ replaced' = replaced + 1
    BY <1>10 DEF ReplaceFile, call
  <2>2. file \in CredentialFile \cup {Missing}
    BY DEF NewFiles, CredentialFile, Said, SelectorInv, SelectorTypeOK
  <2>3. SelectorTypeOK'
    <3>1. holds' \in [CredentialPaths -> CredentialFile \cup {Missing}]
      BY <2>1, <2>2, Zenon DEF SelectorInv, SelectorTypeOK
    <3>2. Reads' = Reads
      BY <2>1 DEF Reads
    <3> QED BY <2>1, <3>1, <3>2 DEF SelectorInv, SelectorTypeOK
  <2>4. Bound' /\ Sealed'
    BY <2>1 DEF SelectorInv, Bound, Speaks, Sealed, Accepted
  <2> QED BY <2>3, <2>4 DEF SelectorInv
<1>11. CASE UNCHANGED selectorVars
  <2>1. SelectorTypeOK'
    BY <1>11 DEF SelectorInv, SelectorTypeOK, Reads, selectorVars
  <2>2. Bound' /\ Sealed'
    BY <1>11 DEF SelectorInv, Bound, Speaks, Sealed, Accepted, selectorVars
  <2> QED BY <2>1, <2>2 DEF SelectorInv
<1> QED BY <1>1, <1>2, <1>3, <1>4, <1>5, <1>6, <1>7, <1>8, <1>9, <1>10, <1>11 DEF SelectorNext

LEMMA SelectorInvariant == SelectorSpec => []SelectorInv
BY SelectorInitInv, SelectorStepInv, PTL DEF SelectorSpec

(* Selector.tokenSource: no token speaks for any identity but the declared *)
(* one, whatever the files say and whoever replaces them.                  *)
THEOREM TokensAreDeclared == SelectorSpec => []TokenIsDeclared
<1>1. SelectorInv => TokenIsDeclared
  BY DEF SelectorInv, Bound, TokenIsDeclared
<1> QED BY <1>1, SelectorInvariant, PTL

(* sealAmbientGoogleTransport and the profiles' checks accept again what   *)
(* an earlier selection of the process left in the environment.            *)
THEOREM SelectionRepeats == SelectorSpec => SelectsAgain
<1>1. ASSUME SelectorInv, SelectorNext, sources # {}, step \in {"seal", "environment"}
      PROVE  step' # "idle"
  <2>1. "transport" \notin environment /\ client = "sealed" /\ Accepted
    BY <1>1 DEF SelectorInv, Sealed
  <2>2. CASE Seal \/ Environment
    BY <2>1, <2>2 DEF Seal, Environment, Goes
  <2>3. CASE ~Seal /\ ~Environment
    BY <1>1, <2>3, Zenon DEF SelectorNext, Select, Look, OpenFile, Build, Metadata, EndContext, Goes, Refresh,
                      ReplaceFile, call
  <2> QED BY <2>2, <2>3
<1>2. SelectorInv /\ [SelectorNext]_selectorVars =>
          [sources # {} /\ step \in {"seal", "environment"} => step' # "idle"]_selectorVars
  BY <1>1
<1> QED BY <1>2, SelectorInvariant, PTL DEF SelectorSpec, SelectsAgain
===============================================================================
