-------------------------- MODULE ForwardWatchProofs --------------------------
(***************************************************************************)
(* Safety of the forward-only producer for every set of paths, contents,   *)
(* identities and sessions, every number of roots and every bound.         *)
(***************************************************************************)
EXTENDS ForwardSweep, TLAPS

-----------------------------------------------------------------------------
(* What processForwardPath uploads is current, belongs to no excluded      *)
(* session and is not acknowledged yet.                                    *)
LEMMA UploadDecision ==
    ASSUME NEW st \in forwardState, NEW p \in Paths, NEW c \in Contents,
           Decide(st, p, c).do = "upload"
    PROVE  /\ Fresh(c, st.cutoff)
           /\ \A i \in DOMAIN c.chunks : c.chunks[i].session \notin st.sessions
           /\ st.progress[p] # c
<1> DEFINE e == inspectForwardEligibility(c, NameSession[p], st.cutoff)
<1>1. c \in Content /\ st.cutoff \in Nat
  BY WatchAssumption DEF forwardState
<1>2. st.progress[p] # c /\ e.verdict # "wait" /\ e.verdict # "refuse" /\ BadChunks(st, c) = {}
  BY DEF Decide
<1>3. classifyForwardTimes(c, st.cutoff) = "accept" /\ Untimed(c) = {}
  BY <1>2 DEF inspectForwardEligibility, classifyForwardTimes
<1>4. \A i \in Counted(c) : c.records[i].time >= st.cutoff
  <2> SUFFICES ASSUME NEW i \in Counted(c)
               PROVE  c.records[i].time >= st.cutoff
    OBVIOUS
  <2>1. ~(c.records[i].time < st.cutoff)
    BY <1>3 DEF classifyForwardTimes
  <2>2. c.records \in Seq(Record) /\ i \in DOMAIN c.records
    BY <1>1 DEF Content, Counted
  <2>3. c.records[i] \in Record
    BY <2>2
  <2>4. c.records[i].time \in Int
    BY <2>3 DEF Record, NoTime
  <2> QED BY <1>1, <2>1, <2>4
<1>5. \A i \in DOMAIN c.chunks : /\ c.chunks[i].time >= st.cutoff
                                 /\ c.chunks[i].session \notin st.sessions
  <2> SUFFICES ASSUME NEW i \in DOMAIN c.chunks
               PROVE  c.chunks[i].time >= st.cutoff /\ c.chunks[i].session \notin st.sessions
    OBVIOUS
  <2>1. ~(c.chunks[i].time < st.cutoff) /\ c.chunks[i].session \notin st.sessions
    BY <1>2 DEF BadChunks
  <2>2. c.chunks \in Seq(Chunk)
    BY <1>1 DEF Content
  <2>3. c.chunks[i] \in Chunk
    BY <2>2
  <2>4. c.chunks[i].time \in Nat
    BY <2>3 DEF Chunk
  <2> QED BY <1>1, <2>1, <2>4
<1> QED
  BY <1>2, <1>4, <1>5 DEF Fresh

-----------------------------------------------------------------------------
(* The rest of the inductive invariant.  The source in hand was not        *)
(* excluded when it was visited, and what is about to be sent passed       *)
(* every test against the state in memory.                                 *)
SourceInHand ==
    /\ pc \in {"snapshot", "upsert"} =>
          /\ cur \in Source
          /\ cur.path \notin mem.paths /\ cur.obj \notin mem.objects
    /\ pc = "upsert" =>
          /\ cur \in Item
          /\ Fresh(cur.content, mem.cutoff)
          /\ \A i \in DOMAIN cur.content.chunks : cur.content.chunks[i].session \notin mem.sessions
          /\ mem.progress[cur.path] # cur.content

Acked(st) ==
    st # Nothing => \A p \in Paths : st.progress[p] # Nothing =>
                        \E u \in sink : u.path = p /\ u.content = st.progress[p]

(* What was acknowledged was sent, in the surviving state and in the one   *)
(* about to be written.                                                    *)
AllAcked == Acked(Surviving) /\ Acked(staged)

IInv == TypeOK /\ StateConsistent /\ SourceInHand /\ ForwardOnly /\ AllAcked

LEMMA InitIInv == Init => IInv
<1> SUFFICES ASSUME Init PROVE IInv
  OBVIOUS
<1>1. EnvOK /\ StoreOK /\ DaemonOK
  BY WatchAssumption DEF Init, EnvOK, StoreOK, DaemonOK
<1>2. ready \in BOOLEAN /\ unconfirmed \in BOOLEAN
  BY Zenon DEF Init
<1>3. StateConsistent
  BY DEF Init, StateConsistent, Continues
<1>4. SourceInHand /\ ForwardOnly /\ AllAcked
  BY DEF Init, SourceInHand, ForwardOnly, AllAcked, Acked, Surviving
<1> QED
  BY <1>1, <1>2, <1>3, <1>4 DEF IInv, TypeOK

-----------------------------------------------------------------------------
(* Steps of other programs and of the clock touch neither the daemon nor   *)
(* its state.                                                              *)
LEMMA OutsideStep == ASSUME IInv, Writers \/ Tick PROVE IInv'
<1>1. UNCHANGED <<store, daemon, sink, faults>>
  BY DEF Writers, Tick, Rewrite, Create, Rename, Delete, ReplaceRoot, Edit
<1>2. EnvOK'
  <2> USE WatchAssumption, NothingAssumption DEF IInv, TypeOK, EnvOK
  <2>1. ASSUME NEW p \in Paths, NEW c \in Contents, Rewrite(p, c) PROVE EnvOK'
    <3>1. fs[p] \in File
      BY <2>1 DEF Rewrite
    <3>2. [fs[p] EXCEPT !.content = c] \in File
      BY <3>1 DEF File
    <3>3. fs' \in [Paths -> File \cup {Nothing}]
      BY <2>1, <3>2 DEF Rewrite
    <3> QED BY <2>1, <3>3 DEF Rewrite, Edit
  <2>2. ASSUME NEW p \in Paths, NEW c \in Contents, NEW o \in Objects, Create(p, o, c) PROVE EnvOK'
    BY <2>2 DEF Create, Edit, File
  <2>3. ASSUME NEW p \in Paths, NEW q \in Paths, Rename(p, q) PROVE EnvOK'
    BY <2>3 DEF Rename, Edit
  <2>4. ASSUME NEW p \in Paths, Delete(p) PROVE EnvOK'
    BY <2>4 DEF Delete, Edit
  <2>5. CASE ReplaceRoot
    BY <2>5 DEF ReplaceRoot, Edit
  <2>6. CASE Tick
    BY <2>6 DEF Tick
  <2> QED
    BY <2>1, <2>2, <2>3, <2>4, <2>5, <2>6 DEF Writers
<1>3. StoreOK' /\ DaemonOK'
  BY <1>1 DEF IInv, TypeOK, StoreOK, DaemonOK, store, daemon
<1>4. (ready \in BOOLEAN /\ unconfirmed \in BOOLEAN)'
  BY <1>1 DEF IInv, TypeOK, store, daemon
<1>5. StateConsistent' /\ SourceInHand'
  BY <1>1 DEF IInv, StateConsistent, SourceInHand, Continues, store, daemon
<1>6. ForwardOnly' /\ AllAcked'
  BY <1>1 DEF IInv, ForwardOnly, AllAcked, Acked, Surviving, store, daemon
<1> QED
  BY <1>2, <1>3, <1>4, <1>5, <1>6 DEF IInv, TypeOK

-----------------------------------------------------------------------------
(* The state a restart finds is the state in memory while sources are      *)
(* examined.                                                               *)
LEMMA SurvivingIsMemory ==
    ASSUME IInv, pc \in {"idle", "scan", "snapshot", "upsert", "rename"}
    PROVE  Surviving = mem /\ disk = mem
BY DEF IInv, StateConsistent, Surviving

(* The end of the process, in whatever way, keeps the invariant as long as *)
(* what survives acknowledges nothing unsent and what was sent last is     *)
(* current.                                                                *)
LEMMA StopStep ==
    ASSUME IInv, Stop, UNCHANGED <<env, synced>>,
           disk' \in {disk, synced}, unconfirmed' \in BOOLEAN,
           ~unconfirmed' => synced = disk',
           sink' \subseteq Item, ForwardOnly', Acked(Surviving)',
           faults' \in 0..MaxFaults
    PROVE  IInv'
<1>1. EnvOK'
  BY DEF IInv, TypeOK, EnvOK, env
<1>2. StoreOK' /\ DaemonOK'
  BY WatchAssumption DEF IInv, TypeOK, StoreOK, DaemonOK, Stop
<1>3. (ready \in BOOLEAN /\ unconfirmed \in BOOLEAN)'
  BY Zenon DEF Stop
<1>4. StateConsistent' /\ SourceInHand'
  BY DEF Stop, StateConsistent, SourceInHand
<1>5. AllAcked'
  BY DEF AllAcked, Acked, Stop
<1> QED
  BY <1>1, <1>2, <1>3, <1>4, <1>5 DEF IInv, TypeOK

(* A failure that neither writes nor sends.                                *)
LEMMA QuietStop ==
    ASSUME IInv, Stop, UNCHANGED <<env, store, sink>>, faults' \in 0..MaxFaults, pc # "sync"
    PROVE  IInv'
<1>1. UNCHANGED <<synced, disk, unconfirmed, sink>> /\ Surviving' = Surviving
  BY DEF store, Surviving
<1>2. ~unconfirmed' => synced = disk'
  BY <1>1 DEF IInv, StateConsistent
<1>3. sink' \subseteq Item /\ ForwardOnly' /\ Acked(Surviving)'
  BY <1>1 DEF IInv, TypeOK, StoreOK, ForwardOnly, AllAcked, Acked
<1>4. unconfirmed' \in BOOLEAN
  BY <1>1 DEF IInv, TypeOK
<1> QED
  BY <1>1, <1>2, <1>3, <1>4, StopStep

(* A process that ends between the rename and the sync leaves its file,    *)
(* which continues the one before it.                                      *)
LEMMA UnconfirmedStop ==
    ASSUME IInv, Stop, UNCHANGED <<env, disk, synced, sink>>, faults' \in 0..MaxFaults,
           pc = "sync", unconfirmed' = TRUE
    PROVE  IInv'
<1>1. /\ Surviving' = disk /\ disk = staged /\ staged # Nothing /\ Continues(mem, staged)
      /\ Surviving = mem \/ Surviving = disk
  BY DEF IInv, StateConsistent, Surviving
<1>2. ForwardOnly' /\ Acked(Surviving)' /\ sink' \subseteq Item
  BY <1>1 DEF IInv, TypeOK, StoreOK, ForwardOnly, AllAcked, Acked, Continues
<1> QED
  BY <1>2, StopStep

LEMMA FailureStep == ASSUME IInv, Failure PROVE IInv'
<1>1. \A f : Fault(f) => faults' \in 0..MaxFaults
  BY WatchAssumption DEF Fault, IInv, TypeOK, StoreOK
<1>2. CASE RenameError \/ ReadError
  BY <1>1, <1>2, QuietStop DEF RenameError, ReadError
<1>3. CASE SyncError \/ Crash
  <2>1. Stop /\ UNCHANGED <<env, disk, synced, sink>> /\ faults' \in 0..MaxFaults
    BY <1>1, <1>3 DEF SyncError, Crash
  <2>2. CASE pc = "sync"
    <3>1. unconfirmed' = TRUE
      BY <1>3, <2>2, Zenon DEF SyncError, Crash
    <3> QED BY <2>1, <2>2, <3>1, UnconfirmedStop
  <2>3. CASE pc # "sync"
    <3>1. unconfirmed' = unconfirmed
      BY <1>3, <2>3 DEF SyncError, Crash, IInv, TypeOK
    <3> QED BY <2>1, <2>3, <3>1, QuietStop DEF store
  <2> QED BY <2>2, <2>3
<1>4. CASE PowerLoss
  <2>1. ~unconfirmed /\ UNCHANGED <<env, synced, unconfirmed, sink>> /\ disk' = synced
    BY <1>4 DEF PowerLoss
  <2>2. Surviving' = Surviving
    BY <2>1 DEF Surviving
  <2>3. sink' \subseteq Item /\ ForwardOnly' /\ Acked(Surviving)'
    BY <2>1, <2>2 DEF IInv, TypeOK, StoreOK, ForwardOnly, AllAcked, Acked
  <2>4. unconfirmed' \in BOOLEAN
    BY <2>1 DEF IInv, TypeOK
  <2> QED
    BY <1>1, <1>4, <2>1, <2>3, <2>4, StopStep DEF PowerLoss
<1>5. CASE UpsertError
  <2>1. Surviving' = Surviving /\ Surviving = mem /\ UNCHANGED <<env, synced, disk, unconfirmed>>
    BY <1>5, SurvivingIsMemory DEF UpsertError, Surviving, store
  <2>2. sink \subseteq sink' /\ sink' \subseteq sink \cup {cur} /\ cur \in Item /\ Fresh(cur.content, mem.cutoff)
    BY <1>5 DEF UpsertError, IInv, SourceInHand
  <2>3. mem # Nothing
    BY <1>5 DEF UpsertError, IInv, StateConsistent
  <2>4. sink' \subseteq Item /\ ForwardOnly' /\ Acked(Surviving)'
    BY <2>1, <2>2, <2>3 DEF IInv, TypeOK, StoreOK, ForwardOnly, AllAcked, Acked
  <2>5. ~unconfirmed' => synced = disk'
    BY <1>5, <2>1 DEF UpsertError, IInv, StateConsistent
  <2>6. unconfirmed' \in BOOLEAN
    BY <2>1 DEF IInv, TypeOK
  <2> QED
    BY <1>1, <1>5, <2>1, <2>4, <2>5, <2>6, StopStep DEF UpsertError
<1> QED
  BY <1>2, <1>3, <1>4, <1>5 DEF Failure

-----------------------------------------------------------------------------
(* First enablement.                                                       *)
LEMMA BaselineSteps ==
    ASSUME IInv, Enable \/ (\E p \in Paths : BaselinePath(p)) \/ BaselineRootDone \/ BaselineError
    PROVE  IInv'
<1>1. CASE BaselineError
  BY <1>1, QuietStop DEF BaselineError, IInv, TypeOK, StoreOK
<1>2. CASE Enable \/ (\E p \in Paths : BaselinePath(p)) \/ BaselineRootDone
  <2>1. UNCHANGED <<env, store, mem, seen, cur, ready, sink, faults>> /\ mem = Nothing /\ disk = Nothing
    BY <1>2 DEF Enable, BaselinePath, BaselineRootDone, IInv, StateConsistent
  <2>2. EnvOK' /\ StoreOK'
    BY <2>1 DEF IInv, TypeOK, EnvOK, StoreOK, env, store
  <2>3. staged' \in forwardState /\ staged'.roots = bound' /\ Acked(staged)'
    <3>1. CASE Enable
      BY <3>1, WatchAssumption DEF Enable, EmptyState, forwardState, IInv, TypeOK, EnvOK, Acked
    <3>2. ASSUME NEW p \in Paths, BaselinePath(p)
          PROVE  staged' \in forwardState /\ staged'.roots = bound' /\ Acked(staged)'
      <4>1. staged \in forwardState /\ staged.roots = bound
        BY <3>2 DEF BaselinePath, IInv, TypeOK, DaemonOK, StateConsistent
      <4>2. fs[p].obj \in Objects
        BY <3>2 DEF BaselinePath, IInv, TypeOK, EnvOK, File
      <4>3. {NameSession[p]} \ {NoSession} \subseteq Sessions
        BY WatchAssumption, SessionsAssumption
      <4>4. staged' \in forwardState /\ staged'.roots = bound /\ staged'.progress = staged.progress
        BY <3>2, <4>1, <4>2, <4>3, Zenon DEF BaselinePath, excludeBaseline, forwardState
      <4>5. bound' = bound /\ sink' = sink /\ staged # Nothing
        BY <3>2, <4>1, NothingAssumption DEF BaselinePath
      <4>6. Acked(staged)
        BY DEF IInv, AllAcked
      <4>7. Acked(staged)'
        BY <4>4, <4>5, <4>6 DEF Acked
      <4> QED BY <4>4, <4>5, <4>7
    <3>3. CASE BaselineRootDone
      BY <2>1, <3>3 DEF BaselineRootDone, IInv, TypeOK, DaemonOK, StateConsistent, Acked, AllAcked
    <3> QED BY <1>2, <3>1, <3>2, <3>3
  <2>4. staged' # Nothing
    BY <2>3, NothingAssumption
  <2>5. pc' \in {"baseline", "rename"} /\ pc # "sync" /\ bound' \in RootIds \cup {Nothing}
        /\ todo' \subseteq Paths /\ root' \in 0..NRoots
    <3>1. CASE Enable
      BY <3>1, WatchAssumption DEF Enable, Listing, IInv, TypeOK, EnvOK
    <3>2. CASE \E p \in Paths : BaselinePath(p)
      BY <3>2 DEF BaselinePath, IInv, TypeOK, DaemonOK
    <3>3. CASE BaselineRootDone
      BY <3>3, WatchAssumption DEF BaselineRootDone, Listing, IInv, TypeOK, DaemonOK
    <3> QED BY <1>2, <3>1, <3>2, <3>3
  <2>6. DaemonOK'
    BY <2>1, <2>3, <2>5 DEF IInv, TypeOK, DaemonOK
  <2>7. (ready \in BOOLEAN /\ unconfirmed \in BOOLEAN)'
    BY <2>1 DEF IInv, TypeOK, store
  <2>8. StateConsistent' /\ SourceInHand'
    BY <2>1, <2>3, <2>4, <2>5 DEF IInv, StateConsistent, SourceInHand, Continues, store
  <2>9. ForwardOnly' /\ AllAcked'
    BY <2>1, <2>3 DEF IInv, ForwardOnly, AllAcked, Acked, Surviving, store
  <2> QED
    BY <2>2, <2>6, <2>7, <2>8, <2>9 DEF IInv, TypeOK
<1> QED
  BY <1>1, <1>2

-----------------------------------------------------------------------------
(* Loading the state, and the steps of a scan that neither send nor write. *)
LEMMA LoadStep == ASSUME IInv, Load PROVE IInv'
<1>1. EnvOK' /\ StoreOK' /\ DaemonOK'
  BY DEF Load, IInv, TypeOK, EnvOK, StoreOK, DaemonOK, env, store, walk
<1>2. (ready \in BOOLEAN /\ unconfirmed \in BOOLEAN)'
  BY DEF Load, IInv, TypeOK, store
<1>3. StateConsistent' /\ SourceInHand'
  BY DEF Load, IInv, StateConsistent, SourceInHand, Continues, store
<1>4. ForwardOnly' /\ AllAcked'
  BY DEF Load, IInv, ForwardOnly, AllAcked, Acked, Surviving, store
<1> QED
  BY <1>1, <1>2, <1>3, <1>4 DEF IInv, TypeOK

LEMMA WalkSteps ==
    ASSUME IInv,
           \/ BeginScan \/ ScanRootDone
           \/ \E p \in Paths : SkipPath(p) \/ VisitPath(p)
    PROVE  IInv'
<1>1. /\ UNCHANGED <<env, store, bound, mem, staged, sink, faults>>
      /\ pc \in {"idle", "scan"} /\ pc' \in {"idle", "scan", "snapshot"}
  BY DEF BeginScan, ScanRootDone, SkipPath, VisitPath
<1>2. EnvOK' /\ StoreOK'
  BY <1>1 DEF IInv, TypeOK, EnvOK, StoreOK, env, store
<1>3. pc' = "snapshot" => /\ cur' \in Source
                          /\ cur'.path \notin mem.paths /\ cur'.obj \notin mem.objects
  <2> SUFFICES ASSUME pc' = "snapshot", NEW p \in Paths, VisitPath(p)
               PROVE  cur' \in Source /\ cur'.path \notin mem.paths /\ cur'.obj \notin mem.objects
    BY Zenon DEF BeginScan, ScanRootDone, SkipPath
  <2> QED BY Zenon DEF VisitPath, IInv, TypeOK, EnvOK, File, Source
<1>4. cur' \in Source \cup {Nothing}
  BY <1>1, <1>3 DEF BeginScan, ScanRootDone, SkipPath, VisitPath, IInv, TypeOK, DaemonOK
<1>5. todo' \subseteq Paths /\ root' \in 0..NRoots /\ seen' \in 0..MaxFilesPerScan
  <2>1. CASE BeginScan
    BY <2>1, WatchAssumption DEF BeginScan, Listing, IInv, TypeOK, DaemonOK
  <2>2. CASE ScanRootDone
    <3>1. /\ root \in 0..NRoots /\ seen \in 0..MaxFilesPerScan
          /\ NRoots \in Nat /\ MaxFilesPerScan \in Nat
      BY WatchAssumption DEF IInv, TypeOK, DaemonOK
    <3>2. CASE root < NRoots
      <4>1. root' = root + 1 /\ todo' = Listing(root + 1) /\ seen' = seen
        BY <2>2, <3>2 DEF ScanRootDone
      <4>2. todo' \subseteq Paths
        BY <4>1 DEF Listing
      <4>3. root' \in 0..NRoots
        BY <3>1, <3>2, <4>1
      <4> QED BY <3>1, <4>1, <4>2, <4>3
    <3>3. CASE ~(root < NRoots)
      BY <2>2, <3>1, <3>3 DEF ScanRootDone
    <3> QED BY <3>2, <3>3
  <2>3. CASE \E p \in Paths : SkipPath(p)
    BY <2>3 DEF SkipPath, IInv, TypeOK, DaemonOK
  <2>4. CASE \E p \in Paths : VisitPath(p)
    <3>1. todo' \subseteq todo /\ root' = root /\ seen' = seen + 1 /\ seen < MaxFilesPerScan
      BY <2>4, Zenon DEF VisitPath
    <3>2. todo \subseteq Paths /\ root \in 0..NRoots /\ seen \in 0..MaxFilesPerScan /\ MaxFilesPerScan \in Nat
      BY WatchAssumption DEF IInv, TypeOK, DaemonOK
    <3> QED BY <3>1, <3>2
  <2> QED BY <2>1, <2>2, <2>3, <2>4
<1>6. DaemonOK'
  BY <1>1, <1>4, <1>5 DEF IInv, TypeOK, DaemonOK
<1>7. (ready \in BOOLEAN /\ unconfirmed \in BOOLEAN)'
  BY Zenon DEF BeginScan, ScanRootDone, SkipPath, VisitPath, IInv, TypeOK, store
<1>8. StateConsistent'
  BY <1>1 DEF IInv, StateConsistent, Continues, store
<1>9. SourceInHand'
  BY <1>1, <1>3 DEF SourceInHand
<1>10. ForwardOnly' /\ AllAcked'
  BY <1>1 DEF IInv, ForwardOnly, AllAcked, Acked, Surviving, store
<1> QED
  BY <1>2, <1>6, <1>7, <1>8, <1>9, <1>10 DEF IInv, TypeOK

LEMMA ErrorSteps == ASSUME IInv, ScanError \/ SourceChanged PROVE IInv'
BY QuietStop, Zenon DEF ScanError, SourceChanged, IInv, TypeOK, StoreOK

-----------------------------------------------------------------------------
(* The steps that decide, send and write.                                  *)
LEMMA SnapshotStep == ASSUME IInv, TakeSnapshot PROVE IInv'
<1> DEFINE c == fs[cur.path].content
           d == Decide(mem, cur.path, c)
<1>1. /\ mem \in forwardState /\ mem = disk /\ mem.roots = bound /\ staged = Nothing
      /\ cur \in Source /\ cur.path \in Paths /\ cur.obj \in Objects
      /\ cur.path \notin mem.paths /\ cur.obj \notin mem.objects
      /\ ~unconfirmed => synced = disk
  BY DEF TakeSnapshot, IInv, TypeOK, DaemonOK, StateConsistent, SourceInHand, Source
<1>2. c \in Contents
  BY <1>1 DEF TakeSnapshot, IInv, TypeOK, EnvOK, File
<1>3. UNCHANGED <<env, store, bound, mem, walk, ready, sink, faults>> /\ pc = "snapshot"
  BY DEF TakeSnapshot
<1>4. EnvOK' /\ StoreOK' /\ ForwardOnly'
  BY <1>3 DEF IInv, TypeOK, EnvOK, StoreOK, ForwardOnly, Surviving, env, store
<1>5. (ready \in BOOLEAN /\ unconfirmed \in BOOLEAN)'
  BY <1>3 DEF IInv, TypeOK, store
<1>6. CASE d.do = "skip"
  <2>1. pc' = "scan" /\ cur' = Nothing /\ staged' = Nothing
    BY <1>1, <1>6 DEF TakeSnapshot
  <2>2. DaemonOK' /\ StateConsistent' /\ SourceInHand'
    BY <1>1, <1>3, <2>1 DEF IInv, TypeOK, DaemonOK, StateConsistent, SourceInHand, store, walk
  <2>3. AllAcked'
    BY <1>3, <2>1 DEF IInv, AllAcked, Acked, Surviving, store
  <2> QED BY <1>4, <1>5, <2>2, <2>3 DEF IInv, TypeOK
<1>7. CASE d.do = "refuse"
  <2> DEFINE st == refuseForwardPath(mem, cur.path, cur.obj, d.sessions)
  <2>1. pc' = "rename" /\ cur' = Nothing /\ staged' = st
    BY <1>7 DEF TakeSnapshot
  <2>2. /\ st \in forwardState /\ st.progress = mem.progress
        /\ st.cutoff = mem.cutoff /\ st.roots = mem.roots
        /\ mem.paths \subseteq st.paths /\ mem.objects \subseteq st.objects
        /\ mem.sessions \subseteq st.sessions
    BY <1>1, SessionsAssumption, Zenon DEF refuseForwardPath, forwardState
  <2> HIDE DEF st
  <2>3. DaemonOK' /\ SourceInHand'
    BY <1>1, <1>3, <2>1, <2>2 DEF IInv, TypeOK, DaemonOK, SourceInHand, walk
  <2>4. StateConsistent'
    BY <1>1, <1>3, <2>1, <2>2, NothingAssumption, Zenon DEF StateConsistent, Continues, store
  <2>5. AllAcked'
    BY <1>1, <1>3, <2>1, <2>2, NothingAssumption DEF IInv, AllAcked, Acked, Surviving, store
  <2> QED BY <1>4, <1>5, <2>3, <2>4, <2>5 DEF IInv, TypeOK
<1>8. CASE d.do = "upload"
  <2>1. /\ pc' = "upsert" /\ cur' = [cur EXCEPT !.obj = fs[cur.path].obj, !.content = c]
        /\ staged' = Nothing /\ fs[cur.path].obj = cur.obj
    BY <1>1, <1>8 DEF TakeSnapshot, SameSource
  <2>2. /\ Fresh(c, mem.cutoff) /\ mem.progress[cur.path] # c
        /\ \A i \in DOMAIN c.chunks : c.chunks[i].session \notin mem.sessions
    BY <1>1, <1>2, <1>8, UploadDecision
  <2> HIDE DEF c
  <2>3. cur' \in Item /\ cur'.content = c /\ cur'.path = cur.path /\ cur'.obj = cur.obj
    BY <1>1, <1>2, <2>1 DEF Source, Item
  <2>4. cur' \in Source
    BY <2>3 DEF Source, Item
  <2>5. DaemonOK' /\ StateConsistent'
    BY <1>1, <1>3, <2>1, <2>4 DEF IInv, TypeOK, DaemonOK, StateConsistent, store, walk
  <2>6. SourceInHand'
    BY <1>1, <1>3, <2>1, <2>2, <2>3, <2>4 DEF SourceInHand
  <2>7. AllAcked'
    BY <1>3, <2>1 DEF IInv, AllAcked, Acked, Surviving, store
  <2> QED BY <1>4, <1>5, <2>5, <2>6, <2>7 DEF IInv, TypeOK
<1> QED
  BY <1>6, <1>7, <1>8 DEF TakeSnapshot

LEMMA UpsertStep == ASSUME IInv, Upsert PROVE IInv'
<1>1. /\ mem \in forwardState /\ mem = disk /\ mem.roots = bound /\ Surviving = mem /\ mem # Nothing
      /\ cur \in Item /\ Fresh(cur.content, mem.cutoff)
      /\ ~unconfirmed => synced = disk
  BY SurvivingIsMemory DEF Upsert, IInv, TypeOK, DaemonOK, StateConsistent, SourceInHand
<1>2. /\ UNCHANGED <<env, store, bound, mem, walk, ready, faults>>
      /\ pc' = "rename" /\ cur' = Nothing /\ sink' = sink \cup {cur}
      /\ staged' = [mem EXCEPT !.progress[cur.path] = cur.content]
  BY DEF Upsert
<1>3. cur.path \in Paths /\ cur.content \in Contents
  BY <1>1 DEF Item
<1>4. /\ staged' \in forwardState /\ staged' # Nothing
      /\ staged'.cutoff = mem.cutoff /\ staged'.roots = mem.roots /\ staged'.paths = mem.paths
      /\ staged'.objects = mem.objects /\ staged'.sessions = mem.sessions
      /\ staged'.progress = [mem.progress EXCEPT ![cur.path] = cur.content]
  BY <1>1, <1>2, <1>3, NothingAssumption DEF forwardState
<1>5. EnvOK' /\ StoreOK' /\ DaemonOK'
  BY <1>1, <1>2, <1>4 DEF IInv, TypeOK, EnvOK, StoreOK, DaemonOK, env, store, walk
<1>6. (ready \in BOOLEAN /\ unconfirmed \in BOOLEAN)'
  BY <1>2 DEF IInv, TypeOK, store
<1>7. StateConsistent' /\ SourceInHand'
  BY <1>1, <1>2, <1>4 DEF StateConsistent, SourceInHand, Continues, store
<1>8. Surviving' = mem
  BY <1>1, <1>2 DEF Surviving, store
<1>9. ForwardOnly'
  BY <1>1, <1>2, <1>8 DEF IInv, ForwardOnly
<1>10. Acked(mem)
  BY <1>1 DEF IInv, AllAcked
<1>11. Acked(Surviving)'
  BY <1>1, <1>2, <1>8, <1>10 DEF Acked
<1>12. Acked(staged)'
  <2> SUFFICES ASSUME NEW p \in Paths, staged'.progress[p] # Nothing
               PROVE  \E u \in sink' : u.path = p /\ u.content = staged'.progress[p]
    BY DEF Acked
  <2>1. mem.progress \in [Paths -> Contents \cup {Nothing}]
    BY <1>1 DEF forwardState
  <2>2. CASE p = cur.path
    BY <1>2, <1>3, <1>4, <2>1, <2>2
  <2>3. CASE p # cur.path
    BY <1>1, <1>2, <1>4, <1>10, <2>1, <2>3 DEF Acked
  <2> QED BY <2>2, <2>3
<1> QED
  BY <1>5, <1>6, <1>7, <1>9, <1>11, <1>12 DEF IInv, TypeOK, AllAcked

LEMMA RenameStep == ASSUME IInv, RenameState PROVE IInv'
<1>1. /\ staged \in forwardState /\ staged # Nothing /\ mem = disk /\ Continues(mem, staged)
      /\ ~unconfirmed => synced = disk
  BY DEF RenameState, IInv, TypeOK, DaemonOK, StateConsistent
<1>2. /\ UNCHANGED <<env, synced, unconfirmed, bound, mem, staged, walk, cur, ready, sink, faults>>
      /\ disk' = staged /\ pc' = "sync"
  BY DEF RenameState
<1>3. EnvOK' /\ StoreOK' /\ DaemonOK'
  BY <1>1, <1>2 DEF IInv, TypeOK, EnvOK, StoreOK, DaemonOK, env, walk
<1>4. (ready \in BOOLEAN /\ unconfirmed \in BOOLEAN)'
  BY <1>2 DEF IInv, TypeOK
<1>5. StateConsistent' /\ SourceInHand'
  BY <1>1, <1>2, Zenon DEF IInv, StateConsistent, SourceInHand, Continues
<1>6. Surviving' = Surviving \/ (Surviving' = staged /\ Surviving = mem)
  BY <1>1, <1>2 DEF Surviving
<1>7. ForwardOnly'
  BY <1>1, <1>2, <1>6, Zenon DEF IInv, ForwardOnly, Continues
<1>8. AllAcked'
  <2>1. Acked(Surviving) /\ Acked(staged) /\ sink' = sink
    BY <1>2 DEF IInv, AllAcked
  <2>2. Acked(Surviving)'
    BY <1>6, <2>1 DEF Acked
  <2>3. Acked(staged)'
    BY <1>2, <2>1 DEF Acked
  <2> QED BY <2>2, <2>3 DEF AllAcked
<1> QED
  BY <1>3, <1>4, <1>5, <1>7, <1>8 DEF IInv, TypeOK

LEMMA SyncStep == ASSUME IInv, SyncState PROVE IInv'
<1>1. /\ staged \in forwardState /\ staged # Nothing /\ staged = disk /\ Continues(mem, staged)
      /\ ~unconfirmed => synced = mem
      /\ staged.roots = bound
  BY DEF SyncState, IInv, TypeOK, DaemonOK, StateConsistent
<1>2. /\ UNCHANGED <<env, disk, bound, walk, cur, ready, sink, faults>>
      /\ synced' = disk /\ unconfirmed' = FALSE /\ mem' = staged /\ staged' = Nothing /\ pc' \in {"idle", "scan"}
  BY DEF SyncState
<1>3. EnvOK' /\ StoreOK' /\ DaemonOK'
  BY <1>1, <1>2 DEF IInv, TypeOK, EnvOK, StoreOK, DaemonOK, env, walk
<1>4. (ready \in BOOLEAN /\ unconfirmed \in BOOLEAN)'
  BY <1>2, Zenon DEF IInv, TypeOK
<1>5. StateConsistent' /\ SourceInHand'
  BY <1>1, <1>2, Zenon DEF StateConsistent, SourceInHand, Continues
<1>6. Surviving' = staged /\ (Surviving = staged \/ Surviving = mem)
  BY <1>1, <1>2 DEF Surviving
<1>7. ForwardOnly'
  BY <1>1, <1>2, <1>6 DEF IInv, ForwardOnly, Continues
<1>8. AllAcked'
  <2>1. Acked(Surviving) /\ Acked(staged) /\ sink' = sink
    BY <1>2 DEF IInv, AllAcked
  <2>2. Acked(Surviving)'
    BY <1>6, <2>1 DEF Acked
  <2>3. Acked(staged)'
    BY <1>2, <2>1 DEF Acked
  <2> QED BY <2>2, <2>3 DEF AllAcked
<1> QED
  BY <1>3, <1>4, <1>5, <1>7, <1>8 DEF IInv, TypeOK

-----------------------------------------------------------------------------
(* IInv is inductive.                                                      *)
LEMMA StepIInv == ASSUME IInv, [Next]_vars PROVE IInv'
<1>1. CASE Daemon
  BY <1>1, BaselineSteps, LoadStep, WalkSteps, ErrorSteps, SnapshotStep, UpsertStep, RenameStep, SyncStep
     DEF Daemon
<1>2. CASE Failure
  BY <1>2, FailureStep
<1>3. CASE Writers \/ Tick
  BY <1>3, OutsideStep
<1>4. CASE UNCHANGED vars
  <2> USE <1>4 DEF vars
  <2>1. (ready \in BOOLEAN /\ unconfirmed \in BOOLEAN)'
    BY DEF IInv, TypeOK
  <2>2. EnvOK' /\ StoreOK'
    BY DEF IInv, TypeOK, EnvOK, StoreOK, env, store
  <2>3. DaemonOK'
    BY DEF IInv, TypeOK, DaemonOK, walk
  <2>4. StateConsistent' /\ SourceInHand'
    BY Zenon DEF IInv, StateConsistent, SourceInHand, Continues, store, walk
  <2>5. Surviving' = Surviving /\ sink' = sink /\ staged' = staged
    BY DEF Surviving, store
  <2>6. ForwardOnly'
    BY <2>5 DEF IInv, ForwardOnly
  <2>7. AllAcked'
    BY <2>5 DEF IInv, AllAcked, Acked
  <2> QED BY <2>1, <2>2, <2>3, <2>4, <2>6, <2>7 DEF IInv, TypeOK
<1> QED
  BY <1>1, <1>2, <1>3, <1>4 DEF Next, LoadRefused

LEMMA IInvJustifies == IInv => UploadJustified /\ AcknowledgedWasSent
<1> SUFFICES ASSUME IInv PROVE UploadJustified /\ AcknowledgedWasSent
  OBVIOUS
<1>1. AcknowledgedWasSent
  BY DEF IInv, AllAcked, Acked, AcknowledgedWasSent
<1>2. UploadJustified
  BY SurvivingIsMemory, Zenon DEF UploadJustified, IInv, StateConsistent, SourceInHand
<1> QED BY <1>1, <1>2

(* Type correctness, for every instance: in particular no scan counts more *)
(* than MaxFilesPerScan files and what is sent is always a whole source.   *)
THEOREM TypeCorrect ==
    Spec => []TypeOK
<1>1. IInv /\ [Next]_vars => IInv'
  BY StepIInv
<1>2. IInv => TypeOK
  BY DEF IInv
<1> QED
  BY <1>1, <1>2, InitIInv, PTL DEF Spec

(* The producer's safety for every instance: nothing is sent before the    *)
(* cutoff survives a restart or with a record older than it, nothing       *)
(* excluded or acknowledged is sent again, nothing is acknowledged unsent, *)
(* and memory agrees with forward.json whenever a source is examined.      *)
THEOREM ForwardSafety ==
    Spec => [](ForwardOnly /\ AcknowledgedWasSent /\ StateConsistent)
<1>1. IInv /\ [Next]_vars => IInv'
  BY StepIInv
<1>2. IInv => ForwardOnly /\ AcknowledgedWasSent /\ StateConsistent
  BY IInvJustifies DEF IInv
<1> QED
  BY <1>1, <1>2, InitIInv, PTL DEF Spec

(* Every upload the producer is about to make is justified by the state    *)
(* that a restart would find, for every instance: a source in hand is      *)
(* neither excluded nor acknowledged by it.                                *)
THEOREM UploadsAreJustified ==
    Spec => []UploadJustified
<1>1. IInv /\ [Next]_vars => IInv'
  BY StepIInv
<1>2. IInv => UploadJustified
  BY IInvJustifies
<1> QED
  BY <1>1, <1>2, InitIInv, PTL DEF Spec

-----------------------------------------------------------------------------
(* Only a write, confirmed or not, changes the state a restart finds, and  *)
(* then to one that continues it.                                          *)
LEMMA SurvivingStep == ASSUME IInv, [Next]_vars PROVE Continues(Surviving, Surviving')
<1>1. CASE RenameState
  BY <1>1 DEF RenameState, Surviving, IInv, StateConsistent, Continues
<1>2. CASE SyncState
  BY <1>2 DEF SyncState, Surviving, IInv, StateConsistent, Continues
<1>3. CASE PowerLoss
  BY <1>3 DEF PowerLoss, Surviving, Continues
<1>4. CASE UNCHANGED store
  BY <1>4 DEF store, Surviving, Continues
<1>5. Daemon => UNCHANGED store \/ RenameState \/ SyncState
  BY DEF Daemon, Enable, BaselineRootDone, BaselineError, Load, BeginScan, ScanError, ScanRootDone,
         TakeSnapshot, SourceChanged, Upsert, BaselinePath, SkipPath, VisitPath
<1>6. Failure => UNCHANGED store \/ PowerLoss \/ SyncError \/ Crash
  BY DEF Failure, UpsertError, RenameError, ReadError
<1>7. Writers \/ Tick => UNCHANGED store
  BY DEF Writers, Tick, Rewrite, Create, Rename, Delete, ReplaceRoot, Edit
<1>8. LoadRefused \/ UNCHANGED vars => UNCHANGED store
  BY DEF LoadRefused, vars, store
<1>9. CASE SyncError \/ Crash
  <2>1. UNCHANGED <<disk, synced>> /\ unconfirmed' = (unconfirmed \/ pc = "sync")
    BY <1>9, Zenon DEF SyncError, Crash
  <2>2. CASE pc = "sync"
    BY <2>1, <2>2, Zenon DEF Surviving, IInv, StateConsistent, Continues
  <2>3. CASE pc # "sync"
    BY <2>1, <2>3, Zenon DEF Surviving, Continues
  <2> QED BY <2>2, <2>3
<1> QED
  BY <1>1, <1>2, <1>3, <1>4, <1>5, <1>6, <1>7, <1>8, <1>9 DEF Next

(* Exclusions are permanent for every instance: no step, crash or power    *)
(* loss takes back the cutoff, the roots, or an excluded path, identity or *)
(* session from the state that a restart finds.                            *)
THEOREM ExclusionsArePermanent ==
    Spec => ExclusionsPermanent
<1>1. IInv /\ [Next]_vars => IInv'
  BY StepIInv
<1>2. IInv /\ [Next]_vars => [Continues(Surviving, Surviving')]_vars
  BY SurvivingStep
<1> QED
  BY <1>1, <1>2, InitIInv, PTL DEF Spec, ExclusionsPermanent

-----------------------------------------------------------------------------
(* ForwardWatch implements ForwardPromise.  Seen through the state that a  *)
(* restart finds, the daemon does nothing but send, and write; and a       *)
(* write, wherever it takes effect (at the rename, at the sync, or when a  *)
(* process ends between the two), is one step of the promise, since the    *)
(* state that is written is the one in memory with one refusal or one      *)
(* acknowledgement more, or the first of all.                              *)

Refusal == mem # Nothing /\ staged.progress = mem.progress

Acknowledgement(u) ==
    /\ mem # Nothing /\ staged.progress = [mem.progress EXCEPT ![u.path] = u.content]
    /\ staged.cutoff = mem.cutoff /\ staged.paths = mem.paths
    /\ staged.objects = mem.objects /\ staged.sessions = mem.sessions

First == mem = Nothing /\ \A p \in Paths : staged.progress[p] = Nothing

(* What is about to be written, relative to memory                         *)
Increment ==
    /\ pc = "baseline" => First
    /\ pc \in {"rename", "sync"} => First \/ Refusal \/ \E u \in sink : Acknowledgement(u)

PInv == IInv /\ Increment

-----------------------------------------------------------------------------
LEMMA IncrementInit == Init => Increment
  BY DEF Init, Increment

(* A step that ends the process or changes nothing of the write            *)
LEMMA IncrementKept ==
    ASSUME PInv,
           \/ pc' \notin {"baseline", "rename", "sync"}
           \/ UNCHANGED <<pc, mem, staged, sink>>
           \/ pc = "rename" /\ pc' = "sync" /\ UNCHANGED <<mem, staged, sink>>
           \/ pc = "baseline" /\ pc' = "rename" /\ UNCHANGED <<mem, staged, sink>>
    PROVE  Increment'
  BY Zenon DEF PInv, Increment, First, Refusal, Acknowledgement

LEMMA IncrementStep == ASSUME PInv, [Next]_vars PROVE Increment'
  <1> USE DEF PInv
  <1>1. CASE Enable
    <2>1. mem' = Nothing /\ pc' = "baseline"
      BY <1>1 DEF Enable, IInv, StateConsistent
    <2>2. \A p \in Paths : staged'.progress[p] = Nothing
      BY <1>1 DEF Enable, EmptyState
    <2> QED BY <2>1, <2>2, Zenon DEF Increment, First
  <1>2. ASSUME NEW p \in Paths, BaselinePath(p) PROVE Increment'
    <2>1. staged \in forwardState /\ First /\ UNCHANGED <<pc, mem>> /\ pc = "baseline"
      BY <1>2, Zenon DEF BaselinePath, IInv, TypeOK, DaemonOK, StateConsistent, Increment
    <2>2. staged' = excludeBaseline(staged, p, fs[p].obj)
      BY <1>2 DEF BaselinePath
    <2>3. staged'.progress = staged.progress
      BY <2>1, <2>2 DEF excludeBaseline, forwardState
    <2> QED BY <2>1, <2>3 DEF Increment, First
  <1>3. CASE TakeSnapshot
    <2> DEFINE d == Decide(mem, cur.path, fs[cur.path].content)
    <2>1. mem \in forwardState /\ mem # Nothing /\ mem' = mem
      BY <1>3 DEF TakeSnapshot, IInv, TypeOK, DaemonOK, StateConsistent
    <2>2. CASE d.do # "refuse"
      <3>1. pc' \in {"scan", "upsert"}
        BY <1>3, <2>2 DEF TakeSnapshot
      <3> QED BY <3>1, IncrementKept
    <2>3. CASE d.do = "refuse"
      <3>1. pc' = "rename" /\ staged' = refuseForwardPath(mem, cur.path, cur.obj, d.sessions)
        BY <1>3, <2>3 DEF TakeSnapshot
      <3>2. staged'.progress = mem.progress
        BY <2>1, <3>1 DEF refuseForwardPath, forwardState
      <3> QED BY <2>1, <3>1, <3>2, Zenon DEF Increment, Refusal
    <2> QED BY <2>2, <2>3
  <1>4. CASE Upsert
    <2>1. mem \in forwardState /\ mem # Nothing /\ mem' = mem /\ pc' = "rename" /\ cur \in sink'
      BY <1>4 DEF Upsert, IInv, TypeOK, DaemonOK, StateConsistent
    <2>2. staged' = [mem EXCEPT !.progress[cur.path] = cur.content]
      BY <1>4 DEF Upsert
    <2>3. /\ staged'.progress = [mem.progress EXCEPT ![cur.path] = cur.content]
          /\ staged'.cutoff = mem.cutoff /\ staged'.paths = mem.paths
          /\ staged'.objects = mem.objects /\ staged'.sessions = mem.sessions
      BY <2>1, <2>2 DEF forwardState
    <2> QED BY <2>1, <2>3, Zenon DEF Increment, Acknowledgement
  <1>5. CASE BaselineRootDone \/ RenameState
    BY <1>5, IncrementKept DEF BaselineRootDone, RenameState
  <1>6. CASE SyncState \/ Load \/ BeginScan \/ ScanRootDone \/ \E p \in Paths : SkipPath(p) \/ VisitPath(p)
    <2>1. pc' \in {"idle", "scan", "snapshot"}
      BY <1>6, Zenon DEF SyncState, Load, BeginScan, ScanRootDone, SkipPath, VisitPath
    <2> QED BY <2>1, IncrementKept
  <1>7. CASE BaselineError \/ ScanError \/ SourceChanged \/ Failure
    <2>1. pc' = "down"
      BY <1>7, Zenon DEF BaselineError, ScanError, SourceChanged, Failure, UpsertError, RenameError, SyncError,
                  ReadError, Crash, PowerLoss, Stop
    <2> QED BY <2>1, IncrementKept
  <1>8. CASE Writers \/ Tick \/ LoadRefused \/ UNCHANGED vars
    <2>1. UNCHANGED <<pc, mem, staged, sink>>
      BY <1>8 DEF Writers, Rewrite, Create, Rename, Delete, ReplaceRoot, Edit, Tick, LoadRefused, vars, daemon
    <2> QED BY <2>1, IncrementKept
  <1> QED BY <1>1, <1>2, <1>3, <1>4, <1>5, <1>6, <1>7, <1>8 DEF Next, Daemon

-----------------------------------------------------------------------------
LEMMA InitPromise == Init => Promise!Init
  BY DEF Init, Promise!Init, Recorded, AckedPairs, Surviving

LEMMA SameView ==
    ASSUME Surviving' = Surviving, sink' = sink
    PROVE  UNCHANGED Promise!promise
  BY DEF Promise!promise, Recorded, AckedPairs

(* Upsert, and an error of the sink after it has applied the write         *)
LEMMA SendStep ==
    ASSUME IInv, pc = "upsert", UNCHANGED store, sink' = sink \cup {cur}
    PROVE  cur \in Item /\ Promise!Send(cur)
  <1>1. /\ Surviving = mem /\ mem \in forwardState /\ mem # Nothing /\ cur \in Item
        /\ Fresh(cur.content, mem.cutoff)
        /\ cur.path \notin mem.paths /\ cur.obj \notin mem.objects
        /\ \A i \in DOMAIN cur.content.chunks : cur.content.chunks[i].session \notin mem.sessions
    BY SurvivingIsMemory, Zenon DEF IInv, TypeOK, DaemonOK, StateConsistent, SourceInHand
  <1>2. Surviving' = Surviving
    BY DEF Surviving, store
  <1>3. mem.cutoff # Nothing
    BY <1>1, NothingAssumption, Zenon DEF forwardState
  <1>4. ItemCurrent(cur, Surviving.cutoff)
    BY <1>1, Zenon DEF ItemCurrent
  <1>5. ~ItemBarred(cur, Surviving.paths, Surviving.objects, Surviving.sessions)
    BY <1>1 DEF ItemBarred
  <1> QED BY <1>1, <1>2, <1>3, <1>4, <1>5, Zenon DEF Promise!Send, Recorded, AckedPairs

(* The state that is written takes the place of the one in memory.         *)
LEMMA WriteStep ==
    ASSUME PInv, pc \in {"rename", "sync"}, Surviving = mem, Surviving' = staged, sink' = sink
    PROVE  Promise!Next
  <1>1. staged \in forwardState /\ staged # Nothing /\ Continues(mem, staged) /\ sink \subseteq Item
    BY NothingAssumption DEF PInv, IInv, TypeOK, StoreOK, DaemonOK, StateConsistent
  <1>2. /\ staged.cutoff \in 1..MaxTime /\ staged.cutoff # Nothing
        /\ staged.progress \in [Paths -> Contents \cup {Nothing}]
    BY <1>1, NothingAssumption, Zenon DEF forwardState
  <1>3. CASE First
    <2>1. AckedPairs = {} /\ AckedPairs' = {}
      BY <1>3 DEF First, AckedPairs
    <2>2. Promise!Enable
      BY <1>1, <1>2, <1>3, <2>1 DEF First, Promise!Enable, Promise!Grow, Recorded
    <2> QED BY <2>2 DEF Promise!Next
  <1>4. CASE Refusal
    <2>1. mem # Nothing /\ AckedPairs' = AckedPairs
      BY <1>1, <1>4 DEF Refusal, AckedPairs
    <2>2. Promise!Bar
      BY <1>1, <1>2, <2>1 DEF Continues, Promise!Bar, Promise!Grow, Recorded
    <2> QED BY <2>2 DEF Promise!Next
  <1>5. ASSUME NEW u \in sink, Acknowledgement(u) PROVE Promise!Next
    <2>1. u \in Item /\ u.path \in Paths /\ u.content \in Contents /\ u.content # Nothing
      BY <1>1, WatchAssumption DEF Item
    <2>2. mem # Nothing /\ mem.progress \in [Paths -> Contents \cup {Nothing}]
      BY <1>5, Zenon DEF Acknowledgement, PInv, IInv, TypeOK, DaemonOK, forwardState
    <2>3. staged.progress = [mem.progress EXCEPT ![u.path] = u.content]
      BY <1>5 DEF Acknowledgement
    <2>4. AckedPairs = {<<p, mem.progress[p]>> : p \in {q \in Paths : mem.progress[q] # Nothing}}
      BY <2>2 DEF AckedPairs
    <2>5. AckedPairs' = {<<p, staged.progress[p]>> : p \in {q \in Paths : staged.progress[q] # Nothing}}
      BY <1>1 DEF AckedPairs
    <2>6. AckedPairs' = {a \in AckedPairs : a[1] # u.path} \cup {<<u.path, u.content>>}
      BY <2>1, <2>2, <2>3, <2>4, <2>5
    <2>7. Promise!Acknowledge(u)
      BY <1>1, <1>5, <2>1, <2>2, <2>6 DEF Acknowledgement, Promise!Acknowledge, Recorded
    <2> QED BY <2>1, <2>7 DEF Promise!Next
  <1> QED BY <1>3, <1>4, <1>5 DEF PInv, Increment

LEMMA StepPromise == ASSUME PInv, [Next]_vars PROVE [Promise!Next]_(Promise!promise)
  <1> USE DEF PInv
  <1>1. CASE RenameState
    <2>1. sink' = sink /\ (Surviving' = Surviving \/ (Surviving = mem /\ Surviving' = staged))
      BY <1>1 DEF RenameState, Surviving, IInv, StateConsistent
    <2> QED BY <1>1, <2>1, SameView, WriteStep DEF RenameState
  <1>2. CASE SyncState
    <2>1. sink' = sink /\ (Surviving' = Surviving \/ (Surviving = mem /\ Surviving' = staged))
      BY <1>2 DEF SyncState, Surviving, IInv, StateConsistent
    <2> QED BY <1>2, <2>1, SameView, WriteStep DEF SyncState
  <1>3. CASE PowerLoss
    <2>1. sink' = sink /\ Surviving' = Surviving
      BY <1>3 DEF PowerLoss, Surviving
    <2> QED BY <2>1, SameView
  <1>4. CASE SyncError \/ Crash
    <2>1. UNCHANGED <<disk, synced, sink>> /\ unconfirmed' = (unconfirmed \/ pc = "sync")
      BY <1>4, Zenon DEF SyncError, Crash
    <2>2. Surviving' = Surviving \/ (pc = "sync" /\ Surviving = mem /\ Surviving' = staged)
      BY <2>1, Zenon DEF Surviving, IInv, StateConsistent
    <2> QED BY <2>1, <2>2, SameView, WriteStep
  <1>5. CASE Upsert \/ UpsertError
    <2>1. pc = "upsert" /\ UNCHANGED store /\ (sink' = sink \/ sink' = sink \cup {cur})
      BY <1>5 DEF Upsert, UpsertError
    <2>2. Surviving' = Surviving
      BY <2>1 DEF Surviving, store
    <2> QED BY <2>1, <2>2, SameView, SendStep DEF Promise!Next
  <1>6. CASE UNCHANGED <<store, sink>>
    <2>1. Surviving' = Surviving /\ sink' = sink
      BY <1>6 DEF Surviving, store
    <2> QED BY <2>1, SameView
  <1>7. Daemon => UNCHANGED <<store, sink>> \/ RenameState \/ SyncState \/ Upsert
    BY DEF Daemon, Enable, BaselineRootDone, BaselineError, Load, BeginScan, ScanError, ScanRootDone,
           TakeSnapshot, SourceChanged, BaselinePath, SkipPath, VisitPath
  <1>8. Failure => UNCHANGED <<store, sink>> \/ PowerLoss \/ SyncError \/ Crash \/ UpsertError
    BY DEF Failure, RenameError, ReadError
  <1>9. Writers \/ Tick \/ LoadRefused \/ UNCHANGED vars => UNCHANGED <<store, sink>>
    BY DEF Writers, Rewrite, Create, Rename, Delete, ReplaceRoot, Edit, Tick, LoadRefused, vars, store
  <1> QED BY <1>1, <1>2, <1>3, <1>4, <1>5, <1>6, <1>7, <1>8, <1>9 DEF Next

(* The producer with its scans, failures, crashes and restarts, seen       *)
(* through the state that a restart will find, does what ForwardPromise    *)
(* allows and nothing else: a cutoff set once, exclusions that only grow,  *)
(* sending of what is current and not excluded, and acknowledgement of     *)
(* what was sent.                                                          *)
THEOREM PromiseIsKept == Spec => KeepsPromise
  <1>1. Init => PInv
    BY InitIInv, IncrementInit DEF PInv
  <1>2. PInv /\ [Next]_vars => PInv'
    BY StepIInv, IncrementStep DEF PInv
  <1>3. PInv /\ [Next]_vars => [Promise!Next]_(Promise!promise)
    BY StepPromise
  <1> QED BY InitPromise, <1>1, <1>2, <1>3, PTL DEF Spec, KeepsPromise, Promise!Spec

-----------------------------------------------------------------------------
(* A walk misses nothing that stays in place.  The invariant says it at    *)
(* every point of the walk: of the sources untouched since it began, those *)
(* of the roots already walked are dealt with, and those of the root being *)
(* walked are dealt with, still listed, or in hand.                        *)

Walked(p) == RootOf[p] < root \/ (RootOf[p] = root /\ p \notin todo)

Excluded(p) == p \in staged.paths /\ fs[p].obj \in staged.objects

(* A file f at path p that a scan under st would upload.                   *)
Awaits(st, p, f) ==
    /\ p \notin st.paths /\ f.obj \notin st.objects
    /\ Decide(st, p, f.content).do = "upload"

(* The state that a scan goes on with: the one being written, if any.      *)
Planned == IF pc \in {"rename", "sync"} THEN staged ELSE mem

InHand(p) == pc \in {"snapshot", "upsert"} /\ cur.path = p

BaselineWalk ==
    /\ pc = "baseline" => root \in 1..NRoots /\ \A p \in untouched : Walked(p) => Excluded(p)
    /\ pc = "rename" /\ mem = Nothing => \A p \in untouched : Excluded(p)

ScanWalk ==
    /\ pc \in {"scan", "snapshot", "upsert", "rename", "sync"} /\ mem # Nothing =>
          /\ root \in 1..NRoots
          /\ \A p \in untouched : Walked(p) /\ ~InHand(p) => ~Awaits(Planned, p, fs[p])
    /\ pc = "upsert" /\ cur.path \in untouched => cur.content = fs[cur.path].content

SweepInv ==
    /\ untouched \subseteq {p \in Paths : fs[p] # Nothing}
    /\ BaselineWalk /\ ScanWalk

(* A state that excludes more, and acknowledges the same of a path, lets a *)
(* scan upload no more of it.                                              *)
LEMMA AwaitsFewer ==
    ASSUME NEW st \in forwardState, NEW s2 \in forwardState, NEW p \in Paths, NEW f,
           s2.cutoff = st.cutoff, s2.progress[p] = st.progress[p],
           st.paths \subseteq s2.paths, st.objects \subseteq s2.objects,
           st.sessions \subseteq s2.sessions,
           Awaits(s2, p, f)
    PROVE  Awaits(st, p, f)
<1> DEFINE c == f.content
           e == inspectForwardEligibility(c, NameSession[p], st.cutoff)
<1>1. /\ s2.progress[p] # c /\ e.verdict # "wait" /\ e.verdict # "refuse"
      /\ e.sessions \cap s2.sessions = {} /\ c.chunks # <<>> /\ BadChunks(s2, c) = {}
  BY Zenon DEF Awaits, Decide
<1>2. e.sessions \cap st.sessions = {}
  BY <1>1, Zenon
<1>3. BadChunks(st, c) = {}
  BY <1>1, Zenon DEF BadChunks
<1>4. Decide(st, p, c).do = "upload"
  <2> HIDE DEF c
  <2> QED BY <1>1, <1>2, <1>3, Zenon DEF Decide
<1> QED
  BY <1>4 DEF Awaits

(* A file whose content is acknowledged is not uploaded again.             *)
LEMMA AcknowledgedSettled ==
    ASSUME NEW st, NEW p, NEW f, st.progress[p] = f.content
    PROVE  ~Awaits(st, p, f)
BY Zenon DEF Awaits, Decide

-----------------------------------------------------------------------------
(* Outside the two steps that begin a walk, the history only shrinks, and  *)
(* holds files as they were.                                               *)
LEMMA HistoryShrinks ==
    ASSUME SweepInv, Observe, ~WalkBegins
    PROVE  /\ untouched' \subseteq untouched
           /\ \A p \in untouched' : fs'[p] = fs[p]
           /\ untouched' \subseteq {p \in Paths : fs'[p] # Nothing}
           /\ ~Walking' => untouched' = {}
BY DEF SweepInv, Observe

LEMMA SweepOutside ==
    ASSUME SweepInv, Observe, UNCHANGED daemon
    PROVE  SweepInv'
<1>1. /\ pc' = pc /\ mem' = mem /\ staged' = staged /\ todo' = todo
      /\ root' = root /\ cur' = cur
  BY DEF daemon
<1>2. ~WalkBegins
  BY <1>1 DEF WalkBegins
<1>3. /\ untouched' \subseteq untouched
      /\ \A p \in untouched' : fs'[p] = fs[p]
      /\ untouched' \subseteq {p \in Paths : fs'[p] # Nothing}
  BY <1>2, HistoryShrinks
<1>4. BaselineWalk'
  BY <1>1, <1>3 DEF SweepInv, BaselineWalk, Walked, Excluded
<1>5. ScanWalk'
  BY <1>1, <1>3 DEF SweepInv, ScanWalk, Walked, InHand, Planned
<1> QED BY <1>3, <1>4, <1>5 DEF SweepInv

LEMMA SweepStops ==
    ASSUME SweepInv, Observe, pc' \in {"down", "idle"}
    PROVE  SweepInv'
<1>1. ~WalkBegins /\ ~Walking'
  BY DEF WalkBegins, Walking
<1>2. untouched' = {}
  BY <1>1, HistoryShrinks
<1> QED
  BY <1>2, Zenon DEF SweepInv, BaselineWalk, ScanWalk

(* The first listing holds every source of the first root.                 *)
LEMMA SweepBegins ==
    ASSUME IInv, Observe, Enable \/ BeginScan
    PROVE  SweepInv'
<1>1. /\ fs' = fs /\ mem' = mem /\ cur' = cur /\ root' = 1 /\ todo' = Listing(1)
      /\ pc' \in {"baseline", "scan"} /\ WalkBegins
  BY DEF Enable, BeginScan, WalkBegins, env
<1>2. untouched' = {p \in Paths : fs[p] # Nothing}
  BY <1>1 DEF Observe
<1>3. \A p \in untouched' : ~Walked(p)'
  <2> SUFFICES ASSUME NEW p \in untouched' PROVE ~Walked(p)'
    OBVIOUS
  <2>1. p \in Paths /\ RootOf[p] \in 1..NRoots /\ NRoots \in Nat \ {0}
    BY <1>2, WatchAssumption
  <2>2. RootOf[p] = 1 => p \in todo'
    BY <1>1, <1>2, <2>1 DEF Listing
  <2> QED BY <1>1, <2>1, <2>2 DEF Walked
<1>4. root' \in 1..NRoots
  BY <1>1, WatchAssumption
<1> QED
  BY <1>1, <1>2, <1>3, <1>4, Zenon DEF SweepInv, BaselineWalk, ScanWalk

(* The roots are walked in their order, and the last one is the last.      *)
LEMMA NextRoot ==
    ASSUME NEW r \in 1..NRoots
    PROVE  /\ r < NRoots => r + 1 \in 1..NRoots
           /\ ~(r < NRoots) => r = NRoots
<1>1. NRoots \in Nat
  BY WatchAssumption
<1> QED BY <1>1

-----------------------------------------------------------------------------
(* The end of a root's listing: every source of it has been walked, and    *)
(* the next listing holds every source of the next root.                   *)
LEMMA NextListing ==
    ASSUME IInv, NEW p \in Paths, todo = {}, root \in 1..NRoots
    PROVE  /\ root = NRoots => Walked(p)
           /\ root < NRoots /\ fs[p] # Nothing /\ fs' = fs /\ root' = root + 1
                /\ todo' = Listing(root + 1) /\ Walked(p)' => Walked(p)
<1>1. RootOf[p] \in 1..NRoots /\ NRoots \in Nat
  BY WatchAssumption
<1>2. ASSUME root = NRoots PROVE Walked(p)
  BY <1>1, <1>2 DEF Walked
<1>3. ASSUME root < NRoots, fs[p] # Nothing, root' = root + 1,
             todo' = Listing(root + 1), Walked(p)'
      PROVE  Walked(p)
  <2>1. RootOf[p] # root + 1
    BY <1>3 DEF Walked, Listing
  <2>2. RootOf[p] < root + 1
    BY <1>3, <2>1 DEF Walked
  <2> QED BY <1>1, <2>2 DEF Walked
<1> QED BY <1>2, <1>3

LEMMA SweepBaseline ==
    ASSUME IInv, SweepInv, Observe,
           BaselineRootDone \/ \E p \in Paths : BaselinePath(p)
    PROVE  SweepInv'
<1>1. /\ fs' = fs /\ mem' = mem /\ cur' = cur /\ pc = "baseline" /\ ~WalkBegins
      /\ mem = Nothing /\ pc' \in {"baseline", "rename"}
  BY Zenon DEF BaselineRootDone, BaselinePath, WalkBegins, env, IInv, StateConsistent
<1>2. /\ untouched' \subseteq untouched
      /\ untouched' \subseteq {p \in Paths : fs'[p] # Nothing}
  BY <1>1, HistoryShrinks
<1>3. /\ root \in 1..NRoots
      /\ \A p \in untouched : Walked(p) => Excluded(p)
      /\ untouched \subseteq {p \in Paths : fs[p] # Nothing}
  BY <1>1 DEF SweepInv, BaselineWalk
<1>4. ScanWalk'
  BY <1>1 DEF ScanWalk
<1>5. CASE BaselineRootDone
  <2>1. staged' = staged /\ todo = {}
    BY <1>5 DEF BaselineRootDone
  <2>2. \A p \in untouched : Excluded(p)' <=> Excluded(p)
    BY <1>1, <2>1 DEF Excluded
  <2>3. CASE root < NRoots
    <3>1. root' = root + 1 /\ todo' = Listing(root + 1) /\ pc' = "baseline"
      BY <1>1, <1>5, <2>3 DEF BaselineRootDone
    <3>2. \A p \in untouched : Walked(p)' => Walked(p)
      BY <1>1, <1>3, <2>1, <2>3, <3>1, NextListing
    <3>3. root' \in 1..NRoots
      BY <1>3, <2>3, <3>1, NextRoot
    <3> QED BY <1>2, <1>3, <1>4, <2>2, <3>1, <3>2, <3>3, Zenon DEF SweepInv, BaselineWalk
  <2>4. CASE ~(root < NRoots)
    <3>1. root = NRoots /\ pc' = "rename"
      <4>1. root = NRoots
        BY <1>3, <2>4, NextRoot
      <4>2. pc' = "rename"
        BY <1>5, <2>4 DEF BaselineRootDone
      <4> QED BY <4>1, <4>2
    <3>2. \A p \in untouched : Walked(p)
      BY <1>3, <2>1, <3>1, NextListing
    <3> QED BY <1>2, <1>3, <1>4, <2>2, <3>1, <3>2, Zenon DEF SweepInv, BaselineWalk
  <2> QED BY <2>3, <2>4
<1>6. ASSUME NEW q \in Paths, BaselinePath(q) PROVE SweepInv'
  <2>1. /\ staged' = excludeBaseline(staged, q, fs[q].obj) /\ todo' = todo \ {q}
        /\ root' = root /\ pc' = "baseline" /\ staged \in forwardState
    BY <1>1, <1>6, Zenon DEF BaselinePath, IInv, TypeOK, DaemonOK, StateConsistent
  <2>2. /\ staged'.paths = staged.paths \cup {q}
        /\ staged'.objects = staged.objects \cup {fs[q].obj}
    BY <2>1 DEF excludeBaseline, forwardState
  <2>3. Excluded(q)' /\ \A p \in untouched : Excluded(p) => Excluded(p)'
    BY <1>1, <2>2, Zenon DEF Excluded
  <2>4. \A p \in untouched : Walked(p)' => Walked(p) \/ p = q
    BY <2>1 DEF Walked
  <2> QED BY <1>2, <1>3, <1>4, <2>1, <2>3, <2>4, Zenon DEF SweepInv, BaselineWalk
<1> QED BY <1>5, <1>6

-----------------------------------------------------------------------------
(* The steps of a scan.  Each goes on with the same state, or with one     *)
(* that excludes or acknowledges more.                                     *)
LEMMA ScanContext ==
    ASSUME IInv, SweepInv, Observe, mem # Nothing, fs' = fs,
           pc \in {"scan", "snapshot", "upsert", "rename", "sync"}
    PROVE  /\ root \in 1..NRoots /\ mem \in forwardState /\ ~WalkBegins
           /\ \A p \in untouched : Walked(p) /\ ~InHand(p) => ~Awaits(Planned, p, fs[p])
           /\ untouched \subseteq {p \in Paths : fs[p] # Nothing}
           /\ untouched' \subseteq untouched
           /\ untouched' \subseteq {p \in Paths : fs'[p] # Nothing}
<1>1. ~WalkBegins
  BY DEF WalkBegins
<1>2. mem \in forwardState
  BY DEF IInv, TypeOK, DaemonOK
<1>3. /\ untouched' \subseteq untouched
      /\ untouched' \subseteq {p \in Paths : fs'[p] # Nothing}
  BY <1>1, HistoryShrinks
<1> QED BY <1>1, <1>2, <1>3, Zenon DEF SweepInv, ScanWalk

LEMMA SweepVisits ==
    ASSUME IInv, SweepInv, Observe,
           \E p \in Paths : SkipPath(p) \/ VisitPath(p)
    PROVE  SweepInv'
<1> PICK q \in Paths : SkipPath(q) \/ VisitPath(q)
  OBVIOUS
<1>1. /\ fs' = fs /\ mem' = mem /\ root' = root /\ todo' = todo \ {q} /\ pc = "scan"
      /\ mem # Nothing /\ pc' \in {"scan", "snapshot"}
  BY Zenon DEF SkipPath, VisitPath, env, IInv, StateConsistent
<1>2. /\ root \in 1..NRoots
      /\ \A p \in untouched : Walked(p) /\ ~InHand(p) => ~Awaits(Planned, p, fs[p])
      /\ untouched' \subseteq untouched
      /\ untouched' \subseteq {p \in Paths : fs'[p] # Nothing}
  BY <1>1, ScanContext
<1>3. Planned = mem /\ Planned' = mem
  BY <1>1 DEF Planned
<1>4. \A p \in untouched : ~InHand(p)
  BY <1>1 DEF InHand
<1>5. \A p \in untouched : Walked(p)' => Walked(p) \/ p = q
  BY <1>1 DEF Walked
<1>6. InHand(q)' \/ ~Awaits(mem, q, fs[q])
  <2>1. CASE SkipPath(q)
    BY <2>1, Zenon DEF SkipPath, Awaits
  <2>2. CASE VisitPath(q)
    BY <2>2, Zenon DEF VisitPath, InHand
  <2> QED BY <2>1, <2>2
<1>7. ScanWalk'
  BY <1>1, <1>2, <1>3, <1>4, <1>5, <1>6, Zenon DEF ScanWalk
<1>8. BaselineWalk'
  BY <1>1 DEF BaselineWalk
<1> QED BY <1>2, <1>7, <1>8, Zenon DEF SweepInv

LEMMA SweepRootDone ==
    ASSUME IInv, SweepInv, Observe, ScanRootDone
    PROVE  SweepInv'
<1>1. fs' = fs /\ mem' = mem /\ cur' = cur /\ pc = "scan" /\ mem # Nothing /\ todo = {}
  BY DEF ScanRootDone, env, IInv, StateConsistent
<1>2. /\ root \in 1..NRoots
      /\ \A p \in untouched : Walked(p) /\ ~InHand(p) => ~Awaits(Planned, p, fs[p])
      /\ untouched \subseteq {p \in Paths : fs[p] # Nothing}
      /\ untouched' \subseteq untouched
      /\ untouched' \subseteq {p \in Paths : fs'[p] # Nothing}
  BY <1>1, ScanContext
<1>3. CASE root < NRoots
  <2>1. root' = root + 1 /\ todo' = Listing(root + 1) /\ pc' = "scan"
    BY <1>1, <1>3 DEF ScanRootDone
  <2>2. \A p \in untouched : Walked(p)' => Walked(p)
    BY <1>1, <1>2, <1>3, <2>1, NextListing
  <2>3. root' \in 1..NRoots
    BY <1>2, <1>3, <2>1, NextRoot
  <2>4. Planned = mem /\ Planned' = mem /\ \A p \in untouched : ~InHand(p)
    BY <1>1, <2>1 DEF Planned, InHand
  <2>5. ScanWalk'
    BY <1>1, <1>2, <2>1, <2>2, <2>3, <2>4, Zenon DEF ScanWalk
  <2>6. BaselineWalk'
    BY <2>1 DEF BaselineWalk
  <2> QED BY <1>2, <2>5, <2>6, Zenon DEF SweepInv
<1>4. CASE ~(root < NRoots)
  BY <1>4, SweepStops DEF ScanRootDone
<1> QED BY <1>3, <1>4

LEMMA SweepSnapshot ==
    ASSUME IInv, SweepInv, Observe, TakeSnapshot
    PROVE  SweepInv'
<1> DEFINE q == cur.path
           f == fs[q]
           d == Decide(mem, q, f.content)
<1>1. /\ fs' = fs /\ mem' = mem /\ root' = root /\ todo' = todo /\ pc = "snapshot"
      /\ mem # Nothing /\ cur \in Source /\ q \in Paths /\ cur.obj \in Objects
      /\ f.obj = cur.obj
  BY DEF TakeSnapshot, SameSource, env, walk, IInv, StateConsistent, SourceInHand, Source
<1>2. /\ root \in 1..NRoots /\ mem \in forwardState
      /\ \A p \in untouched : Walked(p) /\ ~InHand(p) => ~Awaits(Planned, p, fs[p])
      /\ untouched \subseteq {p \in Paths : fs[p] # Nothing}
      /\ untouched' \subseteq untouched
      /\ untouched' \subseteq {p \in Paths : fs'[p] # Nothing}
  BY <1>1, ScanContext, Zenon
<1>3. Planned = mem /\ \A p \in untouched : Walked(p)' <=> Walked(p)
  BY <1>1 DEF Planned, Walked
<1>4. \A p \in untouched : InHand(p) <=> p = q
  BY <1>1 DEF InHand
<1>5. pc' \in {"scan", "rename", "upsert"}
  BY DEF TakeSnapshot
<1>6. BaselineWalk'
  BY <1>1, <1>5 DEF BaselineWalk
<1>7. CASE d.do = "skip"
  <2>1. pc' = "scan"
    BY <1>7 DEF TakeSnapshot
  <2>2. Planned' = mem /\ ~Awaits(mem, q, f)
    BY <1>1, <1>7, <2>1, Zenon DEF Planned, Awaits
  <2>3. ScanWalk'
    BY <1>1, <1>2, <1>3, <1>4, <2>1, <2>2, Zenon DEF ScanWalk
  <2> QED BY <1>2, <1>6, <2>3 DEF SweepInv
<1>8. CASE d.do = "refuse"
  <2> DEFINE st == refuseForwardPath(mem, q, cur.obj, d.sessions)
  <2>1. pc' = "rename" /\ staged' = st
    BY <1>8 DEF TakeSnapshot
  <2>2. /\ st \in forwardState /\ st.progress = mem.progress /\ st.cutoff = mem.cutoff
        /\ mem.paths \subseteq st.paths /\ mem.objects \subseteq st.objects
        /\ mem.sessions \subseteq st.sessions /\ q \in st.paths
    BY <1>1, <1>2, SessionsAssumption, Zenon DEF refuseForwardPath, forwardState
  <2> HIDE DEF st
  <2>3. Planned' = st /\ ~Awaits(st, q, f)
    BY <2>1, <2>2, Zenon DEF Planned, Awaits
  <2>4. \A p \in untouched : Awaits(st, p, fs[p]) => Awaits(mem, p, fs[p])
    BY <1>2, <2>2, AwaitsFewer, Zenon
  <2>5. ScanWalk'
    BY <1>1, <1>2, <1>3, <1>4, <2>1, <2>3, <2>4, Zenon DEF ScanWalk
  <2> QED BY <1>2, <1>6, <2>5 DEF SweepInv
<1>9. CASE d.do = "upload"
  <2>1. pc' = "upsert" /\ cur' = [cur EXCEPT !.obj = f.obj, !.content = f.content]
    BY <1>9 DEF TakeSnapshot
  <2>2. cur'.path = q /\ cur'.content = f.content
    BY <1>1, <2>1 DEF Source
  <2>3. Planned' = mem /\ \A p \in untouched : InHand(p)' <=> p = q
    BY <1>1, <2>1, <2>2 DEF Planned, InHand
  <2>4. ScanWalk'
    BY <1>1, <1>2, <1>3, <1>4, <2>1, <2>2, <2>3 DEF ScanWalk
  <2> QED BY <1>2, <1>6, <2>4 DEF SweepInv
<1> QED
  BY <1>7, <1>8, <1>9 DEF TakeSnapshot

LEMMA SweepUpsert ==
    ASSUME IInv, SweepInv, Observe, Upsert
    PROVE  SweepInv'
<1> DEFINE q == cur.path
<1>1. /\ fs' = fs /\ mem' = mem /\ root' = root /\ todo' = todo /\ pc = "upsert"
      /\ pc' = "rename" /\ mem # Nothing /\ cur \in Item
      /\ staged' = [mem EXCEPT !.progress[q] = cur.content]
  BY DEF Upsert, env, walk, IInv, StateConsistent, SourceInHand
<1>2. /\ root \in 1..NRoots /\ mem \in forwardState
      /\ \A p \in untouched : Walked(p) /\ ~InHand(p) => ~Awaits(Planned, p, fs[p])
      /\ untouched \subseteq {p \in Paths : fs[p] # Nothing}
      /\ untouched' \subseteq untouched
      /\ untouched' \subseteq {p \in Paths : fs'[p] # Nothing}
  BY <1>1, ScanContext
<1>3. q \in Paths /\ cur.content \in Contents
  BY <1>1 DEF Item
<1>4. /\ staged' \in forwardState /\ staged'.cutoff = mem.cutoff /\ staged'.paths = mem.paths
      /\ staged'.objects = mem.objects /\ staged'.sessions = mem.sessions
      /\ staged'.progress = [mem.progress EXCEPT ![q] = cur.content]
  BY <1>1, <1>2, <1>3 DEF forwardState
<1>5. mem.progress \in [Paths -> Contents \cup {Nothing}]
  BY <1>2, Zenon DEF forwardState
<1>6. Planned = mem /\ Planned' = staged' /\ \A p \in untouched : InHand(p) <=> p = q
  BY <1>1 DEF Planned, InHand
<1>7. \A p \in untouched : Walked(p)' <=> Walked(p)
  BY <1>1 DEF Walked
<1>8. ASSUME q \in untouched PROVE ~Awaits(staged', q, fs[q])
  <2>1. cur.content = fs[q].content
    BY <1>1, <1>8 DEF SweepInv, ScanWalk
  <2>2. staged'.progress[q] = cur.content
    BY <1>3, <1>4, <1>5
  <2> QED BY <2>1, <2>2, AcknowledgedSettled
<1>9. ASSUME NEW p \in untouched, p # q, Awaits(staged', p, fs[p])
      PROVE  Awaits(mem, p, fs[p])
  <2>1. p \in Paths
    BY <1>2
  <2>2. staged'.progress[p] = mem.progress[p]
    BY <1>4, <1>5, <1>9, <2>1
  <2> QED BY <1>2, <1>4, <1>9, <2>1, <2>2, AwaitsFewer, Zenon
<1>10. ScanWalk'
  BY <1>1, <1>2, <1>6, <1>7, <1>8, <1>9 DEF ScanWalk
<1>11. BaselineWalk'
  BY <1>1 DEF BaselineWalk
<1> QED BY <1>2, <1>10, <1>11 DEF SweepInv

LEMMA SweepWrites ==
    ASSUME IInv, SweepInv, Observe, RenameState \/ SyncState
    PROVE  SweepInv'
<1>1. /\ fs' = fs /\ root' = root /\ todo' = todo /\ pc \in {"rename", "sync"}
      /\ staged # Nothing
  BY DEF RenameState, SyncState, env, walk, IInv, StateConsistent
<1>2. CASE mem = Nothing
  <2>1. CASE SyncState
    BY <1>2, <2>1, SweepStops DEF SyncState
  <2>2. CASE RenameState
    <3>1. pc' = "sync" /\ mem' = Nothing /\ ~WalkBegins
      BY <1>2, <2>2 DEF RenameState, WalkBegins
    <3> QED BY <3>1, HistoryShrinks, Zenon DEF SweepInv, BaselineWalk, ScanWalk
  <2> QED BY <2>1, <2>2
<1>3. CASE mem # Nothing
  <2>1. /\ root \in 1..NRoots
        /\ \A p \in untouched : Walked(p) /\ ~InHand(p) => ~Awaits(Planned, p, fs[p])
        /\ untouched' \subseteq untouched
        /\ untouched' \subseteq {p \in Paths : fs'[p] # Nothing}
    BY <1>1, <1>3, ScanContext
  <2>2. pc' \in {"scan", "sync"}
    BY <1>3 DEF RenameState, SyncState
  <2>3. Planned' = Planned
    BY <1>3 DEF RenameState, SyncState, Planned
  <2>4. \A p \in untouched : ~InHand(p) /\ (Walked(p)' <=> Walked(p))
    BY <1>1 DEF InHand, Walked
  <2>5. ScanWalk'
    BY <1>1, <2>1, <2>2, <2>3, <2>4, Zenon DEF ScanWalk
  <2>6. BaselineWalk'
    BY <2>2 DEF BaselineWalk
  <2> QED BY <2>1, <2>5, <2>6 DEF SweepInv
<1> QED BY <1>2, <1>3

LEMMA SweepInduction ==
    ASSUME IInv, SweepInv, [Next /\ Observe]_observed
    PROVE  SweepInv'
<1>1. CASE UNCHANGED observed
  <2>1. /\ pc' = pc /\ mem' = mem /\ staged' = staged /\ todo' = todo /\ fs' = fs
        /\ root' = root /\ cur' = cur /\ untouched' = untouched
    BY <1>1 DEF observed, vars
  <2> QED
    BY <2>1, Zenon DEF SweepInv, BaselineWalk, ScanWalk, Walked, Excluded, InHand, Planned
<1>2. CASE Next /\ Observe
  <2>1. CASE Writers \/ Tick \/ LoadRefused
    <3>1. UNCHANGED daemon
      BY <2>1 DEF Writers, Tick, LoadRefused, Rewrite, Create, Rename, Delete, ReplaceRoot, Edit,
                  vars, daemon
    <3> QED BY <1>2, <3>1, SweepOutside
  <2>2. CASE Failure
    BY <1>2, <2>2, SweepStops, Zenon
       DEF Failure, UpsertError, RenameError, SyncError, ReadError, Crash, PowerLoss, Stop
  <2>3. CASE BaselineError \/ ScanError \/ SourceChanged \/ Load
    BY <1>2, <2>3, SweepStops, Zenon DEF BaselineError, ScanError, SourceChanged, Load, Stop
  <2>4. CASE Enable \/ BeginScan
    BY <1>2, <2>4, SweepBegins
  <2>5. CASE BaselineRootDone \/ \E p \in Paths : BaselinePath(p)
    BY <1>2, <2>5, SweepBaseline
  <2>6. CASE \E p \in Paths : SkipPath(p) \/ VisitPath(p)
    BY <1>2, <2>6, SweepVisits
  <2>7. CASE ScanRootDone
    BY <1>2, <2>7, SweepRootDone
  <2>8. CASE TakeSnapshot
    BY <1>2, <2>8, SweepSnapshot
  <2>9. CASE Upsert
    BY <1>2, <2>9, SweepUpsert
  <2>10. CASE RenameState \/ SyncState
    BY <1>2, <2>10, SweepWrites
  <2> QED
    BY <1>2, <2>1, <2>2, <2>3, <2>4, <2>5, <2>6, <2>7, <2>8, <2>9, <2>10 DEF Next, Daemon
<1> QED BY <1>1, <1>2

(* The end of a scan finds nothing left to upload.                         *)
LEMMA ScanEnds ==
    ASSUME IInv, SweepInv, [Next /\ Observe]_observed, pc = "scan", pc' = "idle"
    PROVE  ready' /\ \A p \in untouched : ~Awaiting(p)
<1>1. Next
  BY DEF observed, vars
<1>2. ScanRootDone
  BY <1>1, Zenon DEF Next, Daemon, Failure, Writers, Tick, LoadRefused, Enable, BaselineRootDone,
     BaselineError, Load, BeginScan, ScanError, TakeSnapshot, SourceChanged, Upsert, RenameState,
     SyncState, BaselinePath, SkipPath, VisitPath, UpsertError, RenameError, SyncError, ReadError,
     Crash, PowerLoss, Rewrite, Create, Rename, Delete, ReplaceRoot, Edit, Stop, vars, daemon
<1>3. todo = {} /\ ~(root < NRoots) /\ ready'
  BY <1>2 DEF ScanRootDone
<1>4. /\ mem # Nothing /\ mem = disk /\ root \in 1..NRoots
      /\ untouched \subseteq {p \in Paths : fs[p] # Nothing}
      /\ \A p \in untouched : Walked(p) /\ ~InHand(p) => ~Awaits(Planned, p, fs[p])
  BY Zenon DEF IInv, StateConsistent, SweepInv, ScanWalk
<1>5. root = NRoots
  BY <1>3, <1>4, WatchAssumption
<1>6. \A p \in untouched : Walked(p)
  BY <1>3, <1>4, <1>5, NextListing
<1>7. Planned = disk /\ \A p \in untouched : ~InHand(p)
  BY <1>4, Zenon DEF Planned, InHand
<1>8. \A p \in untouched : ~Awaits(disk, p, fs[p])
  BY <1>4, <1>6, <1>7
<1>9. \A p \in untouched : ~Awaiting(p)
  BY <1>8 DEF Awaits, Awaiting
<1> QED BY <1>3, <1>9

LEMMA SweepInit == Init /\ untouched = {} => IInv /\ SweepInv
BY InitIInv, Zenon DEF Init, SweepInv, BaselineWalk, ScanWalk

LEMMA ObservedStep == IInv /\ [Next /\ Observe]_observed => IInv'
BY StepIInv DEF observed

(* The first enablement is complete for every number of roots and files:   *)
(* whatever other programs do while baselineForwardPaths walks, a source   *)
(* that stays in place is excluded by path and by identity in the first    *)
(* state that is written.                                                  *)
THEOREM BaselineMissesNothing ==
    SweepSpec => []BaselineComplete
<1>1. IInv /\ SweepInv /\ [Next /\ Observe]_observed => SweepInv'
  BY SweepInduction
<1>2. SweepInv => BaselineComplete
  BY Zenon DEF SweepInv, BaselineWalk, BaselineComplete, Excluded
<1> QED
  BY <1>1, <1>2, SweepInit, ObservedStep, PTL DEF SweepSpec

(* A scan is complete for every number of roots and files: when            *)
(* scanForward reports the producer ready, every source that stayed in     *)
(* place since it began is excluded, acknowledged, or not to be uploaded.  *)
THEOREM ScanMissesNothing ==
    SweepSpec => SweepComplete
<1>1. IInv /\ SweepInv /\ [Next /\ Observe]_observed => SweepInv'
  BY SweepInduction
<1>2. IInv /\ SweepInv /\ [Next /\ Observe]_observed
      => [pc = "scan" /\ pc' = "idle" => ready' /\ \A p \in untouched : ~Awaiting(p)]_observed
  BY ScanEnds
<1> QED
  BY <1>1, <1>2, SweepInit, ObservedStep, PTL DEF SweepSpec, SweepComplete
=============================================================================
