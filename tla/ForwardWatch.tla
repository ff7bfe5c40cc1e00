----------------------------- MODULE ForwardWatch -----------------------------
(***************************************************************************)
(* The forward-only producer of history-ragd (watch/forward.go,            *)
(* watch/producer.go) inside the daemon's life cycle: first enablement,    *)
(* scans, refusal, upload, acknowledgement, failure, crash and restart,    *)
(* interleaved with programs that create, change, rename and delete the    *)
(* source files, and with the clock.                                       *)
(*                                                                         *)
(* A step of the daemon is what it does between two observations of, or    *)
(* effects on, shared state: reading a directory, reading a file's         *)
(* identity, taking its snapshot, the sink's Upsert, and the rename and    *)
(* the directory sync of durable.Root.WriteAtomic.                         *)
(***************************************************************************)
EXTENDS ForwardEligibility, FiniteSets

CONSTANTS
    Paths,          \* source paths a detector recognises; naturals, in walk order
    RootOf,         \* the index of the configured root that holds a path
    NRoots,         \* how many roots are configured
    NameSession,    \* the UUID in the base name of a path, or NoSession
    RootIds,        \* identities the configured root directories may have
    Objects,        \* file identities (volume and inode)
    Contents,       \* file contents; a digest identifies a content
    Faults,         \* the failures that may happen
    MaxFilesPerScan,
    MaxTime,        \* bound: last value of the clock
    MaxEdits,       \* bound: changes made to the source files
    MaxFaults,      \* bound: failures, crashes and power losses
    Nothing         \* no file, no digest, no state, no current source

FaultKinds == {"io", "upsert", "write", "sync", "crash", "power"}

ASSUME WatchAssumption ==
    /\ Paths \subseteq Nat /\ NRoots \in Nat \ {0}
    /\ RootOf \in [Paths -> 1..NRoots]
    /\ NameSession \in [Paths -> Reliable \cup {NoSession}]
    /\ Contents \subseteq Content
    /\ Faults \subseteq FaultKinds
    /\ MaxFilesPerScan \in Nat /\ MaxTime \in Nat \ {0} /\ MaxEdits \in Nat /\ MaxFaults \in Nat
    /\ \A S \in {RootIds, Objects, Contents} : Nothing \notin S

VARIABLES
    fs,             \* the source files: identity and content of every path
    rootId,         \* the identity the root directories have now
    now,            \* the clock
    disk,           \* forward.json as a reader finds it
    synced,         \* forward.json as a power loss leaves it
    unconfirmed,    \* a process ended between its rename and its sync
    pc,             \* where the daemon is
    bound,          \* the root identity pinned when the daemon started
    mem,            \* tracker.state
    staged,         \* the state being built or written
    todo,           \* paths of the current root's listing not visited yet
    root,           \* the root being walked
    seen,           \* files counted against MaxFilesPerScan
    cur,            \* the source in hand: path, identity and snapshot
    ready,          \* Producer.ready
    sink,           \* every source the sink has applied
    edits, faults   \* bounds

env == <<fs, rootId, now, edits>>
store == <<disk, synced, unconfirmed>>
walk == <<todo, root, seen>>
daemon == <<pc, bound, mem, staged, todo, root, seen, cur, ready>>
vars == <<fs, rootId, now, disk, synced, unconfirmed, pc, bound, mem, staged, todo, root, seen,
          cur, ready, sink, edits, faults>>

File == [obj: Objects, content: Contents]

forwardState == [cutoff: 1..MaxTime, roots: RootIds, paths: SUBSET Paths,
                 objects: SUBSET Objects, sessions: SUBSET Sessions,
                 progress: [Paths -> Contents \cup {Nothing}]]

Item == [path: Paths, obj: Objects, content: Contents]

Source == [path: Paths, obj: Objects, content: Contents \cup {Nothing}]

ASSUME NothingAssumption ==
    /\ Nothing \notin File /\ Nothing \notin forwardState /\ Nothing \notin Source
    /\ Nothing \notin 1..MaxTime

EnvOK ==
    /\ fs \in [Paths -> File \cup {Nothing}]
    /\ rootId \in RootIds /\ now \in 1..MaxTime /\ edits \in 0..MaxEdits

StoreOK ==
    /\ disk \in forwardState \cup {Nothing} /\ synced \in forwardState \cup {Nothing}
    /\ sink \subseteq Item /\ faults \in 0..MaxFaults

DaemonOK ==
    /\ pc \in {"down", "baseline", "idle", "scan", "snapshot", "upsert", "rename", "sync"}
    /\ bound \in RootIds \cup {Nothing}
    /\ mem \in forwardState \cup {Nothing} /\ staged \in forwardState \cup {Nothing}
    /\ todo \subseteq Paths /\ root \in 0..NRoots /\ seen \in 0..MaxFilesPerScan
    /\ cur \in Source \cup {Nothing}

(* Every variable has its type; a scan never counts more than              *)
(* MaxFilesPerScan files.                                                  *)
TypeOK == EnvOK /\ StoreOK /\ DaemonOK /\ ready \in BOOLEAN /\ unconfirmed \in BOOLEAN

Init ==
    /\ fs \in [Paths -> File \cup {Nothing}]
    /\ \A p, q \in Paths : p # q /\ fs[p] # Nothing /\ fs[q] # Nothing => fs[p].obj # fs[q].obj
    /\ rootId \in RootIds /\ now = 1
    /\ disk = Nothing /\ synced = Nothing /\ unconfirmed = FALSE
    /\ pc = "down" /\ bound = Nothing /\ mem = Nothing /\ staged = Nothing
    /\ todo = {} /\ root = 0 /\ seen = 0 /\ cur = Nothing /\ ready = FALSE
    /\ sink = {} /\ edits = 0 /\ faults = 0

-----------------------------------------------------------------------------
(* Other programs.  An identity is free again once its file is gone.       *)

Edit == edits < MaxEdits /\ edits' = edits + 1
        /\ UNCHANGED <<now, store, daemon, sink, faults>>

InUse == {fs[p].obj : p \in {q \in Paths : fs[q] # Nothing}}

Create(p, o, c) ==
    /\ Edit /\ fs[p] = Nothing /\ o \notin InUse
    /\ fs' = [fs EXCEPT ![p] = [obj |-> o, content |-> c]]
    /\ UNCHANGED rootId

Rewrite(p, c) ==
    /\ Edit /\ fs[p] # Nothing
    /\ fs' = [fs EXCEPT ![p].content = c]
    /\ UNCHANGED rootId

Rename(p, q) ==
    /\ Edit /\ fs[p] # Nothing /\ p # q
    /\ fs' = [fs EXCEPT ![p] = Nothing, ![q] = fs[p]]
    /\ UNCHANGED rootId

Delete(p) ==
    /\ Edit /\ fs[p] # Nothing
    /\ fs' = [fs EXCEPT ![p] = Nothing]
    /\ UNCHANGED rootId

ReplaceRoot ==
    /\ Edit /\ \E r \in RootIds \ {rootId} : rootId' = r
    /\ UNCHANGED fs

Tick ==
    /\ now < MaxTime /\ now' = now + 1
    /\ UNCHANGED <<fs, rootId, edits, store, daemon, sink, faults>>

-----------------------------------------------------------------------------
(* The end of a process, by an error that reaches run or by a crash: what  *)
(* it held in memory is gone.                                              *)
Stop ==
    /\ pc' = "down" /\ bound' = Nothing /\ mem' = Nothing /\ staged' = Nothing
    /\ todo' = {} /\ root' = 0 /\ seen' = 0 /\ cur' = Nothing /\ ready' = FALSE

Fault(f) == f \in Faults /\ faults < MaxFaults /\ faults' = faults + 1

Listing(r) == {p \in Paths : RootOf[p] = r /\ fs[p] # Nothing}

NextPath(p) == p \in todo /\ \A q \in todo : p <= q

EmptyState(cutoff) ==
    [cutoff |-> cutoff, roots |-> rootId, paths |-> {}, objects |-> {}, sessions |-> {},
     progress |-> [p \in Paths |-> Nothing]]

-----------------------------------------------------------------------------
(* NewForwardProducer without a state file: the cutoff is taken first,     *)
(* then every source that exists is excluded, then the state is written.   *)

\* Mutant: the state file is not consulted.
EnableAnew ==
    /\ pc = "down"
    /\ bound' = rootId
    /\ staged' = EmptyState(now)
    /\ root' = 1 /\ todo' = Listing(1)
    /\ pc' = "baseline"
    /\ UNCHANGED <<env, store, mem, seen, cur, ready, sink, faults>>

Enable ==
    /\ pc = "down" /\ disk = Nothing
    /\ bound' = rootId
    /\ staged' = EmptyState(now)
    /\ root' = 1 /\ todo' = Listing(1)
    /\ pc' = "baseline"
    /\ UNCHANGED <<env, store, mem, seen, cur, ready, sink, faults>>

excludeBaseline(st, p, o) ==
    [st EXCEPT !.paths = @ \cup {p}, !.objects = @ \cup {o},
               !.sessions = @ \cup ({NameSession[p]} \ {NoSession})]

BaselinePath(p) ==
    /\ pc = "baseline" /\ NextPath(p)
    /\ rootId = bound /\ fs[p] # Nothing
    /\ staged' = excludeBaseline(staged, p, fs[p].obj)
    /\ todo' = todo \ {p}
    /\ UNCHANGED <<env, store, pc, bound, mem, root, seen, cur, ready, sink, faults>>

\* Mutant: only the first root is walked.
BaselineFirstRootOnly ==
    /\ pc = "baseline" /\ todo = {} /\ rootId = bound
    /\ root' = 0 /\ pc' = "rename"
    /\ UNCHANGED <<env, store, bound, mem, staged, todo, seen, cur, ready, sink, faults>>

BaselineRootDone ==
    /\ pc = "baseline" /\ todo = {} /\ rootId = bound
    /\ IF root < NRoots
       THEN root' = root + 1 /\ todo' = Listing(root + 1) /\ pc' = pc
       ELSE root' = 0 /\ todo' = {} /\ pc' = "rename"
    /\ UNCHANGED <<env, store, bound, mem, staged, seen, cur, ready, sink, faults>>

(* A source that vanished since it was listed, or a root that is no longer *)
(* the pinned one, ends the enablement; nothing was written.               *)
BaselineError ==
    /\ pc = "baseline"
    /\ rootId # bound \/ \E p \in todo : NextPath(p) /\ fs[p] = Nothing
    /\ Stop
    /\ UNCHANGED <<env, store, sink, faults>>

(* NewForwardProducer with a state file: the roots must be the recorded    *)
(* ones, otherwise the daemon does not start.                              *)
Load ==
    /\ pc = "down" /\ disk # Nothing /\ disk.roots = rootId
    /\ bound' = rootId /\ mem' = disk /\ pc' = "idle"
    /\ UNCHANGED <<env, store, staged, walk, cur, ready, sink, faults>>

LoadRefused ==
    /\ pc = "down" /\ disk # Nothing /\ disk.roots # rootId
    /\ UNCHANGED vars

-----------------------------------------------------------------------------
(* scanForward.                                                            *)

BeginScan ==
    /\ pc = "idle"
    /\ root' = 1 /\ todo' = Listing(1) /\ pc' = "scan"
    /\ UNCHANGED <<env, store, bound, mem, staged, seen, cur, ready, sink, faults>>

SkipPath(p) ==
    /\ pc = "scan" /\ NextPath(p)
    /\ \/ p \in mem.paths
       \/ rootId = bound /\ fs[p] # Nothing /\ fs[p].obj \in mem.objects
    /\ todo' = todo \ {p}
    /\ UNCHANGED <<env, store, pc, bound, mem, staged, root, seen, cur, ready, sink, faults>>

VisitPath(p) ==
    /\ pc = "scan" /\ NextPath(p) /\ p \notin mem.paths
    /\ rootId = bound /\ fs[p] # Nothing /\ fs[p].obj \notin mem.objects
    /\ seen < MaxFilesPerScan
    /\ seen' = seen + 1 /\ todo' = todo \ {p}
    /\ cur' = [path |-> p, obj |-> fs[p].obj, content |-> Nothing]
    /\ pc' = "snapshot"
    /\ UNCHANGED <<env, store, bound, mem, staged, root, ready, sink, faults>>

(* A vanished source, a replaced root or one file too many aborts the      *)
(* whole scan; run returns the error and the process ends.                 *)
ScanError ==
    /\ pc = "scan"
    /\ \E p \in todo \ mem.paths :
          /\ NextPath(p)
          /\ \/ rootId # bound
             \/ fs[p] = Nothing
             \/ fs[p] # Nothing /\ fs[p].obj \notin mem.objects /\ seen = MaxFilesPerScan
    /\ Stop
    /\ UNCHANGED <<env, store, sink, faults>>

\* Mutant: a scan ends after the first root.
ScanFirstRootOnly ==
    /\ pc = "scan" /\ todo = {}
    /\ root' = 0 /\ pc' = "idle" /\ seen' = 0 /\ ready' = TRUE
    /\ UNCHANGED <<env, store, bound, mem, staged, todo, cur, sink, faults>>

ScanRootDone ==
    /\ pc = "scan" /\ todo = {}
    /\ IF root < NRoots
       THEN /\ root' = root + 1 /\ todo' = Listing(root + 1)
            /\ UNCHANGED <<pc, seen, ready>>
       ELSE /\ root' = 0 /\ todo' = {} /\ pc' = "idle" /\ seen' = 0 /\ ready' = TRUE
    /\ UNCHANGED <<env, store, bound, mem, staged, cur, sink, faults>>

-----------------------------------------------------------------------------
(* processForwardPath.  The repeated ExcludedObjects test of the snapshot  *)
(* is not a branch here: the identity is the one VisitPath tested and mem  *)
(* has not changed since.                                                  *)

\* Mutant: the identity of the snapshot is not tested again.
AnySource == TRUE

(* The file that was copied is the one whose identity VisitPath read.      *)
SameSource == fs[cur.path].obj = cur.obj

refuseForwardPath(st, p, o, sessions) ==
    [st EXCEPT !.paths = @ \cup {p}, !.objects = @ \cup {o},
               !.sessions = @ \cup (sessions \cap Reliable)]

(* The first chunk that is older than the cutoff or of an excluded session *)
BadChunks(st, c) ==
    {i \in DOMAIN c.chunks : c.chunks[i].time < st.cutoff \/ c.chunks[i].session \in st.sessions}

FirstBad(st, c) == CHOOSE i \in BadChunks(st, c) : \A j \in BadChunks(st, c) : i <= j

(* What to do with content c found at path p, and the sessions to refuse.  *)
Decide(st, p, c) ==
    LET e == inspectForwardEligibility(c, NameSession[p], st.cutoff)
    IN  IF st.progress[p] = c \/ e.verdict = "wait"
        THEN [do |-> "skip", sessions |-> {}]
        ELSE IF e.verdict = "refuse" \/ e.sessions \cap st.sessions # {}
        THEN [do |-> "refuse", sessions |-> e.sessions]
        ELSE IF c.chunks = <<>>
        THEN [do |-> "skip", sessions |-> {}]
        ELSE IF BadChunks(st, c) # {}
        THEN [do |-> "refuse", sessions |-> e.sessions \cup {c.chunks[FirstBad(st, c)].session}]
        ELSE [do |-> "upload", sessions |-> e.sessions]

TakeSnapshot ==
    /\ pc = "snapshot"
    /\ rootId = bound /\ fs[cur.path] # Nothing /\ SameSource
    /\ LET c == fs[cur.path].content
           d == Decide(mem, cur.path, c)
       IN  \/ /\ d.do = "skip" /\ pc' = "scan" /\ cur' = Nothing
              /\ UNCHANGED staged
           \/ /\ d.do = "refuse" /\ pc' = "rename" /\ cur' = Nothing
              /\ staged' = refuseForwardPath(mem, cur.path, cur.obj, d.sessions)
           \/ /\ d.do = "upload" /\ pc' = "upsert"
              /\ cur' = [cur EXCEPT !.obj = fs[cur.path].obj, !.content = c]
              /\ UNCHANGED staged
    /\ UNCHANGED <<env, store, bound, mem, walk, ready, sink, faults>>

(* The source was removed or replaced after its identity was read.         *)
SourceChanged ==
    /\ pc = "snapshot"
    /\ rootId = bound /\ fs[cur.path] # Nothing => ~SameSource
    /\ Stop
    /\ UNCHANGED <<env, store, sink, faults>>

Upsert ==
    /\ pc = "upsert"
    /\ sink' = sink \cup {cur}
    /\ staged' = [mem EXCEPT !.progress[cur.path] = cur.content]
    /\ pc' = "rename" /\ cur' = Nothing
    /\ UNCHANGED <<env, store, bound, mem, walk, ready, faults>>

\* Mutant: an error of the sink is not returned.
UpsertErrorIgnored ==
    /\ pc = "upsert" /\ Fault("upsert")
    /\ staged' = [mem EXCEPT !.progress[cur.path] = cur.content]
    /\ pc' = "rename" /\ cur' = Nothing
    /\ UNCHANGED <<env, store, bound, mem, walk, ready, sink>>

(* The sink may have applied a write whose answer is an error.             *)
UpsertError ==
    /\ pc = "upsert" /\ Fault("upsert")
    /\ sink' \in {sink, sink \cup {cur}}
    /\ Stop
    /\ UNCHANGED <<env, store>>

-----------------------------------------------------------------------------
(* writeForwardState: durable.Root.WriteAtomic replaces the file by a      *)
(* rename and then syncs the directory; memory follows only then.          *)

RenameState ==
    /\ pc = "rename"
    /\ disk' = staged /\ pc' = "sync"
    /\ UNCHANGED <<env, synced, unconfirmed, bound, mem, staged, walk, cur, ready, sink, faults>>

RenameError ==
    /\ pc = "rename" /\ Fault("write") /\ Stop
    /\ UNCHANGED <<env, store, sink>>

\* Mutant: the directory is not synced.
SyncOmitted ==
    /\ pc = "sync"
    /\ mem' = staged /\ staged' = Nothing
    /\ pc' = IF mem = Nothing THEN "idle" ELSE "scan"
    /\ UNCHANGED <<env, store, bound, walk, cur, ready, sink, faults>>

SyncState ==
    /\ pc = "sync"
    /\ synced' = disk /\ unconfirmed' = FALSE /\ mem' = staged /\ staged' = Nothing
    /\ pc' = IF mem = Nothing THEN "idle" ELSE "scan"
    /\ UNCHANGED <<env, disk, bound, walk, cur, ready, sink, faults>>

(* "durable replacement committed without confirmation"                    *)
SyncError ==
    /\ pc = "sync" /\ Fault("sync") /\ Stop
    /\ unconfirmed' = TRUE
    /\ UNCHANGED <<env, disk, synced, sink>>

-----------------------------------------------------------------------------
(* A source that cannot be read: permissions, a second link, a change      *)
(* while it is copied, a snapshot that is too large.                       *)
ReadError ==
    /\ pc \in {"baseline", "scan", "snapshot"} /\ Fault("io") /\ Stop
    /\ UNCHANGED <<env, store, sink>>

Crash ==
    /\ pc # "down" /\ Fault("crash") /\ Stop
    /\ unconfirmed' = (unconfirmed \/ pc = "sync")
    /\ UNCHANGED <<env, disk, synced, sink>>

(* The next process never confirms a rename it finds, and works under it   *)
(* although a power loss would undo it; the model assumes that power does  *)
(* not fail before a later write has been synced.                          *)
PowerLoss ==
    /\ ~unconfirmed /\ Fault("power") /\ Stop
    /\ disk' = synced
    /\ UNCHANGED <<env, synced, unconfirmed, sink>>

Daemon ==
    \/ Enable \/ BaselineRootDone \/ BaselineError \/ Load
    \/ BeginScan \/ ScanError \/ ScanRootDone \/ TakeSnapshot \/ SourceChanged
    \/ Upsert \/ RenameState \/ SyncState
    \/ \E p \in Paths : BaselinePath(p) \/ SkipPath(p) \/ VisitPath(p)

Failure == UpsertError \/ RenameError \/ SyncError \/ ReadError \/ Crash \/ PowerLoss

Writers ==
    \/ \E p \in Paths, c \in Contents : Rewrite(p, c) \/ \E o \in Objects : Create(p, o, c)
    \/ \E p, q \in Paths : Rename(p, q)
    \/ \E p \in Paths : Delete(p)
    \/ ReplaceRoot

Next == Daemon \/ Failure \/ Writers \/ Tick \/ LoadRefused

Spec == Init /\ [][Next]_vars

(* The supervisor restarts a daemon that ended, and run keeps scanning.    *)
FairSpec == Spec /\ WF_vars(Daemon)

-----------------------------------------------------------------------------
(* The state a restart is sure to find, whatever happens before it.        *)
Surviving == IF unconfirmed THEN disk ELSE synced

Fresh(c, cutoff) ==
    /\ \A i \in Counted(c) : c.records[i].time >= cutoff
    /\ \A i \in DOMAIN c.chunks : c.chunks[i].time >= cutoff

(* Nothing reaches the sink before the cutoff and the exclusions would     *)
(* survive a restart, and nothing with a record, or a chunk, older than    *)
(* that cutoff ever does, across failed writes, crashes and restarts       *)
(* (NewForwardProducer persists before it returns; processForwardPath      *)
(* tests the records and then the chunks).                                 *)
ForwardOnly ==
    sink # {} => /\ Surviving # Nothing
                 /\ \A u \in sink : Fresh(u.content, Surviving.cutoff)

(* A source about to be sent is not one that the surviving state excludes, *)
(* by path, by session or by the identity of the file that was copied,     *)
(* whatever took the place of the one the walk looked at; nor is it a      *)
(* snapshot that it already acknowledges; and it was read under the        *)
(* recorded roots.  What processForwardPath tested in memory still holds   *)
(* of what a restart would test.                                           *)
UploadJustified ==
    pc = "upsert" =>
        /\ Surviving # Nothing
        /\ cur.path \notin Surviving.paths /\ cur.obj \notin Surviving.objects
        /\ \A i \in DOMAIN cur.content.chunks :
              cur.content.chunks[i].session \notin Surviving.sessions
        /\ Surviving.progress[cur.path] # cur.content
        /\ Surviving.roots = bound

(* An acknowledged snapshot was sent: Progress is written only after       *)
(* Upsert returned, so no crash or failed write leaves a path acknowledged *)
(* whose content the sink never applied.                                   *)
AcknowledgedWasSent ==
    Surviving # Nothing =>
        \A p \in Paths : Surviving.progress[p] # Nothing =>
            \E u \in sink : u.path = p /\ u.content = Surviving.progress[p]

(* b keeps everything a promises.                                          *)
Continues(a, b) ==
    a # Nothing => /\ b # Nothing
                   /\ b.cutoff = a.cutoff /\ b.roots = a.roots
                   /\ a.paths \subseteq b.paths /\ a.objects \subseteq b.objects
                   /\ a.sessions \subseteq b.sessions

(* Memory never runs ahead of forward.json or falls behind it while        *)
(* sources are examined; a state being written continues the one in        *)
(* memory; and all belong to the pinned roots.  tracker.state is assigned  *)
(* only after writeForwardState returned, and an error ends the process.   *)
StateConsistent ==
    /\ pc \in {"down", "baseline"} => mem = Nothing
    /\ pc = "down" => staged = Nothing
    /\ pc = "baseline" => disk = Nothing /\ staged # Nothing
    /\ pc \in {"idle", "scan", "snapshot", "upsert"} => mem # Nothing /\ mem = disk /\ staged = Nothing
    /\ pc = "rename" => staged # Nothing /\ mem = disk
    /\ pc = "sync" => staged # Nothing /\ staged = disk /\ (~unconfirmed => synced = mem)
    /\ pc \in {"rename", "sync"} => Continues(mem, staged)
    /\ ~unconfirmed /\ pc # "sync" => synced = disk
    /\ mem # Nothing => mem.roots = bound
    /\ staged # Nothing => staged.roots = bound

(* No step, crash and power loss included, takes back the cutoff, the      *)
(* roots or an exclusion once a restart is sure to find them: "replacement,*)
(* mutation, and restart can never make them current".                     *)
ExclusionsPermanent ==
    [][Continues(Surviving, Surviving')]_vars

(* Everything above in one statement: the producer, seen through the state *)
(* that a restart will find, behaves as ForwardPromise.                    *)
ItemBarred(u, paths, objects, sessions) ==
    \/ u.path \in paths \/ u.obj \in objects
    \/ \E i \in DOMAIN u.content.chunks : u.content.chunks[i].session \in sessions

ItemCurrent(u, cutoff) == Fresh(u.content, cutoff)

Recorded(field, default) == IF Surviving = Nothing THEN default ELSE Surviving[field]

AckedPairs ==
    IF Surviving = Nothing THEN {}
    ELSE {<<p, Surviving.progress[p]>> : p \in {q \in Paths : Surviving.progress[q] # Nothing}}

Promise == INSTANCE ForwardPromise WITH
    Items <- Item, Cutoffs <- 1..MaxTime, Unset <- Nothing,
    Current <- ItemCurrent, Barred <- ItemBarred,
    cutoff <- Recorded("cutoff", Nothing), paths <- Recorded("paths", {}),
    objects <- Recorded("objects", {}), sessions <- Recorded("sessions", {}),
    sent <- sink, acked <- AckedPairs

KeepsPromise == Promise!Spec

(* A source the next scan would upload.                                    *)
Awaiting(p) ==
    /\ disk # Nothing /\ disk.roots = rootId /\ fs[p] # Nothing
    /\ p \notin disk.paths /\ fs[p].obj \notin disk.objects
    /\ Decide(disk, p, fs[p].content).do = "upload"

(* No complete, current source waits forever: the daemon keeps scanning,   *)
(* is restarted after every failure, and acknowledges what it has sent.    *)
CapturedEventually == \A p \in Paths : []<>~Awaiting(p)
=============================================================================
