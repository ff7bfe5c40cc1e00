# A verification of history-ragd

TLA+ models of history-ragd (`src/`), the daemon that captures the histories of
AI coding agents into Spanner and serves searches over them, with TLC runs on
small instances and TLAPS proofs for all instances. `PROJECT.json` lists the
components, the runs, the lines each definition translates, the hazards and the
theorems; this file says what they mean together.

## 1. The system

One daemon per machine (`cmd/history-ragd/main.go`) does this when it starts:

1. It takes the place of the daemon before it, if there is one
   (`history/process`), with a PID record in its state directory.
2. It opens the Spanner store (`history/store`, `history/spannerexec`) and the
   authority over the shared credential (`history/auth`).
3. It enables *forward-only* capture (`history/watch/forward.go`). The first
   start takes a cutoff time and excludes every source that exists. Later starts
   load that decision from `forward.json`.
4. It scans the configured roots again and again. A source that is complete and
   as new as the cutoff is snapshotted (`watch/root*.go`), parsed
   (`history/source/*`), cut into chunks and written to the store; its digest is
   then acknowledged in `forward.json`. Any other source is refused for ever.
5. It serves the HTTP API (`history/api`): search routes, statistics, credential
   rotation, readiness.

Packages that the daemon does not use yet, but that the repository keeps and
tests: the event loop (`watch/loop.go`), the upload queue, the client cursors,
the client registry, the upload client and the MCP tools.

### Inventory

| Part | Source | Modules | Proofs |
|---|---|---|---|
| Forward-only watcher | `watch/forward.go`, `watch/producer.go` | `ForwardWatch`, `ForwardPromise`, `ForwardSweep` | `ForwardWatchProofs` |
| Eligibility of a source | `watch/forward.go` 488-637 | `ForwardEligibility` | `DaemonProofs` |
| Pinned roots, snapshots | `watch/root.go`, `watch/root_unix.go` | `PinnedSnapshot` | `PinnedSnapshotProofs` |
| Event loop | `watch/loop.go` | `WatchLoop` | |
| Parsers that pair | `source/claude`, `chatgpt`, `claudeapp` | `SourceFile`, `PairedTurns` | `ParserProofs` |
| Parsers that gather | `source/codex`, `gemini`, `antigravity` | `SourceFile`, `GatheredTurns` | `GatheredProofs` |
| Splitting of content | `splitContent` of four parsers | `ContentSplit` | `ParserProofs` |
| Chunk store | `store/store.go`, `plans.go`, `backfill.go` | `ChunkStore` | `StoreProofs` |
| Retrieval | `store/retrieval.go`, `api/retrieval.go`, `mcptools` | `Retrieval` | `StoreProofs` |
| Upload queue | `uploadqueue/queue.go` | `AtomicSave`, `UploadQueue` | `LocalStateProofs` |
| Client cursors | `cursor/state.go` | `AtomicSave`, `CursorState` | `LocalStateProofs` |
| Credential rotation | `auth/auth.go`, `api/server.go` | `AuthRotation` | `LocalStateProofs` |
| Google credentials | `gcpauth/*.go` | `CredentialSelector` | `DaemonProofs` |
| Process control | `process/process.go`, `main.go` | `DaemonLifecycle` | `DaemonLifecycleProofs` |
| One run of the daemon, readiness | `main.go`, `api/server.go`, `watch/producer.go` | `DaemonRun` | `DaemonProofs` |
| Durable files | `durable/durable.go` | `DurableRoot`; their effect inside `ForwardWatch`, `DaemonLifecycle` | `LocalStateProofs` |

Not modelled, with the reasons in `PROJECT.json`: status metrics, client
registry, upload client, ingest encoding, row decoding, the limits of single
configuration values, the Windows variants, the test integrity tool.

## 2. The modules

### ForwardWatch, ForwardEligibility, ForwardPromise

`ForwardWatch` is the producer together with what surrounds it. Its state is the
source files (`fs`: an identity and a content per path), the identity of the
root directories, the clock, `forward.json` as a reader finds it (`disk`) and as
a power loss leaves it (`synced`), `tracker.state` (`mem`), the walk
(`todo`, `root`, `seen`), the source in hand (`cur`) and everything the sink has
applied (`sink`). A step of the daemon is what it does between two observations
of, or effects on, shared state:

| Action | Code |
|---|---|
| `Enable`, `BaselinePath`, `BaselineRootDone`, `BaselineError` | `NewForwardProducer` without a state file, `baselineForwardPaths` |
| `Load`, `LoadRefused` | `NewForwardProducer` with one; other roots refuse the start |
| `BeginScan`, `SkipPath`, `VisitPath`, `ScanRootDone`, `ScanError` | `scanForward` |
| `TakeSnapshot` (with `Decide`, `refuseForwardPath`), `SourceChanged` | `processForwardPath` up to its decision |
| `Upsert`, `UpsertError` | the sink; an error may follow a write that was applied |
| `RenameState`, `RenameError`, `SyncState`, `SyncError` | `writeForwardState` over `durable.Root.WriteAtomic` |
| `ReadError`, `Crash`, `PowerLoss` | failures |
| `Create`, `Rewrite`, `Rename`, `Delete`, `ReplaceRoot`, `Tick` | other programs and the clock |

An error that reaches `run` ends the process (`Stop`), as in the code; the
supervisor starts it again.

A content is a record: kind, parse result, its records with session, time and
whether they are meaningful, and the chunks the parser makes. The verdict on it
is `ForwardEligibility.inspectForwardEligibility`, which follows the Go function
branch by branch and is checked against a reference definition of its own.
`forward.json` is its decoded value.

`ForwardPromise` says what the whole promises, without files, scans or failures:
a cutoff is set once, what is barred stays barred, only current and unbarred
items are sent, and an item is acknowledged only after it was sent. `ForwardWatch`
implements it (`KeepsPromise`). The refinement mapping reads the abstract
variables off `Surviving`, the state that a restart is sure to find.

### PinnedSnapshot

One call of `PinnedRoot.Snapshot`, system call by system call, against programs
that write the file, replace it, or move the directories above it. The file
system is reduced to the entries the path walks through. History variables
remember what the file held when its information was first read, what the path
named below the bound root when the file was last looked at, and what the root's
own path named at the last `verify`.

### PairedTurns, GatheredTurns, ContentSplit

The parsers read a file entry by entry; an entry is its kind, whether its text is
blank, and whether it uses a tool that writes a file. `PairedTurns` has the
formats that pair a user's message with the first answer, `GatheredTurns` those
that gather answers until the next message, `SourceFile` what they share.
`ContentSplit` is the byte loop that cuts long content, in the variant of Claude
(returns with the part that reaches the end) and of the others (does not).
Codex, Gemini and ChatGPT have the same loop, so `codex` stands for the three.

### ChunkStore, Retrieval

`ChunkStore` has the writers, `Stats` with its cache and mutex, and `Backfill`
with its workers; every executor call is a step and a transaction. `Retrieval`
has the search routes: embedding, planning with what the process knows of the
vector index, sending, falling back, deadlines, while the index is made by
`Optimize` or by another process.

### DurableRoot

`Read`, `WriteAtomic` and `Remove` of one name, system call by system call, by
processes that each have a `Root` of their own: the mutex of a `Root` keeps the
goroutines of a process apart and nothing keeps processes apart. `entry` is what
the name names, `possible` what the disk may say after a power failure: a rename
adds to it, a directory sync reduces it to `entry`. `flushed` are the files whose
payload is on disk. `landed` and `removed` remember what the calls reported.
`Fail` stands for an error of any call and for the death of the process.

### AtomicSave, UploadQueue, CursorState, AuthRotation

`AtomicSave` is the way queue and cursors save: stage, rename, sync the
directory, and only then change memory. `survivors` are the contents a power
failure may leave: a rename adds one, a directory sync leaves that one. The two
modules on top have one action
per operation. `AuthRotation` has the manager, the routes that call it and a
client that acts on the answers it gets, or on their absence. A save there has
the three ends of `WriteAtomic`: done, refused with nothing written, or refused
after the rename. `disowned` remembers the proposals of the third kind, `blind`
that one of them was promoted by a request under the old credential.

### DaemonLifecycle

Several runs of the daemon on one state directory: `Prepare` with its signals,
waits and second look (a process that gets a signal may die at once, later or
never), the two steps of `durable.Root.Remove`, the port, the
record, shutdown, and `forward.json` as far as overlapping runs write it. A
process is its identity, and a PID may pass to another process.

### DaemonRun

One run of the daemon from the inside. `pc`, `deferred` and `open` follow
`main.run`: each step of the way up, what it defers and what it then holds;
`StartupFails` is the early return of any of them, and `HeldAfter` what the failing
function cleans up itself. Beside it run the watcher's goroutine (`Watch` to
`SweepFails`), the handlers (`Arrive` to `Verify`), signals, a failing `Serve`, and
programs that move a root away. The locks that matter are there: `Producer.mu`,
read-held by a probe, and the mutex of a root, held by a snapshot. All
combinations of read-only mode, container, authority, roots and runtime contract
are initial states.

### CredentialSelector

`gcpauth.Selector.tokenSource` for its four profiles: validation, sealing of the
environment, the look at, the opening and the checks of each file while other
programs replace them, the metadata server, and the token sources that are used
later. A carrier is a record of what the checks ask of it.

### WatchLoop

`Loop.Run`: events debounced per path, a map with a capacity, batches that are
dispatched while no event is read.

### ForwardSweep

`ForwardWatch` with a history variable: the paths untouched since the walk in
progress began. What a walk must not miss is stated with it.

### MC modules

They give constants their values and choose what to combine. `MCLocalState`,
`MCParsers`, `MCStore`, `MCDaemonRun` and `MCDecisions` check independent components
in one run: a variable `part` fixed in the initial state says which of them a
behaviour follows, and fairness is asked of that one.

## 3. The runs

Run one with `tlc -workers 2 -config X.cfg M`. Each takes less than three
minutes on four processors.

| Run | Module, cfg | What is asked |
|---|---|---|
| `decisions` | MCDecisions, Decisions | Which contents does the producer accept, and does growth rescue a refused one? Whom do the selected credentials speak for? |
| `watch_faults` | MCForwardSweep, ForwardFaults | Is the promise kept with failures at every step and replaced roots, do walks miss nothing that stayed in place, and is every source captured in the end? |
| `watch_power` | MCForwardWatch, ForwardPower | Is what is sent current and justified, and no exclusion taken back, through pairs of failures, power losses included, with replaced roots and a reached scan limit? |
| `daemon_replacement` | MCDaemonLifecycle, DaemonLifecycle | Does a run come up only over a dead predecessor, and does `Prepare` end? |
| `daemon_overlap` | MCDaemonLifecycle, DaemonOverlap | *Violation*: do overlapping runs keep each other's exclusions? |
| `daemon_run` | MCDaemonRun, DaemonRun | Is readiness honest, is everything released on every way out, and does the process end when it should? Are received events dispatched? |
| `store_close` | DaemonRun, StoreClose | *Violation*: is nobody inside the executor while it is closed? |
| `local_state` | MCLocalState, LocalState | Do queue, cursors, credentials and a file two processes use survive failed calls, crashes, power losses and lost answers? |
| `store` | MCStore, Store | Are statistics fresh, vectors kept, the backfill thorough and finite; do plans find their index, and is every request answered? |
| `parsers` | MCParsers, Parsers | Are turns, file changes and parts exactly what the file holds? |
| `split_tail` | MCParsers, SplitTail | *Violation*: does content a little too long become two parts in every parser? |
| `snapshot_race` | MCPinnedSnapshot, PinnedSnapshot | Is a snapshot one state of the file its path names? |

### The properties

*Forward-only capture.* `AcceptsExactlyCurrent` (the verdict equals its
reference), `RefusalSurvivesGrowth` (a refusal is never undone by appending).
`ForwardOnly`, `UploadJustified` and `ExclusionsPermanent` relate what was sent,
what is in memory and what survives; `UploadJustified` is also about the file
that was copied, which may have taken the place of the one the walk looked at.
`BaselineComplete` and `SweepComplete` say
that a walk that interleaves with edits misses nothing that stayed in place.
`KeepsPromise` is the refinement, `CapturedEventually` the liveness of it all.

*Daemon.* `ReplacedIsDead`, `RecordTakerEnds` (a run that by the window of
`Remove` took a serving run's record away does not come up itself),
`PrepareEnds`. `ReadyHonest`: a probe that is answered "ready" has, since it
came, seen the store answer, the last sweep complete and every root in place,
though other goroutines change all of that meanwhile. `NothingLeftOpen`: every
return of `run` has released what was held. `StopsForGood`: a signal, a dead
watcher or a failed server ends the process, whatever is in flight.

*Credentials.* `TokenIsDeclared`: a token is never issued to an identity other
than the configured one. `SelectsAgain`: a selection does not leave the
environment in a state the next one refuses.

*Local state.* `WrittenStaysQueued`, `Reopens`, `CheckpointKept`.
`NeverLockedOut`: the credential in force is one the client keeps, except after
a promotion, asked for under the old credential, of a proposal it was told had
failed. A client that asks for the promotion under the new credential is never
locked out, whatever end the saves have.
Of `durable.Root`: `NeverTorn`, `WriteLands` (what was reported written is what
the name holds, also after a power failure, until somebody renames),
`RemovedForGood`.

*Store.* `StatsSeeReturned` (a cached answer has seen every write that returned),
`EmbeddedStays`, `BackfillThorough`, `BackfillEnds`, `AnnFindsIndex`,
`RequestsAnswered`.

*Parsers.* `TurnsExact`, `FilesKept`, `EverythingOnce`, `TurnsWhole`,
`ChangesWithTheirText`, `OnlyOpenTurnChanges` (re-reading a grown file changes
the open turn and nothing else), `PartsCover`.

*Snapshot and loop.* `SettledIsWhole`, `EventsDispatched`. `DeliveredIsNamed`: a
copy is delivered from under the root that was bound, which its path still names
at the last look, and is of the file the path named, unless a directory between
them was moved during the call.

Every property has a mutant in `PROJECT.json`: a change of the model as a
plausible bug would make it, under which TLC finds the property violated.

### Bounds, and why they are enough

- Watcher: two paths, three identities, two changes by other programs. One path
  is in the scan's hands and the other free; two changes are a replacement
  (delete and create, or rename over it). `watch_faults` has two roots, so that
  the walk of one root interleaves with changes in the other, a root that is
  replaced, and one failure;
  `watch_power` has two failures, two ticks of the clock, two identities of the
  root, and a scan limit of one file. Identities are symmetric. The contents are
  a current and an old conversation, one that straddles the cutoff, one that
  names its session only in chunks, a half-written one and an undated one;
  `watch_faults` has the ones that are sent or refused at once.
- Eligibility: two records. A verdict depends on the first bad record, and
  growth appends one.
- Snapshot: a path of two components, files of up to two blocks, three changes.
- Parsers: four entries show two turns with something between them. Eight bytes
  with parts of five, an overlap of two and a search region of three keep the
  order of the code's 8000, 1500 and 1000.
- Store: two rows in one shard of two, two workers, batches of one, three
  transactions. The shard with rows may take two batches, so that a backfill that
  embeds both rows reaches `BackfillMaxBatchesPerShard` and reports a failure.
  (With a third row in the other shard the run passes with two transactions; with
  three it takes ten minutes.)
- Daemon: three runs, one of them under "start", and one other process that can
  take over a PID. Three is what it takes for a run to lose its record to a
  second one that is replacing a first.
- One run: one connection, two roots, one move of a root. A second connection
  shares nothing with the first but the locks, which the first takes against the
  watcher and `main` already. (With two moves the run passes as well, in twice
  the time.)
- Local state: a capacity of two with three items; two sources with three
  generations; two renames in a row that nothing confirms (`MaxUnconfirmed`); three credentials, so that a proposal can follow a promotion, with
  refused and unconfirmed saves and crashes. A
  name used by two processes with three files: one that is there, one that
  replaces it and one that comes in between.
- Credentials: two identities and two selections; carriers that fit and carriers
  that fail each check. One replaced file is the race with a read; with two the
  run passes as well, in three minutes.
- Retrieval: one request at a time. Requests share only `available` and the
  index, which the other actions change at any time.
- Loop: three paths for a map of two, three events, which may be received in any
  order.

Deadlock is checked in the watcher's and the local-state runs. In the others the system may stop: all processes have ended, the file has been
read, the loop has returned, the bound on transactions is reached.

### Fairness

- Watcher: weak fairness of the daemon's steps as one action. `run` scans on a
  ticker without end, and the supervisor restarts a process that ended with an
  error (`src/docs/LAUNCHD_NATIVE.md:17`, `src/README.md:12`). Failures need no fairness; there are finitely many.
- Daemon: weak fairness of `Prepare`, which waits only with deadlines. Nothing is
  assumed of the process it waits for.
- One run: weak fairness of `main` on its way out, of a snapshot in progress, and
  strong fairness of whoever waits for a mutex, as `sync.Mutex` and `sync.RWMutex`
  promise. Nothing is assumed of the way up, of requests inside the store or of
  sweeps.
- Store: weak fairness of workers and of `Stats` in its query (executor calls
  return), strong fairness of `Report`, which needs `statsMu`: `sync.Mutex` does
  not starve a waiter.
- Retrieval: weak fairness of a request's steps; contexts have deadlines.
- Loop: weak fairness of time and of dispatching; strong fairness of the timer,
  because `select` chooses among ready cases at random.

## 4. The proofs

TLAPS checks them for every value of the constants. `tlapm M.tla` on each of:

**ForwardWatchProofs.** `TypeCorrect`, `ForwardSafety` (`ForwardOnly`,
`AcknowledgedWasSent`, `StateConsistent`), `UploadsAreJustified` and
`ExclusionsArePermanent`, for any paths, contents, identities, sessions, number
of roots, faults and bounds. The inductive invariant is

    IInv == TypeOK /\ StateConsistent /\ SourceInHand /\ ForwardOnly /\ AllAcked

`ForwardOnly` is not inductive: when `Upsert` happens one must know that the
source in hand passed every test against memory (`SourceInHand`), that memory
agrees with the file (`StateConsistent`), and that a state about to be written
acknowledges only what was sent (`AllAcked` covers `staged`). `UploadDecision` is
the lemma on `Decide`: what it uploads is current and unexcluded. Then there is
one lemma per group of actions. `UploadJustified` follows from `IInv`: what the
source in hand passed in memory, it passes in the state that a restart finds.

`PromiseIsKept`: `ForwardWatch` implements `ForwardPromise`. The refinement
mapping reads the abstract variables off `Surviving`, which changes at a rename
if an earlier one is unconfirmed, and otherwise at the sync or when a process
ends before it. `Increment`, the invariant added to `IInv`, says what the state
being written is: the first of all, or the one in memory with one refusal, or
with one acknowledgement of something sent. So each of those moments is one
`Enable`, `Bar` or `Acknowledge`; an `Upsert`, and a failed one that was applied,
is a `Send`; every other step is a stutter.

`BaselineMissesNothing` (`BaselineComplete`) and `ScanMissesNothing`
(`SweepComplete`), of `SweepSpec`. The invariant is

    SweepInv == untouched \subseteq {existing paths} /\ BaselineWalk /\ ScanWalk

A walk has passed some paths (`Walked`) and not others. `BaselineWalk` says that
each untouched path behind it is excluded by the state being collected,
`ScanWalk` that none of them but the one in hand still awaits an upload by the
state the scan goes on with, which is `staged` between the decision to write and
the sync (`Planned`). That a later exclusion or acknowledgement of another path
does not undo this is the lemma `AwaitsFewer`.

**DaemonProofs.** `RunGivesBack` and `ReadyMeansReady`, in every mode, for any
roots and any number of requests. The invariant is

    RunInv == RunTypeOK /\ Accounted /\ Flagged /\ \A r \in Requests : Honest(request[r])

`Accounted` is the ledger: whatever is open is given back by a deferred call, or
by the step `run` is at. `Flagged` says when the producer's flag can be true, and
`Honest` what a probe has seen at each of its stages.

`AcceptsCurrentSources` and `RefusalIsFinal`: the reference
for `inspectForwardEligibility` and the permanence of a refusal, for files of any
length. `VerdictCases` splits on the early returns, and a refused content is
followed through one more record and through the completion of its last one.

`TokensAreDeclared` and `SelectionRepeats`, for every
content of environment and files. The invariant is

    SelectorInv == SelectorTypeOK /\ Bound /\ Sealed

`Bound`: what was read first names the declared identity, and every token source
speaks for it, though the files change between the look and the open. `Sealed`:
past each check the environment would be accepted again.

**PinnedSnapshotProofs.** `SnapshotIsWhole` and `SnapshotIsOfThePath`, for paths of
any depth and files of any length. The invariant is

    SnapInv == SnapTypeOK /\ Pinned /\ Leading /\ Whole

`Whole`: while the file shows the time of `beforeInfo`, and that time has passed,
the file is as it was, and what has been copied is a prefix of it. `Leading`: while
no directory below the root was moved, the one held is where the path leads from
the bound root (`Below`). How far a path
leads is a recursive function, so its lemmas are proved by induction over the
levels (see below).

**DaemonLifecycleProofs.** `ReplacementIsSafe`: `ReplacedIsDead` for any number of
runs and any reuse of PIDs. The invariant adds that a run past its wait has a
dead target, and that a dead run does not come back.

**LocalStateProofs.** `QueueKeepsItems`, `QueueReopens`: the invariant relates
memory, file and staged content in each phase of a save, and bounds all of them.
`CheckpointSafety`, and `ConfirmedNeverFalls`: the confirmed generation of a source
never goes back.

`ClientKeepsCredential`: `NeverLockedOut` of the rotating credential, whichever
faults the constants allow. `KeepsBoth` says that the client keeps the active
credential, and the pending one unless it was disowned, until `blind` is true; it
is inductive only with `ProposalIsFresh`: what a refused rotation makes the client
drop was in neither place. That `PromotePending` keeps it needs that a request
carries a credential of the client's, so that the promotion of a disowned one is
always blind.

`NameIsWhole`, `WriteIsDurable` and `RemovalIsFinal`: `NeverTorn`, `WriteLands` and
`RemovedForGood` for any number of processes, files and payloads. The invariant is

    IInv == RootTypeOK /\ OnDisk /\ Writing /\ Fresh /\ Removing /\ Promises

`WriteLands` is not inductive: when `Confirm` finds the name where it put it, one
must know that the directory sync before it still counts, that is, that nobody
can have renamed the same file again (`Fresh`: a file without a name is nobody
else's) and that `possible` is then `{entry}` (`Writing`). `RemovedForGood` needs
that a file which was moved away cannot come back (`Removing`), and `NeverTorn`
that only flushed files are ever possible (`OnDisk`). `OnlyOp` and `StepKeeps`
carry the invariant through the steps that touch little; `Create` and `PowerLost`
have proofs of their own. The proof assumes, as the model does, that a file's
identity is not given to another file while it is remembered.

**ParserProofs.** `NothingIsLost`: the parts of every parser cover every content.
`NoPartRepeats`: each part of Claude's loop adds bytes. The second needs the
assumption that search region and overlap together fit into a part, which the
constants of the code satisfy.

`TurnsAreNeighbours`, `FileChangesAreKept`, for files of any length. The invariant
says what `pending` is: the last entry the pairing has seen, when that is a
user's.

**GatheredProofs.** `NothingIsSkipped`, `TurnsAreWhole`, `ChangesStayWithText` and
`ReadingAgainKeeps`
(`EverythingOnce`, `TurnsWhole`, `ChangesWithTheirText`, `OnlyOpenTurnChanges`), for
the parsers that gather, files of any length and every place where a file may
end. The invariant `Book` says what each chunk already made holds and what the
open turn holds, that they are apart, and that together they hold every entry
read that says something. It is an operator of entries, chunks and open turn, so
that the same lemmas serve the loop and the last turn, which `Chunks` makes
when it returns and the next reading makes again.

**StoreProofs.** `StatsAreCurrent`, `BackfillEmbedsAll`, `VectorsStay`, for any number
of callers and workers. The invariant is

    StoreInv == StoreTypeOK /\ StatsFresh /\ NoneForgotten

`StatsFresh` also covers the query that is under way, whose result is cached
later. `NoneForgotten`: a waiting row that has no vector is in a shard yet to be
handed out, with a worker, or among the failures. `SearchFindsIndex`: `AnnFindsIndex`
for any number of requests; the flag `available` is set only when the index is
ready.

The assumptions are the named ASSUMEs of the modules (types of the constants, and
sentinels outside the sets they are added to); TLC evaluates them in every run.

Induction over data is done with a set of numbers instead of a predicate
(`Least`, `SetInduction` in `PinnedSnapshotProofs`): the set of places where a fact
fails has a least member, which contradicts it. A recursive function
is unfolded with its defining equation.

Many leaves name the prover that they are for: `Zenon` where the step is pure logic
over opaque definitions, the SMT solver (the default) where it needs arithmetic,
records or sequences.

Every invariant and every action property that a passing run checks is also a
theorem. Only model-checked: the liveness properties `CapturedEventually`,
`RecordTakerEnds`, `PrepareEnds`, `BackfillEnds`, `RequestsAnswered`, `StopsForGood`
and `EventsDispatched`, because the prover does not reason about fairness and
ENABLED. `WatchLoop` has only the last of them, and so no proof. The three
violations are TLC's counterexamples.

## 5. Findings

- `daemon_overlap`: the PID record is written after the producer was constructed
  and has scanned. Two runs that start together both load `forward.json`, each
  writes back its own copy, and an exclusion of one is lost. The compatibility
  contract says that exclusions remain across restart.
- `split_tail`: `splitContent` of Codex, Gemini and ChatGPT takes its step back
  from the end of the content too, and goes on with ever shorter copies of the
  tail. The test of the same function in Claude's parser asks for two parts.

- `store_close`: `run` defers `historyStore.Close` and waits for nobody before it.
  The deferred call that stops the watcher cancels its context and closes its
  roots, and does not receive from `watchResult`; a handler may outlive the
  deadline of `Shutdown`. So the clients are closed while a call is inside. The
  comment on `Executor` says that it is safe for concurrent use except `Close`.

Observations that no run states, because nothing in the repository promises the
opposite, or because the run's assumption leaves them out:

- A process that ends between the rename and the directory sync leaves a
  `forward.json` that its successor works under and a power loss still undoes.
  `PowerLoss` is assumed not to strike then (`unconfirmed`).
- A credential proposal whose save fails after its rename is answered 400. The
  client drops a key that is then pending in the file; no route withdraws it, and
  further proposals are refused. When the client then asks for a promotion under
  its old key, the dropped one comes into force, and a restart with the old key is
  refused too. This is the exception that `NeverLockedOut` states.
- After an `Ack` whose directory sync failed, an `Enqueue` of the same item is
  answered from memory and writes nothing.
- The MCP search leaves the mode empty, and the planner refuses every such
  search after the text was embedded.
- One source that cannot be processed ends the scan and the process, again after
  each restart; sources behind it in the walk are not captured.
- An identity that the file system uses again excludes a new conversation.
- Paths that are not valid UTF-8 can collapse to one JSON key of `forward.json`.
- The backfill writes back the rows it read, with the metadata of that time.
- A numeric `step_index` of Antigravity is read as `"0"`; a Gemini file with
  repeated IDs, a ChatGPT export with branches, and a Codex turn whose directory
  changes before it is finalized are chunked as the code does it, and are not
  told apart in the model.
- The comment at `main.go:233` says that the watcher is no dependency of
  readiness yet; the code adds `watcherReadiness`, and the model has it.
- `Producer.Ready` does not look at its context: a probe waits for a snapshot in
  progress beyond the probe's deadline.
- `durable.Root.Remove` leaves its tombstone when it finds that it has moved
  another file than the one it had read, and reports an error: the other file
  has lost its name.
- A process that is killed leaves its private snapshot directories behind.
- Between `Snapshot` of a process and the signal to it, its PID may pass to
  another process, which then gets the signal (`DaemonLifecycle` has this step).

## 6. Limits

- Unix only. Container mode, Windows handles and hard links are left out.
- File times have a granularity: a rewrite of equal size within a tick is not
  seen by the snapshot, in the model as in the code. `SettledIsWhole` says so. A
  write always sets the time; programs that set it back are not modelled.
- SQL is abstracted to its effect on rows; ranking, filters' text and decoding
  are left to Spanner and the client library. Schema changes are taken to be
  serial, and nobody drops the index.
- Decoding of JSON, protobuf and environment variables is abstracted to what it
  yields.
- A root is listed in one step (`Listing`), while `filepath.WalkDir` lists each of
  its directories when it comes to it. A file moved between two directories of a
  root during the walk may be met twice, or not at all, by the code only; the
  properties of walks are about files that stay in place.
- `ForwardWatch.PowerLoss` does not strike while a rename that a dead process
  left unconfirmed is the file its successor works under (section 5).
- `WatchLoop` receives finitely many events; a path with events that never pause
  is never dispatched.
- `DurableRoot` takes identities (device and inode) not to be used again within a
  call. Checks of mode, owner and link count only add ways to fail.
- The credential model has no blank environment values; JSON, X.509 and the token
  exchange are what the checks ask of them.
- The producer without a tracker is not modelled; the daemon never makes one.

## 7. Not modelled

- *Status metrics, client registry, upload client.* One call of a modelled
  operation each, or two side by side, without state of their own.
- *Ingest encoding, row decoding, limits of configuration values, scope strings.*
  Pure conversions: lists of field limits, which a table of tests covers as well.
- *The state codec of `forward.json`.* The model has its decoded value; the
  collapse of keys that are not UTF-8 is therefore only an observation.
- *Chunk IDs.* Entries are named by their place, so that what an upsert overwrites
  when a parser repeats an ID is not a question the models can be asked.
- *A source that fails for ever.* `CapturedEventually` is about failures that stop.
  What lies behind a bad source in the walk waits with it: the code reports the
  error and ends, by design.
- *Windows variants.* The same operations over other system calls.
- *The test integrity tool.* Not part of the running system.
