----------------------------- MODULE ChunkStore -----------------------------
(***************************************************************************)
(* store.SpannerStore under concurrent callers: Upsert, DeleteMachine and  *)
(* Clear with their invalidation of the statistics, Stats with its cache,  *)
(* and Backfill with its workers.  Every call of the executor is a step of *)
(* its own, at which Spanner runs it as one transaction.                   *)
(*                                                                         *)
(* A chunk's ID is a hash of its content, so a row is its metadata (which  *)
(* file and machine it came from) and whether it has its vector.           *)
(***************************************************************************)
EXTENDS Naturals, FiniteSets, FiniteSetsExt

CONSTANTS
    Ids, Metas,
    Shards, ShardOf,        \* the prefix of each ID
    Deferred,               \* EmbeddingStrategy = EmbeddingDeferred
    Callers,                \* goroutines that write
    Workers,                \* BackfillConcurrency goroutines
    BackfillBatch, BackfillMaxBatchesPerShard,
    MaxCommits,             \* bound on the number of transactions
    None

ASSUME StoreAssumption ==
    /\ ShardOf \in [Ids -> Shards] /\ Deferred \in BOOLEAN
    /\ BackfillBatch \in Nat \ {0} /\ BackfillMaxBatchesPerShard \in Nat \ {0} /\ MaxCommits \in Nat

Row == [meta : Metas, vector : BOOLEAN]
Read == [id : Ids, meta : Metas]
Job == [shard : Shards, batch : Nat, rows : {None} \cup SUBSET Read]

ASSUME NoneAssumption ==
    /\ None \notin Nat \cup Row \cup Job
    /\ (\A S \in SUBSET Shards : S # None) /\ (\A S \in SUBSET Read : S # None)

VARIABLES
    table,          \* ID -> row or None
    commits,        \* transactions committed so far
    returned,       \* the last of them whose call has returned nil
    caller,         \* per caller: None, or the commit it has yet to invalidate for
    stats,          \* a Stats call holding statsMu: None, or the commits its query saw
    statsCache,     \* None, or the commits the cached value saw
    jobs,           \* shards Backfill has yet to hand out; None when it does not run
    worker,         \* per worker: None, or [shard, batch, rows]
    report,         \* [embedded, failures, cancelled] of the Backfill that runs;
                    \* embedded is the last commit it counts
    waiting         \* rows without a vector since before Backfill began

vars == <<table, commits, returned, caller, stats, statsCache, jobs, worker, report, waiting>>

Present == {i \in Ids : table[i] # None}
Unembedded == {i \in Present : ~table[i].vector}

NoReport == [embedded |-> 0, failures |-> {}, cancelled |-> FALSE]

Init ==
    /\ table = [i \in Ids |-> None] /\ commits = 0 /\ returned = 0
    /\ caller = [c \in Callers |-> None] /\ stats = None /\ statsCache = None
    /\ jobs = None /\ worker = [w \in Workers |-> None]
    /\ report = NoReport /\ waiting = {}

-----------------------------------------------------------------------------
(* A transaction by caller c; an error, even of one that was committed,    *)
(* ends the call without invalidation.                                     *)
Commit(c, new) ==
    /\ caller[c] = None /\ commits < MaxCommits
    /\ table' = new /\ commits' = commits + 1
    /\ caller' \in {[caller EXCEPT ![c] = commits + 1], caller}
    /\ waiting' = {i \in waiting : new[i] # None}
    /\ UNCHANGED <<returned, stats, statsCache, jobs, worker, report>>

\* Mutant: the deferred mutation writes the vector column as well.
UpsertedBlank(batch, meta, given) ==
    [i \in Ids |-> IF i \in batch THEN [meta |-> meta, vector |-> given \/ ~Deferred] ELSE table[i]]

(* BuildUpsertPlan: chunks may bring their vectors; else a deferred        *)
(* mutation leaves the vector column out, the remote-model statement       *)
(* computes it.                                                            *)
Upserted(batch, meta, given) ==
    [i \in Ids |-> IF i \in batch
                   THEN [meta |-> meta, vector |-> given \/ ~Deferred \/ (table[i] # None /\ table[i].vector)]
                   ELSE table[i]]

Upsert(c, batch, meta, given) == batch # {} /\ Commit(c, Upserted(batch, meta, given))

(* DeleteMachine, and Clear.                                               *)
Delete(c, metas) ==
    Commit(c, [i \in Ids |-> IF table[i] # None /\ table[i].meta \in metas THEN None ELSE table[i]])

(* invalidateStats waits for statsMu; then the call returns nil.           *)
\* Mutant: the cache is cleared without the mutex.
InvalidateUnlocked(c) ==
    /\ caller[c] # None /\ statsCache' = None /\ returned' = Max({returned, caller[c]})
    /\ caller' = [caller EXCEPT ![c] = None]
    /\ UNCHANGED <<table, commits, stats, jobs, worker, report, waiting>>

Invalidate(c) ==
    /\ caller[c] # None /\ stats = None /\ statsCache' = None
    /\ returned' = Max({returned, caller[c]})
    /\ caller' = [caller EXCEPT ![c] = None]
    /\ UNCHANGED <<table, commits, stats, jobs, worker, report, waiting>>

(* Stats: a valid cache answers at once; otherwise the query and the new   *)
(* cache, all under statsMu.  The query may fail, a cache expires.         *)
StatsQuery ==
    /\ stats = None /\ statsCache = None /\ stats' = commits
    /\ UNCHANGED <<table, commits, returned, caller, statsCache, jobs, worker, report, waiting>>

StatsCached ==
    /\ stats # None /\ statsCache' \in {stats, None} /\ stats' = None
    /\ UNCHANGED <<table, commits, returned, caller, jobs, worker, report, waiting>>

StatsExpire ==
    /\ stats = None /\ statsCache # None /\ statsCache' = None
    /\ UNCHANGED <<table, commits, returned, caller, stats, jobs, worker, report, waiting>>

-----------------------------------------------------------------------------
(* Backfill hands every shard to a worker; ...                             *)
Backfill ==
    /\ Deferred /\ jobs = None /\ jobs' = Shards /\ waiting' = Unembedded
    /\ UNCHANGED <<table, commits, returned, caller, stats, statsCache, worker, report>>

(* The context is cancelled: shards not handed out yet may never be.       *)
Cancel ==
    /\ jobs # None /\ jobs' \in {jobs, {}} /\ report' = [report EXCEPT !.cancelled = TRUE]
    /\ UNCHANGED <<table, commits, returned, caller, stats, statsCache, worker, waiting>>

TakeShard(w, s) ==
    /\ jobs # None /\ s \in jobs /\ worker[w] = None
    /\ jobs' = jobs \ {s} /\ worker' = [worker EXCEPT ![w] = [shard |-> s, batch |-> 0, rows |-> None]]
    /\ UNCHANGED <<table, commits, returned, caller, stats, statsCache, report, waiting>>

Finish(w, failed) ==
    /\ worker' = [worker EXCEPT ![w] = None]
    /\ report' = [report EXCEPT !.failures = @ \cup (IF failed THEN {worker[w].shard} ELSE {})]

Busy(w) == worker[w] # None /\ worker[w].rows = None /\ ~report.cancelled

Rows(w) == {[id |-> i, meta |-> table[i].meta] : i \in {j \in Unembedded : ShardOf[j] = worker[w].shard}}
Batches(w) == {S \in SUBSET Rows(w) : S # {} /\ Cardinality(S) = Min({BackfillBatch, Cardinality(Rows(w))})}

\* Mutant: a shard gets one batch.
ReadOneBatch(w) ==
    /\ Busy(w) /\ worker[w].batch < BackfillMaxBatchesPerShard
    /\ \/ (Rows(w) = {} \/ worker[w].batch > 0) /\ Finish(w, FALSE)
       \/ \E rows \in Batches(w) : worker' = [worker EXCEPT ![w].rows = rows] /\ UNCHANGED report
    /\ UNCHANGED <<table, commits, returned, caller, stats, statsCache, jobs, waiting>>

(* ... which reads a batch of the rows without a vector, any of them, ...  *)
ReadBatch(w) ==
    /\ Busy(w) /\ worker[w].batch < BackfillMaxBatchesPerShard
    /\ \/ Rows(w) = {} /\ Finish(w, FALSE)
       \/ \E rows \in Batches(w) : worker' = [worker EXCEPT ![w].rows = rows] /\ UNCHANGED report
    /\ UNCHANGED <<table, commits, returned, caller, stats, statsCache, jobs, waiting>>

(* ... and writes them back as they were read, with their vectors; the     *)
(* transaction may be committed and still be answered with an error.       *)
EmbedBatch(w) ==
    /\ worker[w] # None /\ worker[w].rows # None /\ commits < MaxCommits
    /\ table' = [i \in Ids |-> IF \E r \in worker[w].rows : r.id = i
                              THEN [meta |-> (CHOOSE r \in worker[w].rows : r.id = i).meta, vector |-> TRUE]
                              ELSE table[i]]
    /\ commits' = commits + 1
    /\ \/ /\ worker' = [worker EXCEPT ![w] = [shard |-> worker[w].shard, batch |-> worker[w].batch + 1, rows |-> None]]
          /\ report' = [report EXCEPT !.embedded = commits + 1]
       \/ Finish(w, TRUE)
    /\ UNCHANGED <<returned, caller, stats, statsCache, jobs, waiting>>

\* Mutant: a failure is retried.
ShardRetries(w) ==
    /\ worker[w] # None /\ worker' = [worker EXCEPT ![w].rows = None]
    /\ UNCHANGED <<table, commits, returned, caller, stats, statsCache, jobs, report, waiting>>

(* The batches are used up, or a query, a row or the model fails, or the   *)
(* context is cancelled.                                                   *)
ShardFails(w) ==
    /\ worker[w] # None /\ Finish(w, TRUE)
    /\ UNCHANGED <<table, commits, returned, caller, stats, statsCache, jobs, waiting>>

BackfillDone == jobs = {} /\ \A w \in Workers : worker[w] = None

Counts == report.embedded > 0 /\ ~report.cancelled

(* All shards are reported; what was embedded invalidates the statistics,  *)
(* unless the context was cancelled: then the call returns an error.       *)
Report ==
    /\ BackfillDone /\ (Counts => stats = None) /\ jobs' = None /\ report' = NoReport /\ waiting' = {}
    /\ statsCache' = IF Counts THEN None ELSE statsCache
    /\ returned' = IF Counts THEN Max({returned, report.embedded}) ELSE returned
    /\ UNCHANGED <<table, commits, caller, stats, worker>>

Next ==
    \/ \E c \in Callers :
          \/ \E batch \in SUBSET Ids, meta \in Metas, given \in BOOLEAN : Upsert(c, batch, meta, given)
          \/ \E metas \in SUBSET Metas : Delete(c, metas)
          \/ Invalidate(c)
    \/ StatsQuery \/ StatsCached \/ StatsExpire \/ Backfill \/ Cancel \/ Report
    \/ \E w \in Workers :
          (\E s \in Shards : TakeShard(w, s)) \/ ReadBatch(w) \/ EmbedBatch(w) \/ ShardFails(w)

Spec == Init /\ [][Next]_vars

(* Executor calls return, goroutines that can run do, and statsMu lets a   *)
(* goroutine that waits for it in, as sync.Mutex does.                     *)
FairSpec ==
    /\ Spec /\ SF_vars(Report)
    /\ \A w \in Workers :
          /\ WF_vars(\E s \in Shards : TakeShard(w, s))
          /\ WF_vars(ReadBatch(w) \/ EmbedBatch(w) \/ ShardFails(w))
    /\ WF_vars(StatsCached)

-----------------------------------------------------------------------------
(* What Stats answers from its cache has seen every write, deletion and    *)
(* backfill whose call has returned nil, though it runs concurrently with  *)
(* all of them and the executor is called outside the callers' locks.      *)
StatsSeeReturned == statsCache # None => statsCache >= returned

(* A row with a vector keeps having one as long as it exists: neither a    *)
(* deferred Upsert nor a Backfill that had read it before takes it away.   *)
EmbeddedStays ==
    [][\A i \in Present : table[i].vector /\ table'[i] # None => table'[i].vector]_vars

(* A Backfill that reports no failure has embedded every row that waited   *)
(* when it began and still exists, whoever wrote in between.               *)
BackfillThorough ==
    BackfillDone /\ ~report.cancelled => \A i \in waiting : ShardOf[i] \in report.failures \/ i \notin Unembedded

(* A Backfill comes to its report: no worker waits forever.                *)
BackfillEnds == jobs # None ~> jobs = None
=============================================================================
