----------------------------- MODULE StoreProofs -----------------------------
(***************************************************************************)
(* SpannerStore, for all rows, shards, callers, workers and requests.      *)
(***************************************************************************)
EXTENDS ChunkStore, Retrieval, TLAPS

-----------------------------------------------------------------------------
(* Searches.  A plan is made for the vector index only when the store      *)
(* believes it is there, and the store is never wrong: it looked at start, *)
(* or its own DDL was done, and nobody drops the index.                    *)
SearchTypeOK ==
    /\ index \in {"none", "building", "ready"} /\ available \in BOOLEAN
    /\ pc \in [Requests -> Statements \cup Plans \cup Answers \cup {"idle"}]
    /\ mode \in [Requests -> {"none", "ann", "exact"}]

SearchInv == SearchTypeOK /\ (available => index = "ready") /\ AnnFindsIndex

(* A request that moves on without a new plan, and to no search, needs no  *)
(* index.                                                                  *)
LEMMA MovesOn ==
  ASSUME SearchInv, NEW r \in Requests, UNCHANGED <<index, available, mode>>,
         NEW at \in Answers \cup Plans \cup {"idle", "embed", "summaries"}, Move(r, at)
  PROVE  SearchInv'
  BY Zenon DEF Move, SearchInv, SearchTypeOK, AnnFindsIndex, Statements, Plans, Answers

(* A plan says "ann" only when the index can be used.                      *)
LEMMA PlanStep ==
  ASSUME SearchInv, NEW r \in Requests, UNCHANGED <<index, available>>,
         NEW at \in {"hybrid", "vector"}, Move(r, at), mode' = [mode EXCEPT ![r] = Mode(r)]
  PROVE  SearchInv'
  BY Zenon DEF Move, Mode, SearchInv, SearchTypeOK, AnnFindsIndex, Statements, Plans, Answers

(* One lemma for the steps of a request ...                                *)
LEMMA RequestStep ==
  ASSUME SearchInv, NEW r \in Requests, Step(r)
  PROVE  SearchInv'
  <1>1. CASE Send(r)
    <2>1. CASE Move(r, Late)
      BY <1>1, <2>1, MovesOn DEF Send, database, store, Late, Answers
    <2>2. CASE UNCHANGED pc
      BY <1>1, <2>2 DEF Send, database, store, SearchInv, SearchTypeOK, AnnFindsIndex
    <2> QED
      BY <1>1, <2>1, <2>2 DEF Send
  <1>2. CASE Embedded(r)
    BY <1>2, MovesOn, Zenon DEF Embedded, database, store, Plans
  <1>3. CASE PlanHybrid(r)
    BY <1>3, PlanStep, Zenon DEF PlanHybrid, database, store
  <1>4. CASE PlanVector(r)
    <2>1. CASE Move(r, "vector") /\ mode' = [mode EXCEPT ![r] = Mode(r)]
      BY <1>4, <2>1, PlanStep, Zenon DEF PlanVector, database, store
    <2>2. CASE (Move(r, "refused") \/ Move(r, Late)) /\ UNCHANGED mode
      BY <1>4, <2>2, MovesOn, Zenon DEF PlanVector, database, store, Late, Answers
    <2> QED
      BY <1>4, <2>1, <2>2, Zenon DEF PlanVector
  <1>5. CASE Found(r) \/ Summaries(r)
    BY <1>5, MovesOn DEF Found, Summaries, Answer, database, store, Answers
  <1>6. CASE StatementFails(r)
    BY <1>6, MovesOn, Zenon DEF StatementFails, database, store, Failed, Late, Answers, Plans
  <1> QED
    BY <1>1, <1>2, <1>3, <1>4, <1>5, <1>6 DEF Step

(* ... and one for all steps.                                              *)
LEMMA SearchStepInv == SearchInv /\ [SearchNext]_searchVars => SearchInv'
  <1> SUFFICES ASSUME SearchInv, [SearchNext]_searchVars PROVE SearchInv'
    OBVIOUS
  <1>1. CASE IndexProgress \/ Optimize
    BY <1>1 DEF IndexProgress, Optimize, store, SearchInv, SearchTypeOK, AnnFindsIndex
  <1>2. CASE Grow \/ Start \/ OptimizeEnds
    <2>1. UNCHANGED <<index, pc, mode>>
      BY <1>2 DEF Grow, Start, OptimizeEnds, database
    <2>2. available' \in BOOLEAN /\ (available' => index = "ready")
      <3>1. CASE Start
        BY <3>1, Zenon DEF Start
      <3>2. CASE OptimizeEnds /\ index = "ready" /\ available' = TRUE
        BY <3>2
      <3>3. CASE UNCHANGED available
        BY <3>3 DEF SearchInv, SearchTypeOK
      <3> QED
        BY <1>2, <3>1, <3>2, <3>3, Zenon DEF Grow, OptimizeEnds, store
    <2> QED
      BY <2>1, <2>2 DEF SearchInv, SearchTypeOK, AnnFindsIndex
  <1>3. CASE Stop
    BY <1>3, Zenon DEF Stop, database, SearchInv, SearchTypeOK, AnnFindsIndex
  <1>4. ASSUME NEW r \in Requests, NEW q \in Asked, Reject(r, q) \/ Receive(r, q) \/ McpSearch(r, q)
        PROVE  SearchInv'
    BY <1>4, MovesOn DEF Reject, Receive, McpSearch, database, store, Answers
  <1>5. ASSUME NEW r \in Requests, Done(r) PROVE SearchInv'
    BY <1>5 DEF Done, Move, database, store, SearchInv, SearchTypeOK, AnnFindsIndex
  <1>6. ASSUME NEW r \in Requests, Expire(r) PROVE SearchInv'
    BY <1>6 DEF Expire, database, store, SearchInv, SearchTypeOK, AnnFindsIndex
  <1>7. ASSUME NEW r \in Requests, Step(r) PROVE SearchInv'
    BY <1>7, RequestStep
  <1>8. CASE UNCHANGED searchVars
    BY <1>8 DEF searchVars, SearchInv, SearchTypeOK, AnnFindsIndex
  <1> QED
    BY <1>1, <1>2, <1>3, <1>4, <1>5, <1>6, <1>7, <1>8 DEF SearchNext

(* For any number of requests, and however starting, Optimize and other    *)
(* processes interleave with them, a search that forces the vector index   *)
(* finds it usable.                                                        *)
THEOREM SearchFindsIndex == SearchSpec => []AnnFindsIndex
  <1>1. SearchInit => SearchInv
    BY Zenon DEF SearchInit, SearchInv, SearchTypeOK, AnnFindsIndex
  <1>2. SearchInv => AnnFindsIndex
    BY DEF SearchInv
  <1> QED
    BY <1>1, <1>2, SearchStepInv, PTL DEF SearchSpec

-----------------------------------------------------------------------------
(* Rows, statistics and backfill                                           *)
StoreTypeOK ==
    /\ table \in [Ids -> Row \cup {None}] /\ commits \in Nat /\ returned \in Nat
    /\ caller \in [Callers -> Nat \cup {None}] /\ stats \in Nat \cup {None} /\ statsCache \in Nat \cup {None}
    /\ jobs \in {None} \cup SUBSET Shards /\ worker \in [Workers -> Job \cup {None}]
    /\ report \in [embedded : Nat, failures : SUBSET Shards, cancelled : BOOLEAN] /\ waiting \subseteq Ids

(* Nobody counts a transaction that was not committed, and the query that  *)
(* holds statsMu began after the last call that returned: a call returns   *)
(* only when it has had statsMu itself.                                    *)
StatsFresh ==
    /\ returned <= commits /\ report.embedded <= commits
    /\ \A c \in Callers : caller[c] # None => caller[c] <= commits
    /\ stats # None => stats >= returned
    /\ StatsSeeReturned

(* A row that has waited since before Backfill began and is still without  *)
(* a vector is in a shard that is yet to be handed out, that a worker is   *)
(* at, or that is reported as failed.                                      *)
Attended(i) ==
    \/ ShardOf[i] \in jobs \cup report.failures
    \/ \E w \in Workers : worker[w] # None /\ worker[w].shard = ShardOf[i]

NoneForgotten ==
    /\ waiting \subseteq Present
    /\ jobs # None /\ ~report.cancelled => \A i \in waiting \cap Unembedded : Attended(i)

StoreInv == StoreTypeOK /\ StatsFresh /\ NoneForgotten

(* The later of two transactions                                           *)
LEMMA MaxOfTwo ==
  ASSUME NEW a \in Nat, NEW b \in Nat
  PROVE  Max({a, b}) \in {a, b} /\ Max({a, b}) >= a /\ Max({a, b}) >= b
  <1>1. \E x \in {a, b} : \A y \in {a, b} : x >= y
    OBVIOUS
  <1> QED
    BY <1>1 DEF Max

(* What a worker has in hand when it goes on, and when it is done.         *)
LEMMA WorkerFields ==
  ASSUME StoreTypeOK, NEW w \in Workers, worker[w] # None
  PROVE  /\ worker[w] \in Job /\ worker[w].shard \in Shards /\ worker[w].batch \in Nat
         /\ worker[w].rows \in {None} \cup SUBSET Read
  BY DEF StoreTypeOK, Job

(* Going on in one's shard                                                 *)
GoesOn(w) ==
    /\ worker' \in [Workers -> Job \cup {None}] /\ worker'[w] # None
    /\ worker'[w].shard = worker[w].shard /\ \A v \in Workers \ {w} : worker'[v] = worker[v]

LEMMA ReadOn ==
  ASSUME StoreTypeOK, NEW w \in Workers, worker[w] # None,
         NEW rows \in SUBSET Read, worker' = [worker EXCEPT ![w].rows = rows]
  PROVE  GoesOn(w)
  <1>1. worker[w] \in Job
    BY WorkerFields
  <1>2. [worker[w] EXCEPT !.rows = rows] \in Job /\ [worker[w] EXCEPT !.rows = rows].shard = worker[w].shard
    BY <1>1 DEF Job
  <1>3. worker' = [worker EXCEPT ![w] = [worker[w] EXCEPT !.rows = rows]]
    OBVIOUS
  <1> DEFINE new == [worker[w] EXCEPT !.rows = rows]
  <1> HIDE DEF new
  <1>4. worker' = [worker EXCEPT ![w] = new] /\ new \in Job /\ new.shard = worker[w].shard /\ new # None
    BY <1>2, <1>3, NoneAssumption DEF new
  <1> QED
    BY <1>4 DEF GoesOn, StoreTypeOK

LEMMA EmbedOn ==
  ASSUME StoreTypeOK, NEW w \in Workers, worker[w] # None,
         worker' = [worker EXCEPT ![w] = [shard |-> worker[w].shard, batch |-> worker[w].batch + 1, rows |-> None]]
  PROVE  GoesOn(w)
  <1>1. worker[w] \in Job /\ worker[w].batch \in Nat
    BY WorkerFields
  <1> DEFINE new == [shard |-> worker[w].shard, batch |-> worker[w].batch + 1, rows |-> None]
  <1>2. new \in Job /\ new.shard = worker[w].shard
    BY WorkerFields DEF Job
  <1>3. worker' = [worker EXCEPT ![w] = new]
    OBVIOUS
  <1> HIDE DEF new
  <1>4. new # None
    BY <1>2, NoneAssumption
  <1> QED
    BY <1>2, <1>3, <1>4 DEF GoesOn, StoreTypeOK

(* The end of a worker's shard                                             *)
LEMMA FinishEffect ==
  ASSUME StoreTypeOK, NEW w \in Workers, worker[w] # None, NEW failed \in BOOLEAN, Finish(w, failed)
  PROVE  /\ worker' \in [Workers -> Job \cup {None}]
         /\ \A v \in Workers : worker'[v] = IF v = w THEN None ELSE worker[v]
         /\ report' \in [embedded : Nat, failures : SUBSET Shards, cancelled : BOOLEAN]
         /\ report'.embedded = report.embedded /\ report'.cancelled = report.cancelled
         /\ report.failures \subseteq report'.failures
         /\ failed => worker[w].shard \in report'.failures
  <1>1. worker[w].shard \in Shards
    BY WorkerFields
  <1> QED
    BY <1>1 DEF Finish, StoreTypeOK

(* A change of the rows that takes no vector away                          *)
VectorsKept(new) ==
    /\ new \in [Ids -> Row \cup {None}]
    /\ \A i \in Ids : table[i] # None /\ table[i].vector /\ new[i] # None => new[i].vector

(* Waiting rows stay attended when no vector is taken away and no shard is *)
(* dropped before its rows have their vectors.                             *)
LEMMA StillAttended ==
  ASSUME StoreTypeOK, NoneForgotten, VectorsKept(table'),
         waiting' \subseteq waiting, \A i \in waiting' : table'[i] # None,
         jobs' # None /\ ~report'.cancelled => jobs # None /\ ~report.cancelled,
         \A i \in waiting \cap Unembedded : Attended(i) => Attended(i)' \/ i \notin Unembedded'
  PROVE  NoneForgotten'
  <1>1. waiting' \subseteq Present'
    BY DEF StoreTypeOK, Present
  <1>2. ASSUME jobs' # None, ~report'.cancelled, NEW i \in waiting' \cap Unembedded' PROVE Attended(i)'
    <2>1. i \in Ids /\ table[i] # None /\ table'[i] # None /\ ~table'[i].vector
      BY <1>2 DEF NoneForgotten, Present, Unembedded
    <2>2. ~table[i].vector
      BY <2>1 DEF VectorsKept
    <2>3. i \in waiting \cap Unembedded
      BY <1>2, <2>1, <2>2 DEF Unembedded, Present
    <2> QED
      BY <1>2, <2>3 DEF NoneForgotten
  <1> QED
    BY <1>1, <1>2 DEF NoneForgotten

(* When nothing but the statistics changes                                 *)
LEMMA RowsAlone ==
  ASSUME StoreTypeOK, NoneForgotten, UNCHANGED <<table, jobs, worker, report, waiting>>
  PROVE  NoneForgotten'
  BY DEF NoneForgotten, Present, Unembedded, Attended

(* Upsert, DeleteMachine and Clear change rows that way, ...               *)
LEMMA UpsertKeepsVectors ==
  ASSUME StoreTypeOK, NEW batch \in SUBSET Ids, NEW meta \in Metas, NEW given \in BOOLEAN
  PROVE  VectorsKept(Upserted(batch, meta, given))
  <1> DEFINE new == Upserted(batch, meta, given)
  <1>1. ASSUME NEW i \in batch
        PROVE  /\ new[i] \in Row
               /\ table[i] # None /\ table[i].vector => new[i].vector
    <2> DEFINE v == given \/ ~Deferred \/ (table[i] # None /\ table[i].vector)
    <2>1. new[i] = [meta |-> meta, vector |-> v]
      BY <1>1 DEF Upserted
    <2>2. v \in BOOLEAN /\ (table[i] # None /\ table[i].vector => v)
      OBVIOUS
    <2> HIDE DEF v, new
    <2> QED
      BY <2>1, <2>2 DEF Row
  <1>2. ASSUME NEW i \in Ids \ batch PROVE new[i] = table[i]
    BY <1>2 DEF Upserted
  <1>3. new \in [Ids -> Row \cup {None}]
    <2>1. \A i \in Ids : new[i] \in Row \cup {None}
      BY <1>1, <1>2 DEF StoreTypeOK
    <2> QED
      BY <2>1 DEF Upserted
  <1>4. VectorsKept(new)
    <2> HIDE DEF new
    <2> QED
      BY <1>1, <1>2, <1>3 DEF VectorsKept
  <1> QED
    BY <1>4

LEMMA DeleteKeepsVectors ==
  ASSUME StoreTypeOK, NEW metas \in SUBSET Metas
  PROVE  VectorsKept([i \in Ids |-> IF table[i] # None /\ table[i].meta \in metas THEN None ELSE table[i]])
  BY DEF VectorsKept, StoreTypeOK

(* ... and so does a worker that writes its rows back.                     *)
LEMMA EmbedKeepsVectors ==
  ASSUME StoreTypeOK, NEW w \in Workers, EmbedBatch(w)
  PROVE  /\ VectorsKept(table')
         /\ \A i \in Ids : table[i] # None => table'[i] # None
  <1>1. worker[w].rows \in SUBSET Read
    BY WorkerFields DEF EmbedBatch
  <1> DEFINE written(i) == \E r \in worker[w].rows : r.id = i
             row(i) == CHOOSE r \in worker[w].rows : r.id = i
  <1>2. ASSUME NEW i \in Ids, written(i)
        PROVE  table'[i] \in Row /\ table'[i].vector
    <2>1. row(i) \in worker[w].rows
      BY <1>2
    <2>2. row(i).meta \in Metas
      BY <1>1, <2>1 DEF Read
    <2>3. table'[i] = [meta |-> row(i).meta, vector |-> TRUE]
      BY <1>2 DEF EmbedBatch
    <2> QED
      BY <2>2, <2>3 DEF Row
  <1>3. ASSUME NEW i \in Ids, ~written(i) PROVE table'[i] = table[i]
    BY <1>3 DEF EmbedBatch
  <1>4. table' \in [Ids -> Row \cup {None}]
    <2>1. \A i \in Ids : table'[i] \in Row \cup {None}
      BY <1>2, <1>3 DEF StoreTypeOK
    <2>2. table' = [i \in Ids |-> table'[i]]
      BY DEF EmbedBatch
    <2> QED
      BY <2>1, <2>2
  <1> HIDE DEF written
  <1> QED
    BY <1>2, <1>3, <1>4, NoneAssumption DEF VectorsKept

(* A transaction of a caller: it is newer than everything returned.        *)
LEMMA CommitStep ==
  ASSUME StoreInv, NEW c \in Callers, NEW new, VectorsKept(new), Commit(c, new)
  PROVE  StoreInv'
  <1>1. /\ table' = new /\ commits' = commits + 1 /\ waiting' = {i \in waiting : new[i] # None}
        /\ UNCHANGED <<returned, stats, statsCache, jobs, worker, report>>
    BY DEF Commit
  <1>2. /\ caller' \in [Callers -> Nat \cup {None}]
        /\ \A d \in Callers : caller'[d] \in {caller[d], commits + 1}
    BY DEF Commit, StoreInv, StoreTypeOK
  <1>3. StoreTypeOK'
    BY <1>1, <1>2 DEF StoreInv, StoreTypeOK, VectorsKept
  <1>4. report.embedded \in Nat
    BY DEF StoreInv, StoreTypeOK
  <1>5. StatsFresh'
    BY <1>1, <1>2, <1>4 DEF StoreInv, StoreTypeOK, StatsFresh, StatsSeeReturned
  <1>6. NoneForgotten'
    BY <1>1, StillAttended DEF StoreInv, Attended
  <1> QED
    BY <1>3, <1>5, <1>6 DEF StoreInv

(* A call returns only when no query is under way, and clears the cache.   *)
LEMMA InvalidateStep ==
  ASSUME StoreInv, NEW c \in Callers, Invalidate(c)
  PROVE  StoreInv'
  <1>1. caller[c] \in Nat /\ caller[c] <= commits /\ returned \in Nat
    BY DEF Invalidate, StoreInv, StoreTypeOK, StatsFresh
  <1>2. returned' \in {returned, caller[c]}
    BY <1>1, MaxOfTwo DEF Invalidate
  <1>3. /\ stats = None /\ statsCache' = None /\ caller' = [caller EXCEPT ![c] = None]
        /\ UNCHANGED <<table, commits, stats, jobs, worker, report, waiting>>
    BY DEF Invalidate
  <1>4. StoreTypeOK'
    BY <1>1, <1>2, <1>3 DEF StoreInv, StoreTypeOK
  <1>5. StatsFresh'
    BY <1>1, <1>2, <1>3 DEF StoreInv, StoreTypeOK, StatsFresh, StatsSeeReturned
  <1>6. NoneForgotten'
    BY <1>3, RowsAlone DEF StoreInv
  <1> QED
    BY <1>4, <1>5, <1>6 DEF StoreInv

(* A query sees everything committed.                                      *)
LEMMA StatsStep ==
  ASSUME StoreInv, StatsQuery \/ StatsCached \/ StatsExpire
  PROVE  StoreInv'
  <1>1. UNCHANGED <<table, commits, returned, caller, jobs, worker, report, waiting>>
    BY DEF StatsQuery, StatsCached, StatsExpire
  <1>2. StoreTypeOK' /\ StatsFresh'
    BY <1>1 DEF StatsQuery, StatsCached, StatsExpire, StoreInv, StoreTypeOK, StatsFresh, StatsSeeReturned
  <1> QED
    BY <1>1, <1>2, RowsAlone DEF StoreInv

(* Backfill begins with every shard to hand out, ends with a report, and   *)
(* may be cancelled in between.                                            *)
LEMMA BackfillStep ==
  ASSUME StoreInv, Backfill \/ Cancel
  PROVE  StoreInv'
  <1>1. UNCHANGED <<table, commits, returned, caller, stats, statsCache, worker>>
    BY DEF Backfill, Cancel
  <1>2. CASE Backfill
    <2>1. jobs' = Shards /\ waiting' = Unembedded /\ report' = report
      BY <1>2 DEF Backfill
    <2>2. \A i \in Ids : ShardOf[i] \in Shards
      BY StoreAssumption
    <2>3. StoreTypeOK'
      BY <1>1, <2>1 DEF StoreInv, StoreTypeOK, Unembedded, Present
    <2>4. NoneForgotten'
      BY <1>1, <2>1, <2>2 DEF NoneForgotten, Attended, Unembedded, Present
    <2>5. StatsFresh'
      BY <1>1, <2>1 DEF StoreInv, StatsFresh, StatsSeeReturned
    <2> QED
      BY <2>3, <2>4, <2>5 DEF StoreInv
  <1>3. CASE Cancel
    <2>1. /\ jobs' \in {jobs, {}} /\ waiting' = waiting
          /\ report' \in [embedded : Nat, failures : SUBSET Shards, cancelled : BOOLEAN]
          /\ report'.cancelled = TRUE /\ report'.embedded = report.embedded
      BY <1>3, Zenon DEF Cancel, StoreInv, StoreTypeOK
    <2>2. StoreTypeOK'
      BY <1>1, <2>1 DEF StoreInv, StoreTypeOK
    <2>3. NoneForgotten'
      BY <1>1, <2>1 DEF StoreInv, NoneForgotten, Present
    <2>4. StatsFresh'
      BY <1>1, <2>1 DEF StoreInv, StatsFresh, StatsSeeReturned
    <2> QED
      BY <2>2, <2>3, <2>4 DEF StoreInv
  <1> QED
    BY <1>2, <1>3

LEMMA ReportStep ==
  ASSUME StoreInv, Report
  PROVE  StoreInv'
  <1>1. report.embedded \in Nat /\ returned \in Nat /\ report.embedded <= commits
    BY DEF StoreInv, StoreTypeOK, StatsFresh
  <1>2. /\ jobs' = None /\ report' = NoReport /\ waiting' = {}
        /\ UNCHANGED <<table, commits, caller, stats, worker>>
    BY DEF Report
  <1>3. \/ stats = None /\ statsCache' = None /\ returned' \in {returned, report.embedded}
        \/ UNCHANGED <<statsCache, returned>>
    BY <1>1, MaxOfTwo DEF Report
  <1>4. NoReport \in [embedded : Nat, failures : SUBSET Shards, cancelled : BOOLEAN] /\ NoReport.embedded = 0
    BY DEF NoReport
  <1>5. StoreTypeOK'
    BY <1>1, <1>2, <1>3, <1>4 DEF StoreInv, StoreTypeOK
  <1>6. StatsFresh'
    BY <1>1, <1>2, <1>3, <1>4 DEF StoreInv, StoreTypeOK, StatsFresh, StatsSeeReturned
  <1>7. NoneForgotten'
    BY <1>2 DEF NoneForgotten
  <1> QED
    BY <1>5, <1>6, <1>7 DEF StoreInv

(* A shard passes from the list to a worker.                               *)
LEMMA TakeStep ==
  ASSUME StoreInv, NEW w \in Workers, NEW s \in Shards, TakeShard(w, s)
  PROVE  StoreInv'
  <1> DEFINE job == [shard |-> s, batch |-> 0, rows |-> None]
  <1>1. job \in Job /\ job # None /\ job.shard = s
    BY NoneAssumption DEF Job
  <1>2. worker' = [worker EXCEPT ![w] = job] /\ worker[w] = None /\ jobs' = jobs \ {s} /\ jobs # None
    BY DEF TakeShard
  <1>3. UNCHANGED <<table, commits, returned, caller, stats, statsCache, report, waiting>>
    BY DEF TakeShard
  <1> HIDE DEF job
  <1>4. StoreTypeOK'
    BY <1>1, <1>2, <1>3 DEF StoreInv, StoreTypeOK
  <1>5. StatsFresh'
    BY <1>3 DEF StoreInv, StatsFresh, StatsSeeReturned
  <1>6. ASSUME NEW i \in waiting, Attended(i) PROVE Attended(i)'
    BY <1>1, <1>2, <1>3, <1>6 DEF StoreInv, StoreTypeOK, Attended
  <1>7. VectorsKept(table') /\ \A i \in waiting' : table'[i] # None
    BY <1>3 DEF StoreInv, StoreTypeOK, VectorsKept, NoneForgotten, Present
  <1>8. NoneForgotten'
    BY <1>2, <1>3, <1>6, <1>7, StillAttended DEF StoreInv
  <1> QED
    BY <1>4, <1>5, <1>8 DEF StoreInv

(* A worker that goes on, with rows that keep their vectors, leaves every  *)
(* shard to whoever has it; ...                                            *)
LEMMA GoesOnStep ==
  ASSUME StoreInv, NEW w \in Workers, worker[w] # None, GoesOn(w), VectorsKept(table'),
         \A i \in Ids : table[i] # None => table'[i] # None,
         report'.failures = report.failures /\ report'.cancelled = report.cancelled,
         UNCHANGED <<jobs, waiting>>
  PROVE  NoneForgotten'
  <1>1. ASSUME NEW i \in waiting, Attended(i) PROVE Attended(i)'
    BY <1>1 DEF Attended, GoesOn
  <1>2. \A i \in waiting' : table'[i] # None
    BY DEF StoreInv, StoreTypeOK, NoneForgotten, Present
  <1> QED
    BY <1>1, <1>2, StillAttended DEF StoreInv

(* ... one that is done has failed, or left no row of its shard without a  *)
(* vector.                                                                 *)
LEMMA FinishStep ==
  ASSUME StoreInv, NEW w \in Workers, worker[w] # None, NEW failed \in BOOLEAN, Finish(w, failed),
         VectorsKept(table'), \A i \in Ids : table[i] # None => table'[i] # None,
         failed \/ \A i \in Unembedded : ShardOf[i] # worker[w].shard,
         UNCHANGED <<jobs, waiting>>
  PROVE  NoneForgotten'
  <1>1. /\ \A v \in Workers : worker'[v] = IF v = w THEN None ELSE worker[v]
        /\ report'.cancelled = report.cancelled /\ report.failures \subseteq report'.failures
        /\ failed => worker[w].shard \in report'.failures
    BY FinishEffect DEF StoreInv
  <1>2. ASSUME NEW i \in waiting \cap Unembedded, Attended(i) PROVE Attended(i)'
    <2>1. CASE ShardOf[i] \in jobs \cup report.failures
      BY <1>1, <2>1 DEF Attended
    <2>2. ASSUME NEW v \in Workers, worker[v] # None, worker[v].shard = ShardOf[i] PROVE Attended(i)'
      BY <1>1, <1>2, <2>2 DEF Attended
    <2> QED
      BY <1>2, <2>1, <2>2 DEF Attended
  <1>3. \A i \in waiting' : table'[i] # None
    BY DEF StoreInv, StoreTypeOK, NoneForgotten, Present
  <1> QED
    BY <1>1, <1>2, <1>3, StillAttended DEF StoreInv

(* Rows the worker reads                                                   *)
LEMMA RowsRead ==
  ASSUME StoreTypeOK, NEW w \in Workers
  PROVE  /\ Rows(w) \in SUBSET Read
         /\ Rows(w) = {} => \A i \in Unembedded : ShardOf[i] # worker[w].shard
  <1>1. \A i \in Unembedded : i \in Ids /\ table[i].meta \in Metas
    BY DEF Unembedded, Present, StoreTypeOK, Row
  <1>2. ASSUME NEW x \in Rows(w) PROVE x \in Read
    BY <1>1 DEF Rows, Read
  <1>3. ASSUME NEW i \in Unembedded, ShardOf[i] = worker[w].shard PROVE [id |-> i, meta |-> table[i].meta] \in Rows(w)
    BY <1>3 DEF Rows
  <1> QED
    BY <1>2, <1>3, Zenon

LEMMA ReadStep ==
  ASSUME StoreInv, NEW w \in Workers, ReadBatch(w)
  PROVE  StoreInv'
  <1>1. worker[w] # None /\ UNCHANGED <<table, commits, returned, caller, stats, statsCache, jobs, waiting>>
    BY DEF ReadBatch, Busy
  <1>2. VectorsKept(table') /\ \A i \in Ids : table[i] # None => table'[i] # None
    BY <1>1 DEF StoreInv, StoreTypeOK, VectorsKept
  <1>3. CASE Rows(w) = {} /\ Finish(w, FALSE)
    <2>1. NoneForgotten'
      BY <1>1, <1>2, <1>3, FinishStep, RowsRead, Zenon DEF StoreInv
    <2>2. StoreTypeOK' /\ StatsFresh'
      BY <1>1, <1>3, FinishEffect, Zenon DEF StoreInv, StoreTypeOK, StatsFresh, StatsSeeReturned
    <2> QED
      BY <2>1, <2>2 DEF StoreInv
  <1>4. ASSUME NEW rows \in Batches(w), worker' = [worker EXCEPT ![w].rows = rows], UNCHANGED report PROVE StoreInv'
    <2>1. rows \in SUBSET Read
      BY RowsRead DEF StoreInv, Batches
    <2>2. GoesOn(w)
      BY <1>1, <1>4, <2>1, ReadOn, Zenon DEF StoreInv
    <2>3. NoneForgotten'
      BY <1>1, <1>2, <1>4, <2>2, GoesOnStep
    <2>4. StoreTypeOK' /\ StatsFresh'
      BY <1>1, <1>4, <2>2 DEF GoesOn, StoreInv, StoreTypeOK, StatsFresh, StatsSeeReturned
    <2> QED
      BY <2>3, <2>4 DEF StoreInv
  <1> QED
    BY <1>3, <1>4, Zenon DEF ReadBatch

LEMMA EmbedStep ==
  ASSUME StoreInv, NEW w \in Workers, EmbedBatch(w)
  PROVE  StoreInv'
  <1>1. worker[w] # None /\ commits' = commits + 1 /\ UNCHANGED <<returned, caller, stats, statsCache, jobs, waiting>>
    BY DEF EmbedBatch
  <1>2. VectorsKept(table') /\ \A i \in Ids : table[i] # None => table'[i] # None
    BY EmbedKeepsVectors DEF StoreInv
  <1>3. CASE Finish(w, TRUE)
    <2>1. NoneForgotten'
      BY <1>1, <1>2, <1>3, FinishStep, Zenon
    <2>2. /\ worker' \in [Workers -> Job \cup {None}]
          /\ report' \in [embedded : Nat, failures : SUBSET Shards, cancelled : BOOLEAN]
          /\ report'.embedded = report.embedded
      BY <1>1, <1>3, FinishEffect, Zenon DEF StoreInv
    <2>3. StoreTypeOK'
      BY <1>1, <1>2, <2>2 DEF VectorsKept, StoreInv, StoreTypeOK
    <2>4. StatsFresh'
      BY <1>1, <2>2 DEF StoreInv, StoreTypeOK, StatsFresh, StatsSeeReturned
    <2> QED
      BY <2>1, <2>3, <2>4 DEF StoreInv
  <1>4. CASE /\ worker' = [worker EXCEPT ![w] = [shard |-> worker[w].shard, batch |-> worker[w].batch + 1, rows |-> None]]
             /\ report' = [report EXCEPT !.embedded = commits + 1]
    <2>1. GoesOn(w)
      BY <1>1, <1>4, EmbedOn, Zenon DEF StoreInv
    <2>2. /\ report' \in [embedded : Nat, failures : SUBSET Shards, cancelled : BOOLEAN]
          /\ report'.embedded = commits + 1 /\ report'.failures = report.failures /\ report'.cancelled = report.cancelled
      BY <1>4 DEF StoreInv, StoreTypeOK
    <2>3. NoneForgotten'
      BY <1>1, <1>2, <2>1, <2>2, GoesOnStep
    <2>4. StoreTypeOK'
      BY <1>1, <1>2, <2>1, <2>2 DEF GoesOn, VectorsKept, StoreInv, StoreTypeOK
    <2>5. StatsFresh'
      BY <1>1, <2>2 DEF StoreInv, StoreTypeOK, StatsFresh, StatsSeeReturned
    <2> QED
      BY <2>3, <2>4, <2>5 DEF StoreInv
  <1> QED
    BY <1>3, <1>4, Zenon DEF EmbedBatch

LEMMA FailStep ==
  ASSUME StoreInv, NEW w \in Workers, ShardFails(w)
  PROVE  StoreInv'
  <1>1. /\ worker[w] # None /\ Finish(w, TRUE)
        /\ UNCHANGED <<table, commits, returned, caller, stats, statsCache, jobs, waiting>>
    BY Zenon DEF ShardFails
  <1>2. VectorsKept(table') /\ \A i \in Ids : table[i] # None => table'[i] # None
    BY <1>1 DEF StoreInv, StoreTypeOK, VectorsKept
  <1>3. NoneForgotten'
    BY <1>1, <1>2, FinishStep, Zenon
  <1>4. StoreTypeOK' /\ StatsFresh'
    BY <1>1, FinishEffect, Zenon DEF StoreInv, StoreTypeOK, StatsFresh, StatsSeeReturned
  <1> QED
    BY <1>3, <1>4 DEF StoreInv

(* The table starts empty.                                                 *)
LEMMA StoreInitInv == Init => StoreInv
  <1> SUFFICES ASSUME Init PROVE StoreInv
    OBVIOUS
  <1>1. NoReport \in [embedded : Nat, failures : SUBSET Shards, cancelled : BOOLEAN] /\ NoReport.embedded = 0
    BY DEF NoReport
  <1> QED
    BY <1>1 DEF Init, StoreInv, StoreTypeOK, StatsFresh, StatsSeeReturned, NoneForgotten

LEMMA StoreStepInv == StoreInv /\ [Next]_vars => StoreInv'
  <1> SUFFICES ASSUME StoreInv, [Next]_vars PROVE StoreInv'
    OBVIOUS
  <1>1. ASSUME NEW c \in Callers, NEW batch \in SUBSET Ids, NEW meta \in Metas, NEW given \in BOOLEAN,
               Upsert(c, batch, meta, given)
        PROVE  StoreInv'
    <2>1. VectorsKept(Upserted(batch, meta, given))
      BY UpsertKeepsVectors DEF StoreInv
    <2> QED
      BY <1>1, <2>1, CommitStep DEF Upsert
  <1>2. ASSUME NEW c \in Callers, NEW metas \in SUBSET Metas, Delete(c, metas) PROVE StoreInv'
    <2> DEFINE left == [i \in Ids |-> IF table[i] # None /\ table[i].meta \in metas THEN None ELSE table[i]]
    <2>1. VectorsKept(left)
      BY DeleteKeepsVectors DEF StoreInv
    <2>2. Commit(c, left)
      BY <1>2 DEF Delete
    <2> HIDE DEF left
    <2> QED
      BY <2>1, <2>2, CommitStep
  <1>3. CASE UNCHANGED vars
    <2>1. StoreTypeOK' /\ StatsFresh'
      BY <1>3 DEF vars, StoreInv, StoreTypeOK, StatsFresh, StatsSeeReturned
    <2> QED
      BY <1>3, <2>1, RowsAlone DEF vars, StoreInv
  <1> QED
    BY <1>1, <1>2, <1>3, InvalidateStep, StatsStep, BackfillStep, ReportStep, TakeStep, ReadStep, EmbedStep, FailStep
       DEF Next

(* For any number of callers and workers, what Stats answers from its      *)
(* cache has seen every call that has returned nil.                        *)
THEOREM StatsAreCurrent == Spec => []StatsSeeReturned
  <1>1. StoreInv => StatsSeeReturned
    BY DEF StoreInv, StatsFresh
  <1> QED
    BY <1>1, StoreInitInv, StoreStepInv, PTL DEF Spec

(* For any rows, shards, batch sizes and workers, a Backfill that is not   *)
(* cancelled reports a shard as failed or has embedded every row of it     *)
(* that waited when it began and still exists.                             *)
THEOREM BackfillEmbedsAll == Spec => []BackfillThorough
  <1>1. StoreInv => BackfillThorough
    <2> SUFFICES ASSUME StoreInv, BackfillDone, ~report.cancelled, NEW i \in waiting, i \in Unembedded
                 PROVE  ShardOf[i] \in report.failures
      BY DEF BackfillThorough
    <2>1. jobs = {} /\ jobs # None /\ \A w \in Workers : worker[w] = None
      BY NoneAssumption DEF BackfillDone
    <2>2. Attended(i)
      BY <2>1 DEF StoreInv, NoneForgotten
    <2> QED
      BY <2>1, <2>2 DEF Attended
  <1> QED
    BY <1>1, StoreInitInv, StoreStepInv, PTL DEF Spec

(* For any callers and workers, no Upsert, deletion or Backfill takes the  *)
(* vector of a row that stays.                                             *)
THEOREM VectorsStay == Spec => EmbeddedStays
  <1>1. StoreInv /\ [Next]_vars => [\A i \in Present : table[i].vector /\ table'[i] # None => table'[i].vector]_vars
    <2> SUFFICES ASSUME StoreInv, Next PROVE \A i \in Present : table[i].vector /\ table'[i] # None => table'[i].vector
      OBVIOUS
    <2>1. VectorsKept(table')
      <3>1. ASSUME NEW c \in Callers, NEW batch \in SUBSET Ids, NEW meta \in Metas, NEW given \in BOOLEAN,
                   Upsert(c, batch, meta, given)
            PROVE  VectorsKept(table')
        BY <3>1, UpsertKeepsVectors DEF StoreInv, Upsert, Commit
      <3>2. ASSUME NEW c \in Callers, NEW metas \in SUBSET Metas, Delete(c, metas) PROVE VectorsKept(table')
        BY <3>2, DeleteKeepsVectors DEF StoreInv, Delete, Commit
      <3>3. ASSUME NEW w \in Workers, EmbedBatch(w) PROVE VectorsKept(table')
        BY <3>3, EmbedKeepsVectors DEF StoreInv
      <3>4. CASE UNCHANGED table
        BY <3>4 DEF VectorsKept, StoreInv, StoreTypeOK
      <3> QED
        BY <3>1, <3>2, <3>3, <3>4, Zenon DEF Next, Invalidate, StatsQuery, StatsCached, StatsExpire, Backfill, Cancel, Report,
                                      TakeShard, ReadBatch, ShardFails
    <2> QED
      BY <2>1 DEF VectorsKept, Present
  <1> QED
    BY <1>1, StoreInitInv, StoreStepInv, PTL DEF Spec, EmbeddedStays
=============================================================================
