------------------------------- MODULE MCStore -------------------------------
(***************************************************************************)
(* The two sides of SpannerStore, the rows with their statistics and their *)
(* backfill, and the searches with the index they use.  They share no      *)
(* memory, so a behaviour follows one of them.  Two IDs are in one shard,  *)
(* which takes all its batches to embed both; the other shard is empty.    *)
(***************************************************************************)
EXTENDS ChunkStore, Retrieval, TLC

CONSTANTS i1, i2, s1, s2

MCShardOf == (i1 :> s1) @@ (i2 :> s1)

VARIABLE part

allVars == <<vars, searchVars, part>>

MCInit ==
    \/ part = "rows" /\ Init /\ SearchInit /\ index = "none" /\ many = FALSE
       /\ config = [enable |-> FALSE, use |-> FALSE, text |-> FALSE, backend |-> FALSE]
    \/ part = "searches" /\ Init /\ SearchInit

MCNext ==
    \/ part = "rows" /\ Next /\ UNCHANGED <<searchVars, part>>
    \/ part = "searches" /\ SearchNext /\ UNCHANGED <<vars, part>>

(* The fairness of ChunkStore and of Retrieval, each for its part          *)
MCSpec ==
    /\ MCInit /\ [][MCNext]_allVars
    /\ SF_vars(part = "rows" /\ Report) /\ WF_vars(part = "rows" /\ StatsCached)
    /\ \A w \in Workers :
          /\ WF_vars(part = "rows" /\ \E s \in Shards : TakeShard(w, s))
          /\ WF_vars(part = "rows" /\ (ReadBatch(w) \/ EmbedBatch(w) \/ ShardFails(w)))
    /\ \A r \in Requests : WF_searchVars(part = "searches" /\ Step(r))
=============================================================================
