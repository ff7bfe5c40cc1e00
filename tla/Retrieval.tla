------------------------------ MODULE Retrieval ------------------------------
(***************************************************************************)
(* The retrieval routes of the API over SpannerStore: a search is embedded,*)
(* planned with what the store knows of the vector index, and sent; a      *)
(* hybrid search that fails falls back to the vector search.  The index    *)
(* itself is made meanwhile, by Optimize or by another process.            *)
(*                                                                         *)
(* Statements can fail at any time, and a request's deadline can pass at   *)
(* any time.  Spanner carries out schema changes one after another, so     *)
(* CREATE of an index being built waits until it is usable; nobody drops   *)
(* it.                                                                     *)
(***************************************************************************)
EXTENDS Naturals

CONSTANTS
    Requests,
    Kinds           \* a subset of {"hybrid", "vector", "sessions", "mcp"}

VARIABLES
    config,         \* EnableANN, UseANN, EnableFullText, Retrieval configured
    index,          \* the vector index in the database
    many,           \* the table has VectorIndexThreshold rows
    up,             \* the daemon serves
    available,      \* vectorIndexAvailable
    optimizing,     \* Optimize waits for its DDL
    request,        \* what was asked
    pc,             \* the statement a request sends next, or its answer
    mode,           \* the vector mode of the plan it will send
    expired,        \* its deadline has passed
    inFlight        \* the statement was sent before that

searchVars == <<config, index, many, up, available, optimizing, request, pc, mode, expired, inFlight>>
database == <<index, many>>
store == <<up, available, optimizing>>

Configs == {c \in [enable : BOOLEAN, use : BOOLEAN, text : BOOLEAN, backend : BOOLEAN] : c.use => c.enable}
Asked == [kind : Kinds, filtered : BOOLEAN]
NoSearch == [kind |-> "none", filtered |-> FALSE]
Statements == {"embed", "hybrid", "vector", "summaries"}
Plans == {"plan hybrid", "plan vector"}
Answers == {"200", "400", "503", "504", "unusable", "refused"}

SearchInit ==
    /\ config \in Configs /\ index \in {"none", "building", "ready"} /\ many \in BOOLEAN
    /\ up = FALSE /\ available = FALSE /\ optimizing = FALSE
    /\ request = [r \in Requests |-> NoSearch] /\ pc = [r \in Requests |-> "idle"]
    /\ mode = [r \in Requests |-> "none"] /\ expired = [r \in Requests |-> FALSE]
    /\ inFlight = [r \in Requests |-> FALSE]

-----------------------------------------------------------------------------
(* The database: an index somebody else makes, and new rows.               *)
IndexProgress ==
    /\ \/ index = "none" /\ index' = "building"
       \/ index = "building" /\ index' = "ready"
    /\ UNCHANGED <<config, many, store, request, pc, mode, expired, inFlight>>

Grow ==
    /\ ~many /\ many' = TRUE
    /\ UNCHANGED <<config, index, store, request, pc, mode, expired, inFlight>>

\* Mutant: an index that is still being built is adopted.
StartEarly ==
    /\ ~up /\ up' = TRUE /\ available' = (index # "none")
    /\ UNCHANGED <<config, database, optimizing, request, pc, mode, expired, inFlight>>

(* DiscoverIndexes, before the daemon serves.                              *)
Start ==
    /\ ~up /\ up' = TRUE /\ available' = (index = "ready")
    /\ UNCHANGED <<config, database, optimizing, request, pc, mode, expired, inFlight>>

(* The process ends, and its requests with it.                             *)
Stop ==
    /\ up /\ up' = FALSE /\ available' = FALSE /\ optimizing' = FALSE
    /\ request' = [r \in Requests |-> NoSearch] /\ pc' = [r \in Requests |-> "idle"]
    /\ mode' = [r \in Requests |-> "none"] /\ expired' = [r \in Requests |-> FALSE]
    /\ inFlight' = [r \in Requests |-> FALSE]
    /\ UNCHANGED <<config, database>>

(* Optimize until its DDL is sent; with too few rows it returns.           *)
Optimize ==
    /\ up /\ ~optimizing /\ config.enable /\ ~available /\ many
    /\ optimizing' = TRUE /\ index' = IF index = "none" THEN "building" ELSE index
    /\ UNCHANGED <<config, many, up, available, request, pc, mode, expired, inFlight>>

(* The DDL is done, or the index existed; or it fails.                     *)
OptimizeEnds ==
    /\ optimizing /\ optimizing' = FALSE
    /\ \/ index = "ready" /\ available' = TRUE
       \/ UNCHANGED available
    /\ UNCHANGED <<config, database, up, request, pc, mode, expired, inFlight>>

-----------------------------------------------------------------------------
Move(r, at) == pc' = [pc EXCEPT ![r] = at]

(* An invalid request is answered before the store is reached, as is one   *)
(* when no backend is configured.                                          *)
Reject(r, q) ==
    /\ up /\ pc[r] = "idle" /\ q.kind # "mcp" /\ request' = [request EXCEPT ![r] = q]
    /\ \/ Move(r, "400")
       \/ ~config.backend /\ Move(r, "503")
    /\ UNCHANGED <<config, database, store, mode, expired, inFlight>>

Receive(r, q) ==
    /\ up /\ pc[r] = "idle" /\ q.kind # "mcp" /\ config.backend /\ request' = [request EXCEPT ![r] = q]
    /\ Move(r, IF q.kind = "sessions" THEN "summaries" ELSE "embed")
    /\ UNCHANGED <<config, database, store, mode, expired, inFlight>>

(* Service.Search of the MCP tools; it filters by chunk type at most.      *)
McpSearch(r, q) ==
    /\ up /\ pc[r] = "idle" /\ q.kind = "mcp" /\ ~q.filtered /\ request' = [request EXCEPT ![r] = q]
    /\ Move(r, IF config.backend THEN "embed" ELSE "refused")
    /\ UNCHANGED <<config, database, store, mode, expired, inFlight>>

(* A client that has its answer may ask again.                             *)
Done(r) ==
    /\ pc[r] \in Answers
    /\ request' = [request EXCEPT ![r] = NoSearch] /\ Move(r, "idle")
    /\ mode' = [mode EXCEPT ![r] = "none"] /\ expired' = [expired EXCEPT ![r] = FALSE]
    /\ UNCHANGED <<config, database, store, inFlight>>

(* The context of runRetrieval; an MCP caller brings its own.              *)
Expire(r) ==
    /\ pc[r] \in Statements \cup Plans /\ ~expired[r] /\ request[r].kind # "mcp"
    /\ expired' = [expired EXCEPT ![r] = TRUE]
    /\ UNCHANGED <<config, database, store, request, pc, mode, inFlight>>

Late == "504"
Failed(r) == IF request[r].kind = "mcp" THEN "refused" ELSE "503"

(* Executor.Query: no statement is sent after the deadline.                *)
Send(r) ==
    /\ pc[r] \in Statements /\ ~inFlight[r]
    /\ IF expired[r]
       THEN Move(r, Late) /\ UNCHANGED inFlight
       ELSE inFlight' = [inFlight EXCEPT ![r] = TRUE] /\ UNCHANGED pc
    /\ UNCHANGED <<config, database, store, request, mode, expired>>

Returned(r) == inFlight[r] /\ inFlight' = [inFlight EXCEPT ![r] = FALSE]

(* ensureQueryVector is done                                               *)
Embedded(r) ==
    /\ pc[r] = "embed" /\ Returned(r)
    /\ Move(r, IF request[r].kind = "hybrid" /\ config.text THEN "plan hybrid" ELSE "plan vector")
    /\ UNCHANGED <<config, database, store, request, mode, expired>>

(* chooseVectorMode for SearchAuto, which the API always asks for.         *)
Mode(r) == IF ~request[r].filtered /\ config.enable /\ config.use /\ available THEN "ann" ELSE "exact"

PlanHybrid(r) ==
    /\ pc[r] = "plan hybrid" /\ Move(r, "hybrid") /\ mode' = [mode EXCEPT ![r] = Mode(r)]
    /\ UNCHANGED <<config, database, store, request, expired, inFlight>>

(* BuildSearchPlan, and runSearch's look at the deadline.  The MCP service *)
(* leaves Query.Mode empty, which chooseVectorMode refuses.                *)
PlanVector(r) ==
    /\ pc[r] = "plan vector"
    /\ \/ request[r].kind = "mcp" /\ Move(r, "refused") /\ UNCHANGED mode
       \/ request[r].kind # "mcp" /\ expired[r] /\ Move(r, Late) /\ UNCHANGED mode
       \/ request[r].kind # "mcp" /\ ~expired[r] /\ Move(r, "vector") /\ mode' = [mode EXCEPT ![r] = Mode(r)]
    /\ UNCHANGED <<config, database, store, request, expired, inFlight>>

(* Rows came back: the answer, or rows that cannot be parsed or are too    *)
(* large to give (503 as well, but the search itself did not fail).        *)
Answer(r) == Returned(r) /\ \E code \in {"200", "unusable"} : Move(r, code)

(* A search that is forced to an index needs it.                           *)
Found(r) ==
    /\ pc[r] \in {"hybrid", "vector"} /\ (mode[r] = "ann" => index = "ready") /\ Answer(r)
    /\ UNCHANGED <<config, database, store, request, mode, expired>>

Summaries(r) ==
    /\ pc[r] = "summaries" /\ Answer(r)
    /\ UNCHANGED <<config, database, store, request, mode, expired>>

\* Mutant: the hybrid search is tried until it succeeds.
StatementFailsAgain(r) ==
    /\ pc[r] \in Statements /\ Returned(r)
    /\ \/ pc[r] = "hybrid" /\ Move(r, IF expired[r] THEN Late ELSE "plan hybrid")
       \/ pc[r] # "hybrid" /\ Move(r, Failed(r))
       \/ pc[r] # "hybrid" /\ expired[r] /\ Move(r, Late)
    /\ UNCHANGED <<config, database, store, request, mode, expired>>

(* The statement fails, or its deadline ends it.  Only HybridSearch looks  *)
(* at the context itself; what error the client library makes of a passed  *)
(* deadline is its own choice elsewhere.                                   *)
StatementFails(r) ==
    /\ pc[r] \in Statements /\ Returned(r)
    /\ \/ pc[r] = "hybrid" /\ Move(r, IF expired[r] THEN Late ELSE "plan vector")
       \/ pc[r] # "hybrid" /\ Move(r, Failed(r))
       \/ pc[r] # "hybrid" /\ expired[r] /\ Move(r, Late)
    /\ UNCHANGED <<config, database, store, request, mode, expired>>

Step(r) == Send(r) \/ Embedded(r) \/ PlanHybrid(r) \/ PlanVector(r) \/ Found(r) \/ Summaries(r) \/ StatementFails(r)

SearchNext ==
    \/ IndexProgress \/ Grow \/ Start \/ Stop \/ Optimize \/ OptimizeEnds
    \/ \E r \in Requests :
         \/ \E q \in Asked : Reject(r, q) \/ Receive(r, q) \/ McpSearch(r, q)
         \/ Expire(r) \/ Step(r) \/ Done(r)

SearchSpec == SearchInit /\ [][SearchNext]_searchVars
SearchFairSpec == SearchSpec /\ \A r \in Requests : WF_searchVars(Step(r))

-----------------------------------------------------------------------------
(* A search forced to the vector index finds the index usable, whoever     *)
(* made it and however starting, Optimize and the search interleave.       *)
AnnFindsIndex == \A r \in Requests : pc[r] \in {"hybrid", "vector"} /\ mode[r] = "ann" => index = "ready"

(* Every request is answered while the daemon runs: statements end, at the *)
(* latest when the deadline of their context passes.                       *)
RequestsAnswered == \A r \in Requests : pc[r] \in Statements ~> pc[r] \in Answers \cup {"idle"}
=============================================================================
