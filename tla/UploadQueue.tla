---------------------------- MODULE UploadQueue ----------------------------
(***************************************************************************)
(* uploadqueue.Queue, with a caller that enqueues items and an uploader    *)
(* that takes what Ready returns and answers with Ack or Retry.            *)
(***************************************************************************)
EXTENDS AtomicSave, Naturals, FiniteSets, Functions

CONSTANTS Ids, Payloads, Capacity, MaxTime, MaxAttempts

ASSUME QueueAssumption ==
    /\ Capacity \in Nat \ {0} /\ MaxTime \in Nat /\ MaxAttempts \in Nat
    /\ IsFiniteSet(Ids)

Item == [payload : Payloads, attempts : 0..MaxAttempts, next : 0..MaxTime]
Items == UNION {[S -> Item] : S \in SUBSET Ids}

ASSUME NoSaveAssumption == NoSave \notin Items

VARIABLES
    now,
    enqueuing,      \* the Enqueue under way, by its item's ID, or NoSave
    owed            \* items an Enqueue has written and nobody has acknowledged

queueVars == <<store, now, enqueuing, owed>>

NoItems == [i \in {} |-> 0]

QueueInit == StoreInit(NoItems) /\ now = 0 /\ enqueuing = NoSave /\ owed = {}

Has(i) == i \in DOMAIN mem
WithItem(i, v) == [j \in DOMAIN mem \cup {i} |-> IF j = i THEN v ELSE mem[j]]

-----------------------------------------------------------------------------
(* A file with more items than the capacity is refused as corrupt.         *)
OpenQueue == Reopen /\ Cardinality(DOMAIN disk) <= Capacity /\ UNCHANGED <<now, enqueuing, owed>>

\* Mutant: room is measured without the new item.
EnqueueBeyond(i, v) ==
    /\ ~Has(i) /\ Cardinality(DOMAIN mem) <= Capacity
    /\ Stage(WithItem(i, v)) /\ enqueuing' = i /\ UNCHANGED <<now, owed>>

Enqueue(i, v) ==
    /\ ~Has(i) /\ Cardinality(DOMAIN mem) < Capacity
    /\ Stage(WithItem(i, v)) /\ enqueuing' = i /\ UNCHANGED <<now, owed>>

(* The same item again: nil, and nothing is written.                       *)
EnqueueAgain(i, v) ==
    /\ Idle /\ Has(i) /\ mem[i] = v
    /\ UNCHANGED queueVars

(* Ready: the items that are due, as far as the limit goes; the uploader   *)
(* sends one of them and reports.                                          *)
Due(i) == Idle /\ Has(i) /\ mem[i].next <= now

Ack(i) ==
    /\ Due(i) /\ Stage(Restrict(mem, DOMAIN mem \ {i}))
    /\ owed' = owed \ {i} /\ enqueuing' = NoSave /\ UNCHANGED now

Retry(i, t) ==
    /\ Due(i) /\ mem[i].attempts < MaxAttempts
    /\ Stage(WithItem(i, [mem[i] EXCEPT !.attempts = @ + 1, !.next = t]))
    /\ enqueuing' = NoSave /\ UNCHANGED <<now, owed>>

RenameQueue == RenameFile /\ UNCHANGED <<now, enqueuing, owed>>

Written ==
    /\ owed' = owed \cup ({enqueuing} \ {NoSave})
    /\ enqueuing' = NoSave

\* Mutant: the directory is not synced.
SyncQueueSkipped ==
    /\ up /\ renamed /\ mem' = staged /\ staged' = NoSave /\ renamed' = FALSE
    /\ Written /\ UNCHANGED <<up, disk, survivors, now>>

SyncQueue ==
    /\ SyncDirectory /\ Written /\ UNCHANGED now

FailQueue == (SaveFails \/ ProcessDies \/ PowerFails) /\ enqueuing' = NoSave /\ UNCHANGED <<now, owed>>

Tick == now < MaxTime /\ now' = now + 1 /\ UNCHANGED <<store, enqueuing, owed>>

QueueNext ==
    \/ OpenQueue \/ RenameQueue \/ SyncQueue \/ FailQueue \/ Tick
    \/ \E i \in Ids, p \in Payloads, t \in 0..MaxTime :
          LET v == [payload |-> p, attempts |-> 0, next |-> t]
          IN  Enqueue(i, v) \/ EnqueueAgain(i, v)
    \/ \E i \in Ids : Ack(i) \/ \E t \in 0..MaxTime : Retry(i, t)

QueueSpec == QueueInit /\ [][QueueNext]_queueVars

-----------------------------------------------------------------------------
Safe(i) == (\A q \in survivors \cup {disk} : i \in DOMAIN q) /\ (up => Has(i))

(* What an Enqueue has written stays queued, in memory and in every file   *)
(* content a restart can find, until it is acknowledged: through failed    *)
(* saves, crashes and power losses between any two steps.                  *)
WrittenStaysQueued == \A i \in owed : Safe(i)

(* The queue can always be opened again: no interleaving of failed saves   *)
(* and restarts leaves a file with more items than the capacity.           *)
Reopens == \A q \in survivors \cup {disk} : Cardinality(DOMAIN q) <= Capacity
=============================================================================
