-------------------------- MODULE LocalStateProofs --------------------------
(***************************************************************************)
(* The upload queue, the cursors, the authority and the files of           *)
(* durable.Root, for all values of their constants.                        *)
(***************************************************************************)
EXTENDS UploadQueue, CursorState, AuthRotation, DurableRoot, FiniteSetTheorems, TLAPS

-----------------------------------------------------------------------------
(* The queue: what an Enqueue has written stays queued until it is         *)
(* acknowledged, and the file never outgrows the capacity.  The invariant  *)
(* adds that a save under way keeps every item that is owed, holds the     *)
(* item of the Enqueue that stages it, and is the file's content once it   *)
(* is renamed.                                                             *)

Room(q) == DOMAIN q \subseteq Ids /\ Cardinality(DOMAIN q) <= Capacity

QueueSave ==
    /\ staged # NoSave => up /\ owed \subseteq DOMAIN staged /\ Room(staged)
    /\ enqueuing # NoSave /\ staged # NoSave => enqueuing \in DOMAIN staged
    /\ renamed => staged # NoSave /\ disk = staged

QueueInv ==
    /\ WrittenStaysQueued /\ QueueSave
    /\ Room(disk) /\ (\A q \in survivors : Room(q)) /\ Room(mem)

(* A queue is a finite map; one more item fits when the limit is not met.  *)
LEMMA RoomForOne ==
  ASSUME Room(mem), NEW i \in Ids, NEW v, i \in DOMAIN mem \/ Cardinality(DOMAIN mem) < Capacity
  PROVE  Room(WithItem(i, v))
  <1>1. IsFiniteSet(DOMAIN mem)
    BY QueueAssumption, FS_Subset DEF Room
  <1>2. DOMAIN WithItem(i, v) = DOMAIN mem \cup {i}
    BY DEF WithItem
  <1>3. Cardinality(DOMAIN mem) \in Nat
    BY <1>1, FS_CardinalityType
  <1>4. CASE i \in DOMAIN mem
    <2>1. DOMAIN mem \cup {i} = DOMAIN mem
      BY <1>4
    <2> QED
      BY <1>2, <2>1 DEF Room
  <1>5. CASE i \notin DOMAIN mem
    <2>1. Cardinality(DOMAIN mem \cup {i}) = Cardinality(DOMAIN mem) + 1
      BY <1>1, <1>5, FS_AddElement
    <2> QED
      BY <1>2, <1>3, <1>5, <2>1, QueueAssumption DEF Room
  <1> QED
    BY <1>4, <1>5

(* Taking an item out leaves a smaller queue.                              *)
LEMMA RoomWithout ==
  ASSUME Room(mem), NEW i
  PROVE  /\ Room(Restrict(mem, DOMAIN mem \ {i}))
         /\ DOMAIN Restrict(mem, DOMAIN mem \ {i}) = DOMAIN mem \ {i}
  <1>1. IsFiniteSet(DOMAIN mem)
    BY QueueAssumption, FS_Subset DEF Room
  <1>2. DOMAIN Restrict(mem, DOMAIN mem \ {i}) = DOMAIN mem \ {i}
    BY DEF Restrict
  <1>3. /\ Cardinality(DOMAIN mem \ {i}) <= Cardinality(DOMAIN mem)
        /\ Cardinality(DOMAIN mem) \in Nat /\ Cardinality(DOMAIN mem \ {i}) \in Nat
    BY <1>1, FS_Subset, FS_CardinalityType
  <1> QED
    BY <1>2, <1>3, QueueAssumption DEF Room

(* The queue starts empty.                                                 *)
LEMMA QueueInitInv == QueueInit => QueueInv
  <1> SUFFICES ASSUME QueueInit PROVE QueueInv
    OBVIOUS
  <1>1. DOMAIN NoItems = {}
    BY DEF NoItems
  <1>2. Room(NoItems)
    BY <1>1, QueueAssumption, FS_EmptySet DEF Room
  <1> QED
    BY <1>2 DEF QueueInit, StoreInit, QueueInv, WrittenStaysQueued, QueueSave

(* What Enqueue, Ack and Retry stage keeps every item that is owed.        *)
LEMMA QueueStageStep ==
  ASSUME QueueInv, NEW i \in Ids,
         \/ \E v : Enqueue(i, v)
         \/ Ack(i)
         \/ \E t \in 0..MaxTime : Retry(i, t)
  PROVE  QueueInv'
  <1>1. ASSUME NEW v, Enqueue(i, v) PROVE QueueInv'
    <2>1. Room(WithItem(i, v)) /\ DOMAIN WithItem(i, v) = DOMAIN mem \cup {i}
      BY <1>1, RoomForOne DEF Enqueue, QueueInv, WithItem
    <2>2. ~renamed /\ owed \subseteq DOMAIN mem
      BY <1>1 DEF Enqueue, Stage, Idle, QueueInv, QueueSave, WrittenStaysQueued, Safe, Has
    <2> QED
      BY <1>1, <2>1, <2>2 DEF Enqueue, Stage, Idle, QueueInv, QueueSave, WrittenStaysQueued, Safe, Has, Room
  <1>2. CASE Ack(i)
    <2> DEFINE rest == Restrict(mem, DOMAIN mem \ {i})
    <2>1. Room(rest) /\ DOMAIN rest = DOMAIN mem \ {i}
      BY RoomWithout DEF QueueInv
    <2>2. ~renamed /\ owed \subseteq DOMAIN mem
      BY <1>2 DEF Ack, Due, Stage, Idle, QueueInv, QueueSave, WrittenStaysQueued, Safe, Has
    <2>3. /\ staged' = rest /\ owed' = owed \ {i} /\ enqueuing' = NoSave /\ up
          /\ UNCHANGED <<up, mem, disk, survivors, renamed>>
      BY <1>2 DEF Ack, Stage, Idle
    <2> HIDE DEF rest
    <2> QED
      BY <2>1, <2>2, <2>3 DEF QueueInv, QueueSave, WrittenStaysQueued, Safe, Has, Room
  <1>3. ASSUME NEW t \in 0..MaxTime, Retry(i, t) PROVE QueueInv'
    <2> DEFINE v == [mem[i] EXCEPT !.attempts = @ + 1, !.next = t]
    <2>1. Room(WithItem(i, v)) /\ DOMAIN WithItem(i, v) = DOMAIN mem \cup {i}
      BY <1>3, RoomForOne, Zenon DEF Retry, Due, Has, QueueInv, WithItem
    <2>2. ~renamed /\ owed \subseteq DOMAIN mem
      BY <1>3, Zenon DEF Retry, Due, Stage, Idle, QueueInv, QueueSave, WrittenStaysQueued, Safe, Has
    <2>3. /\ staged' = WithItem(i, v) /\ enqueuing' = NoSave /\ up
          /\ UNCHANGED <<up, mem, disk, survivors, renamed, owed>>
      BY <1>3, Zenon DEF Retry, Stage, Idle
    <2> HIDE DEF v
    <2> QED
      BY <2>1, <2>2, <2>3 DEF QueueInv, QueueSave, WrittenStaysQueued, Safe, Has, Room
  <1> QED
    BY <1>1, <1>2, <1>3

(* No step loses an item that is owed.                                     *)
LEMMA QueueStepInv == QueueInv /\ [QueueNext]_queueVars => QueueInv'
  <1> SUFFICES ASSUME QueueInv, [QueueNext]_queueVars PROVE QueueInv'
    OBVIOUS
  <1> USE DEF QueueInv, WrittenStaysQueued, Safe, Has, QueueSave, Room
  <1>1. CASE OpenQueue
    BY <1>1 DEF OpenQueue, Reopen
  <1>2. CASE RenameQueue
    BY <1>2 DEF RenameQueue, RenameFile
  <1>3. CASE SyncQueue
    BY <1>3 DEF SyncQueue, SyncDirectory, Written
  <1>4. CASE FailQueue
    BY <1>4 DEF FailQueue, SaveFails, ProcessDies, PowerFails
  <1>5. CASE Tick \/ UNCHANGED queueVars
    BY <1>5 DEF Tick, queueVars, store
  <1>6. ASSUME NEW i \in Ids, (\E v : Enqueue(i, v)) \/ Ack(i) \/ (\E t \in 0..MaxTime : Retry(i, t))
        PROVE  QueueInv'
    BY <1>6, QueueStageStep
  <1>7. ASSUME NEW i \in Ids, NEW v, EnqueueAgain(i, v) PROVE QueueInv'
    BY <1>7, <1>5 DEF EnqueueAgain
  <1> QED
    BY <1>1, <1>2, <1>3, <1>4, <1>5, <1>6, <1>7, Zenon DEF QueueNext

(* For all items, capacities and faults, what Enqueue has written stays    *)
(* queued until it is acknowledged.                                        *)
THEOREM QueueKeepsItems == QueueSpec => []WrittenStaysQueued
  <1>1. QueueInv => WrittenStaysQueued
    BY DEF QueueInv
  <1> QED
    BY <1>1, QueueInitInv, QueueStepInv, PTL DEF QueueSpec

(* For all capacities and faults, Open finds a file within the capacity.   *)
THEOREM QueueReopens == QueueSpec => []Reopens
  <1>1. QueueInv => Reopens
    BY DEF QueueInv, Room, Reopens
  <1> QED
    BY <1>1, QueueInitInv, QueueStepInv, PTL DEF QueueSpec

-----------------------------------------------------------------------------
(* The cursors: a confirmed checkpoint is not lost.  The invariant adds    *)
(* what a save under way holds: it was staged over the map in memory, so   *)
(* it is behind no confirmed generation either, and after the rename it is *)
(* what the file contains.                                                 *)

CursorSave ==
    /\ staged # NoSave => up /\ AtLeast(staged) /\ putting \in Sources
    /\ staged # NoSave => putting \in DOMAIN staged /\ staged[putting].generation + 1 >= confirmed[putting]
    /\ renamed => staged # NoSave /\ disk = staged
    /\ staged = NoSave => putting = NoSave

CursorInv == CursorTypeOK /\ CheckpointKept /\ CursorSave

(* An entry of a map of checkpoints is a checkpoint.                       *)
LEMMA EntriesAreCheckpoints ==
  ASSUME NEW e \in Entries, NEW s \in DOMAIN e
  PROVE  s \in Sources /\ e[s] \in Checkpoint /\ e[s].generation \in 0..MaxGeneration
  BY DEF Entries, Checkpoint

(* Put changes the map at its source only.                                 *)
LEMMA WithIsEntries ==
  ASSUME mem \in Entries, NEW s \in Sources, NEW c \in Checkpoint
  PROVE  /\ WithCheckpoint(s, c) \in Entries /\ s \in DOMAIN WithCheckpoint(s, c) /\ WithCheckpoint(s, c)[s] = c
         /\ \A r \in DOMAIN mem : r \in DOMAIN WithCheckpoint(s, c) /\ (r # s => WithCheckpoint(s, c)[r] = mem[r])
  <1> DEFINE D == DOMAIN mem \cup {s}
  <1>1. PICK S \in SUBSET Sources : mem \in [S -> Checkpoint]
    BY DEF Entries
  <1>2. WithCheckpoint(s, c) \in [D -> Checkpoint] /\ D \in SUBSET Sources
    BY <1>1 DEF WithCheckpoint
  <1>3. WithCheckpoint(s, c) \in Entries
    BY <1>2 DEF Entries
  <1> QED
    BY <1>2, <1>3 DEF WithCheckpoint

(* The state starts empty, with nothing confirmed.                         *)
LEMMA CursorInitInv == CursorInit => CursorInv
  <1> SUFFICES ASSUME CursorInit PROVE CursorInv
    OBVIOUS
  <1>1. NoCheckpoints \in Entries
    BY DEF NoCheckpoints, Entries
  <1>2. CursorTypeOK
    <2>1. up \in BOOLEAN /\ renamed \in BOOLEAN
      BY Zenon DEF CursorInit, StoreInit
    <2>2. confirmed \in [Sources -> 0..MaxGeneration + 1]
      BY CursorAssumption DEF CursorInit
    <2> QED
      BY <1>1, <2>1, <2>2 DEF CursorInit, StoreInit, CursorTypeOK
  <1>3. CheckpointKept
    BY DEF CursorInit, CheckpointKept, AtLeast
  <1>4. CursorSave
    BY DEF CursorInit, StoreInit, CursorSave
  <1> QED
    BY <1>2, <1>3, <1>4 DEF CursorInv

(* A staged checkpoint respects what was confirmed before.                 *)
LEMMA PutStep ==
  ASSUME CursorInv, NEW s \in Sources, NEW c \in Checkpoint, Put(s, c)
  PROVE  CursorInv'
  <1> USE CursorAssumption, NoPutAssumption
  <1> DEFINE next == WithCheckpoint(s, c)
  <1>1. /\ next \in Entries /\ s \in DOMAIN next /\ next[s] = c
        /\ \A r \in DOMAIN mem : r \in DOMAIN next /\ (r # s => next[r] = mem[r])
    BY WithIsEntries DEF CursorInv, CursorTypeOK
  <1>2. /\ staged' = next /\ putting' = s /\ up /\ staged = NoSave
        /\ UNCHANGED <<up, mem, disk, survivors, renamed, confirmed>>
    BY DEF Put, Stage, Idle
  <1>3. confirmed[s] > 0 => c.generation + 1 >= confirmed[s]
    <2>1. ASSUME confirmed[s] > 0 PROVE c.generation + 1 >= confirmed[s]
      <3>1. s \in DOMAIN mem /\ mem[s].generation + 1 >= confirmed[s]
        BY <1>2, <2>1 DEF CursorInv, CheckpointKept, AtLeast
      <3>2. c.generation >= mem[s].generation
        BY <3>1 DEF Put, Get
      <3>3. mem[s].generation \in Nat /\ c.generation \in Nat /\ confirmed[s] \in Nat
        BY <3>1, EntriesAreCheckpoints DEF CursorInv, CursorTypeOK, Checkpoint
      <3> QED
        BY <3>1, <3>2, <3>3
    <2> QED
      BY <2>1, Zenon
  <1>4. c.generation \in Nat /\ confirmed[s] \in Nat
    BY DEF Checkpoint, CursorInv, CursorTypeOK
  <1>5. AtLeast(next)
    <2> SUFFICES ASSUME NEW r \in Sources, confirmed[r] > 0
                 PROVE  r \in DOMAIN next /\ next[r].generation + 1 >= confirmed[r]
      BY DEF AtLeast
    <2>1. r \in DOMAIN mem /\ mem[r].generation + 1 >= confirmed[r]
      BY <1>2 DEF CursorInv, CheckpointKept, AtLeast
    <2> QED
      BY <2>1, <1>1, <1>3
  <1>6. CursorTypeOK'
    BY <1>1, <1>2 DEF CursorInv, CursorTypeOK
  <1>7. CheckpointKept'
    BY <1>2 DEF CursorInv, CheckpointKept, AtLeast
  <1>8. ~renamed
    BY <1>2 DEF CursorInv, CursorSave
  <1>9. c.generation + 1 >= confirmed[s]
    BY <1>3, <1>4
  <1>10. staged' # NoSave
    BY <1>1, <1>2
  <1>11. AtLeast(staged)'
    BY <1>2, <1>5 DEF AtLeast
  <1>12. CursorSave'
    BY <1>1, <1>2, <1>8, <1>9, <1>10, <1>11 DEF CursorSave
  <1> QED
    BY <1>6, <1>7, <1>12 DEF CursorInv

(* A save that ends well confirms a generation that every copy now has.    *)
LEMMA SyncStep == CursorInv /\ SyncCursor => CursorInv'
  <1> SUFFICES ASSUME CursorInv, SyncCursor PROVE CursorInv'
    OBVIOUS
  <1> USE CursorAssumption, NoPutAssumption
  <1>1. /\ up /\ renamed /\ staged # NoSave /\ disk = staged /\ staged \in Entries
        /\ putting \in Sources /\ putting \in DOMAIN staged /\ AtLeast(staged)
    BY DEF CursorInv, CursorTypeOK, CursorSave, SyncCursor, SyncDirectory
  <1>2. /\ survivors' = {staged} /\ mem' = staged /\ disk' = staged /\ up' = up
        /\ staged' = NoSave /\ renamed' = FALSE /\ putting' = NoSave
        /\ confirmed' = [confirmed EXCEPT ![putting] = 1 + staged[putting].generation]
    BY <1>1 DEF SyncCursor, SyncDirectory
  <1>3. staged[putting].generation \in 0..MaxGeneration
    BY <1>1, EntriesAreCheckpoints
  <1>4. CursorTypeOK'
    <2>1. up' \in BOOLEAN /\ renamed' \in BOOLEAN
      BY <1>2, Zenon DEF CursorInv, CursorTypeOK
    <2>2. confirmed' \in [Sources -> 0..MaxGeneration + 1]
      BY <1>1, <1>2, <1>3 DEF CursorInv, CursorTypeOK
    <2> QED
      BY <1>1, <1>2, <2>1, <2>2 DEF CursorTypeOK
  <1>5. \A s \in Sources : confirmed'[s] > 0 =>
            s \in DOMAIN staged /\ staged[s].generation + 1 >= confirmed'[s]
    BY <1>1, <1>2, <1>3 DEF AtLeast, CursorInv, CursorTypeOK
  <1>6. CheckpointKept'
    BY <1>2, <1>5 DEF CheckpointKept, AtLeast
  <1>7. CursorSave'
    BY <1>2 DEF CursorSave
  <1> QED
    BY <1>4, <1>6, <1>7 DEF CursorInv

(* No step loses a confirmed checkpoint.                                   *)
LEMMA CursorStepInv == CursorInv /\ [CursorNext]_cursorVars => CursorInv'
  <1> SUFFICES ASSUME CursorInv, [CursorNext]_cursorVars PROVE CursorInv'
    OBVIOUS
  <1> USE CursorAssumption, NoPutAssumption
  <1>1. CASE OpenCursor
    BY <1>1 DEF OpenCursor, Reopen, CursorInv, CursorTypeOK, CheckpointKept, AtLeast, CursorSave
  <1>2. CASE RenameCursor
    BY <1>2 DEF RenameCursor, RenameFile, CursorInv, CursorTypeOK, CheckpointKept, AtLeast, CursorSave
  <1>3. CASE SyncCursor
    BY <1>3, SyncStep
  <1>4. CASE FailCursor
    BY <1>4, Zenon DEF FailCursor, SaveFails, ProcessDies, PowerFails, CursorInv, CursorTypeOK, CheckpointKept, AtLeast, CursorSave
  <1>5. ASSUME NEW s \in Sources, NEW c \in Checkpoint, Put(s, c) PROVE CursorInv'
    BY <1>5, PutStep, Zenon
  <1>6. CASE UNCHANGED cursorVars
    BY <1>6 DEF cursorVars, store, CursorInv, CursorTypeOK, CheckpointKept, AtLeast, CursorSave
  <1> QED
    BY <1>1, <1>2, <1>3, <1>4, <1>5, <1>6, Zenon DEF CursorNext

(* For all sources and faults, no source falls behind a generation that    *)
(* Put has confirmed, in memory or in any file content a restart may find. *)
THEOREM CheckpointSafety == CursorSpec => []CheckpointKept
  <1>1. CursorInv => CheckpointKept
    BY DEF CursorInv
  <1> QED
    BY <1>1, CursorInitInv, CursorStepInv, PTL DEF CursorSpec

(* For all sources and faults, a confirmed generation never goes back.     *)
THEOREM ConfirmedNeverFalls == CursorSpec => ConfirmedAscends
  <1>1. CursorInv /\ [CursorNext]_cursorVars => [\A s \in Sources : confirmed'[s] >= confirmed[s]]_cursorVars
    <2> SUFFICES ASSUME CursorInv, CursorNext, NEW s \in Sources PROVE confirmed'[s] >= confirmed[s]
      BY DEF cursorVars
    <2>1. confirmed[s] \in Nat
      BY CursorAssumption DEF CursorInv, CursorTypeOK
    <2>2. CASE SyncCursor
      <3>1. /\ staged # NoSave /\ confirmed' = [confirmed EXCEPT ![putting] = 1 + staged[putting].generation]
            /\ staged[putting].generation + 1 >= confirmed[putting]
            /\ staged \in Entries /\ putting \in DOMAIN staged
        BY <2>2 DEF SyncCursor, SyncDirectory, CursorInv, CursorTypeOK, CursorSave
      <3>2. staged[putting].generation \in Nat
        BY <3>1, EntriesAreCheckpoints, CursorAssumption
      <3>3. confirmed \in [Sources -> 0..MaxGeneration + 1]
        BY DEF CursorInv, CursorTypeOK
      <3> QED
        BY <2>1, <3>1, <3>2, <3>3
    <2>3. CASE ~SyncCursor
      BY <2>1, <2>3 DEF CursorNext, OpenCursor, RenameCursor, FailCursor, Put
    <2> QED
      BY <2>2, <2>3
  <1> QED
    BY <1>1, CursorInitInv, CursorStepInv, PTL DEF CursorSpec, ConfirmedAscends

-----------------------------------------------------------------------------
(* The authority: the client keeps the credential in force, unless the     *)
(* promotion was blind.  That alone is not inductive.  A promotion puts    *)
(* the pending credential in force, so the client must keep that one too   *)
(* or have been told to forget it, and it must be another one than it      *)
(* drops; and what a refused rotation drops must not be in force, nor      *)
(* pending without having been disowned, which is so because the client    *)
(* proposed it while it kept both.                                         *)
AuthTypeOK ==
    /\ authority \in State \cup {None} /\ serving \in BOOLEAN /\ psk \in Secrets
    /\ held \subseteq Secrets /\ req \in Request \cup {None} /\ blind \in BOOLEAN

RequestServed ==
    /\ serving => authority # None
    /\ req # None => /\ serving
                     /\ req.op = "rotate" => req.new # None
                     /\ req.op = "promote" => req.new = None

KeepsBoth ==
    /\ authority = None => psk \in held
    /\ authority # None =>
          /\ authority.active \in held /\ authority.pending # authority.active
          /\ authority.pending # None => authority.pending \in held \cup disowned

ProposalIsFresh ==
    req # None => /\ req.key \in held /\ req.new # authority.active
                  /\ req.new # None => req.new \in held
                  /\ req.new = authority.pending => req.new \in disowned \cup {None}
                  /\ req.verified => req.key \in {authority.active, authority.pending}

AuthInv == AuthTypeOK /\ RequestServed /\ (blind \/ (KeepsBoth /\ ProposalIsFresh))

(* The first start derives the state from the credential the client has.   *)
LEMMA AuthInitInv == AuthInit => AuthInv
  BY AuthAssumption, Zenon DEF AuthInit, AuthInv, AuthTypeOK, RequestServed, KeepsBoth, ProposalIsFresh

(* A proposal that is saved leaves both credentials with the client, or    *)
(* the new one is disowned.                                                *)
LEMMA RotationStep ==
  ASSUME AuthInv, BeginRotation
  PROVE  AuthInv'
  <1> USE AuthAssumption
  <1>1. /\ authority \in State /\ req \in Request /\ serving /\ req.new \in Secrets
        /\ req' = None /\ UNCHANGED <<serving, psk, blind>>
    BY DEF BeginRotation, AuthInv, AuthTypeOK, RequestServed, Request, State
  <1>2. ~blind => req.new \in held /\ req.new # authority.active
                  /\ (req.new = authority.pending => req.new \in disowned)
    BY <1>1 DEF AuthInv, ProposalIsFresh
  <1>3. /\ held' \in {held, held \ {req.new}} /\ disowned' \in {disowned, disowned \cup {req.new}}
        /\ authority' \in {authority, Proposed}
    BY DEF BeginRotation, Saved, Unwritten, Unconfirmed
  <1>4. /\ Proposed \in State /\ Proposed.active = authority.active /\ Proposed.pending = req.new
    BY <1>1 DEF Proposed, State
  <1>5. AuthTypeOK' /\ RequestServed'
    BY <1>1, <1>3, <1>4 DEF AuthInv, AuthTypeOK, RequestServed
  <1>6. ProposalIsFresh'
    BY <1>1 DEF ProposalIsFresh
  <1>7. ASSUME ~blind PROVE KeepsBoth'
    <2>1. /\ authority.active \in held /\ authority.pending # authority.active
          /\ authority.pending # None => authority.pending \in held \cup disowned
      BY <1>1, <1>7 DEF AuthInv, KeepsBoth
    <2>2. CASE Saved(Proposed) /\ UNCHANGED <<held, disowned>>
      BY <1>1, <1>2, <1>4, <1>7, <2>1, <2>2 DEF Saved, KeepsBoth
    <2>3. CASE UNCHANGED <<authority, disowned>> /\ held' = held \ {req.new}
      BY <1>1, <1>2, <1>7, <2>1, <2>3 DEF KeepsBoth
    <2>4. CASE /\ authority' = Proposed /\ held' = held \ {req.new}
               /\ disowned' = disowned \cup {req.new}
      BY <1>1, <1>2, <1>4, <1>7, <2>1, <2>4 DEF KeepsBoth
    <2> QED
      BY <2>2, <2>3, <2>4 DEF BeginRotation, Unwritten, Unconfirmed
  <1> QED
    BY <1>1, <1>5, <1>6, <1>7 DEF AuthInv

(* A credential that is put in force is one the client keeps, unless       *)
(* blindly: a request under it shows that the client keeps it.             *)
LEMMA PutInForce ==
  ASSUME AuthInv, authority # None, authority.pending # None, req # None, req.verified,
         PutsInForce, held' \in {held, held \ {authority.active}}
  PROVE  blind' \/ authority.pending \in held'
  <1> SUFFICES ASSUME ~blind, ~(authority.pending \in disowned /\ req.key # authority.pending)
               PROVE  authority.pending \in held'
    BY Zenon DEF PutsInForce
  <1>1. authority.pending \in held /\ authority.pending # authority.active
    BY DEF AuthInv, KeepsBoth, ProposalIsFresh
  <1> QED
    BY <1>1

(* The state after a promotion, answered or not.                           *)
LEMMA PromotedInv ==
  ASSUME AuthInv, authority # None, authority.pending # None, req # None, req.verified,
         PutsInForce, held' \in {held, held \ {authority.active}}, authority' = Promoted,
         req' = None, serving' \in BOOLEAN, UNCHANGED psk
  PROVE  AuthInv'
  <1> USE AuthAssumption
  <1>1. /\ authority' \in State /\ authority'.active = authority.pending /\ authority'.pending = None
        /\ authority.pending \in Secrets
    BY DEF AuthInv, AuthTypeOK, Promoted, State
  <1>2. blind' \in BOOLEAN
    BY DEF PutsInForce
  <1>3. AuthTypeOK' /\ RequestServed'
    BY <1>1, <1>2 DEF AuthInv, AuthTypeOK, RequestServed
  <1>4. blind' \/ authority.pending \in held'
    BY PutInForce
  <1>5. blind' \/ (KeepsBoth /\ ProposalIsFresh)'
    BY <1>1, <1>4, Zenon DEF KeepsBoth, ProposalIsFresh
  <1> QED
    BY <1>3, <1>5 DEF AuthInv

(* Whichever end the save of a promotion has.                              *)
LEMMA PromotionStep ==
  ASSUME AuthInv, PromotePending
  PROVE  AuthInv'
  <1> USE AuthAssumption
  <1>1. /\ authority \in State /\ authority # None /\ serving' \in BOOLEAN
        /\ req # None /\ req.verified /\ req' = None /\ UNCHANGED <<serving, psk, disowned>>
    BY DEF PromotePending, AuthInv, AuthTypeOK, RequestServed
  <1>2. CASE /\ authority.pending # None /\ authority' = Promoted /\ PutsInForce
             /\ held' \in {held, held \ {authority.active}}
    BY <1>1, <1>2, PromotedInv, Zenon
  <1>3. CASE UNCHANGED <<authority, held, blind>>
    BY <1>1, <1>3, Zenon DEF AuthInv, AuthTypeOK, RequestServed, KeepsBoth, ProposalIsFresh
  <1> QED
    BY <1>2, <1>3 DEF PromotePending, Saved, Unwritten, Unconfirmed

(* A request whose answer is lost leaves the client with everything.       *)
LEMMA StopAuthStep ==
  ASSUME AuthInv, Stop
  PROVE  AuthInv'
  <1> USE AuthAssumption
  <1>1. /\ authority \in State /\ authority # None /\ serving' = FALSE /\ req' = None
        /\ UNCHANGED <<psk, held, disowned>>
    BY DEF Stop, AuthInv, AuthTypeOK, RequestServed
  <1>2. CASE UNCHANGED <<authority, blind>>
    BY <1>1, <1>2, Zenon DEF AuthInv, AuthTypeOK, RequestServed, KeepsBoth, ProposalIsFresh
  <1>3. CASE req # None /\ req.op = "rotate" /\ authority' = Proposed /\ UNCHANGED blind
    <2>1. req.new \in Secrets /\ (~blind => req.new \in held /\ req.new # authority.active)
      BY <1>3 DEF AuthInv, AuthTypeOK, RequestServed, ProposalIsFresh, Request
    <2>2. authority' \in State /\ authority'.active = authority.active /\ authority'.pending = req.new
      BY <1>1, <1>3, <2>1 DEF Proposed, State
    <2> QED
      BY <1>1, <1>3, <2>1, <2>2, Zenon DEF AuthInv, AuthTypeOK, RequestServed, KeepsBoth, ProposalIsFresh
  <1>4. CASE req # None /\ req.verified /\ authority.pending # None /\ authority' = Promoted /\ PutsInForce
    BY <1>1, <1>4, PromotedInv, Zenon
  <1> QED
    BY <1>2, <1>3, <1>4 DEF Stop

(* Initialize, whether or not its save succeeds, puts the environment's    *)
(* credential in force or finds the state there.                           *)
LEMMA InitializeStep ==
  ASSUME AuthInv, Initialize
  PROVE  AuthInv'
  <1> USE AuthAssumption
  <1>1. /\ req = None /\ req' = None /\ serving' \in BOOLEAN
        /\ UNCHANGED <<psk, held, disowned, blind>>
    BY Zenon DEF Initialize, history, AuthInv, AuthTypeOK, RequestServed
  <1>2. \/ authority' = authority /\ (serving' => authority # None)
        \/ authority = None /\ authority' = First
    BY Zenon DEF Initialize, Saved, Failed, Unwritten, Unconfirmed, AuthInv, RequestServed
  <1>3. First \in State /\ First.active = psk /\ First.pending = None
    BY DEF First, State, AuthInv, AuthTypeOK
  <1>4. AuthTypeOK' /\ RequestServed'
    BY <1>1, <1>2, <1>3 DEF AuthInv, AuthTypeOK, RequestServed
  <1>5. KeepsBoth => KeepsBoth'
    BY <1>1, <1>2, <1>3 DEF KeepsBoth, AuthInv, AuthTypeOK
  <1>6. ProposalIsFresh'
    BY <1>1, Zenon DEF ProposalIsFresh
  <1> QED
    BY <1>1, <1>4, <1>5, <1>6 DEF AuthInv

(* The client's own step: what it proposes is in the file only if it was   *)
(* told to forget it.                                                      *)
LEMMA SendStep ==
  ASSUME AuthInv, NEW o \in Ops, NEW key \in Secrets, NEW new \in Secrets \cup {None}, Send(o, key, new)
  PROVE  AuthInv'
  <1> USE AuthAssumption
  <1>1. /\ serving /\ key \in held /\ UNCHANGED <<authority, serving, psk, disowned, blind>>
        /\ req' = [op |-> o, key |-> key, new |-> new, verified |-> FALSE]
        /\ held' = held \cup ({new} \ {None}) /\ authority \in State /\ held' \subseteq Secrets
    BY DEF Send, history, AuthInv, AuthTypeOK, RequestServed
  <1>2. /\ req' \in Request /\ req'.op = o /\ req'.key = key /\ req'.new = new /\ req'.verified = FALSE
    BY <1>1, Zenon DEF Request
  <1>3. new \notin held /\ (o = "rotate" => new # None) /\ (o = "promote" => new = None)
    BY Zenon DEF Send, AuthInv, AuthTypeOK
  <1>4. AuthTypeOK' /\ RequestServed'
    BY <1>1, <1>2, <1>3, Zenon DEF AuthInv, AuthTypeOK, RequestServed
  <1>5. KeepsBoth => (KeepsBoth /\ ProposalIsFresh)'
    BY <1>1, <1>2, <1>3 DEF KeepsBoth, ProposalIsFresh
  <1> QED
    BY <1>1, <1>4, <1>5 DEF AuthInv

(* withAuth: a request that is not let in makes the client drop only what  *)
(* it proposed in it.                                                      *)
LEMMA VerifyStep ==
  ASSUME AuthInv, VerifyBearer
  PROVE  AuthInv'
  <1> USE AuthAssumption
  <1>1. /\ authority \in State /\ req \in Request /\ req # None /\ serving
        /\ UNCHANGED <<authority, serving, psk, disowned, blind>>
    BY DEF VerifyBearer, history, AuthInv, AuthTypeOK, RequestServed
  <1>2. CASE /\ req.key \in {authority.active, authority.pending}
             /\ req' = [req EXCEPT !.verified = TRUE] /\ UNCHANGED held
    <2>1. /\ req' \in Request /\ req'.new = req.new /\ req'.op = req.op /\ req'.key = req.key
      BY <1>1, <1>2, Zenon DEF Request
    <2> QED
      BY <1>1, <1>2, <2>1 DEF AuthInv, AuthTypeOK, RequestServed, KeepsBoth, ProposalIsFresh
  <1>3. CASE req' = None /\ held' = held \ {req.new}
    <2>1. AuthTypeOK' /\ RequestServed' /\ ProposalIsFresh'
      BY <1>1, <1>3 DEF AuthInv, AuthTypeOK, RequestServed, ProposalIsFresh
    <2>2. KeepsBoth /\ ProposalIsFresh => KeepsBoth'
      BY <1>1, <1>3 DEF KeepsBoth, ProposalIsFresh
    <2> QED
      BY <1>1, <2>1, <2>2, Zenon DEF AuthInv
  <1> QED
    BY <1>2, <1>3 DEF VerifyBearer

(* No step takes the credential in force away from the client, but for the *)
(* blind promotion.                                                        *)
LEMMA AuthStepInv == AuthInv /\ [AuthNext]_authVars => AuthInv'
  <1> SUFFICES ASSUME AuthInv, [AuthNext]_authVars PROVE AuthInv'
    OBVIOUS
  <1> USE AuthAssumption
  <1>1. CASE Configure
    BY <1>1, Zenon DEF Configure, history, AuthInv, AuthTypeOK, RequestServed, KeepsBoth, ProposalIsFresh
  <1>2. CASE Settle
    BY <1>2, Zenon DEF Settle, history, AuthInv, AuthTypeOK, RequestServed, KeepsBoth, ProposalIsFresh
  <1>3. CASE UNCHANGED authVars
    BY <1>3 DEF authVars, AuthInv, AuthTypeOK, RequestServed, KeepsBoth, ProposalIsFresh
  <1> QED
    BY <1>1, <1>2, <1>3, InitializeStep, SendStep, VerifyStep, RotationStep, PromotionStep, StopAuthStep, Zenon
    DEF AuthNext

(* For all credentials, restarts, ends of a save and lost answers, the     *)
(* credential in force is one the client keeps, unless a proposal that was *)
(* written and yet answered as rejected has been promoted by a request     *)
(* under the old credential.  No fault of WriteAtomic is left out.         *)
THEOREM ClientKeepsCredential == AuthSpec => []NeverLockedOut
  <1>1. AuthInv => NeverLockedOut
    BY DEF AuthInv, KeepsBoth, NeverLockedOut
  <1> QED
    BY <1>1, AuthInitInv, AuthStepInv, PTL DEF AuthSpec

-----------------------------------------------------------------------------
(* What durable.Root promises of a name, for any number of processes,      *)
(* files and payloads.  The argument: a file has its payload on disk       *)
(* before it gets the name, and it gets the name at most once, so that a   *)
(* file that has lost the name never has it again and whoever finds the    *)
(* name where they left it knows that nobody else has been there.          *)

Kinds == {"none", "read", "write", "remove"}
Places == {"idle", "stat", "before", "open", "final", "sync", "rename", "fsync", "confirm",
           "move", "compare", "unlink", "fsync again"}
Op == [kind : Kinds, at : Places, text : Texts \cup {Torn}, value : Identity \cup {Nowhere},
       held : Identity \cup {Nowhere}]

(* Whose step it is.                                                       *)
Fits(kind, at) ==
    /\ at = "fsync" => kind \in {"write", "remove"}
    /\ at \in {"unlink", "fsync again"} => kind = "remove"

RootTypeOK ==
    /\ entry \in Identity \cup {Nowhere} /\ text \in [Identity -> Texts \cup {Torn}]
    /\ created \in 0 .. MaxWritten /\ op \in [Holders -> Op]
    /\ \A p \in Holders : Fits(op[p].kind, op[p].at) /\ (op[p].kind # "none" => op[p].text \in Texts)

(* Processes whose file has no name yet, those whose file exists, and      *)
(* those that are about to remove one.                                     *)
Unnamed(p) == op[p].kind = "write" /\ op[p].at \in {"sync", "rename"}
HasFile(p) == op[p].kind = "write" /\ op[p].at \in {"sync", "rename", "fsync", "confirm"}
Removes(p) == op[p].kind = "remove" /\ op[p].at # "stat"

(* What may be named is on disk, whole.                                    *)
OnDisk ==
    /\ entry \in possible /\ possible \subseteq flushed \cup {Nowhere}
    /\ \A i \in flushed : i \in 1 .. created /\ text[i] \in Texts

Writing ==
    \A p \in Holders : HasFile(p) =>
        /\ op[p].value \in 1 .. created /\ text[op[p].value] = op[p].text
        /\ op[p].at # "sync" => op[p].value \in flushed
        /\ op[p].at = "confirm" /\ entry = op[p].value => possible = {entry}

(* A file that has no name yet is nobody else's.                           *)
FreshOK(p) ==
    /\ op[p].value \notin possible
    /\ \A r \in removed : r.file # op[p].value
    /\ \A q \in Holders : q # p /\ HasFile(q) => op[q].value # op[p].value
    /\ \A q \in Holders : Removes(q) => op[q].value # op[p].value

Fresh == \A p \in Holders : Unnamed(p) => FreshOK(p)

RemovesOK(p) ==
    /\ op[p].value \in flushed
    /\ op[p].at \in {"open", "final"} /\ op[p].held # op[p].value => entry # op[p].value
    /\ op[p].at = "move" /\ entry = op[p].value => text[op[p].value] = op[p].text
    /\ op[p].at = "compare" /\ op[p].held = op[p].value =>
          entry # op[p].value /\ text[op[p].value] = op[p].text
    /\ op[p].at \in {"fsync", "unlink", "fsync again"} =>
          entry # op[p].value /\ text[op[p].value] = op[p].text
    /\ op[p].at \in {"unlink", "fsync again"} => op[p].value \notin possible

Removing == \A p \in Holders : Removes(p) => RemovesOK(p)

Promises ==
    /\ landed # Torn => possible = {entry} /\ entry # Nowhere /\ text[entry] = landed
    /\ \A r \in removed : r.file \in flushed /\ r.file \notin possible /\ text[r.file] = r.text

IInv == RootTypeOK /\ OnDisk /\ Writing /\ Fresh /\ Removing /\ Promises

-----------------------------------------------------------------------------
LEMMA InitHolds == RootInit => IInv
  <1> SUFFICES ASSUME RootInit PROVE IInv
    OBVIOUS
  <1>1. \A p \in Holders : op[p].kind = "none" /\ op[p].at = "idle"
    BY DEF RootInit, NoOp
  <1>2. NoOp \in Op
    BY DEF NoOp, Op, Kinds, Places, Nowhere
  <1>3. RootTypeOK
    <2>1. \A p \in Holders : Fits(op[p].kind, op[p].at)
      BY <1>1, Zenon DEF Fits
    <2>2. op \in [Holders -> Op] /\ text \in [Identity -> Texts \cup {Torn}]
      BY <1>2 DEF RootInit
    <2>3. created \in 0 .. MaxWritten /\ entry = Nowhere
      BY RootAssumption DEF RootInit
    <2> QED BY <1>1, <2>1, <2>2, <2>3 DEF RootTypeOK
  <1>4. Writing /\ Fresh /\ Removing
    BY <1>1, Zenon DEF Writing, Fresh, Removing, HasFile, Unnamed, Removes
  <1>5. OnDisk /\ Promises
    BY DEF RootInit, OnDisk, Promises
  <1> QED BY <1>3, <1>4, <1>5 DEF IInv

(* A removal goes on as it was while its file's contents stay and the file *)
(* does not get the name.                                                  *)
LEMMA RemovesKept ==
    ASSUME NEW q \in Holders, RemovesOK(q), op'[q] = op[q], op[q].value \in flushed',
           text'[op[q].value] = text[op[q].value],
           entry' = op[q].value => entry = op[q].value,
           op[q].value \in possible' => op[q].value \in possible
    PROVE  RemovesOK(q)'
  BY Zenon DEF RemovesOK

(* What there is to show of an unnamed file.                               *)
LEMMA FreshAfter ==
    ASSUME NEW q \in Holders, NEW v, op'[q].value = v, v \notin possible',
           \A r \in removed' : r.file # v,
           \A h \in Holders : h # q /\ HasFile(h)' => op'[h].value # v,
           \A h \in Holders : Removes(h)' => op'[h].value # v
    PROVE  FreshOK(q)'
  BY DEF FreshOK

(* A step is of process p, and leaves it in a call.                        *)
Moves(p) ==
    /\ op' \in [Holders -> Op] /\ \A q \in Holders : q # p => op'[q] = op[q]
    /\ Fits(op'[p].kind, op'[p].at) /\ (op'[p].kind # "none" => op'[p].text \in Texts)

LEMMA GotoFields ==
    ASSUME IInv, NEW p \in Holders, NEW at \in Places, Fits(op[p].kind, at), Goto(p, at)
    PROVE  /\ Moves(p) /\ op'[p].kind = op[p].kind /\ op'[p].text = op[p].text
           /\ op'[p].at = at /\ op'[p].value = op[p].value /\ op'[p].held = op[p].held
  BY DEF IInv, RootTypeOK, Op, Goto, Moves

Chooses(p, at, i) == op' = [op EXCEPT ![p].at = at, ![p].value = i]

LEMMA ChoiceFields ==
    ASSUME IInv, NEW p \in Holders, NEW at \in Places, Fits(op[p].kind, at), NEW i \in Identity \cup {Nowhere},
           Chooses(p, at, i)
    PROVE  /\ Moves(p) /\ op'[p].kind = op[p].kind /\ op'[p].text = op[p].text
           /\ op'[p].at = at /\ op'[p].value = i
  <1>1. op \in [Holders -> Op] /\ (op[p].kind # "none" => op[p].text \in Texts)
    BY DEF IInv, RootTypeOK
  <1>2. /\ op'[p].kind = op[p].kind /\ op'[p].text = op[p].text
        /\ op'[p].at = at /\ op'[p].value = i
    BY <1>1 DEF Op, Chooses
  <1>3. op' \in [Holders -> Op]
    <2> DEFINE o == [op[p] EXCEPT !.at = at, !.value = i]
    <2>1. op[p] \in Op
      BY <1>1
    <2>2. o \in Op
      BY <2>1, Zenon DEF Op
    <2>3. op' = [op EXCEPT ![p] = o]
      BY Zenon DEF Chooses
    <2> HIDE DEF o
    <2> QED BY <1>1, <2>2, <2>3
  <1>4. \A q \in Holders : q # p => op'[q] = op[q]
    BY <1>1 DEF Chooses
  <1> QED BY <1>1, <1>2, <1>3, <1>4 DEF Moves

LEMMA ReturnFields ==
    ASSUME IInv, NEW p \in Holders, Return(p)
    PROVE  Moves(p) /\ ~Unnamed(p)' /\ ~HasFile(p)' /\ ~Removes(p)'
  <1>1. NoOp \in Op
    BY Zenon DEF NoOp, Op, Kinds, Places, Nowhere
  <1> QED BY <1>1, Zenon DEF IInv, RootTypeOK, Return, NoOp, Unnamed, HasFile, Removes, Moves, Fits

(* A step of one process that leaves the directory, the files and what was *)
(* promised alone, and does not give it a file.                            *)
LEMMA OnlyOp ==
    ASSUME IInv, NEW p \in Holders, Moves(p),
           UNCHANGED <<directory, contents, promised>>, ~HasFile(p)',
           Removes(p)' => RemovesOK(p)',
           Removes(p)' => \A q \in Holders : Unnamed(q) => op[q].value # op'[p].value
    PROVE  IInv'
  <1>1. RootTypeOK'
    BY Zenon DEF IInv, RootTypeOK, directory, contents, Moves
  <1>2. \A q \in Holders : q # p => op'[q] = op[q]
    BY Zenon DEF Moves
  <1>3. OnDisk' /\ Promises'
    BY Zenon DEF IInv, OnDisk, Promises, directory, contents, promised
  <1>4. Writing'
    BY <1>2 DEF IInv, Writing, HasFile, directory, contents
  <1>5. Fresh'
    <2> SUFFICES ASSUME NEW q \in Holders, Unnamed(q)' PROVE FreshOK(q)'
      BY Zenon DEF Fresh
    <2>1. q # p /\ op'[q] = op[q] /\ Unnamed(q)
      BY <1>2, Zenon DEF Unnamed, HasFile
    <2>2. FreshOK(q)
      BY <2>1, Zenon DEF IInv, Fresh
    <2>3. \A h \in Holders : HasFile(h)' => HasFile(h) /\ op'[h] = op[h]
      BY <1>2, Zenon DEF HasFile
    <2>4. \A h \in Holders : Removes(h)' => op'[h].value # op[q].value
      BY <1>2, <2>1, <2>2, Zenon DEF Removes, FreshOK
    <2> QED BY <2>1, <2>2, <2>3, <2>4, Zenon DEF FreshOK, directory, promised
  <1>6. Removing'
    <2> SUFFICES ASSUME NEW q \in Holders, q # p, Removes(q)' PROVE RemovesOK(q)'
      BY Zenon DEF Removing
    <2>1. op'[q] = op[q] /\ Removes(q)
      BY <1>2 DEF Removes
    <2>2. RemovesOK(q) /\ op[q].value \in flushed
      BY <2>1, Zenon DEF IInv, Removing, RemovesOK
    <2>3. entry' = entry /\ possible' = possible /\ text' = text /\ flushed' = flushed
      BY Zenon DEF directory, contents
    <2> QED BY <2>1, <2>2, <2>3, RemovesKept, Zenon
  <1> QED BY <1>1, <1>3, <1>4, <1>5, <1>6, Zenon DEF IInv

LEMMA BeginFailKeeps ==
    ASSUME IInv, NEW p \in Holders,
           \/ Fail(p)
           \/ \E kind \in {"read", "write", "remove"}, t \in Texts : BeginOp(p, kind, t)
    PROVE  IInv'
  <1>1. CASE Fail(p)
    BY <1>1, ReturnFields, OnlyOp DEF Fail
  <1>2. ASSUME NEW kind \in {"read", "write", "remove"}, NEW t \in Texts, BeginOp(p, kind, t)
        PROVE  IInv'
    <2> DEFINE o == [NoOp EXCEPT !.kind = kind, !.text = t, !.at = IF kind = "read" THEN "before" ELSE "stat"]
    <2>1. op' = [op EXCEPT ![p] = o] /\ UNCHANGED <<directory, contents, promised>>
      BY <1>2, Zenon DEF BeginOp
    <2>2. o \in Op /\ o.kind = kind /\ o.text = t /\ o.at = (IF kind = "read" THEN "before" ELSE "stat")
      BY Zenon DEF NoOp, Op, Kinds, Places, Nowhere
    <2> HIDE DEF o
    <2>3. op'[p] = o /\ Moves(p)
      BY <2>1, <2>2, Zenon DEF IInv, RootTypeOK, Moves, Fits
    <2>4. ~HasFile(p)' /\ ~Removes(p)'
      BY <2>2, <2>3 DEF HasFile, Removes
    <2> QED BY <2>1, <2>3, <2>4, OnlyOp
  <1> QED BY <1>1, <1>2, Zenon

(* What a removal needs to go on with the file it had.                     *)
LEMMA RemovalGoesOn ==
    ASSUME IInv, NEW p \in Holders, Moves(p), UNCHANGED <<directory, contents, promised>>,
           op'[p].kind = op[p].kind, op'[p].value = op[p].value, op'[p].text = op[p].text,
           ~HasFile(p), op[p].at # "stat", op'[p].at \notin {"stat", "sync", "rename", "confirm"},
           op'[p].at = "fsync" => op[p].kind = "remove",
           Removes(p) => RemovesOK(p)'
    PROVE  IInv'
  <1>1. ~HasFile(p)'
    BY Zenon DEF HasFile
  <1>2. Removes(p)' => Removes(p)
    BY DEF Removes
  <1>3. Removes(p)' => \A q \in Holders : Unnamed(q) => op[q].value # op'[p].value
    BY <1>2, Zenon DEF IInv, Fresh, FreshOK
  <1> QED BY <1>1, <1>2, <1>3, OnlyOp, Zenon

LEMMA ReadingKeeps ==
    ASSUME IInv, NEW p \in Holders, Before(p) \/ OpenEntry(p) \/ Final(p)
    PROVE  IInv'
  <1>1. CASE Before(p)
    <2>1. /\ Moves(p) /\ op'[p].kind = op[p].kind /\ op'[p].text = op[p].text
          /\ op'[p].at = "open" /\ op'[p].value = op[p].value /\ op'[p].held = entry
      BY <1>1, Zenon DEF IInv, RootTypeOK, Op, Before, Places, Moves, Fits
    <2>2. UNCHANGED <<directory, contents, promised>> /\ op[p].at = "before" /\ ~HasFile(p)
      BY <1>1 DEF Before, HasFile
    <2>3. Removes(p) => op[p].value \in flushed
      BY Zenon DEF IInv, Removing, RemovesOK
    <2>4. Removes(p) => RemovesOK(p)'
      BY <2>1, <2>2, <2>3, Zenon DEF RemovesOK, directory, contents
    <2> QED BY <2>1, <2>2, <2>4, RemovalGoesOn
  <1>2. CASE OpenEntry(p)
    <2>1. Goto(p, "final") /\ UNCHANGED <<directory, contents, promised>> /\ op[p].at = "open" /\ ~HasFile(p)
      BY <1>2, Zenon DEF OpenEntry, HasFile
    <2>2. /\ Moves(p) /\ op'[p].kind = op[p].kind /\ op'[p].text = op[p].text
          /\ op'[p].at = "final" /\ op'[p].value = op[p].value /\ op'[p].held = op[p].held
      BY <2>1, GotoFields, Zenon DEF Places, Fits
    <2>3. Removes(p) => op[p].value \in flushed /\ (op[p].held # op[p].value => entry # op[p].value)
      BY <2>1, Zenon DEF IInv, Removing, RemovesOK
    <2>4. Removes(p) => RemovesOK(p)'
      BY <2>1, <2>2, <2>3, Zenon DEF RemovesOK, directory, contents
    <2> QED BY <2>1, <2>2, <2>4, RemovalGoesOn, Zenon
  <1>3. CASE Final(p)
    <2>1. UNCHANGED <<directory, contents, promised>> /\ op[p].at = "final" /\ ~HasFile(p) /\ entry = op[p].held
      BY <1>3 DEF Final, HasFile
    <2>2. CASE op[p].kind = "read"
      BY <1>3, <2>1, <2>2, ReturnFields, OnlyOp, Zenon DEF Final
    <2>3. CASE op[p].kind # "read"
      <3>1. Goto(p, "move") /\ text[op[p].held] = op[p].text
        BY <1>3, <2>3, Zenon DEF Final
      <3>2. /\ Moves(p) /\ op'[p].kind = op[p].kind /\ op'[p].text = op[p].text
            /\ op'[p].at = "move" /\ op'[p].value = op[p].value
        BY <3>1, GotoFields, Zenon DEF Places, Fits
      <3>3. Removes(p) => op[p].value \in flushed
        BY Zenon DEF IInv, Removing, RemovesOK
      <3>4. Removes(p) => RemovesOK(p)'
        BY <2>1, <3>1, <3>2, <3>3, Zenon DEF RemovesOK, directory, contents
      <3> QED BY <2>1, <3>2, <3>4, RemovalGoesOn, Zenon
    <2> QED BY <2>2, <2>3, Zenon
  <1> QED BY <1>1, <1>2, <1>3, Zenon

LEMMA DecidingKeeps ==
    ASSUME IInv, NEW p \in Holders, Stat(p) \/ Compare(p) \/ Unlink(p)
    PROVE  IInv'
  <1>1. CASE Stat(p)
    <2>1. UNCHANGED <<directory, contents, promised>> /\ op[p].kind = "remove"
      BY <1>1 DEF Stat, At
    <2>2. CASE entry = Nowhere
      BY <1>1, <2>1, <2>2, ReturnFields, OnlyOp DEF Stat
    <2>3. CASE entry # Nowhere
      <3>1. /\ Moves(p) /\ op'[p].kind = "remove" /\ op'[p].at = "before" /\ op'[p].value = entry
        <4>1. Chooses(p, "before", entry)
          BY <1>1, <2>3 DEF Stat, Chooses
        <4>2. entry \in Identity \cup {Nowhere}
          BY Zenon DEF IInv, RootTypeOK
        <4>3. "before" \in Places /\ Fits(op[p].kind, "before")
          BY DEF Places, Fits
        <4> QED BY <4>1, <4>2, <4>3, <2>1, ChoiceFields, Zenon
      <3>2. entry \in flushed /\ entry \in possible
        BY <2>3 DEF IInv, OnDisk
      <3>3. \A q \in Holders : Unnamed(q) => op[q].value # entry
        BY <3>2, Zenon DEF IInv, Fresh, FreshOK
      <3>4. RemovesOK(p)'
        BY <2>1, <3>1, <3>2, Zenon DEF RemovesOK, contents
      <3>5. ~HasFile(p)'
        BY <3>1, Zenon DEF HasFile
      <3> QED BY <2>1, <3>1, <3>3, <3>4, <3>5, OnlyOp, Zenon
    <2> QED BY <2>2, <2>3
  <1>2. CASE Compare(p)
    <2>1. UNCHANGED <<directory, contents, promised>> /\ op[p].kind = "remove" /\ op[p].at = "compare" /\ ~HasFile(p)
      BY <1>2, Zenon DEF Compare, At, HasFile
    <2>2. CASE op[p].held = op[p].value
      <3>1. /\ Moves(p) /\ op'[p].kind = op[p].kind /\ op'[p].text = op[p].text
            /\ op'[p].at = "fsync" /\ op'[p].value = op[p].value
        BY <1>2, <2>1, <2>2, GotoFields, Zenon DEF Compare, Places, Fits
      <3>2. op[p].value \in flushed /\ entry # op[p].value /\ text[op[p].value] = op[p].text
        BY <2>1, <2>2, Zenon DEF IInv, Removing, Removes, RemovesOK
      <3>3. RemovesOK(p)'
        BY <2>1, <3>1, <3>2, Zenon DEF RemovesOK, directory, contents
      <3> QED BY <2>1, <3>1, <3>3, RemovalGoesOn, Zenon
    <2>3. CASE op[p].held # op[p].value
      BY <1>2, <2>1, <2>3, ReturnFields, OnlyOp, Zenon DEF Compare
    <2> QED BY <2>2, <2>3, Zenon
  <1>3. CASE Unlink(p)
    <2>1. /\ UNCHANGED <<directory, contents, promised>> /\ op[p].kind = "remove" /\ op[p].at = "unlink"
          /\ ~HasFile(p) /\ Goto(p, "fsync again")
      BY <1>3, Zenon DEF Unlink, At, HasFile
    <2>2. /\ Moves(p) /\ op'[p].kind = op[p].kind /\ op'[p].text = op[p].text
          /\ op'[p].at = "fsync again" /\ op'[p].value = op[p].value
      BY <2>1, GotoFields, Zenon DEF Places, Fits
    <2>3. /\ op[p].value \in flushed /\ entry # op[p].value /\ text[op[p].value] = op[p].text
          /\ op[p].value \notin possible
      BY <2>1, Zenon DEF IInv, Removing, Removes, RemovesOK
    <2>4. RemovesOK(p)'
      BY <2>1, <2>2, <2>3, Zenon DEF RemovesOK, directory, contents
    <2> QED BY <2>1, <2>2, <2>4, RemovalGoesOn, Zenon
  <1> QED BY <1>1, <1>2, <1>3

-----------------------------------------------------------------------------
(* A new file is numbered above all that exist.                            *)
LEMMA CreateKeeps ==
    ASSUME IInv, NEW p \in Holders, Create(p)
    PROVE  IInv'
  <1> DEFINE new == created + 1
  <1>1. /\ op[p].kind = "write" /\ op[p].at = "stat" /\ created < MaxWritten /\ created' = new
        /\ text' = [text EXCEPT ![new] = op[p].text]
        /\ entry' = entry /\ possible' = possible /\ flushed' = flushed
        /\ landed' = landed /\ removed' = removed
    BY DEF Create, At, directory, promised
  <1>2. new \in Identity /\ created \in Nat /\ new # Nowhere
    <2>1. created \in 0 .. MaxWritten /\ created < MaxWritten
      BY <1>1, Zenon DEF IInv, RootTypeOK
    <2>2. created \in Nat /\ created + 1 \in 1 .. MaxWritten /\ created + 1 # 0
      BY <2>1, RootAssumption
    <2> QED BY <2>2, Zenon DEF Identity, Nowhere
  <1>3. /\ Moves(p) /\ op'[p].kind = "write" /\ op'[p].at = "sync" /\ op'[p].value = new
        /\ op'[p].text = op[p].text
    <2>1. "sync" \in Places /\ Fits(op[p].kind, "sync") /\ new \in Identity \cup {Nowhere}
      BY <1>2 DEF Places, Fits
    <2>2. Chooses(p, "sync", new)
      BY Zenon DEF Create, Chooses
    <2> HIDE DEF new
    <2> QED BY <1>1, <2>1, <2>2, ChoiceFields, Zenon
  <1>4. \A q \in Holders : q # p => op'[q] = op[q]
    BY <1>3 DEF Moves
  <1>5. \A i \in 1 .. created : text'[i] = text[i]
    BY <1>1, <1>2 DEF IInv, RootTypeOK, Identity
  <1>6. \A i \in flushed : i \in 1 .. created /\ i # new /\ text'[i] = text[i]
    BY <1>2, <1>5 DEF IInv, OnDisk
  <1>7. \A q \in Holders : HasFile(q) => op[q].value \in 1 .. created /\ op[q].value # new
    BY <1>2 DEF IInv, Writing
  <1>8. \A q \in Holders : Removes(q) => op[q].value \in flushed
    BY Zenon DEF IInv, Removing, RemovesOK
  <1>9. ~HasFile(p) /\ ~Removes(p) /\ HasFile(p)' /\ ~Removes(p)' /\ Unnamed(p)'
    BY <1>1, <1>3, Zenon DEF HasFile, Removes, Unnamed
  <1> HIDE DEF new
  <1>a. RootTypeOK'
    <2>1. op[p].text \in Texts
      BY <1>1 DEF IInv, RootTypeOK
    <2>2. new \in 0 .. MaxWritten
      BY <1>1, <1>2 DEF Identity
    <2> QED BY <1>1, <1>2, <1>3, <1>4, <2>1, <2>2, Zenon DEF IInv, RootTypeOK, Moves
  <1>b. OnDisk'
    <2>1. \A i \in flushed : i \in 1 .. new
      BY <1>2, <1>6 DEF new
    <2> QED BY <1>1, <1>6, <2>1 DEF IInv, OnDisk
  <1>c. Writing'
    <2> SUFFICES ASSUME NEW q \in Holders, HasFile(q)'
                 PROVE  /\ op'[q].value \in 1 .. new /\ text'[op'[q].value] = op'[q].text
                        /\ op'[q].at # "sync" => op'[q].value \in flushed
                        /\ op'[q].at = "confirm" /\ entry = op'[q].value => possible = {entry}
      BY <1>1, Zenon DEF Writing
    <2>1. CASE q = p
      <3>1. text'[new] = op[p].text /\ new \in 1 .. new
        BY <1>1, <1>2 DEF IInv, RootTypeOK, Identity
      <3> QED BY <1>3, <2>1, <3>1, Zenon
    <2>2. CASE q # p
      <3>1. op'[q] = op[q] /\ HasFile(q)
        BY <1>4, <2>2 DEF HasFile
      <3>2. 1 .. created \subseteq 1 .. new
        BY <1>2 DEF new
      <3> QED BY <1>5, <1>7, <3>1, <3>2, Zenon DEF IInv, Writing
    <2> QED BY <2>1, <2>2
  <1>d. Fresh'
    <2> SUFFICES ASSUME NEW q \in Holders, Unnamed(q)' PROVE FreshOK(q)'
      BY DEF Fresh
    <2>1. CASE q = p
      <3>1. new \notin possible /\ \A r \in removed : r.file # new
        BY <1>2, <1>6, Zenon DEF IInv, OnDisk, Promises
      <3>2. \A h \in Holders : h # p /\ HasFile(h)' => op'[h].value # new
        BY <1>4, <1>7, Zenon DEF HasFile
      <3>3. \A h \in Holders : Removes(h)' => op'[h].value # new
        BY <1>4, <1>6, <1>8, <1>9, Zenon DEF Removes
      <3>4. possible' = possible /\ removed' = removed /\ op'[p].value = new
        BY <1>1, <1>3
      <3> QED BY <2>1, <3>1, <3>2, <3>3, <3>4, FreshAfter, Zenon
    <2>2. CASE q # p
      <3>1. op'[q] = op[q] /\ Unnamed(q) /\ HasFile(q)
        BY <1>4, <2>2 DEF Unnamed, HasFile
      <3>2. FreshOK(q)
        BY <3>1, Zenon DEF IInv, Fresh
      <3>3. \A h \in Holders : h # q /\ HasFile(h)' => op'[h].value # op[q].value
        BY <1>3, <1>4, <1>7, <3>1, <3>2 DEF HasFile, FreshOK
      <3>4. \A h \in Holders : Removes(h)' => op'[h].value # op[q].value
        BY <1>4, <1>9, <3>2, Zenon DEF Removes, FreshOK
      <3>5. op[q].value \notin possible' /\ \A r \in removed' : r.file # op[q].value
        BY <1>1, <3>2, Zenon DEF FreshOK
      <3> QED BY <3>1, <3>3, <3>4, <3>5, FreshAfter, Zenon
    <2> QED BY <2>1, <2>2
  <1>e. Removing'
    <2> SUFFICES ASSUME NEW q \in Holders, Removes(q)' PROVE RemovesOK(q)'
      BY DEF Removing
    <2>1. op'[q] = op[q] /\ Removes(q)
      BY <1>4, <1>9, Zenon DEF Removes
    <2>2. RemovesOK(q)
      BY <2>1, Zenon DEF IInv, Removing
    <2> QED BY <1>1, <1>6, <1>8, <2>1, <2>2, RemovesKept, Zenon
  <1>f. Promises'
    BY <1>1, <1>6 DEF IInv, OnDisk, Promises
  <1> QED BY <1>a, <1>b, <1>c, <1>d, <1>e, <1>f DEF IInv

-----------------------------------------------------------------------------
(* A step of one process that creates no file.                             *)
LEMMA StepKeeps ==
    ASSUME IInv, NEW p \in Holders, Moves(p), text' = text, created' = created, flushed \subseteq flushed',
           entry' \in Identity \cup {Nowhere}, OnDisk', Promises',
           HasFile(p)' => /\ HasFile(p) /\ op'[p].value = op[p].value /\ op'[p].text = op[p].text
                          /\ op'[p].at # "sync" => op[p].value \in flushed',
           \A q \in Holders : HasFile(q)' /\ op'[q].at = "confirm" /\ entry' = op'[q].value => possible' = {entry'},
           Unnamed(p)' => Unnamed(p),
           \A q \in Holders : Unnamed(q)' =>
               op'[q].value \notin possible' /\ \A r \in removed' : r.file # op'[q].value,
           Removes(p)' => Removes(p) /\ op'[p].value = op[p].value /\ RemovesOK(p)',
           \A q \in Holders : q # p /\ Removes(q) =>
               /\ entry' = op[q].value => entry = op[q].value
               /\ op[q].value \in possible' => op[q].value \in possible
    PROVE  IInv'
  <1>1. \A q \in Holders : q # p => op'[q] = op[q]
    BY Zenon DEF Moves
  <1>2. \A q \in Holders : /\ HasFile(q)' => HasFile(q) /\ op'[q].value = op[q].value /\ op'[q].text = op[q].text
                           /\ Unnamed(q)' => Unnamed(q) /\ op'[q].value = op[q].value
                           /\ Removes(q)' => Removes(q) /\ op'[q].value = op[q].value
    BY <1>1, Zenon DEF HasFile, Unnamed, Removes
  <1>3. RootTypeOK'
    BY <1>1, Zenon DEF IInv, RootTypeOK, Moves
  <1>4. Writing'
    <2> SUFFICES ASSUME NEW q \in Holders, HasFile(q)'
                 PROVE  /\ op'[q].value \in 1 .. created /\ text[op'[q].value] = op'[q].text
                        /\ op'[q].at # "sync" => op'[q].value \in flushed'
      BY Zenon DEF Writing
    <2>1. HasFile(q) /\ op'[q].value = op[q].value /\ op'[q].text = op[q].text
      BY <1>2, Zenon
    <2>2. /\ op[q].value \in 1 .. created /\ text[op[q].value] = op[q].text
          /\ op[q].at # "sync" => op[q].value \in flushed
      BY <2>1, Zenon DEF IInv, Writing
    <2> QED BY <1>1, <2>1, <2>2, Zenon
  <1>5. Fresh'
    <2> SUFFICES ASSUME NEW q \in Holders, Unnamed(q)' PROVE FreshOK(q)'
      BY Zenon DEF Fresh
    <2>1. FreshOK(q) /\ op'[q].value = op[q].value
      BY <1>2, Zenon DEF IInv, Fresh
    <2>2. \A h \in Holders : h # q /\ HasFile(h)' => op'[h].value # op[q].value
      BY <1>2, <2>1, Zenon DEF FreshOK
    <2>3. \A h \in Holders : Removes(h)' => op'[h].value # op[q].value
      BY <1>2, <2>1, Zenon DEF FreshOK
    <2>4. op[q].value \notin possible' /\ \A r \in removed' : r.file # op[q].value
      BY <2>1, Zenon
    <2> QED BY <2>1, <2>2, <2>3, <2>4, FreshAfter, Zenon
  <1>6. Removing'
    <2> SUFFICES ASSUME NEW q \in Holders, q # p, Removes(q)' PROVE RemovesOK(q)'
      BY Zenon DEF Removing
    <2>1. Removes(q) /\ op'[q] = op[q]
      BY <1>1, <1>2, Zenon
    <2>2. RemovesOK(q) /\ op[q].value \in flushed
      BY <2>1, Zenon DEF IInv, Removing, RemovesOK
    <2> QED BY <2>1, <2>2, RemovesKept, Zenon
  <1> QED BY <1>3, <1>4, <1>5, <1>6, Zenon DEF IInv

LEMMA SyncKeeps ==
    ASSUME IInv, NEW p \in Holders, Sync(p)
    PROVE  IInv'
  <1> DEFINE v == op[p].value
  <1>1. /\ op[p].kind = "write" /\ op[p].at = "sync" /\ flushed' = flushed \cup {v} /\ Goto(p, "rename")
        /\ entry' = entry /\ possible' = possible /\ text' = text /\ created' = created
        /\ landed' = landed /\ removed' = removed
    BY Zenon DEF Sync, At, directory, promised
  <1>2. /\ Moves(p) /\ op'[p].kind = "write" /\ op'[p].text = op[p].text
        /\ op'[p].at = "rename" /\ op'[p].value = v
    BY <1>1, GotoFields, Zenon DEF Places, Fits
  <1>3. HasFile(p) /\ Unnamed(p) /\ ~Removes(p)'
    BY <1>1, <1>2, Zenon DEF HasFile, Unnamed, Removes
  <1>4. v \in 1 .. created /\ text[v] \in Texts
    BY <1>1, <1>3, Zenon DEF IInv, Writing, RootTypeOK
  <1>5. \A q \in Holders : q # p => op'[q] = op[q]
    BY <1>2 DEF Moves
  <1>6. OnDisk' /\ Promises' /\ entry' \in Identity \cup {Nowhere}
    BY <1>1, <1>4, Zenon DEF IInv, OnDisk, Promises, RootTypeOK
  <1>7. ASSUME NEW q \in Holders, HasFile(q)', op'[q].at = "confirm", entry' = op'[q].value
        PROVE  possible' = {entry'}
    BY <1>1, <1>2, <1>5, <1>7, Zenon DEF IInv, Writing, HasFile
  <1>8. ASSUME NEW q \in Holders, Unnamed(q)'
        PROVE  op'[q].value \notin possible' /\ \A r \in removed' : r.file # op'[q].value
    <2>1. Unnamed(q) /\ op'[q].value = op[q].value
      BY <1>2, <1>3, <1>5, <1>8, Zenon DEF Unnamed
    <2> QED BY <1>1, <2>1, Zenon DEF IInv, Fresh, FreshOK
  <1> HIDE DEF v
  <1> QED BY <1>1, <1>2, <1>3, <1>6, <1>7, <1>8, StepKeeps, Zenon DEF v

(* A file that was created is one that can be named.                       *)
LEMMA CreatedFile ==
    ASSUME IInv, NEW v \in 1 .. created
    PROVE  v \in Identity /\ v # Nowhere
  <1>1. created \in 0 .. MaxWritten
    BY Zenon DEF IInv, RootTypeOK
  <1> QED BY <1>1, RootAssumption DEF Identity, Nowhere

(* The file that gets the name is nobody else's.                           *)
LEMMA RenameKeeps ==
    ASSUME IInv, NEW p \in Holders, Rename(p)
    PROVE  IInv'
  <1> DEFINE v == op[p].value
  <1>1. /\ op[p].kind = "write" /\ op[p].at = "rename" /\ Goto(p, "fsync") /\ entry' = v
        /\ possible' = possible \cup {v} /\ landed' = Torn /\ removed' = removed
        /\ text' = text /\ created' = created /\ flushed' = flushed
    BY Zenon DEF Rename, Names, At, contents
  <1>2. /\ Moves(p) /\ op'[p].kind = "write" /\ op'[p].text = op[p].text
        /\ op'[p].at = "fsync" /\ op'[p].value = v
    BY <1>1, GotoFields, Zenon DEF Places, Fits
  <1>3. HasFile(p) /\ Unnamed(p) /\ ~Removes(p)' /\ ~Unnamed(p)'
    BY <1>1, <1>2, Zenon DEF HasFile, Unnamed, Removes
  <1>4. v \in flushed /\ v \in Identity
    <2>1. v \in flushed /\ v \in 1 .. created
      BY <1>1, <1>3, Zenon DEF IInv, Writing
    <2> QED BY <2>1, CreatedFile, Zenon
  <1>5. \A q \in Holders : q # p => op'[q] = op[q]
    BY <1>2 DEF Moves
  <1>6. FreshOK(p)
    BY <1>3 DEF IInv, Fresh
  <1>7. OnDisk'
    BY <1>1, <1>4, Zenon DEF IInv, OnDisk
  <1>8. Promises'
    BY <1>1, <1>6, Zenon DEF IInv, Promises, FreshOK
  <1>9. ASSUME NEW q \in Holders, HasFile(q)', op'[q].at = "confirm", entry' = op'[q].value
        PROVE  possible' = {entry'}
    <2>1. q # p /\ op'[q] = op[q] /\ HasFile(q)
      BY <1>2, <1>5, <1>9, Zenon DEF HasFile
    <2> QED BY <1>1, <1>6, <1>9, <2>1, Zenon DEF FreshOK
  <1>10. ASSUME NEW q \in Holders, Unnamed(q)'
         PROVE  op'[q].value \notin possible' /\ \A r \in removed' : r.file # op'[q].value
    <2>1. q # p /\ Unnamed(q) /\ op'[q].value = op[q].value
      BY <1>3, <1>5, <1>10, Zenon DEF Unnamed
    <2>2. FreshOK(q)
      BY <2>1, Zenon DEF IInv, Fresh
    <2>3. op[q].value # v
      BY <1>3, <2>1, <2>2, Zenon DEF FreshOK
    <2> QED BY <1>1, <2>1, <2>2, <2>3, Zenon DEF FreshOK
  <1>11. \A q \in Holders : Removes(q) => op[q].value # v
    BY <1>6, Zenon DEF FreshOK
  <1> HIDE DEF v
  <1> QED BY <1>1, <1>2, <1>3, <1>4, <1>7, <1>8, <1>9, <1>10, <1>11, StepKeeps, Zenon DEF v

LEMMA FsyncKeeps ==
    ASSUME IInv, NEW p \in Holders, Fsync(p)
    PROVE  IInv'
  <1> DEFINE v == op[p].value
  <1>1. /\ op[p].at \in {"fsync", "fsync again"} /\ possible' = {entry} /\ entry' = entry /\ landed' = landed
        /\ text' = text /\ created' = created /\ flushed' = flushed
    BY Zenon DEF Fsync, contents
  <1>2. entry \in possible /\ entry \in flushed \cup {Nowhere} /\ entry \in Identity \cup {Nowhere}
    BY DEF IInv, OnDisk, RootTypeOK
  <1>3. OnDisk'
    BY <1>1, <1>2, Zenon DEF IInv, OnDisk
  <1>4. Fits(op[p].kind, op[p].at)
    BY DEF IInv, RootTypeOK
  <1>5. CASE op[p].kind = "write"
    <2>1. Goto(p, "confirm") /\ removed' = removed
      BY <1>5, Zenon DEF Fsync
    <2>2. /\ Moves(p) /\ op'[p].kind = "write" /\ op'[p].text = op[p].text
          /\ op'[p].at = "confirm" /\ op'[p].value = v
      BY <1>5, <2>1, GotoFields, Zenon DEF Places, Fits
    <2>3. HasFile(p) /\ ~Removes(p)' /\ ~Unnamed(p)' /\ v \in flushed
      BY <1>1, <1>4, <1>5, <2>2, Zenon DEF HasFile, Unnamed, Removes, Fits, IInv, Writing
    <2>4. Promises'
      BY <1>1, <1>2, <2>1, Zenon DEF IInv, Promises
    <2>5. ASSUME NEW q \in Holders, Unnamed(q)'
          PROVE  op'[q].value \notin possible' /\ \A r \in removed' : r.file # op'[q].value
      <3>1. Unnamed(q) /\ op'[q].value = op[q].value
        BY <2>2, <2>3, <2>5, Zenon DEF Unnamed, Moves
      <3> QED BY <1>1, <1>2, <2>1, <3>1, Zenon DEF IInv, Fresh, FreshOK
    <2> HIDE DEF v
    <2> QED BY <1>1, <1>2, <1>3, <2>2, <2>3, <2>4, <2>5, StepKeeps, Zenon DEF v
  <1>6. CASE op[p].kind # "write" /\ op[p].at = "fsync"
    <2>1. Goto(p, "unlink") /\ removed' = removed /\ op[p].kind = "remove"
      BY <1>4, <1>6, Zenon DEF Fsync, Fits
    <2>2. /\ Moves(p) /\ op'[p].kind = "remove" /\ op'[p].text = op[p].text
          /\ op'[p].at = "unlink" /\ op'[p].value = v
      BY <2>1, GotoFields, Zenon DEF Places, Fits
    <2>3. Removes(p) /\ ~HasFile(p)' /\ ~Unnamed(p)'
      BY <1>6, <2>1, <2>2 DEF HasFile, Unnamed, Removes
    <2>4. v \in flushed /\ entry # v /\ text[v] = op[p].text
      BY <1>6, <2>3, Zenon DEF IInv, Removing, RemovesOK
    <2>5. RemovesOK(p)'
      BY <1>1, <2>2, <2>4, Zenon DEF RemovesOK
    <2>6. Promises'
      BY <1>1, <1>2, <2>1, Zenon DEF IInv, Promises
    <2>7. ASSUME NEW q \in Holders, Unnamed(q)'
          PROVE  op'[q].value \notin possible' /\ \A r \in removed' : r.file # op'[q].value
      <3>1. Unnamed(q) /\ op'[q].value = op[q].value
        BY <2>2, <2>3, <2>7, Zenon DEF Unnamed, Moves
      <3> QED BY <1>1, <1>2, <2>1, <3>1, Zenon DEF IInv, Fresh, FreshOK
    <2> HIDE DEF v
    <2> QED BY <1>1, <1>2, <1>3, <2>2, <2>3, <2>5, <2>6, <2>7, StepKeeps, Zenon DEF v
  <1>7. CASE op[p].kind # "write" /\ op[p].at # "fsync"
    <2> DEFINE gone == [file |-> v, text |-> op[p].text]
    <2>1. Return(p) /\ removed' = removed \cup {gone} /\ op[p].kind = "remove" /\ op[p].at = "fsync again"
      BY <1>1, <1>4, <1>7, Zenon DEF Fsync, Fits
    <2>2. Moves(p) /\ ~Unnamed(p)' /\ ~HasFile(p)' /\ ~Removes(p)'
      BY <2>1, ReturnFields, Zenon
    <2>3. Removes(p)
      BY <2>1, Zenon DEF Removes
    <2>4. v \in flushed /\ v \notin possible /\ text[v] = op[p].text
      BY <2>1, <2>3, Zenon DEF IInv, Removing, RemovesOK
    <2>5. gone.file = v /\ gone.text = op[p].text
      OBVIOUS
    <2> HIDE DEF gone, v
    <2>6. Promises'
      BY <1>1, <1>2, <2>1, <2>4, <2>5, Zenon DEF IInv, Promises
    <2>7. ASSUME NEW q \in Holders, Unnamed(q)'
          PROVE  op'[q].value \notin possible' /\ \A r \in removed' : r.file # op'[q].value
      <3>1. Unnamed(q) /\ op'[q].value = op[q].value
        BY <2>2, <2>7 DEF Unnamed, Moves
      <3>2. FreshOK(q) /\ op[q].value # v
        BY <2>3, <3>1, Zenon DEF IInv, Fresh, FreshOK, v
      <3> QED BY <1>1, <1>2, <2>1, <2>5, <3>1, <3>2, Zenon DEF FreshOK
    <2> QED BY <1>1, <1>2, <1>3, <2>2, <2>6, <2>7, StepKeeps, Zenon
  <1> QED BY <1>5, <1>6, <1>7

LEMMA ConfirmKeeps ==
    ASSUME IInv, NEW p \in Holders, Confirm(p)
    PROVE  IInv'
  <1>1. /\ op[p].kind = "write" /\ op[p].at = "confirm" /\ entry = op[p].value /\ landed' = op[p].text
        /\ Return(p) /\ removed' = removed /\ UNCHANGED <<entry, possible, text, created, flushed>>
    BY Zenon DEF Confirm, At, directory, contents
  <1>2. Moves(p) /\ ~Unnamed(p)' /\ ~HasFile(p)' /\ ~Removes(p)'
    BY <1>1, ReturnFields, Zenon
  <1>3. possible = {entry} /\ entry \in 1 .. created /\ text[entry] = op[p].text
    BY <1>1, Zenon DEF IInv, Writing, HasFile
  <1>4. Promises'
    BY <1>1, <1>3 DEF IInv, Promises, Nowhere
  <1>5. OnDisk' /\ entry' \in Identity \cup {Nowhere}
    BY <1>1 DEF IInv, OnDisk, RootTypeOK
  <1>6. ASSUME NEW q \in Holders, Unnamed(q)'
        PROVE  op'[q].value \notin possible' /\ \A r \in removed' : r.file # op'[q].value
    <2>1. Unnamed(q) /\ op'[q].value = op[q].value
      BY <1>2, <1>6 DEF Unnamed, Moves
    <2> QED BY <1>1, <2>1, Zenon DEF IInv, Fresh, FreshOK
  <1> QED BY <1>1, <1>2, <1>3, <1>4, <1>5, <1>6, StepKeeps, Zenon

LEMMA MoveAsideKeeps ==
    ASSUME IInv, NEW p \in Holders, MoveAside(p)
    PROVE  IInv'
  <1> DEFINE v == op[p].value
  <1>1. /\ op[p].kind = "remove" /\ op[p].at = "move" /\ entry' = Nowhere /\ possible' = possible \cup {Nowhere}
        /\ landed' = Torn /\ removed' = removed /\ text' = text /\ created' = created /\ flushed' = flushed
    BY DEF MoveAside, Names, At, contents
  <1>2. /\ Moves(p) /\ op'[p].kind = "remove" /\ op'[p].text = op[p].text
        /\ op'[p].at = "compare" /\ op'[p].value = v /\ op'[p].held = entry
    <2>1. op' = [op EXCEPT ![p].at = "compare", ![p].held = entry]
      BY DEF MoveAside
    <2> QED BY <1>1, <2>1, Zenon DEF IInv, RootTypeOK, Op, Places, Moves, Fits
  <1>3. Removes(p) /\ ~HasFile(p)' /\ ~Unnamed(p)'
    BY <1>1, <1>2, Zenon DEF HasFile, Unnamed, Removes
  <1>4. \A i \in flushed : i # Nowhere
    BY DEF IInv, OnDisk, Nowhere
  <1>5. v \in flushed /\ (entry = v => text[v] = op[p].text)
    BY <1>1, <1>3, Zenon DEF IInv, Removing, RemovesOK
  <1>6. RemovesOK(p)'
    BY <1>1, <1>2, <1>4, <1>5, Zenon DEF RemovesOK
  <1>7. OnDisk' /\ Promises'
    <2>1. OnDisk'
      BY <1>1, Zenon DEF IInv, OnDisk
    <2>2. \A r \in removed : r.file \in flushed /\ r.file # Nowhere
      BY <1>4, Zenon DEF IInv, Promises
    <2> QED BY <1>1, <2>1, <2>2, Zenon DEF IInv, Promises
  <1>8. \A q \in Holders : q # p => op'[q] = op[q]
    BY <1>2 DEF Moves
  <1>9. \A q \in Holders : HasFile(q) => op[q].value # Nowhere
    <2>1. \A q \in Holders : HasFile(q) => op[q].value \in 1 .. created
      BY Zenon DEF IInv, Writing
    <2> QED BY <2>1, CreatedFile, Zenon
  <1>10. \A q \in Holders : HasFile(q)' => op'[q].value # Nowhere
    BY <1>3, <1>8, <1>9 DEF HasFile
  <1>11. ASSUME NEW q \in Holders, Unnamed(q)'
         PROVE  op'[q].value \notin possible' /\ \A r \in removed' : r.file # op'[q].value
    <2>1. Unnamed(q) /\ op'[q].value = op[q].value /\ op[q].value # Nowhere
      BY <1>3, <1>8, <1>9, <1>11, Zenon DEF Unnamed, HasFile
    <2>2. FreshOK(q)
      BY <2>1 DEF IInv, Fresh
    <2> QED BY <1>1, <2>1, <2>2, Zenon DEF FreshOK
  <1>12. \A q \in Holders : Removes(q) => op[q].value # Nowhere
    BY <1>4, Zenon DEF IInv, Removing, RemovesOK
  <1> HIDE DEF v
  <1> QED BY <1>1, <1>2, <1>3, <1>6, <1>7, <1>10, <1>11, <1>12, StepKeeps, Zenon DEF v

(* Nobody is in a call after a power failure, and what may be named is     *)
(* whole.                                                                  *)
LEMMA PowerLostKeeps ==
    ASSUME IInv, PowerLost
    PROVE  IInv'
  <1>1. /\ entry' \in possible /\ possible' = {entry'} /\ created' = created /\ flushed' = flushed
        /\ landed' = landed /\ removed' = removed
    BY Zenon DEF PowerLost, promised
  <1>2. NoOp \in Op /\ NoOp.kind = "none" /\ NoOp.at = "idle"
    BY DEF NoOp, Op, Kinds, Places, Nowhere
  <1>3. op' = [p \in Holders |-> NoOp]
    BY DEF PowerLost
  <1>4. op' \in [Holders -> Op] /\ \A p \in Holders : op'[p].kind = "none" /\ op'[p].at = "idle"
    BY <1>2, <1>3, Zenon
  <1>5. \A i \in flushed : i \in 1 .. created /\ i \in Identity
    BY RootAssumption DEF IInv, OnDisk, RootTypeOK, Identity
  <1>6. \A i \in flushed : text'[i] = text[i]
    BY <1>5 DEF PowerLost
  <1>7. entry' \in flushed \cup {Nowhere}
    BY <1>1 DEF IInv, OnDisk
  <1>8. text' \in [Identity -> Texts \cup {Torn}]
    BY DEF PowerLost, IInv, RootTypeOK
  <1>9. RootTypeOK'
    BY <1>1, <1>4, <1>5, <1>7, <1>8, Zenon DEF IInv, RootTypeOK, Fits
  <1>10. OnDisk'
    BY <1>1, <1>6, <1>7, Zenon DEF IInv, OnDisk
  <1>11. Writing' /\ Fresh' /\ Removing'
    BY <1>4, Zenon DEF Writing, Fresh, Removing, HasFile, Unnamed, Removes
  <1>12. Promises'
    BY <1>1, <1>6, <1>7 DEF IInv, Promises
  <1> QED BY <1>9, <1>10, <1>11, <1>12 DEF IInv

LEMMA StutterKeeps ==
    ASSUME IInv, UNCHANGED rootVars
    PROVE  IInv'
  <1>1. /\ entry' = entry /\ possible' = possible /\ text' = text /\ created' = created
        /\ flushed' = flushed /\ op' = op /\ landed' = landed /\ removed' = removed
    BY DEF rootVars
  <1>2. RootTypeOK' /\ OnDisk' /\ Promises'
    BY <1>1, Zenon DEF IInv, RootTypeOK, OnDisk, Promises
  <1>3. Writing'
    BY <1>1, Zenon DEF IInv, Writing, HasFile
  <1>4. Fresh'
    BY <1>1, Zenon DEF IInv, Fresh, FreshOK, HasFile, Unnamed, Removes
  <1>5. Removing'
    BY <1>1, Zenon DEF IInv, Removing, RemovesOK, Removes
  <1> QED BY <1>2, <1>3, <1>4, <1>5 DEF IInv

LEMMA NextKeeps == IInv /\ [RootNext]_rootVars => IInv'
  <1> SUFFICES ASSUME IInv, [RootNext]_rootVars PROVE IInv'
    OBVIOUS
  <1>1. CASE PowerLost
    BY <1>1, PowerLostKeeps
  <1>2. CASE UNCHANGED rootVars
    BY <1>2, StutterKeeps, Zenon
  <1>3. ASSUME NEW p \in Holders,
               \/ \E kind \in {"read", "write", "remove"}, t \in Texts : BeginOp(p, kind, t)
               \/ Fail(p) \/ Before(p) \/ OpenEntry(p) \/ Final(p)
               \/ Create(p) \/ Sync(p) \/ Rename(p) \/ Fsync(p) \/ Confirm(p)
               \/ Stat(p) \/ MoveAside(p) \/ Compare(p) \/ Unlink(p)
        PROVE  IInv'
    BY <1>3, BeginFailKeeps, ReadingKeeps, DecidingKeeps, CreateKeeps, SyncKeeps, RenameKeeps,
       FsyncKeeps, ConfirmKeeps, MoveAsideKeeps
  <1> QED BY <1>1, <1>2, <1>3 DEF RootNext

-----------------------------------------------------------------------------
(* WriteAtomic and Remove by any number of processes, interrupted anywhere *)
(* by errors, deaths and power failures: the name never names a partly     *)
(* written file, since a file is synced before it is renamed.              *)
THEOREM NameIsWhole == RootSpec => []NeverTorn
  <1>1. IInv => NeverTorn
    BY RootAssumption, Zenon DEF IInv, OnDisk, NeverTorn
  <1> QED BY InitHolds, NextKeeps, <1>1, PTL DEF RootSpec

(* What WriteAtomic reported as written is named, and will be after a      *)
(* power failure, for as long as nobody renames; what makes the last look  *)
(* at the name enough is that a file is renamed to it only once.           *)
THEOREM WriteIsDurable == RootSpec => []WriteLands
  <1>1. IInv => WriteLands
    BY Zenon DEF IInv, Promises, WriteLands
  <1> QED BY InitHolds, NextKeeps, <1>1, PTL DEF RootSpec

(* What Remove reported as removed held what the caller expected and does  *)
(* not come back, not even after a power failure.                          *)
THEOREM RemovalIsFinal == RootSpec => []RemovedForGood
  <1>1. IInv => RemovedForGood
    BY DEF IInv, OnDisk, Promises, RemovedForGood
  <1> QED BY InitHolds, NextKeeps, <1>1, PTL DEF RootSpec
=============================================================================
