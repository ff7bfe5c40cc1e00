---------------------------- MODULE CursorState ----------------------------
(***************************************************************************)
(* cursor.State: the checkpoint of each source, as far as its generation   *)
(* and offset tell checkpoints apart.                                      *)
(***************************************************************************)
EXTENDS AtomicSave, Naturals

CONSTANTS Sources, MaxGeneration, MaxOffset

ASSUME CursorAssumption == MaxGeneration \in Nat /\ MaxOffset \in Nat

Checkpoint == [generation : 0..MaxGeneration, offset : 0..MaxOffset]
Entries == UNION {[S -> Checkpoint] : S \in SUBSET Sources}

ASSUME NoPutAssumption == NoSave \notin Entries

VARIABLES
    putting,        \* the source of the Put under way, or NoSave
    confirmed       \* per source, 1 + the last generation a Put returned nil for, or 0

cursorVars == <<store, putting, confirmed>>

NoCheckpoints == [s \in {} |-> 0]

CursorInit == StoreInit(NoCheckpoints) /\ putting = NoSave /\ confirmed = [s \in Sources |-> 0]

OpenCursor == Reopen /\ UNCHANGED <<putting, confirmed>>

Get(s) == mem[s]
WithCheckpoint(s, c) == [r \in DOMAIN mem \cup {s} |-> IF r = s THEN c ELSE mem[r]]

(* A checkpoint of an older generation is refused.                         *)
Put(s, c) ==
    /\ s \in DOMAIN mem => c.generation >= Get(s).generation
    /\ putting' = s /\ Stage(WithCheckpoint(s, c)) /\ UNCHANGED confirmed

RenameCursor == RenameFile /\ UNCHANGED <<putting, confirmed>>

\* Mutant: the directory is not synced.
SyncCursorSkipped ==
    /\ up /\ renamed /\ mem' = staged /\ staged' = NoSave /\ renamed' = FALSE
    /\ confirmed' = [confirmed EXCEPT ![putting] = 1 + staged[putting].generation] /\ putting' = NoSave
    /\ UNCHANGED <<up, disk, survivors>>

SyncCursor ==
    /\ SyncDirectory /\ putting' = NoSave
    /\ confirmed' = [confirmed EXCEPT ![putting] = 1 + staged[putting].generation]

FailCursor == (SaveFails \/ ProcessDies \/ PowerFails) /\ putting' = NoSave /\ UNCHANGED confirmed

CursorNext ==
    \/ OpenCursor \/ RenameCursor \/ SyncCursor \/ FailCursor
    \/ \E s \in Sources, c \in Checkpoint : Put(s, c)

CursorSpec == CursorInit /\ [][CursorNext]_cursorVars

-----------------------------------------------------------------------------
(* The values the variables range over.                                    *)
CursorTypeOK ==
    /\ up \in BOOLEAN /\ renamed \in BOOLEAN
    /\ mem \in Entries /\ disk \in Entries /\ survivors \subseteq Entries
    /\ staged \in Entries \cup {NoSave}
    /\ putting \in Sources \cup {NoSave} /\ confirmed \in [Sources -> 0..MaxGeneration + 1]

AtLeast(entries) ==
    \A s \in Sources : confirmed[s] > 0 => s \in DOMAIN entries /\ entries[s].generation + 1 >= confirmed[s]

(* No failure and no restart takes a source behind a generation that Put   *)
(* has confirmed: neither what Get returns nor what a restart would load.  *)
CheckpointKept == (\A e \in survivors \cup {disk} : AtLeast(e)) /\ (up => AtLeast(mem))

(* The confirmed generation of a source never goes back.                   *)
ConfirmedAscends == [][\A s \in Sources : confirmed'[s] >= confirmed[s]]_cursorVars
=============================================================================
