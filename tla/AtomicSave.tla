----------------------------- MODULE AtomicSave -----------------------------
(***************************************************************************)
(* How uploadqueue.Queue and cursor.State keep their state: a map in       *)
(* memory, and a file that is replaced as a whole by a temporary file, a   *)
(* rename and a sync of the directory (save, persist).  Memory follows     *)
(* only when save returns nil.  A mutex lets one call save at a time, so a *)
(* call is its steps on the disk, between which the process may die.       *)
(***************************************************************************)
EXTENDS FiniteSets, Naturals

CONSTANTS
    MaxUnconfirmed, \* bound on the renames in a row that no sync confirms
    Faults,         \* "save": a step of save fails; "crash"; "power"
    NoSave          \* no save is under way

VARIABLES
    up,             \* the process runs and has the file open
    mem,            \* the map in memory
    disk,           \* the file's content, as a process reads it
    survivors,      \* the contents a power loss may leave in it
    staged,         \* the content being saved
    renamed         \* the rename of that save is done

store == <<up, mem, disk, survivors, staged, renamed>>

StoreInit(empty) ==
    /\ up = FALSE /\ renamed = FALSE /\ staged = NoSave
    /\ mem = empty /\ disk = empty /\ survivors = {empty}

Idle == up /\ staged = NoSave

(* Open reads the file as it is.                                           *)
Reopen ==
    /\ ~up /\ up' = TRUE /\ mem' = disk
    /\ UNCHANGED <<disk, survivors, staged, renamed>>

Stage(next) ==
    /\ Idle /\ staged' = next /\ UNCHANGED <<up, mem, disk, survivors, renamed>>

RenameFile ==
    /\ up /\ staged # NoSave /\ ~renamed /\ renamed' = TRUE
    /\ Cardinality(survivors) <= MaxUnconfirmed
    /\ disk' = staged /\ survivors' = survivors \cup {staged}
    /\ UNCHANGED <<up, mem, staged>>

SyncDirectory ==
    /\ up /\ renamed /\ survivors' = {disk} /\ mem' = staged
    /\ staged' = NoSave /\ renamed' = FALSE /\ UNCHANGED <<up, disk>>

(* An error leaves the file as it was, or replaced but unconfirmed; memory *)
(* keeps the old map in both cases.                                        *)
SaveFails ==
    /\ "save" \in Faults /\ up /\ staged # NoSave
    /\ staged' = NoSave /\ renamed' = FALSE /\ UNCHANGED <<up, mem, disk, survivors>>

ProcessDies ==
    /\ "crash" \in Faults /\ up /\ up' = FALSE /\ staged' = NoSave /\ renamed' = FALSE
    /\ UNCHANGED <<mem, disk, survivors>>

(* Renames that were not confirmed may or may not have reached the disk.   *)
PowerFails ==
    /\ "power" \in Faults /\ up' = FALSE /\ staged' = NoSave /\ renamed' = FALSE
    /\ disk' \in survivors /\ survivors' = {disk'}
    /\ UNCHANGED mem
=============================================================================
