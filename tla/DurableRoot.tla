----------------------------- MODULE DurableRoot -----------------------------
(***************************************************************************)
(* durable.Root on Unix: Read, WriteAtomic and Remove of one name by       *)
(* processes that each hold the directory with a mutex of their own, so    *)
(* that their system calls interleave; any call may fail, a process may    *)
(* die at any of them, and power may fail.                                 *)
(*                                                                         *)
(* A file is its identity, which is not given again to another file; its   *)
(* payload is written before it gets the name and never after.  Temporary  *)
(* names and tombstones are random and nobody else's.                      *)
(***************************************************************************)
EXTENDS Naturals, FiniteSets

CONSTANTS
    Holders,        \* processes, one Root each
    Texts,          \* payloads
    MaxWritten,     \* bound: files created
    Torn            \* what an unsynced file holds after a power failure

ASSUME RootAssumption == MaxWritten \in Nat /\ Torn \notin Texts

Nowhere == 0
Identity == 1 .. MaxWritten

VARIABLES
    entry,          \* the file the name names, or Nowhere
    possible,       \* what the disk may say it names
    text,           \* the payload of each file
    created,        \* files so far
    flushed,        \* files whose payload is on disk
    op,             \* per process: the call in progress
    landed,         \* history: the payload of the last WriteAtomic that returned nil,
                    \* while nobody has renamed since
    removed         \* history: the files Remove has reported removed, and the
                    \* payloads it was asked for

rootVars == <<entry, possible, text, created, flushed, op, landed, removed>>
directory == <<entry, possible>>
contents == <<text, created, flushed>>
promised == <<landed, removed>>

NoOp == [kind |-> "none", at |-> "idle", text |-> Torn, value |-> Nowhere, held |-> Nowhere]

RootInit ==
    /\ entry = Nowhere /\ possible = {Nowhere} /\ text = [i \in Identity |-> Torn]
    /\ created = 0 /\ flushed = {} /\ op = [p \in Holders |-> NoOp] /\ landed = Torn /\ removed = {}

At(p, kind, at) == op[p].kind = kind /\ op[p].at = at
Goto(p, at) == op' = [op EXCEPT ![p].at = at]
Return(p) == op' = [op EXCEPT ![p] = NoOp]

BeginOp(p, kind, t) ==
    /\ op[p] = NoOp
    /\ op' = [op EXCEPT ![p] = [NoOp EXCEPT !.kind = kind, !.text = t,
                                            !.at = IF kind = "read" THEN "before" ELSE "stat"]]
    /\ UNCHANGED <<directory, contents, promised>>

(* Any call fails, the name is not there or changes under it, or the       *)
(* process dies.  A file that has not got the name is unlinked or litter.  *)
Fail(p) ==
    /\ op[p] # NoOp /\ Return(p)
    /\ UNCHANGED <<directory, contents, promised>>

-----------------------------------------------------------------------------
(* readLocked, and readLockedWithoutMutex within Remove: the name is       *)
(* looked at, opened, and looked at again; the payload is the opened       *)
(* file's.  (The look in between that only Read takes is implied by the    *)
(* last one.)                                                              *)
Before(p) ==
    /\ op[p].at = "before" /\ entry # Nowhere
    /\ op' = [op EXCEPT ![p].at = "open", ![p].held = entry]
    /\ UNCHANGED <<directory, contents, promised>>

OpenEntry(p) ==
    /\ op[p].at = "open" /\ entry = op[p].held /\ Goto(p, "final")
    /\ UNCHANGED <<directory, contents, promised>>

Final(p) ==
    /\ op[p].at = "final" /\ entry = op[p].held
    /\ IF op[p].kind = "read" THEN Return(p)
       ELSE text[op[p].held] = op[p].text /\ Goto(p, "move")
    /\ UNCHANGED <<directory, contents, promised>>

-----------------------------------------------------------------------------
(* WriteAtomic                                                             *)
Create(p) ==
    /\ At(p, "write", "stat") /\ created < MaxWritten /\ created' = created + 1
    /\ text' = [text EXCEPT ![created + 1] = op[p].text]
    /\ op' = [op EXCEPT ![p].at = "sync", ![p].value = created + 1]
    /\ UNCHANGED <<directory, flushed, promised>>

\* Mutant: the temporary file is not synced.
SyncNothing(p) ==
    /\ At(p, "write", "sync") /\ Goto(p, "rename")
    /\ UNCHANGED <<directory, contents, promised>>

Sync(p) ==
    /\ At(p, "write", "sync") /\ flushed' = flushed \cup {op[p].value} /\ Goto(p, "rename")
    /\ UNCHANGED <<directory, text, created, promised>>

(* The name changes in memory, and on disk if the kernel writes it back.   *)
Names(i) == entry' = i /\ possible' = possible \cup {i} /\ landed' = Torn

Rename(p) ==
    /\ At(p, "write", "rename") /\ Names(op[p].value) /\ Goto(p, "fsync")
    /\ UNCHANGED <<contents, removed>>

Fsync(p) ==
    /\ op[p].at \in {"fsync", "fsync again"} /\ possible' = {entry}
    /\ IF op[p].kind = "write" THEN Goto(p, "confirm") /\ UNCHANGED removed
       ELSE IF op[p].at = "fsync" THEN Goto(p, "unlink") /\ UNCHANGED removed
       ELSE Return(p) /\ removed' = removed \cup {[file |-> op[p].value, text |-> op[p].text]}
    /\ UNCHANGED <<entry, contents, landed>>

\* Mutant: the name is not looked at again.
ConfirmBlindly(p) ==
    /\ At(p, "write", "confirm") /\ landed' = op[p].text /\ Return(p)
    /\ UNCHANGED <<directory, contents, removed>>

(* nil is returned if the name names what was written.                     *)
Confirm(p) ==
    /\ At(p, "write", "confirm") /\ entry = op[p].value /\ landed' = op[p].text /\ Return(p)
    /\ UNCHANGED <<directory, contents, removed>>

-----------------------------------------------------------------------------
(* Remove                                                                  *)
Stat(p) ==
    /\ At(p, "remove", "stat")
    /\ IF entry = Nowhere THEN Return(p)
       ELSE op' = [op EXCEPT ![p].at = "before", ![p].value = entry]
    /\ UNCHANGED <<directory, contents, promised>>

(* The name is moved to a tombstone, whatever it names by now; ...         *)
MoveAside(p) ==
    /\ At(p, "remove", "move") /\ entry # Nowhere /\ Names(Nowhere)
    /\ op' = [op EXCEPT ![p].at = "compare", ![p].held = entry]
    /\ UNCHANGED <<contents, removed>>

\* Mutant: what was moved is deleted without a look.
CompareNothing(p) ==
    /\ At(p, "remove", "compare") /\ op' = [op EXCEPT ![p].at = "fsync", ![p].value = op[p].held]
    /\ UNCHANGED <<directory, contents, promised>>

(* ... if it was not the file, the tombstone stays and an error is told.   *)
Compare(p) ==
    /\ At(p, "remove", "compare")
    /\ IF op[p].held = op[p].value THEN Goto(p, "fsync") ELSE Return(p)
    /\ UNCHANGED <<directory, contents, promised>>

Unlink(p) ==
    /\ At(p, "remove", "unlink") /\ Goto(p, "fsync again")
    /\ UNCHANGED <<directory, contents, promised>>

-----------------------------------------------------------------------------
PowerLost ==
    /\ op' = [p \in Holders |-> NoOp] /\ entry' \in possible /\ possible' = {entry'}
    /\ text' = [i \in Identity |-> IF i \in flushed THEN text[i] ELSE Torn]
    /\ UNCHANGED <<created, flushed, promised>>

RootNext ==
    \/ PowerLost
    \/ \E p \in Holders :
          \/ \E kind \in {"read", "write", "remove"}, t \in Texts : BeginOp(p, kind, t)
          \/ Fail(p) \/ Before(p) \/ OpenEntry(p) \/ Final(p)
          \/ Create(p) \/ Sync(p) \/ Rename(p) \/ Fsync(p) \/ Confirm(p)
          \/ Stat(p) \/ MoveAside(p) \/ Compare(p) \/ Unlink(p)

RootSpec == RootInit /\ [][RootNext]_rootVars

-----------------------------------------------------------------------------
(* The name never names a file that was only partly written, whenever      *)
(* power fails.                                                            *)
NeverTorn == entry # Nowhere => text[entry] # Torn

(* Once WriteAtomic has returned nil, and until somebody renames again,    *)
(* the name holds that payload, before and after a power failure, also     *)
(* when another process wrote or removed meanwhile.                        *)
WriteLands == landed # Torn => \A i \in possible \cup {entry} : i # Nowhere /\ text[i] = landed

(* A file that Remove reports removed held the payload it was asked for,   *)
(* and neither a power failure nor another process brings it back.         *)
RemovedForGood ==
    \A r \in removed : text[r.file] = r.text /\ r.file \notin possible \cup {entry}
=============================================================================
