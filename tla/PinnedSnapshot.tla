--------------------------- MODULE PinnedSnapshot ---------------------------
(***************************************************************************)
(* PinnedRoot.Snapshot on Unix: a private copy of one source file, taken   *)
(* by system calls while other programs write to the file, replace it, or  *)
(* move the directories above it.                                          *)
(*                                                                         *)
(* The path to the source has Depth components below the root.  Only they  *)
(* matter, so a directory has one entry here: what the path's next         *)
(* component names in it, if anything; named[Top] is what the root's path  *)
(* names.  An object is its identity (device and inode).  A file's time of *)
(* modification is the clock's at its last write, and writes within one    *)
(* tick of the clock are given the same time.                              *)
(***************************************************************************)
EXTENDS Naturals, Sequences, FiniteSets

CONSTANTS
    Dirs, Files,    \* identities of directories and of regular files
    Contents,       \* what a file may hold: sequences of blocks
    Depth,          \* len(parts)
    MaxSize,        \* maxBytes
    MaxChanges,     \* bound: changes other programs make
    MaxClock        \* bound: ticks of the clock

Top == "top"
Nothing == "nothing"
Blocks == UNION {{c[i] : i \in DOMAIN c} : c \in Contents}

ASSUME SnapshotAssumption ==
    /\ Depth \in Nat \ {0} /\ MaxSize \in Nat /\ Contents \subseteq Seq(Blocks)
    /\ Dirs \cap Files = {} /\ {Top, Nothing} \cap (Dirs \cup Files) = {}

VARIABLES
    named,          \* the file system: what each directory's entry names
    data, mtime,    \* and what each file holds, and since when
    clock, changes,
    bound,          \* platformRoot.stat, Nothing while r.file is nil
    closed,         \* PinnedRoot.closed
    pc,             \* the system call Snapshot makes next
    level,          \* the component it is at
    parent,         \* the directory held open
    before, held,   \* the identity stat reported, and the one opened
    size, time,     \* beforeInfo
    copy,           \* what has been copied
    private,        \* the private directories that exist
    then,           \* history: what the file held at beforeInfo
    settled,        \* history: its time was past when beforeInfo was read
    found,          \* history: what the path below the root named at the last look
    under,          \* history: what the root's path named at the last verify
    moved           \* history: a directory below the root was moved during the call

files == <<named, data, mtime, clock, changes>>
root == <<bound, closed>>
walk == <<level, parent, before, held>>
copied == <<size, time, copy>>
history == <<then, settled, found, under, moved>>
vars == <<files, root, pc, walk, copied, private, history>>

Calls == {"stat", "open", "check", "info", "copy", "extra", "after", "final", "verify"}

(* What the first n components of the path from the root resolve to, the   *)
(* whole path, and the names as seen from the directory the root is bound  *)
(* to, wherever that is by now.                                            *)
Prefixes(names) ==
    LET at[n \in 0 .. Depth] == IF n = 0 THEN names[Top] ELSE
            IF at[n - 1] \in Dirs THEN names[at[n - 1]] ELSE Nothing
    IN  at
Resolved == Prefixes(named)[Depth]
Below == [named EXCEPT ![Top] = bound]

Init ==
    /\ named \in [Dirs \cup {Top} -> Dirs \cup Files \cup {Nothing}]
    /\ \A o, p \in DOMAIN named : named[o] = named[p] /\ o # p => named[o] = Nothing
    /\ \A d \in Dirs : named[d] # d /\ (named[d] \in Dirs => named[named[d]] # d)
    /\ Resolved \in Files
    /\ data \in [Files -> Contents] /\ mtime = [f \in Files |-> 0] /\ clock = 0 /\ changes = 0
    /\ bound = Nothing /\ closed = FALSE
    /\ pc = "idle" /\ level = 0 /\ parent = Nothing /\ before = Nothing /\ held = Nothing
    /\ size = 0 /\ time = 0 /\ copy = << >> /\ private = 0
    /\ then = << >> /\ settled = FALSE /\ found = Nothing /\ under = Nothing /\ moved = FALSE

(* The end of a call or of its copy: its local variables are gone.         *)
Over ==
    /\ pc' = "idle" /\ level' = 0 /\ parent' = Nothing /\ before' = Nothing /\ held' = Nothing
    /\ size' = 0 /\ time' = 0 /\ copy' = << >>
    /\ then' = << >> /\ settled' = FALSE /\ found' = Nothing /\ under' = Nothing /\ moved' = FALSE

-----------------------------------------------------------------------------
(* Other programs                                                          *)
Tick ==
    /\ clock < MaxClock /\ clock' = clock + 1
    /\ UNCHANGED <<named, data, mtime, changes, root, pc, walk, copied, private, history>>

Write(f, c) ==
    /\ changes < MaxChanges /\ changes' = changes + 1 /\ c # data[f]
    /\ data' = [data EXCEPT ![f] = c] /\ mtime' = [mtime EXCEPT ![f] = clock]
    /\ UNCHANGED <<named, clock, root, pc, walk, copied, private, history>>

(* A rename onto the entry, or its removal; an object has one name.  The   *)
(* root's own entry may change and be changed back during a call.          *)
Replace(o, x) ==
    /\ changes < MaxChanges /\ changes' = changes + 1 /\ x # named[o]
    /\ x # Nothing => x # o /\ (\A p \in DOMAIN named : named[p] # x)
    /\ x \in Dirs => named[x] \notin Dirs
    /\ named' = [named EXCEPT ![o] = x]
    /\ moved' = (pc # "idle" /\ (moved \/ (o # Top /\ {x, named[o]} \cap Dirs # {})))
    /\ UNCHANGED <<data, mtime, clock, root, pc, walk, copied, private, then, settled, found, under>>

-----------------------------------------------------------------------------
(* platformRoot.verify                                                     *)
Verified == bound # Nothing /\ named[Top] = bound

(* Bind: the first directory found is held from then on.  The identities   *)
(* before and after the open must agree, so it is one look.                *)
Bind ==
    /\ pc = "idle" /\ ~closed /\ bound = Nothing /\ named[Top] \in Dirs
    /\ bound' = named[Top]
    /\ UNCHANGED <<files, closed, pc, walk, copied, private, history>>

Begin ==
    /\ pc = "idle" /\ ~closed /\ Verified
    /\ pc' = "stat" /\ level' = 1 /\ parent' = bound
    /\ UNCHANGED <<files, root, before, held, copied, private, history>>

Last == level = Depth
Fits(o) == IF Last THEN o \in Files ELSE o \in Dirs

StatAt ==
    /\ pc = "stat" /\ Fits(named[parent])
    /\ before' = named[parent] /\ pc' = "open"
    /\ UNCHANGED <<files, root, level, parent, held, copied, private, history>>

OpenAt ==
    /\ pc = "open" /\ named[parent] # Nothing /\ (~Last => named[parent] \in Dirs)
    /\ held' = named[parent] /\ pc' = "check"
    /\ UNCHANGED <<files, root, level, parent, before, copied, private, history>>

CheckAt ==
    /\ pc = "check" /\ Fits(held) /\ before = held /\ held = named[parent]
    /\ IF Last THEN pc' = "info" /\ UNCHANGED <<level, parent>>
               ELSE pc' = "stat" /\ level' = level + 1 /\ parent' = held
    /\ UNCHANGED <<files, root, before, held, copied, private, history>>

(* beforeInfo, and the private file it makes room for.                     *)
Info ==
    /\ pc = "info" /\ Len(data[held]) <= MaxSize
    /\ size' = Len(data[held]) /\ time' = mtime[held] /\ copy' = << >>
    /\ private' = private + 1 /\ pc' = "copy"
    /\ then' = data[held] /\ settled' = (mtime[held] < clock)
    /\ UNCHANGED <<files, root, walk, found, under, moved>>

(* io.CopyN, a block at a time                                             *)
Copy ==
    /\ pc = "copy"
    /\ IF Len(copy) = size
       THEN pc' = "extra" /\ UNCHANGED copy
       ELSE /\ Len(data[held]) > Len(copy)
            /\ copy' = Append(copy, data[held][Len(copy) + 1]) /\ UNCHANGED pc
    /\ UNCHANGED <<files, root, walk, size, time, private, history>>

(* The read of one more byte                                               *)
Extra ==
    /\ pc = "extra" /\ Len(data[held]) <= size
    /\ pc' = "after"
    /\ UNCHANGED <<files, root, walk, copied, private, history>>

\* Mutant: only the size is compared.
AfterInfoSize ==
    /\ pc = "after" /\ Len(data[held]) = size
    /\ pc' = "final"
    /\ UNCHANGED <<files, root, walk, copied, private, history>>

AfterInfo ==
    /\ pc = "after" /\ Len(data[held]) = size /\ mtime[held] = time
    /\ pc' = "final"
    /\ UNCHANGED <<files, root, walk, copied, private, history>>

FinalStat ==
    /\ pc = "final" /\ named[parent] = held
    /\ found' = Prefixes(Below)[Depth] /\ pc' = "verify"
    /\ UNCHANGED <<files, root, walk, copied, private, then, settled, under, moved>>

\* Mutant: the root is not verified again after the copy.
DeliverUnverified ==
    /\ pc = "verify"
    /\ pc' = "delivered" /\ under' = named[Top]
    /\ UNCHANGED <<files, root, walk, copied, private, then, settled, found, moved>>

Deliver ==
    /\ pc = "verify" /\ Verified
    /\ pc' = "delivered" /\ under' = named[Top]
    /\ UNCHANGED <<files, root, walk, copied, private, then, settled, found, moved>>

(* Every call that fails, or shows what the next action's guard excludes,  *)
(* ends the attempt; the deferred cleanup or refuse removes the copy.      *)
Refuse ==
    /\ pc \in Calls
    /\ Over /\ private' = IF pc \in {"copy", "extra", "after", "final", "verify"} THEN private - 1 ELSE private
    /\ UNCHANGED <<files, root>>

(* Snapshot.Close                                                          *)
CloseSnapshot ==
    /\ pc = "delivered"
    /\ Over /\ private' = private - 1
    /\ UNCHANGED <<files, root>>

(* PinnedRoot.Close waits for a Snapshot in progress; a copy handed out    *)
(* stays readable.                                                         *)
CloseRoot ==
    /\ pc \notin Calls /\ ~closed
    /\ closed' = TRUE
    /\ UNCHANGED <<files, bound, pc, walk, copied, private, history>>

Next ==
    \/ Tick
    \/ \E f \in Files, c \in Contents : Write(f, c)
    \/ \E o \in Dirs \cup {Top}, x \in Dirs \cup Files \cup {Nothing} : Replace(o, x)
    \/ Bind \/ Begin \/ StatAt \/ OpenAt \/ CheckAt \/ Info \/ Copy \/ Extra \/ AfterInfo \/ FinalStat
    \/ Deliver \/ Refuse \/ CloseSnapshot \/ CloseRoot

Spec == Init /\ [][Next]_vars

-----------------------------------------------------------------------------
(* A delivered copy of a file whose last write was past when the copy      *)
(* began is what the file held at that moment, not a mixture of two of its *)
(* states: every write since has a later time, which afterInfo shows.  (A  *)
(* file written in the current tick can be written again unnoticed.)       *)
SettledIsWhole == pc = "delivered" /\ settled => copy = then

(* A copy is delivered from under the directory the root was first bound   *)
(* to, which the root's path names again at the last verify, however often *)
(* the root was replaced meanwhile; and unless a directory below it was    *)
(* moved during the call, the file copied is the one that the path from    *)
(* there named at the last look.                                           *)
DeliveredIsNamed == pc = "delivered" => under = bound /\ (~moved => found = held)
=============================================================================
