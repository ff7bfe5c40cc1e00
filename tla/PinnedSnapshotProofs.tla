------------------------ MODULE PinnedSnapshotProofs ------------------------
(***************************************************************************)
(* Proofs about PinnedSnapshot, for a path of any depth, any files and any *)
(* number of changes by other programs.                                    *)
(***************************************************************************)
EXTENDS PinnedSnapshot, WellFoundedInduction, TLAPS

-----------------------------------------------------------------------------
(* Induction on the naturals, for a set                                    *)

(* A set of naturals with a member has a least one.                        *)
LEMMA Least ==
    ASSUME NEW T \in SUBSET Nat, T # {}
    PROVE  \E m \in T : \A n \in T : m <= n
<1> DEFINE R == OpToRel(<, Nat)
<1>1. IsWellFoundedOn(R, Nat)
  BY NatLessThanWellFounded, Zenon
<1>2. \E m \in T : \A n \in T : <<n, m>> \notin R
  <2> HIDE DEF R
  <2> QED BY <1>1, WFMin, Zenon
<1>3. ASSUME NEW m \in T, NEW n \in T, <<n, m>> \notin R
      PROVE  m <= n
  BY <1>3 DEF OpToRel
<1> QED BY <1>2, <1>3, Zenon

(* A set that holds zero and the successor of each of its members holds    *)
(* every natural.                                                          *)
LEMMA SetInduction ==
    ASSUME NEW S, 0 \in S, \A n \in Nat : n \in S => n + 1 \in S
    PROVE  Nat \subseteq S
<1> DEFINE T == {n \in Nat : n \notin S}
<1> SUFFICES ASSUME T # {} PROVE FALSE
  OBVIOUS
<1>1. PICK m \in T : \A n \in T : m <= n
  <2>1. T \in SUBSET Nat
    OBVIOUS
  <2> HIDE DEF T
  <2> QED BY <2>1, Least
<1>2. m \in Nat \ {0}
  OBVIOUS
<1>3. m - 1 \in Nat /\ m - 1 \notin T
  BY <1>1, <1>2
<1>4. (m - 1) + 1 = m
  BY <1>2
<1> QED BY <1>3, <1>4

-----------------------------------------------------------------------------
(* The path                                                                *)

(* Each component of the path is looked up in what the one above it names. *)
LEMMA PrefixStep ==
    ASSUME NEW names
    PROVE  \A n \in 0 .. Depth : Prefixes(names)[n] =
               IF n = 0 THEN names[Top] ELSE
               IF Prefixes(names)[n - 1] \in Dirs THEN names[Prefixes(names)[n - 1]] ELSE Nothing
<1> DEFINE P(g, d) == g = [n \in 0 .. d |-> IF n = 0 THEN names[Top] ELSE
                               IF g[n - 1] \in Dirs THEN names[g[n - 1]] ELSE Nothing]
           S == {d \in Nat : \E g : P(g, d)}
<1>1. 0 \in S
  <2>1. P([n \in 0 .. 0 |-> names[Top]], 0)
    OBVIOUS
  <2> QED BY <2>1, Zenon
<1>2. ASSUME NEW d \in Nat, d \in S
      PROVE  d + 1 \in S
  <2>1. PICK g : P(g, d)
    BY <1>2
  <2> DEFINE h == [n \in 0 .. (d + 1) |->
                     IF n = d + 1 THEN IF g[d] \in Dirs THEN names[g[d]] ELSE Nothing ELSE g[n]]
  <2>2. \A n \in 0 .. d : g[n] = IF n = 0 THEN names[Top] ELSE
                                 IF g[n - 1] \in Dirs THEN names[g[n - 1]] ELSE Nothing
    BY <2>1
  <2>3. \A n \in 0 .. (d + 1) : h[n] = IF n = 0 THEN names[Top] ELSE
                                       IF h[n - 1] \in Dirs THEN names[h[n - 1]] ELSE Nothing
    BY <2>2
  <2>4. P(h, d + 1)
    BY <2>3
  <2> HIDE DEF h
  <2> QED BY <2>4
<1>3. Depth \in S
  <2> HIDE DEF S
  <2> QED BY <1>1, <1>2, SetInduction, SnapshotAssumption
<1> DEFINE f == CHOOSE g : P(g, Depth)
<1>4. P(f, Depth)
  BY <1>3, Zenon
<1>5. Prefixes(names) = f
  BY DEF Prefixes
<1> HIDE DEF f
<1> QED BY <1>4, <1>5, Zenon

(* The first k components of the path are directories, the last is d.      *)
Leads(names, k, d) ==
    /\ \A n \in 0 .. k : Prefixes(names)[n] \in Dirs
    /\ Prefixes(names)[k] = d

(* One component more.                                                     *)
LEMMA LeadsOn ==
    ASSUME NEW names, NEW k \in Nat, k < Depth, NEW d, Leads(names, k, d)
    PROVE  /\ Prefixes(names)[k + 1] = names[d]
           /\ names[d] \in Dirs => Leads(names, k + 1, names[d])
<1>1. Prefixes(names)[k + 1] = names[d]
  BY PrefixStep, SnapshotAssumption DEF Leads
<1>2. \A n \in 0 .. (k + 1) : n \in 0 .. k \/ n = k + 1
  OBVIOUS
<1> QED BY <1>1, <1>2 DEF Leads

(* Replacing what is not a directory by what is not one either leaves the  *)
(* directories of the path.                                                *)
LEMMA LeadsStays ==
    ASSUME NEW names \in [Dirs \cup {Top} -> Dirs \cup Files \cup {Nothing}],
           NEW o \in Dirs \cup {Top}, NEW x, NEW k \in Nat, k <= Depth, NEW d,
           names[o] \notin Dirs, Leads(names, k, d)
    PROVE  Leads([names EXCEPT ![o] = x], k, d)
<1> DEFINE new == [names EXCEPT ![o] = x]
           S == {n \in Nat : n <= k => Prefixes(new)[n] = Prefixes(names)[n]}
<1>1. \A p \in Dirs \cup {Top} : names[p] \in Dirs => new[p] = names[p]
  OBVIOUS
<1> HIDE DEF new
<1>2. \A n \in 0 .. k : n \in 0 .. Depth /\ Prefixes(names)[n] \in Dirs
  BY SnapshotAssumption DEF Leads
<1>3. 0 \in S
  <2>1. 0 \in 0 .. k /\ 0 \in 0 .. Depth
    BY SnapshotAssumption
  <2>2. Prefixes(names)[0] = names[Top] /\ Prefixes(new)[0] = new[Top]
    BY <2>1, PrefixStep
  <2> QED BY <1>1, <1>2, <2>1, <2>2
<1>4. ASSUME NEW n \in Nat, n \in S
      PROVE  n + 1 \in S
  <2> SUFFICES ASSUME n + 1 <= k
               PROVE  Prefixes(new)[n + 1] = Prefixes(names)[n + 1]
    OBVIOUS
  <2> DEFINE e == Prefixes(names)[n]
  <2>1. n + 1 \in 0 .. k /\ n \in 0 .. k /\ n + 1 # 0 /\ (n + 1) - 1 = n
    OBVIOUS
  <2>2. e \in Dirs /\ Prefixes(new)[n] = e
    BY <1>2, <1>4, <2>1
  <2>3. Prefixes(names)[n + 1] = names[e] /\ Prefixes(new)[n + 1] = new[e]
    BY <1>2, <2>1, <2>2, PrefixStep
  <2> HIDE DEF e
  <2> QED BY <1>1, <1>2, <2>1, <2>2, <2>3
<1>5. \A n \in 0 .. k : Prefixes(new)[n] = Prefixes(names)[n]
  <2>1. Nat \subseteq S
    <3> HIDE DEF S
    <3> QED BY <1>3, <1>4, SetInduction
  <2> QED BY <2>1
<1>6. Leads(new, k, d)
  BY <1>5 DEF Leads
<1> QED BY <1>6 DEF new

-----------------------------------------------------------------------------
(* The inductive invariant                                                 *)

SnapTypeOK ==
    /\ named \in [Dirs \cup {Top} -> Dirs \cup Files \cup {Nothing}]
    /\ data \in [Files -> Contents] /\ mtime \in [Files -> Nat] /\ clock \in Nat
    /\ bound \in Dirs \cup {Nothing}
    /\ pc \in Calls \cup {"idle", "delivered"}
    /\ level \in 0 .. Depth /\ size \in Nat /\ time \in Nat
    /\ copy \in Seq(Blocks) /\ then \in Seq(Blocks)
    /\ settled \in BOOLEAN /\ moved \in BOOLEAN

(* A walk holds a directory at its level; past it, the file is held.       *)
Pinned ==
    /\ pc \in Calls => parent \in Dirs /\ level # 0
    /\ pc \in Calls \ {"stat", "open", "check"} => level = Depth
    /\ pc \in (Calls \ {"stat", "open", "check"}) \cup {"delivered"} => held \in Files

(* While no directory below the root has been moved, the one held is the   *)
(* one the path leads to from the bound root; after the last look, the     *)
(* file held is the one the path named.                                    *)
Leading ==
    /\ pc \in Calls /\ ~moved => Leads(Below, level - 1, parent)
    /\ pc \in {"verify", "delivered"} /\ ~moved => found = held
    /\ pc = "delivered" => under = bound

(* Below differs from the file system at the root only.                    *)
LEMMA BelowRoot ==
    ASSUME SnapTypeOK
    PROVE  /\ Below \in [Dirs \cup {Top} -> Dirs \cup Files \cup {Nothing}]
           /\ Below[Top] = bound /\ \A d \in Dirs : Below[d] = named[d]
  BY SnapshotAssumption DEF SnapTypeOK, Below

(* As long as a settled file shows the time of beforeInfo it has not       *)
(* changed since, and what has been copied is a prefix of it.              *)
Whole ==
    /\ pc \in {"copy", "extra", "after"} => size = Len(then) /\ Len(copy) <= size
    /\ pc \in {"copy", "extra", "after"} /\ settled => time < clock
    /\ pc \in {"copy", "extra", "after"} /\ settled /\ mtime[held] = time =>
           data[held] = then /\ \A i \in 1 .. Len(copy) : copy[i] = then[i]
    /\ pc \in {"extra", "after"} => Len(copy) = size
    /\ pc \in {"final", "verify", "delivered"} /\ settled => copy = then

SnapInv == SnapTypeOK /\ Pinned /\ Leading /\ Whole

-----------------------------------------------------------------------------
LEMMA SnapInitInv == Init => SnapInv
<1> SUFFICES ASSUME Init PROVE SnapInv
  OBVIOUS
<1>1. SnapTypeOK
  <2>1. << >> \in Seq(Blocks) /\ 0 \in 0 .. Depth /\ Depth \in Nat
    BY SnapshotAssumption
  <2>2. mtime \in [Files -> Nat]
    BY DEF Init
  <2> QED BY <2>1, <2>2, Zenon DEF Init, SnapTypeOK
<1>2. Pinned /\ Leading /\ Whole
  BY DEF Init, Calls, Pinned, Leading, Whole
<1> QED BY <1>1, <1>2 DEF SnapInv

(* What a file holds is a sequence.                                        *)
LEMMA Readable ==
    ASSUME SnapTypeOK, NEW f \in Files
    PROVE  data[f] \in Seq(Blocks) /\ Len(data[f]) \in Nat /\ mtime[f] \in Nat
<1>1. data[f] \in Contents /\ mtime[f] \in Nat
  BY DEF SnapTypeOK
<1> QED BY <1>1, SnapshotAssumption

(* A tick of the clock: no file's time changes.                            *)
LEMMA TickStep == SnapInv /\ Tick => SnapInv'
<1> SUFFICES ASSUME SnapInv, Tick PROVE SnapInv'
  OBVIOUS
<1> USE DEF SnapInv, Tick, root, walk, copied, history
<1>1. SnapTypeOK'
  BY DEF SnapTypeOK
<1>2. Pinned' /\ Leading'
  BY DEF Pinned, Leading, Below
<1>3. Whole'
  BY DEF Whole, SnapTypeOK
<1> QED BY <1>1, <1>2, <1>3

(* A write: a settled file's new time is the clock's, which is later than  *)
(* the time of beforeInfo.                                                 *)
LEMMA WriteStep ==
    ASSUME SnapInv, NEW f \in Files, NEW c \in Contents, Write(f, c)
    PROVE  SnapInv'
<1> USE DEF SnapInv, Write, root, walk, copied, history
<1>1. SnapTypeOK'
  BY DEF SnapTypeOK
<1>2. Pinned' /\ Leading'
  BY DEF Pinned, Leading, Below
<1>3. \A g \in Files : \/ mtime'[g] = mtime[g] /\ data'[g] = data[g]
                       \/ mtime'[g] = clock
  BY DEF SnapTypeOK
<1>4. Whole'
  <2>1. UNCHANGED <<pc, held, settled, size, time, copy, then, clock>>
    OBVIOUS
  <2>2. clock \in Nat /\ time \in Nat
    BY DEF SnapTypeOK
  <2>3. pc \in {"copy", "extra", "after"} => held \in Files
    BY DEF Pinned, Calls
  <2>4. Whole
    OBVIOUS
  <2> QED BY <1>3, <2>1, <2>2, <2>3, <2>4 DEF Whole
<1> QED BY <1>1, <1>2, <1>4

(* A replacement: unless it moves a directory, the path leads where it did.*)
LEMMA ReplaceStep ==
    ASSUME SnapInv, NEW o \in Dirs \cup {Top}, NEW x \in Dirs \cup Files \cup {Nothing}, Replace(o, x)
    PROVE  SnapInv'
<1> USE DEF SnapInv, Replace, root, walk, copied
<1>1. SnapTypeOK'
  BY DEF SnapTypeOK
<1>2. Pinned'
  BY DEF Pinned
<1>3. Whole'
  BY DEF Whole
<1>4. Leading'
  <2>1. ~moved' /\ pc # "idle" => ~moved /\ (o # Top => named[o] \notin Dirs)
    <3>1. moved' = (pc # "idle" /\ (moved \/ (o # Top /\ {x, named[o]} \cap Dirs # {})))
      OBVIOUS
    <3> QED BY <3>1, Zenon
  <2>2. /\ pc' = pc /\ held' = held /\ found' = found /\ parent' = parent /\ level' = level
        /\ under' = under /\ bound' = bound
    OBVIOUS
  <2>3. ASSUME pc \in Calls, ~moved'
        PROVE  Leads(Below', level - 1, parent)
    <3>1. pc # "idle"
      BY <2>3 DEF Calls
    <3>2. Leads(Below, level - 1, parent)
      BY <2>1, <2>3, <3>1 DEF Leading
    <3>3. level - 1 \in Nat /\ level - 1 <= Depth
      BY <2>3, SnapshotAssumption DEF SnapTypeOK, Pinned
    <3>4. CASE o = Top
      <4>1. Below' = Below
        BY <3>4, <2>2 DEF Below, SnapTypeOK
      <4> QED BY <3>2, <4>1
    <3>5. CASE o # Top
      <4>1. Below' = [Below EXCEPT ![o] = x]
        BY <3>5, <2>2 DEF Below, SnapTypeOK
      <4>2. Below[o] \notin Dirs /\ Below \in [Dirs \cup {Top} -> Dirs \cup Files \cup {Nothing}]
        BY <2>1, <2>3, <3>1, <3>5, BelowRoot
      <4>3. Leads([Below EXCEPT ![o] = x], level - 1, parent)
        BY <3>2, <3>3, <4>2, LeadsStays, Zenon
      <4> QED BY <4>1, <4>3
    <3> QED BY <3>4, <3>5
  <2>4. pc \in {"verify", "delivered"} /\ ~moved' => found = held
    BY <2>1 DEF Leading
  <2>5. pc = "delivered" => under = bound
    BY DEF Leading
  <2> HIDE DEF SnapInv, Replace
  <2> QED BY <2>2, <2>3, <2>4, <2>5 DEF Leading
<1> QED BY <1>1, <1>2, <1>3, <1>4

-----------------------------------------------------------------------------
(* The walk to the file                                                    *)

(* An action of the root or of the walk: the invariants of the copy.       *)
LEMMA WalkOnly ==
    ASSUME SnapInv, pc' \in {"stat", "open", "check", "info"},
           UNCHANGED <<files, root, copied, then, settled, moved>>, level' \in 0 .. Depth
    PROVE  SnapTypeOK' /\ Whole'
<1>1. SnapTypeOK'
  BY DEF SnapInv, SnapTypeOK, files, root, copied, Calls
<1>2. Whole'
  BY DEF Whole
<1> QED BY <1>1, <1>2

LEMMA BindStep == SnapInv /\ Bind => SnapInv'
<1> SUFFICES ASSUME SnapInv, Bind PROVE SnapInv'
  OBVIOUS
<1> USE DEF SnapInv, Bind, files, walk, copied, history
<1>1. SnapTypeOK'
  BY DEF SnapTypeOK
<1>2. Pinned' /\ Leading' /\ Whole'
  BY DEF Pinned, Leading, Whole, Below, Calls
<1> QED BY <1>1, <1>2

LEMMA CloseRootStep == SnapInv /\ CloseRoot => SnapInv'
<1> SUFFICES ASSUME SnapInv, CloseRoot PROVE SnapInv'
  OBVIOUS
<1> USE DEF SnapInv, CloseRoot, files, walk, copied, history
<1>1. SnapTypeOK'
  BY DEF SnapTypeOK
<1>2. Pinned' /\ Leading' /\ Whole'
  BY DEF Pinned, Leading, Whole, Below, Calls
<1> QED BY <1>1, <1>2

(* The root's path names the directory that is held.                       *)
LEMMA BeginStep == SnapInv /\ Begin => SnapInv'
<1> SUFFICES ASSUME SnapInv, Begin PROVE SnapInv'
  OBVIOUS
<1>1. pc' = "stat" /\ level' = 1 /\ parent' = bound /\ bound \in Dirs /\ named' = named /\ bound' = bound
  BY DEF SnapInv, SnapTypeOK, Begin, Verified, files, root
<1>2. SnapTypeOK' /\ Whole'
  <2>1. UNCHANGED <<files, root, copied, then, settled, moved>>
    BY DEF Begin, history
  <2>2. level' \in 0 .. Depth
    BY <1>1, SnapshotAssumption
  <2> QED BY <1>1, <2>1, <2>2, WalkOnly
<1>3. Pinned'
  BY <1>1 DEF Pinned
<1>4. Leads(Below, 0, bound) /\ Below' = Below
  <2>1. Prefixes(Below)[0] = Below[Top]
    BY PrefixStep, SnapshotAssumption
  <2> QED BY <1>1, <2>1, BelowRoot DEF SnapInv, Leads, Below
<1>5. Leading'
  <2>1. level' - 1 = 0
    BY <1>1
  <2> QED BY <1>1, <1>4, <2>1 DEF Leading
<1> QED BY <1>2, <1>3, <1>5 DEF SnapInv

LEMMA StatOpenStep == SnapInv /\ (StatAt \/ OpenAt) => SnapInv'
<1> SUFFICES ASSUME SnapInv, StatAt \/ OpenAt PROVE SnapInv'
  OBVIOUS
<1>1. /\ pc \in {"stat", "open"} /\ pc' \in {"open", "check"}
      /\ UNCHANGED <<files, root, copied, then, settled, found, under, moved, level, parent>>
  BY DEF StatAt, OpenAt, history
<1>2. SnapTypeOK' /\ Whole'
  BY <1>1, WalkOnly DEF SnapInv, SnapTypeOK
<1>3. Pinned'
  BY <1>1 DEF SnapInv, Pinned, Calls
<1>4. Leading'
  BY <1>1 DEF SnapInv, Leading, Calls, files, root, Below
<1> QED BY <1>2, <1>3, <1>4 DEF SnapInv

(* Down to the directory that the component names.                         *)
LEMMA CheckStep == SnapInv /\ CheckAt => SnapInv'
<1> SUFFICES ASSUME SnapInv, CheckAt PROVE SnapInv'
  OBVIOUS
<1>1. /\ pc = "check" /\ held = named[parent] /\ UNCHANGED <<held, named, bound, moved>>
      /\ UNCHANGED <<files, root, copied, then, settled, moved>> /\ Below' = Below
  BY DEF CheckAt, history, files, root, Below
<1>2. parent \in Dirs /\ level \in 1 .. Depth
  BY <1>1 DEF SnapInv, Pinned, Calls, SnapTypeOK
<1>3. CASE Last
  <2>1. pc' = "info" /\ level = Depth /\ level' = level /\ parent' = parent /\ held \in Files
    BY <1>3 DEF CheckAt, Last, Fits
  <2>2. SnapTypeOK' /\ Whole'
    BY <1>1, <1>2, <2>1, WalkOnly
  <2>3. Pinned'
    BY <1>1, <1>2, <2>1 DEF Pinned, Calls
  <2>4. Leading'
    BY <1>1, <2>1 DEF SnapInv, Leading, Calls
  <2> QED BY <2>2, <2>3, <2>4 DEF SnapInv
<1>4. CASE ~Last
  <2>1. pc' = "stat" /\ level # Depth /\ level' = level + 1 /\ parent' = held /\ held \in Dirs
    BY <1>4 DEF CheckAt, Last, Fits
  <2>2. level' \in 1 .. Depth
    BY <1>2, <2>1, SnapshotAssumption
  <2>3. SnapTypeOK' /\ Whole'
    BY <1>1, <2>1, <2>2, WalkOnly
  <2>4. Pinned'
    BY <2>1, <2>2 DEF Pinned
  <2>5. ASSUME ~moved
        PROVE  Leads(Below, level, held)
    <3>1. Leads(Below, level - 1, parent)
      BY <1>1, <2>5 DEF SnapInv, Leading, Calls
    <3>2. level - 1 \in Nat /\ level - 1 < Depth /\ (level - 1) + 1 = level
      BY <1>2, <2>1, SnapshotAssumption
    <3>3. Below[parent] = held
      BY <1>1, <1>2, BelowRoot DEF SnapInv
    <3>4. Below[parent] \in Dirs => Leads(Below, (level - 1) + 1, Below[parent])
      BY <3>1, <3>2, LeadsOn
    <3> QED BY <2>1, <3>2, <3>3, <3>4
  <2>6. Leading'
    <3>1. level' - 1 = level
      BY <1>2, <2>1
    <3> QED BY <1>1, <2>1, <2>5, <3>1 DEF Leading
  <2> QED BY <2>3, <2>4, <2>6 DEF SnapInv
<1> QED BY <1>3, <1>4

-----------------------------------------------------------------------------
(* The copy                                                                *)

(* A step of the copy leaves the walk: so do the invariants of it.         *)
LEMMA CopyOnly ==
    ASSUME SnapInv, pc \in Calls \ {"stat", "open", "check"}, pc' \in {"copy", "extra", "after", "final"},
           UNCHANGED <<files, root, walk, found, under, moved>>
    PROVE  Pinned' /\ Leading' /\ held \in Files /\ held' = held
<1>1. UNCHANGED <<named, level, parent, held, found, moved>> /\ pc' \in Calls \ {"verify"} /\ Below' = Below
  BY DEF files, root, walk, Calls, Below
<1>2. Pinned' /\ held \in Files
  BY <1>1 DEF SnapInv, Pinned
<1>3. Leading'
  BY <1>1 DEF SnapInv, Leading, Calls
<1> QED BY <1>1, <1>2, <1>3

LEMMA InfoStep == SnapInv /\ Info => SnapInv'
<1> SUFFICES ASSUME SnapInv, Info PROVE SnapInv'
  OBVIOUS
<1>1. /\ pc = "info" /\ pc' = "copy" /\ UNCHANGED <<files, root, walk, found, under, moved>>
      /\ size' = Len(data[held]) /\ time' = mtime[held] /\ copy' = << >> /\ then' = data[held]
      /\ settled' = (mtime[held] < clock)
  BY DEF Info
<1>2. Pinned' /\ Leading' /\ held \in Files /\ held' = held
  BY <1>1, CopyOnly DEF Calls
<1>3. data[held] \in Seq(Blocks) /\ Len(data[held]) \in Nat /\ mtime[held] \in Nat
  BY <1>2, Readable DEF SnapInv
<1>4. UNCHANGED <<data, mtime, clock, named, bound, level>> /\ settled' \in BOOLEAN
  BY <1>1 DEF files, root, walk
<1>5. SnapTypeOK'
  <2>1. << >> \in Seq(Blocks)
    OBVIOUS
  <2> QED BY <1>1, <1>3, <1>4, <2>1 DEF SnapInv, SnapTypeOK, Calls
<1>6. Whole'
  <2>1. settled' => time' < clock'
    BY <1>1, <1>4, Zenon
  <2>2. Len(copy') = 0
    BY <1>1
  <2> QED BY <1>1, <1>2, <1>3, <1>4, <2>1, <2>2 DEF Whole
<1> QED BY <1>2, <1>5, <1>6 DEF SnapInv

(* A block more: while the file has not changed, it is the next one of     *)
(* what the file held.                                                     *)
LEMMA CopyStep == SnapInv /\ Copy => SnapInv'
<1> SUFFICES ASSUME SnapInv, Copy PROVE SnapInv'
  OBVIOUS
<1>1. /\ pc = "copy" /\ pc' \in {"copy", "extra"} /\ UNCHANGED <<files, root, walk, found, under, moved>>
      /\ UNCHANGED <<size, time, then, settled, data, mtime, clock, named, bound, level>>
  BY DEF Copy, history, files, root, walk
<1>2. Pinned' /\ Leading' /\ held \in Files /\ held' = held
  BY <1>1, CopyOnly DEF Calls
<1>3. data[held] \in Seq(Blocks) /\ Len(data[held]) \in Nat /\ copy \in Seq(Blocks) /\ size \in Nat
  BY <1>2, Readable DEF SnapInv, SnapTypeOK
<1>4. /\ size = Len(then) /\ Len(copy) <= size /\ (settled => time < clock)
      /\ settled /\ mtime[held] = time => data[held] = then /\ \A i \in 1 .. Len(copy) : copy[i] = then[i]
  BY <1>1 DEF SnapInv, Whole
<1>5. CASE Len(copy) = size
  <2>1. copy' = copy /\ pc' = "extra"
    BY <1>5 DEF Copy
  <2>2. SnapTypeOK'
    BY <1>1, <2>1 DEF SnapInv, SnapTypeOK, Calls
  <2>3. Whole'
    BY <1>1, <1>2, <1>4, <1>5, <2>1 DEF Whole
  <2> QED BY <1>2, <2>2, <2>3 DEF SnapInv
<1>6. CASE Len(copy) # size
  <2> DEFINE k == Len(copy) + 1
  <2>1. copy' = Append(copy, data[held][k]) /\ pc' = "copy" /\ Len(data[held]) > Len(copy)
    BY <1>1, <1>6 DEF Copy
  <2>2. k \in 1 .. Len(data[held]) /\ k <= size
    BY <1>3, <1>4, <1>6, <2>1
  <2>3. data[held][k] \in Blocks
    BY <1>3, <2>2
  <2>4. copy' \in Seq(Blocks) /\ Len(copy') = k /\ (\A i \in 1 .. Len(copy) : copy'[i] = copy[i])
        /\ copy'[k] = data[held][k]
    BY <1>3, <2>1, <2>3
  <2>5. SnapTypeOK'
    BY <1>1, <2>1, <2>4 DEF SnapInv, SnapTypeOK, Calls
  <2>6. ASSUME settled, mtime[held] = time, NEW i \in 1 .. Len(copy')
        PROVE  copy'[i] = then[i]
    <3>1. i \in 1 .. Len(copy) \/ i = k
      BY <1>3, <2>4
    <3> QED BY <1>4, <2>4, <2>6, <3>1
  <2>7. Whole'
    <3> HIDE DEF k
    <3> QED BY <1>1, <1>2, <1>4, <2>1, <2>2, <2>4, <2>6 DEF Whole
  <2> QED BY <1>2, <2>5, <2>7 DEF SnapInv
<1> QED BY <1>5, <1>6

LEMMA ExtraStep == SnapInv /\ Extra => SnapInv'
<1> SUFFICES ASSUME SnapInv, Extra PROVE SnapInv'
  OBVIOUS
<1>1. /\ pc = "extra" /\ pc' = "after" /\ UNCHANGED <<files, root, walk, found, under, moved>>
      /\ UNCHANGED <<size, time, copy, then, settled, data, mtime, clock, named, bound, level>>
  BY DEF Extra, history, files, root, walk, copied
<1>2. Pinned' /\ Leading' /\ held \in Files /\ held' = held
  BY <1>1, CopyOnly DEF Calls
<1>3. SnapTypeOK'
  BY <1>1 DEF SnapInv, SnapTypeOK, Calls
<1>4. Whole'
  BY <1>1, <1>2 DEF SnapInv, Whole
<1> QED BY <1>2, <1>3, <1>4 DEF SnapInv

(* The time is the one of beforeInfo, so a settled file has not changed,   *)
(* and the copy is as long as the file was.                                *)
LEMMA AfterStep == SnapInv /\ AfterInfo => SnapInv'
<1> SUFFICES ASSUME SnapInv, AfterInfo PROVE SnapInv'
  OBVIOUS
<1>1. /\ pc = "after" /\ pc' = "final" /\ mtime[held] = time /\ UNCHANGED <<files, root, walk, found, under, moved>>
      /\ UNCHANGED <<size, time, copy, then, settled, data, mtime, clock, named, bound, level>>
  BY DEF AfterInfo, history, files, root, walk, copied
<1>2. Pinned' /\ Leading' /\ held \in Files /\ held' = held
  BY <1>1, CopyOnly DEF Calls
<1>3. SnapTypeOK'
  BY <1>1 DEF SnapInv, SnapTypeOK, Calls
<1>4. ASSUME settled
      PROVE  copy = then
  <2>1. Len(copy) = Len(then) /\ \A i \in 1 .. Len(copy) : copy[i] = then[i]
    BY <1>1, <1>4 DEF SnapInv, Whole
  <2>2. copy \in Seq(Blocks) /\ then \in Seq(Blocks)
    BY DEF SnapInv, SnapTypeOK
  <2> QED BY <2>1, <2>2
<1>5. Whole'
  BY <1>1, <1>4 DEF Whole
<1> QED BY <1>2, <1>3, <1>5 DEF SnapInv

-----------------------------------------------------------------------------
(* The last look, and the end                                              *)
LEMMA FinalStep == SnapInv /\ FinalStat => SnapInv'
<1> SUFFICES ASSUME SnapInv, FinalStat PROVE SnapInv'
  OBVIOUS
<1>1. /\ pc = "final" /\ pc' = "verify" /\ named[parent] = held /\ found' = Prefixes(Below)[Depth]
      /\ UNCHANGED <<data, mtime, clock, bound, named, level, parent, held, moved>>
      /\ UNCHANGED <<size, time, copy, then, settled>> /\ Below' = Below
  BY DEF FinalStat, files, root, walk, copied, Below
<1>2. SnapTypeOK'
  BY <1>1 DEF SnapInv, SnapTypeOK, Calls
<1>3. Pinned' /\ level = Depth
  BY <1>1 DEF SnapInv, Pinned, Calls
<1>4. Whole'
  BY <1>1 DEF SnapInv, Whole
<1>5. ASSUME ~moved
      PROVE  Leads(Below, level - 1, parent) /\ Prefixes(Below)[Depth] = held
  <2>1. Leads(Below, level - 1, parent)
    BY <1>1, <1>5 DEF SnapInv, Leading, Calls
  <2>2. level - 1 \in Nat /\ level - 1 < Depth /\ (level - 1) + 1 = Depth
    BY <1>3, SnapshotAssumption
  <2>3. Prefixes(Below)[(level - 1) + 1] = Below[parent]
    BY <2>1, <2>2, LeadsOn
  <2>4. Below[parent] = named[parent]
    BY <1>1, BelowRoot DEF SnapInv, Pinned, Calls
  <2> QED BY <1>1, <2>1, <2>2, <2>3, <2>4
<1>6. Leading'
  BY <1>1, <1>5 DEF Leading
<1> QED BY <1>2, <1>3, <1>4, <1>6 DEF SnapInv

LEMMA DeliverStep == SnapInv /\ Deliver => SnapInv'
<1> SUFFICES ASSUME SnapInv, Deliver PROVE SnapInv'
  OBVIOUS
<1>1. /\ pc = "verify" /\ pc' = "delivered"
      /\ UNCHANGED <<data, mtime, clock, bound, named, level, parent, held, found, moved>>
      /\ UNCHANGED <<size, time, copy, then, settled>> /\ under' = bound
  BY DEF Deliver, Verified, files, root, walk, copied
<1>2. SnapTypeOK'
  BY <1>1 DEF SnapInv, SnapTypeOK
<1>3. Pinned' /\ Leading' /\ Whole'
  BY <1>1 DEF SnapInv, Pinned, Leading, Whole, Calls
<1> QED BY <1>2, <1>3 DEF SnapInv

LEMMA OverStep == SnapInv /\ Over /\ UNCHANGED <<files, root>> => SnapInv'
<1> SUFFICES ASSUME SnapInv, Over, UNCHANGED <<files, root>> PROVE SnapInv'
  OBVIOUS
<1>1. SnapTypeOK'
  <2>1. << >> \in Seq(Blocks) /\ 0 \in 0 .. Depth
    BY SnapshotAssumption
  <2> QED BY <2>1, Zenon DEF SnapInv, SnapTypeOK, Over, files, root
<1>2. Pinned' /\ Leading' /\ Whole'
  BY DEF Over, Pinned, Leading, Whole, Calls
<1> QED BY <1>1, <1>2 DEF SnapInv

LEMMA SnapStepInv == SnapInv /\ [Next]_vars => SnapInv'
<1> SUFFICES ASSUME SnapInv, [Next]_vars PROVE SnapInv'
  OBVIOUS
<1>1. CASE Refuse \/ CloseSnapshot
  BY <1>1, OverStep DEF Refuse, CloseSnapshot
<1>2. CASE UNCHANGED vars
  <2>1. SnapTypeOK'
    BY <1>2 DEF SnapInv, SnapTypeOK, vars, files, root, walk, copied, history
  <2>2. Pinned' /\ Leading' /\ Whole'
    BY <1>2 DEF SnapInv, Pinned, Leading, Whole, Below, vars, files, root, walk, copied, history
  <2> QED BY <2>1, <2>2 DEF SnapInv
<1> QED
  BY <1>1, <1>2, TickStep, WriteStep, ReplaceStep, BindStep, BeginStep, StatOpenStep, CheckStep,
     InfoStep, CopyStep, ExtraStep, AfterStep, FinalStep, DeliverStep, CloseRootStep DEF Next

LEMMA SnapInvariant == Spec => []SnapInv
BY SnapInitInv, SnapStepInv, PTL DEF Spec

(* PinnedRoot.Snapshot never delivers a mixture of two states of a file    *)
(* whose last write was past when beforeInfo was read.                     *)
THEOREM SnapshotIsWhole == Spec => []SettledIsWhole
<1>1. SnapInv => SettledIsWhole
  BY DEF SnapInv, Whole, SettledIsWhole
<1> QED BY <1>1, SnapInvariant, PTL

(* PinnedRoot.Snapshot, on a path of any depth: the root's path names the  *)
(* bound directory when the copy is delivered, however often the root was  *)
(* replaced during the call, and unless a directory below it was moved     *)
(* meanwhile, the file copied is the one the path named when Snapshot last *)
(* looked, although every component was opened on its own.                 *)
THEOREM SnapshotIsOfThePath == Spec => []DeliveredIsNamed
<1>1. SnapInv => DeliveredIsNamed
  BY DEF SnapInv, Leading, DeliveredIsNamed
<1> QED BY <1>1, SnapInvariant, PTL
=============================================================================
