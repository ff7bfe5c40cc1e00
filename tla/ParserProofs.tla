----------------------------- MODULE ParserProofs -----------------------------
(***************************************************************************)
(* What the parsers make of a source, for files and contents of any length *)
(* and every choice of the lengths that splitContent uses.                 *)
(***************************************************************************)
EXTENDS PairedTurns, ContentSplit, TLAPS

-----------------------------------------------------------------------------
(* splitContent.                                                           *)

Emitted == parts[Len(parts)]

(* Where the loop stands: start lies in the overlap with the last part.    *)
Position ==
    ~done => /\ parts = << >> => start = 0
             /\ parts # << >> =>
                   /\ Emitted.to - ChunkOverlap =< start /\ start =< Emitted.to
                   /\ Len(content) > MaxChunkContentLength
                   /\ ReturnsAtEnd => Emitted.to < Len(content)

SplitInv == SplitTypeOK /\ PartsCover /\ (ReturnsAtEnd => Ascends) /\ Position

-----------------------------------------------------------------------------
(* No parts yet are a sequence of parts.                                   *)
LEMMA EmptyIsSequence == ASSUME NEW S PROVE << >> \in Seq(S)
  OBVIOUS

(* The last of a sequence is one of its elements.                          *)
LEMMA LastIsMember == ASSUME NEW S, NEW s \in Seq(S), s # << >> PROVE s[Len(s)] \in S
  OBVIOUS

(* Wherever a window is cut, its part is not empty, does not leave the     *)
(* window, and is longer than the overlap plus what was searched.          *)
LEMMA PartEndBounds ==
    ASSUME SplitTypeOK, NEW to \in PartEnd(start + MaxChunkContentLength)
    PROVE  /\ to \in Nat /\ to > start /\ to =< start + MaxChunkContentLength
           /\ to > start + ChunkOverlap \/ to = start + MaxChunkContentLength
  <1> DEFINE w == start + MaxChunkContentLength
             f == Larger(start, w - SearchRegion)
  <1>1. start \in Nat /\ w \in Nat /\ f \in Nat /\ f >= start /\ f >= w - SearchRegion
    BY SplitAssumption DEF SplitTypeOK, Larger
  <1>2. CASE Paragraphs(f, w) # {}
    <2>1. PICK p \in Paragraphs(f, w) : to = p + 2
      BY <1>2 DEF PartEnd, LastOf
    <2>2. p \in Int /\ p >= f + 1 /\ p =< w - 2
      BY <2>1, <1>1 DEF Paragraphs
    <2> QED BY <2>1, <2>2, <1>1, SplitAssumption
  <1>3. CASE Paragraphs(f, w) = {} /\ Sentences(f, w) # {}
    <2>1. PICK p \in Sentences(f, w) : to = p + 1
      BY <1>3 DEF PartEnd, LastOf
    <2>2. p \in Int /\ p >= f + 1 /\ p =< w - 1
      BY <2>1, <1>1 DEF Sentences
    <2> QED BY <2>1, <2>2, <1>1, SplitAssumption
  <1>4. CASE Paragraphs(f, w) = {} /\ Sentences(f, w) = {}
    <2>1. to = w
      BY <1>4 DEF PartEnd
    <2> QED BY <2>1, <1>1, SplitAssumption
  <1> QED BY <1>2, <1>3, <1>4

(* A part that continues the ones before keeps what holds of them.         *)
LEMMA EmitKeeps ==
    ASSUME SplitInv, ~done, NEW to \in Nat, start =< to, to =< Len(content),
           to - start =< MaxChunkContentLength,
           ReturnsAtEnd /\ parts # << >> => to > Emitted.to,
           Emit(to), UNCHANGED content
    PROVE  /\ parts' \in Seq([from : Nat, to : Nat]) /\ Len(parts') = Len(parts) + 1
           /\ Emitted'.to = to
           /\ \A k \in 1 .. Len(parts') :
                 /\ parts'[k].from =< parts'[k].to /\ parts'[k].to =< Len(content')
                 /\ parts'[k].to - parts'[k].from =< MaxChunkContentLength
                 /\ parts'[k].from =< IF k = 1 THEN 0 ELSE parts'[k - 1].to
           /\ ReturnsAtEnd => Ascends'
  <1> DEFINE r == [from |-> start, to |-> to]
  <1>1. parts \in Seq([from : Nat, to : Nat]) /\ r \in [from : Nat, to : Nat] /\ parts' = Append(parts, r)
    BY DEF SplitInv, SplitTypeOK, Emit
  <1>2. /\ parts' \in Seq([from : Nat, to : Nat]) /\ Len(parts') = Len(parts) + 1 /\ Len(parts) \in Nat
        /\ parts'[Len(parts) + 1] = r
    BY <1>1
  <1>n. Len(parts) \in Nat
    BY <1>2
  <1>a. ASSUME NEW k \in 1 .. Len(parts) PROVE parts'[k] = parts[k]
    BY <1>1
  <1>3. Emitted'.to = to
    BY <1>2 DEF Emitted
  <1>4. ASSUME NEW k \in 1 .. Len(parts')
        PROVE  /\ parts'[k].from =< parts'[k].to /\ parts'[k].to =< Len(content')
               /\ parts'[k].to - parts'[k].from =< MaxChunkContentLength
               /\ parts'[k].from =< IF k = 1 THEN 0 ELSE parts'[k - 1].to
    <2>1. CASE k \in 1 .. Len(parts)
      <3>1. parts'[k] = parts[k]
        BY <2>1, <1>a
      <3>2. k # 1 => parts'[k - 1] = parts[k - 1]
        <4>1. k # 1 => k - 1 \in 1 .. Len(parts)
          BY <2>1, <1>n
        <4> QED BY <4>1, <1>a
      <3> QED BY <3>1, <3>2, <2>1 DEF SplitInv, PartsCover
    <2>2. CASE k = Len(parts) + 1
      <3>1. k # 1 => parts # << >> /\ parts'[k - 1] = Emitted /\ start =< Emitted.to
        <4>1. k # 1 => k - 1 = Len(parts) /\ Len(parts) \in 1 .. Len(parts)
          BY <2>2, <1>2
        <4>2. k # 1 => parts # << >>
          BY <4>1
        <4>3. k # 1 => parts'[k - 1] = Emitted
          BY <4>1, <1>a DEF Emitted
        <4> QED BY <4>2, <4>3 DEF SplitInv, Position
      <3>2. k = 1 => start = 0
        <4>1. k = 1 => parts = << >>
          BY <2>2, <1>1
        <4> QED BY <4>1 DEF SplitInv, Position
      <3> QED BY <3>1, <3>2, <2>2, <1>2
    <2> QED BY <2>1, <2>2, <1>2
  <1>5. ASSUME ReturnsAtEnd PROVE Ascends'
    <2>1. ASSUME NEW k \in 2 .. Len(parts') PROVE parts'[k].to > parts'[k - 1].to
      <3>1. CASE k \in 2 .. Len(parts)
        <4>1. k \in 1 .. Len(parts) /\ k - 1 \in 1 .. Len(parts)
          BY <3>1, <1>2
        <4>2. parts'[k] = parts[k] /\ parts'[k - 1] = parts[k - 1]
          BY <4>1, <1>a
        <4> QED BY <4>2, <3>1, <1>5 DEF SplitInv, Ascends
      <3>2. CASE k = Len(parts) + 1
        <4>1. k - 1 = Len(parts) /\ Len(parts) \in 1 .. Len(parts)
          BY <3>2, <2>1, <1>2
        <4>2. parts'[k - 1] = Emitted /\ parts # << >>
          BY <4>1, <1>a DEF Emitted
        <4> QED BY <4>2, <3>2, <1>2, <1>5
      <3> QED BY <3>1, <3>2, <2>1, <1>2
    <2> QED BY <2>1 DEF Ascends
  <1> QED BY <1>2, <1>3, <1>4, <1>5

(* A content has a length.                                                 *)
LEMMA ContentLength == SplitTypeOK => Len(content) \in Nat
  BY SplitAssumption DEF SplitTypeOK

(* The invariant holds before the loop ...                                 *)
LEMMA InitSplitInv == SplitInit => SplitInv
  <1> SUFFICES ASSUME SplitInit PROVE SplitInv
    OBVIOUS
  <1>1. content \in Contents /\ start = 0 /\ parts = << >> /\ done = FALSE /\ Len(parts) = 0
    BY DEF SplitInit
  <1>2. SplitTypeOK
    <2>1. parts \in Seq([from : Nat, to : Nat])
      BY <1>1, EmptyIsSequence
    <2> QED BY <1>1, <2>1, Zenon DEF SplitTypeOK
  <1>3. PartsCover /\ Ascends
    BY <1>1 DEF PartsCover, Ascends
  <1>4. Position
    BY <1>1 DEF Position
  <1> QED BY <1>2, <1>3, <1>4 DEF SplitInv

(* ... and every way of going round it keeps it.                           *)
LEMMA StepSplitInv == SplitInv /\ [SplitNext]_splitVars => SplitInv'
  <1> SUFFICES ASSUME SplitInv, [SplitNext]_splitVars PROVE SplitInv'
    OBVIOUS
  <1>t. SplitTypeOK /\ start \in Nat /\ Len(content) \in Nat
    BY ContentLength DEF SplitInv, SplitTypeOK
  <1>0. MaxChunkContentLength \in Nat /\ ChunkOverlap \in Nat /\ MaxChunkContentLength > ChunkOverlap
    BY SplitAssumption
  <1>r. ReturnsAtEnd' = ReturnsAtEnd
    BY DEF SplitNext, splitVars, Whole, Part, LastPart, TailPart, Leave, ReturnsAtEnd
  <1>p. parts # << >> /\ ~done =>
           /\ Emitted.to \in Nat /\ Emitted.to - ChunkOverlap =< start /\ start =< Emitted.to
           /\ Len(content) > MaxChunkContentLength /\ (ReturnsAtEnd => Emitted.to < Len(content))
    <2>1. parts # << >> => Emitted \in [from : Nat, to : Nat]
      <3>1. parts # << >> => Len(parts) \in 1 .. Len(parts)
        BY <1>t DEF SplitTypeOK
      <3> QED BY <3>1, <1>t, LastIsMember, Zenon DEF SplitTypeOK, Emitted
    <2>2. parts # << >> => Emitted.to \in Nat
      BY <2>1
    <2> QED BY <2>2, Zenon DEF SplitInv, Position
  <1>1. CASE Whole
    <2>1. start = 0 /\ UNCHANGED <<content, start>> /\ done' /\ ~done /\ Emit(Len(content))
      BY <1>1 DEF Whole, SplitInv, Position
    <2>2. /\ parts' \in Seq([from : Nat, to : Nat]) /\ Len(parts') = Len(parts) + 1
          /\ Emitted'.to = Len(content) /\ PartsCover' /\ (ReturnsAtEnd => Ascends')
      <3>1. parts = << >> /\ Len(content) =< MaxChunkContentLength
        BY <1>1 DEF Whole
      <3>2. /\ parts' \in Seq([from : Nat, to : Nat]) /\ Len(parts') = Len(parts) + 1
            /\ Emitted'.to = Len(content) /\ (ReturnsAtEnd => Ascends')
            /\ \A k \in 1 .. Len(parts') :
                  /\ parts'[k].from =< parts'[k].to /\ parts'[k].to =< Len(content')
                  /\ parts'[k].to - parts'[k].from =< MaxChunkContentLength
                  /\ parts'[k].from =< IF k = 1 THEN 0 ELSE parts'[k - 1].to
        BY <2>1, <3>1, <1>t, EmitKeeps
      <3> QED BY <3>2, <2>1, <1>t DEF PartsCover, Emitted, SplitTypeOK
    <2> QED BY <2>1, <2>2, <1>t, <1>r DEF SplitInv, SplitTypeOK, Position
  <1>2. CASE Part
    <2>1. PICK to \in PartEnd(start + MaxChunkContentLength) : Emit(to) /\ Advance(to)
      BY <1>2 DEF Part
    <2>2. /\ ~done /\ ~done' /\ UNCHANGED content /\ start + MaxChunkContentLength < Len(content)
          /\ Len(content) > MaxChunkContentLength
      BY <1>2 DEF Part, Splits
    <2>3. /\ to \in Nat /\ to > start /\ to =< start + MaxChunkContentLength
          /\ to > start + ChunkOverlap \/ to = start + MaxChunkContentLength
      BY <1>t, PartEndBounds
    <2>4. parts # << >> => to > Emitted.to
      BY <2>2, <2>3, <1>p, <1>t, <1>0
    <2>5. /\ parts' \in Seq([from : Nat, to : Nat]) /\ Len(parts') = Len(parts) + 1
          /\ Emitted'.to = to /\ (ReturnsAtEnd => Ascends')
          /\ \A k \in 1 .. Len(parts') :
                /\ parts'[k].from =< parts'[k].to /\ parts'[k].to =< Len(content')
                /\ parts'[k].to - parts'[k].from =< MaxChunkContentLength
                /\ parts'[k].from =< IF k = 1 THEN 0 ELSE parts'[k - 1].to
      BY <2>1, <2>2, <2>3, <2>4, <1>t, <1>0, EmitKeeps
    <2>6. start' \in Nat /\ to - ChunkOverlap =< start' /\ start' =< to
      BY <2>1, <2>3, <1>t, <1>0 DEF Advance, Larger
    <2>7. parts' # << >>
      BY <2>5, <1>t DEF SplitTypeOK
    <2>8. Position'
      BY <2>2, <2>3, <2>5, <2>6, <2>7, <1>t, <1>0, <1>r DEF Position
    <2>9. SplitTypeOK'
      <3>1. done' \in BOOLEAN
        BY <1>2, <1>t DEF Part, SplitTypeOK
      <3> QED BY <3>1, <2>2, <2>5, <2>6, <1>t DEF SplitTypeOK
    <2> QED BY <2>2, <2>5, <2>8, <2>9, <1>r DEF SplitInv, PartsCover
  <1>3. CASE LastPart \/ TailPart
    <2>1. /\ ~done /\ UNCHANGED content /\ start + MaxChunkContentLength >= Len(content) /\ start < Len(content)
          /\ Emit(Len(content)) /\ Len(content) > MaxChunkContentLength
      BY <1>3 DEF LastPart, TailPart, Splits
    <2>2. /\ parts' \in Seq([from : Nat, to : Nat]) /\ Len(parts') = Len(parts) + 1
          /\ Emitted'.to = Len(content) /\ (ReturnsAtEnd => Ascends')
          /\ \A k \in 1 .. Len(parts') :
                /\ parts'[k].from =< parts'[k].to /\ parts'[k].to =< Len(content')
                /\ parts'[k].to - parts'[k].from =< MaxChunkContentLength
                /\ parts'[k].from =< IF k = 1 THEN 0 ELSE parts'[k - 1].to
      <3>1. Len(content) - start =< MaxChunkContentLength /\ start =< Len(content)
        BY <2>1, <1>t, <1>0
      <3>2. ReturnsAtEnd /\ parts # << >> => Len(content) > Emitted.to
        BY <2>1, <1>p, <1>t
      <3>3. PICK to \in Nat : to = Len(content)
        BY <1>t
      <3>4. /\ parts' \in Seq([from : Nat, to : Nat]) /\ Len(parts') = Len(parts) + 1
            /\ Emitted'.to = to
            /\ \A k \in 1 .. Len(parts') :
                  /\ parts'[k].from =< parts'[k].to /\ parts'[k].to =< Len(content')
                  /\ parts'[k].to - parts'[k].from =< MaxChunkContentLength
                  /\ parts'[k].from =< IF k = 1 THEN 0 ELSE parts'[k - 1].to
            /\ ReturnsAtEnd => Ascends'
        <4>1. /\ ~done /\ start =< to /\ to =< Len(content) /\ to - start =< MaxChunkContentLength
              /\ Emit(to) /\ UNCHANGED content
          BY <3>1, <3>3, <2>1, <1>t
        <4>2. ReturnsAtEnd /\ parts # << >> => to > Emitted.to
          BY <3>2, <3>3
        <4> QED BY <4>1, <4>2, EmitKeeps, Zenon
      <3> QED BY <3>3, <3>4, Zenon
    <2>3. parts' # << >>
      BY <2>2, <1>t DEF SplitTypeOK
    <2>4. PartsCover'
      BY <2>1, <2>2, <2>3, Zenon DEF PartsCover, Emitted
    <2>5. done' \in BOOLEAN
      BY <1>3, Zenon DEF LastPart, TailPart, SplitInv, SplitTypeOK
    <2>6. start' \in Nat /\ (~done' => Len(content) - ChunkOverlap =< start' /\ start' =< Len(content) /\ ~ReturnsAtEnd)
      BY <1>3, <2>1, <1>t, <1>0 DEF LastPart, TailPart, Advance, Larger
    <2>7. Position'
      BY <2>1, <2>2, <2>3, <2>6, <1>t, <1>r DEF Position
    <2>8. SplitTypeOK'
      BY <2>1, <2>2, <2>5, <2>6, <1>t DEF SplitTypeOK
    <2> QED BY <2>2, <2>4, <2>7, <2>8, <1>r DEF SplitInv
  <1>4. CASE Leave
    <2>1. ~done /\ done' /\ UNCHANGED <<content, start, parts>> /\ start >= Len(content) /\ Len(content) > MaxChunkContentLength
      BY <1>4 DEF Leave
    <2>2. parts # << >>
      BY <2>1, <1>t, <1>0 DEF SplitInv, Position
    <2>3. Emitted.to = Len(content)
      <3>1. Len(parts) \in 1 .. Len(parts)
        BY <2>2, <1>t DEF SplitTypeOK
      <3>2. Emitted.to =< Len(content)
        BY <3>1 DEF SplitInv, PartsCover, Emitted
      <3> QED BY <3>2, <2>1, <2>2, <1>p, <1>t
    <2>4. PartsCover' /\ (ReturnsAtEnd => Ascends')
      BY <2>1, <2>2, <2>3 DEF SplitInv, PartsCover, Ascends, Emitted
    <2>5. SplitTypeOK' /\ Position'
      BY <2>1 DEF SplitInv, SplitTypeOK, Position
    <2> QED BY <2>4, <2>5, <1>r DEF SplitInv
  <1>5. CASE UNCHANGED splitVars
    BY <1>5, <1>r DEF splitVars, SplitInv, SplitTypeOK, PartsCover, Ascends, Position, Emitted
  <1> QED BY <1>1, <1>2, <1>3, <1>4, <1>5 DEF SplitNext

-----------------------------------------------------------------------------
(* In every parser the parts are in order, without a gap, within the       *)
(* limit, and reach the end of the content when splitContent returns.      *)
THEOREM NothingIsLost == SplitSpec => []PartsCover
  <1>1. SplitInv => PartsCover
    BY DEF SplitInv
  <1> QED BY <1>1, InitSplitInv, StepSplitInv, PTL DEF SplitSpec

(* In Claude's variant no part only repeats what the one before it has.    *)
THEOREM NoPartRepeats == SplitSpec => []PartsAdvance
  <1>1. SplitInv => PartsAdvance
    BY DEF SplitInv, PartsAdvance
  <1> QED BY <1>1, InitSplitInv, StepSplitInv, PTL DEF SplitSpec

-----------------------------------------------------------------------------
(* The parsers that pair a user's entry with the answer after it.          *)

PairedTypeOK ==
    /\ format \in Formats \cap PairedFormats /\ entries \in Seq(PairedEntry) /\ pending \in 0 .. Len(entries)

(* What pending stands for: the last entry the pairing sees is a user's,   *)
(* and it is this one.                                                     *)
Waiting ==
    /\ pending # 0 => /\ Seen(pending) /\ entries[pending].kind = "user"
                      /\ \A k \in (pending + 1) .. Len(entries) : ~Seen(k)
    /\ \A u \in 1 .. Len(entries) :
          /\ Seen(u) /\ entries[u].kind = "user" /\ u # pending
          => \E k \in (u + 1) .. Len(entries) : Seen(k)

PairedInv == PairedTypeOK /\ Waiting /\ TurnsExact /\ FilesKept

-----------------------------------------------------------------------------
(* Reading one more entry changes nothing about the entries before it.     *)
LEMMA ReadsKeeps ==
    ASSUME PairedTypeOK, NEW e \in PairedEntry, Reads(e)
    PROVE  /\ entries' \in Seq(PairedEntry) /\ Len(entries) \in Nat /\ Len(entries') = Len(entries) + 1
           /\ Here = Len(entries) + 1 /\ entries'[Here] = e /\ format' = format
           /\ \A i \in 1 .. Len(entries) : entries'[i] = entries[i]
  BY DEF PairedTypeOK, Reads, Here

(* What is seen of the longer file.                                        *)
LEMMA SeenKeeps ==
    ASSUME PairedTypeOK, NEW e \in PairedEntry, Reads(e), NEW h \in Nat, h = Here
    PROVE  /\ \A i \in 1 .. Len(entries) : Seen(i)' <=> Seen(i)
           /\ Seen(h)' <=> e.kind \in {"user", "assistant", "tool", "conversation"} /\ ~Skipped(e)
           /\ Answers(entries[h])' <=> Answers(e)
           /\ \A i \in 1 .. Len(entries) : Answers(entries[i])' <=> Answers(entries[i])
  <1>1. /\ h = Len(entries) + 1 /\ entries'[h] = e /\ format' = format
        /\ \A i \in 1 .. Len(entries) : entries'[i] = entries[i]
    BY ReadsKeeps
  <1>2. ASSUME NEW i \in 1 .. Len(entries)
        PROVE  (Seen(i)' <=> Seen(i)) /\ (Answers(entries[i])' <=> Answers(entries[i]))
    BY <1>1 DEF Seen, Answers, Skipped, Export
  <1>3. Seen(h)' <=> e.kind \in {"user", "assistant", "tool", "conversation"} /\ ~Skipped(e)
    BY <1>1 DEF Seen, Skipped, Export
  <1>4. Answers(entries[h])' <=> Answers(e)
    BY <1>1 DEF Answers, Skipped, Export
  <1> QED BY <1>2, <1>3, <1>4

(* The pairs of the longer file: the old ones, and the pending message     *)
(* with the new entry when that is an answer.                              *)
LEMMA NeighboursKeeps ==
    ASSUME PairedTypeOK, Waiting, NEW e \in PairedEntry, Reads(e), NEW h \in Nat, h = Here
    PROVE  /\ \A u, a \in 1 .. Len(entries) : Neighbours(u, a)' <=> Neighbours(u, a)
           /\ \A u \in 1 .. h : Neighbours(u, h)' <=> Answers(e) /\ pending # 0 /\ u = pending
           /\ \A a \in 1 .. h : ~Neighbours(h, a)'
  <1>1. /\ h = Len(entries) + 1 /\ entries'[h] = e /\ Len(entries) \in Nat
        /\ \A i \in 1 .. Len(entries) : entries'[i] = entries[i]
    BY ReadsKeeps
  <1>2. /\ \A i \in 1 .. Len(entries) : Seen(i)' <=> Seen(i)
        /\ Seen(h)' <=> e.kind \in {"user", "assistant", "tool", "conversation"} /\ ~Skipped(e)
        /\ Answers(entries[h])' <=> Answers(e)
        /\ \A i \in 1 .. Len(entries) : Answers(entries[i])' <=> Answers(entries[i])
    BY SeenKeeps
  <1>3. ASSUME NEW u \in 1 .. Len(entries), NEW a \in 1 .. Len(entries)
        PROVE  Neighbours(u, a)' <=> Neighbours(u, a)
    <2>1. \A k \in (u + 1) .. (a - 1) : k \in 1 .. Len(entries)
      BY <1>1
    <2>2. (\A k \in (u + 1) .. (a - 1) : ~Seen(k))' <=> \A k \in (u + 1) .. (a - 1) : ~Seen(k)
      BY <2>1, <1>2
    <2> QED BY <2>2, <1>1, <1>2 DEF Neighbours
  <1>4. ASSUME NEW u \in 1 .. h
        PROVE  Neighbours(u, h)' <=> Answers(e) /\ pending # 0 /\ u = pending
    <2>1. ASSUME Neighbours(u, h)' PROVE Answers(e) /\ pending # 0 /\ u = pending
      <3>1. /\ u \in 1 .. Len(entries) /\ Seen(u)' /\ entries'[u].kind = "user" /\ Answers(entries[h])'
            /\ \A k \in (u + 1) .. (h - 1) : ~Seen(k)'
        BY <2>1, <1>1 DEF Neighbours
      <3>2. Seen(u) /\ entries[u].kind = "user" /\ \A k \in (u + 1) .. Len(entries) : ~Seen(k)
        BY <3>1, <1>1, <1>2
      <3> QED BY <3>1, <3>2, <1>2 DEF Waiting
    <2>2. ASSUME Answers(e), pending # 0, u = pending PROVE Neighbours(u, h)'
      <3>1. u \in 1 .. Len(entries) /\ u < h
        BY <2>2, <1>1 DEF PairedTypeOK
      <3>2. Seen(u) /\ entries[u].kind = "user" /\ \A k \in (u + 1) .. Len(entries) : ~Seen(k)
        BY <2>2 DEF Waiting
      <3>3. Seen(u)' /\ entries'[u].kind = "user" /\ \A k \in (u + 1) .. (h - 1) : ~Seen(k)'
        BY <3>1, <3>2, <1>1, <1>2
      <3>4. Seen(h)' /\ Answers(entries[h])'
        BY <2>2, <1>2 DEF Answers
      <3> QED BY <3>1, <3>3, <3>4 DEF Neighbours
    <2> QED BY <2>1, <2>2
  <1>5. ASSUME NEW a \in 1 .. h PROVE ~Neighbours(h, a)'
    BY <1>1 DEF Neighbours
  <1> QED BY <1>3, <1>4, <1>5

(* So the turns stay exact when just that pair is added, ...               *)
LEMMA TurnsGrow ==
    ASSUME PairedInv, NEW e \in PairedEntry, Reads(e),
           turns' = turns \cup (IF Answers(e) /\ pending # 0 /\ HasTurn(e)
                                THEN {[user |-> pending, answer |-> Here]} ELSE {})
    PROVE  TurnsExact'
  <1>1. PICK h \in Nat : h = Here
    BY DEF PairedInv, PairedTypeOK, Here
  <1>2. /\ h = Len(entries) + 1 /\ entries'[h] = e /\ Len(entries) \in Nat /\ Len(entries') = h
        /\ \A i \in 1 .. Len(entries) : entries'[i] = entries[i]
    BY <1>1, ReadsKeeps DEF PairedInv
  <1>3. /\ \A u, a \in 1 .. Len(entries) : Neighbours(u, a)' <=> Neighbours(u, a)
        /\ \A u \in 1 .. h : Neighbours(u, h)' <=> Answers(e) /\ pending # 0 /\ u = pending
        /\ \A a \in 1 .. h : ~Neighbours(h, a)'
    BY <1>1, NeighboursKeeps DEF PairedInv
  <1>4. pending # 0 => pending \in 1 .. Len(entries)
    BY <1>2 DEF PairedInv, PairedTypeOK
  <1> DEFINE Says(u, a) == ~(entries'[u].blank /\ entries'[a].blank)
             Now == [user : 1 .. h, answer : 1 .. h]
  <1>5. ASSUME NEW t \in Now, Neighbours(t.user, t.answer)', Says(t.user, t.answer)
        PROVE  t \in turns'
    <2>1. t.user \in 1 .. h /\ t.answer \in 1 .. h /\ t = [user |-> t.user, answer |-> t.answer]
      OBVIOUS
    <2>2. t.user \in 1 .. Len(entries)
      BY <2>1, <1>2, <1>3, <1>5
    <2>3. CASE t.answer = h
      BY <2>1, <2>2, <2>3, <1>1, <1>2, <1>3, <1>5 DEF HasTurn
    <2>4. CASE t.answer # h
      <3>1. t.answer \in 1 .. Len(entries)
        BY <2>1, <2>4, <1>2
      <3>2. Neighbours(t.user, t.answer) /\ ~(entries[t.user].blank /\ entries[t.answer].blank)
        BY <3>1, <2>2, <1>2, <1>3, <1>5
      <3>3. t \in [user : 1 .. Len(entries), answer : 1 .. Len(entries)]
        BY <2>1, <2>2, <3>1
      <3> QED BY <3>2, <3>3 DEF PairedInv, TurnsExact
    <2> QED BY <2>3, <2>4
  <1>6. ASSUME NEW t \in turns'
        PROVE  t \in Now /\ Neighbours(t.user, t.answer)' /\ Says(t.user, t.answer)
    <2>1. CASE t \in turns
      <3>1. /\ t \in [user : 1 .. Len(entries), answer : 1 .. Len(entries)]
            /\ Neighbours(t.user, t.answer) /\ ~(entries[t.user].blank /\ entries[t.answer].blank)
        BY <2>1 DEF PairedInv, TurnsExact
      <3>2. t.user \in 1 .. Len(entries) /\ t.answer \in 1 .. Len(entries)
        BY <3>1
      <3>3. t \in Now
        BY <3>1, <1>2
      <3> QED BY <3>1, <3>2, <3>3, <1>2, <1>3
    <2>2. CASE t \notin turns
      <3>1. Answers(e) /\ pending # 0 /\ HasTurn(e) /\ t = [user |-> pending, answer |-> h]
        BY <2>2, <1>1
      <3>2. t.user = pending /\ t.answer = h /\ pending \in 1 .. Len(entries) /\ t \in Now
        BY <3>1, <1>2, <1>4
      <3>3. Neighbours(t.user, t.answer)'
        BY <3>1, <3>2, <1>2, <1>3
      <3> QED BY <3>1, <3>2, <3>3, <1>2 DEF HasTurn
    <2> QED BY <2>1, <2>2
  <1>7. turns' = {t \in Now : Neighbours(t.user, t.answer)' /\ Says(t.user, t.answer)}
    BY <1>5, <1>6
  <1> QED BY <1>7, <1>2 DEF TurnsExact

(* ... and pending keeps its meaning when it follows what is seen.         *)
LEMMA WaitingGrows ==
    ASSUME PairedInv, NEW e \in PairedEntry, Reads(e),
           NEW seen \in BOOLEAN,
           seen <=> e.kind \in {"user", "assistant", "tool", "conversation"} /\ ~Skipped(e),
           pending' = IF seen THEN (IF e.kind = "user" THEN Here ELSE 0) ELSE pending
    PROVE  PairedTypeOK' /\ Waiting'
  <1>1. PICK h \in Nat : h = Here
    BY DEF PairedInv, PairedTypeOK, Here
  <1>2. /\ h = Len(entries) + 1 /\ entries'[h] = e /\ Len(entries) \in Nat /\ Len(entries') = h
        /\ entries' \in Seq(PairedEntry) /\ format' = format
        /\ \A i \in 1 .. Len(entries) : entries'[i] = entries[i]
    BY <1>1, ReadsKeeps DEF PairedInv
  <1>3. (\A i \in 1 .. Len(entries) : Seen(i)' <=> Seen(i)) /\ (Seen(h)' <=> seen)
    BY <1>1, SeenKeeps DEF PairedInv
  <1>4. pending \in 0 .. Len(entries)
    BY DEF PairedInv, PairedTypeOK
  <1>5. PairedTypeOK'
    BY <1>1, <1>2, <1>4 DEF PairedInv, PairedTypeOK
  <1>6. ASSUME pending' # 0
        PROVE  /\ Seen(pending)' /\ entries'[pending'].kind = "user"
               /\ \A k \in (pending' + 1) .. Len(entries') : ~Seen(k)'
    <2>1. CASE seen
      <3>1. pending' = h /\ e.kind = "user"
        BY <2>1, <1>6, <1>1
      <3>2. Seen(pending)'
        BY <3>1, <2>1, <1>3 DEF Seen
      <3> QED BY <3>1, <3>2, <1>2
    <2>2. CASE ~seen
      <3>1. pending' = pending /\ pending \in 1 .. Len(entries)
        BY <2>2, <1>4, <1>6, <1>2
      <3>2. Seen(pending) /\ entries[pending].kind = "user" /\ \A k \in (pending + 1) .. Len(entries) : ~Seen(k)
        BY <3>1, <1>6 DEF PairedInv, Waiting
      <3>3. Seen(pending)'
        <4>1. PICK q \in 1 .. Len(entries) : q = pending
          BY <3>1
        <4>2. Seen(q)'
          BY <4>1, <3>2, <1>3
        <4> QED BY <4>1, <4>2, <3>1 DEF Seen
      <3>4. \A k \in (pending' + 1) .. Len(entries') : ~Seen(k)'
        BY <3>1, <3>2, <2>2, <1>2, <1>3
      <3> QED BY <3>1, <3>2, <3>3, <3>4, <1>2
    <2> QED BY <2>1, <2>2
  <1>7. ASSUME NEW u \in 1 .. Len(entries'), Seen(u)', entries'[u].kind = "user", u # pending'
        PROVE  \E k \in (u + 1) .. Len(entries') : Seen(k)'
    <2>1. CASE u = h
      BY <2>1, <1>1, <1>2, <1>3, <1>7
    <2>2. CASE u # h /\ seen
      BY <2>2, <1>2, <1>3
    <2>3. CASE u # h /\ ~seen
      <3>1. u \in 1 .. Len(entries) /\ Seen(u) /\ entries[u].kind = "user" /\ u # pending
        BY <2>3, <1>2, <1>3, <1>7
      <3>2. PICK k \in (u + 1) .. Len(entries) : Seen(k)
        BY <3>1 DEF PairedInv, Waiting
      <3> QED BY <3>1, <3>2, <1>2, <1>3
    <2> QED BY <2>1, <2>2, <2>3
  <1>8. Waiting'
    BY <1>6, <1>7 DEF Waiting
  <1> QED BY <1>5, <1>8

(* File changes stay with their entries when those of the new entry are    *)
(* added below the turn it makes.                                          *)
LEMMA FilesGrow ==
    ASSUME PairedInv, NEW e \in PairedEntry, Reads(e), NEW paired \in BOOLEAN,
           turns' = turns \cup (IF paired THEN {[user |-> pending, answer |-> Here]} ELSE {}),
           files \subseteq files',
           e.writes /\ format = "claude" =>
               \E f \in files' : f.entry = Here /\ f.parent = IF paired THEN Here ELSE 0
    PROVE  FilesKept'
  <1>1. PICK h \in Nat : h = Here
    BY DEF PairedInv, PairedTypeOK, Here
  <1>2. /\ h = Len(entries) + 1 /\ entries'[h] = e /\ Len(entries) \in Nat /\ Len(entries') = h
        /\ format' = format /\ \A i \in 1 .. Len(entries) : entries'[i] = entries[i]
    BY <1>1, ReadsKeeps DEF PairedInv
  <1>3. \A t \in turns : t.answer \in 1 .. Len(entries)
    BY DEF PairedInv, TurnsExact
  <1>4. \A i \in 1 .. Len(entries) : (\E t \in turns' : t.answer = i) <=> \E t \in turns : t.answer = i
    BY <1>1, <1>2
  <1>5. (\E t \in turns' : t.answer = h) <=> paired
    <2>1. \A t \in turns : t.answer # h
      BY <1>2, <1>3
    <2>2. CASE paired
      <3>1. [user |-> pending, answer |-> h] \in turns'
        BY <2>2, <1>1
      <3>2. [user |-> pending, answer |-> h].answer = h
        OBVIOUS
      <3> QED BY <3>1, <3>2, <2>2
    <2>3. CASE ~paired
      BY <2>1, <2>3
    <2> QED BY <2>2, <2>3
  <1>6. ASSUME format = "claude", NEW i \in 1 .. h, entries'[i].writes
        PROVE  \E f \in files' : f.entry = i /\ f.parent = IF \E t \in turns' : t.answer = i THEN i ELSE 0
    <2>1. CASE i = h
      BY <2>1, <1>1, <1>2, <1>5, <1>6
    <2>2. CASE i # h
      <3>1. i \in 1 .. Len(entries) /\ entries[i].writes
        BY <2>2, <1>2, <1>6
      <3> QED BY <3>1, <1>4, <1>6 DEF PairedInv, FilesKept
    <2> QED BY <2>1, <2>2
  <1> QED BY <1>2, <1>6 DEF FilesKept

(* The invariant holds of the empty file ...                               *)
LEMMA InitPairedInv == PairedInit => PairedInv
  <1> SUFFICES ASSUME PairedInit PROVE PairedInv
    OBVIOUS
  <1>1. entries = << >> /\ Len(entries) = 0 /\ pending = 0 /\ turns = {} /\ format \in Formats \cap PairedFormats
    BY DEF PairedInit
  <1>2. PairedTypeOK
    BY <1>1 DEF PairedTypeOK
  <1>3. Waiting
    BY <1>1 DEF Waiting
  <1>4. TurnsExact /\ FilesKept
    BY <1>1 DEF TurnsExact, FilesKept
  <1> QED BY <1>2, <1>3, <1>4 DEF PairedInv

(* ... and every entry keeps it.                                           *)
LEMMA StepPairedInv == PairedInv /\ [PairedNext]_pairedVars => PairedInv'
  <1> SUFFICES ASSUME PairedInv, [PairedNext]_pairedVars PROVE PairedInv'
    OBVIOUS
  <1>1. ASSUME NEW e \in PairedEntry, Reads(e),
               Ignore(e) \/ Conversation(e) \/ Summary(e) \/ UserWaits(e) \/ Unpaired(e) \/ Paired(e)
        PROVE  PairedInv'
    <2> DEFINE seen == e.kind \in {"user", "assistant", "tool", "conversation"} /\ ~Skipped(e)
               paired == Answers(e) /\ pending # 0 /\ HasTurn(e)
    <2>0. /\ e.kind \in Kinds /\ e.writes \in BOOLEAN /\ e.blank \in BOOLEAN
          /\ e.writes => e.kind = "assistant" /\ ~e.blank
      BY DEF PairedEntry
    <2>1. pending' = IF seen THEN (IF e.kind = "user" THEN Here ELSE 0) ELSE pending
      BY <1>1, <2>0 DEF Kinds, Ignore, Conversation, Summary, UserWaits, Unpaired, Paired, Answers, Skipped, Export
    <2>2. PairedTypeOK' /\ Waiting'
      <3>1. PICK s \in BOOLEAN : s <=> seen
        BY Zenon
      <3>2. pending' = IF s THEN (IF e.kind = "user" THEN Here ELSE 0) ELSE pending
        BY <3>1, <2>1
      <3> HIDE DEF seen
      <3> QED BY <3>1, <3>2, <1>1, WaitingGrows DEF seen
    <2>3. turns' = turns \cup (IF paired THEN {[user |-> pending, answer |-> Here]} ELSE {})
      BY <1>1, <2>0 DEF Kinds, Ignore, Conversation, Summary, UserWaits, Unpaired, Paired, Answers, Skipped, Export
    <2>4. TurnsExact'
      BY <2>3, <1>1, TurnsGrow
    <2>5. FilesKept'
      <3>1. PICK s \in BOOLEAN : s <=> paired
        BY Zenon
      <3>2. turns' = turns \cup (IF s THEN {[user |-> pending, answer |-> Here]} ELSE {})
        BY <3>1, <2>3
      <3>3. files \subseteq files'
        BY <1>1 DEF Ignore, Conversation, Summary, UserWaits, Unpaired, Paired
      <3>4. ASSUME e.writes, format = "claude"
            PROVE  \E f \in files' : f.entry = Here /\ f.parent = IF s THEN Here ELSE 0
        <4>1. Answers(e) /\ (pending # 0 => HasTurn(e))
          BY <3>4, <2>0 DEF Answers, Skipped, Export, HasTurn
        <4>2. Unpaired(e) \/ Paired(e)
          BY <4>1, <3>4, <2>0, <1>1 DEF Ignore, Conversation, Summary, UserWaits, Answers, Export
        <4>3. files' = files \cup {[entry |-> Here, parent |-> IF s THEN Here ELSE 0]}
          BY <4>1, <4>2, <3>1, <3>4 DEF Unpaired, Paired, FileChunks, Export
        <4> DEFINE new == [entry |-> Here, parent |-> IF s THEN Here ELSE 0]
        <4>4. new \in files' /\ new.entry = Here /\ new.parent = IF s THEN Here ELSE 0
          BY <4>3
        <4> HIDE DEF new
        <4> QED BY <4>4
      <3> QED BY <3>2, <3>3, <3>4, <1>1, FilesGrow
    <2> QED BY <2>2, <2>4, <2>5 DEF PairedInv
  <1>2. CASE PairedNext
    <2>1. PICK e \in PairedEntry : Ignore(e) \/ Conversation(e) \/ Summary(e) \/ UserWaits(e) \/ Unpaired(e) \/ Paired(e)
      BY <1>2 DEF PairedNext
    <2>2. Reads(e)
      BY <2>1 DEF Ignore, Conversation, Summary, UserWaits, Unpaired, Paired
    <2> QED BY <2>1, <2>2, <1>1
  <1>3. CASE UNCHANGED pairedVars
    <2>1. UNCHANGED <<format, entries, pending, turns, files>>
      BY <1>3 DEF pairedVars
    <2>2. PairedTypeOK'
      BY <2>1 DEF PairedInv, PairedTypeOK
    <2>3. \A i : Seen(i)' <=> Seen(i)
      BY <2>1 DEF Seen, Skipped, Export
    <2>4. Waiting'
      <3>1. Seen(pending)' <=> Seen(pending)
        BY <2>1 DEF Seen, Skipped, Export
      <3> QED BY <2>1, <2>3, <3>1 DEF PairedInv, Waiting
    <2>5. TurnsExact'
      <3>1. \A i \in 1 .. Len(entries) : Answers(entries[i])' <=> Answers(entries[i])
        BY <2>1 DEF Answers, Skipped, Export
      <3>2. \A u, a \in 1 .. Len(entries) : Neighbours(u, a)' <=> Neighbours(u, a)
        BY <2>1, <2>3, <3>1 DEF Neighbours
      <3> QED BY <2>1, <3>2 DEF PairedInv, TurnsExact
    <2>6. FilesKept'
      BY <2>1 DEF PairedInv, FilesKept
    <2> QED BY <2>2, <2>4, <2>5, <2>6 DEF PairedInv
  <1> QED BY <1>2, <1>3

-----------------------------------------------------------------------------
(* For files of any length and in each of the three formats, Chunks makes  *)
(* a turn of exactly the neighbouring messages that say something.         *)
THEOREM TurnsAreNeighbours == PairedSpec => []TurnsExact
  <1>1. PairedInv => TurnsExact
    BY DEF PairedInv
  <1> QED BY <1>1, InitPairedInv, StepPairedInv, PTL DEF PairedSpec

(* In a Claude transcript every file change is kept, below its turn when   *)
(* there is one.                                                           *)
THEOREM FileChangesAreKept == PairedSpec => []FilesKept
  <1>1. PairedInv => FilesKept
    BY DEF PairedInv
  <1> QED BY <1>1, InitPairedInv, StepPairedInv, PTL DEF PairedSpec
==============================================================================
