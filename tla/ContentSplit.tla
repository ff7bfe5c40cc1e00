---------------------------- MODULE ContentSplit ----------------------------
(***************************************************************************)
(* splitContent of the source parsers: a message longer than               *)
(* MaxChunkContentLength bytes is cut, at a paragraph or a sentence when   *)
(* one ends in the last SearchRegion bytes of the window, into parts that  *)
(* overlap.  Claude's loop returns with the part that reaches the end of   *)
(* the content; those of Codex, Gemini and ChatGPT go on until start has   *)
(* passed it.                                                              *)
(*                                                                         *)
(* Offsets are those of the code: content[from:to] is [from, to], and the  *)
(* byte at offset p is content[p + 1].                                     *)
(***************************************************************************)
EXTENDS Integers, Sequences

CONSTANTS
    Parsers,                \* of claude, codex, gemini and chatgpt; the last three are alike
    MaxChunkContentLength, ChunkOverlap,
    SearchRegion,           \* the code's 1000
    Contents                \* the contents considered, sequences of Bytes

Bytes == {"letter", "newline", "stop", "space"}

(* 8000, 1500 and 1000 in every parser.                                    *)
ASSUME SplitAssumption ==
    /\ MaxChunkContentLength \in Nat /\ ChunkOverlap \in Nat /\ SearchRegion \in Nat \ {0}
    /\ SearchRegion + ChunkOverlap =< MaxChunkContentLength
    /\ Contents \subseteq Seq(Bytes)

VARIABLES parser, content, start, parts, done

splitVars == <<parser, content, start, parts, done>>

ReturnsAtEnd == parser = "claude"

Larger(a, b) == IF a >= b THEN a ELSE b

SplitInit ==
    /\ parser \in Parsers /\ content \in Contents /\ start = 0 /\ parts = << >> /\ done = FALSE

Is(byte, p) == content[p + 1] = byte

(* strings.LastIndex over the region, > 0: the offsets in the content of   *)
(* what may end a part there.                                              *)
Paragraphs(from, to) == {p \in (from + 1) .. (to - 2) : Is("newline", p) /\ Is("newline", p + 1)}
Sentences(from, to) ==
    {p \in (from + 1) .. (to - 1) :
        Is("newline", p) \/ (p + 1 < to /\ Is("stop", p) /\ Is("space", p + 1))}

LastOf(S) == {p \in S : \A q \in S : q =< p}

(* Where the part that starts at start and would reach to ends.            *)
PartEnd(to) ==
    LET from == Larger(start, to - SearchRegion)
        paragraphs == Paragraphs(from, to)
        sentences == Sentences(from, to)
    IN  IF paragraphs # {} THEN {p + 2 : p \in LastOf(paragraphs)}
        ELSE IF sentences # {} THEN {p + 1 : p \in LastOf(sentences)}
        ELSE {to}

Emit(to) == parts' = Append(parts, [from |-> start, to |-> to])

\* Mutant: the overlap is added instead of taken back.
AdvanceSkipping(to) == start' = to + ChunkOverlap
Advance(to) == start' = Larger(start + 1, to - ChunkOverlap)

(* Content that fits is its only part.                                     *)
Whole ==
    /\ ~done /\ parts = << >> /\ Len(content) =< MaxChunkContentLength
    /\ Emit(Len(content)) /\ done' = TRUE /\ UNCHANGED <<parser, content, start>>

Splits == ~done /\ Len(content) > MaxChunkContentLength /\ start < Len(content)

Part ==
    /\ Splits /\ start + MaxChunkContentLength < Len(content)
    /\ \E to \in PartEnd(start + MaxChunkContentLength) : Emit(to) /\ Advance(to)
    /\ UNCHANGED <<parser, content, done>>

(* Claude: the part that reaches the end is the last.                      *)
LastPart ==
    /\ Splits /\ start + MaxChunkContentLength >= Len(content) /\ ReturnsAtEnd
    /\ Emit(Len(content)) /\ done' = TRUE /\ UNCHANGED <<parser, content, start>>

(* The others: the loop takes its step back from the end too.              *)
TailPart ==
    /\ Splits /\ start + MaxChunkContentLength >= Len(content) /\ ~ReturnsAtEnd
    /\ Emit(Len(content)) /\ Advance(Len(content)) /\ UNCHANGED <<parser, content, done>>

Leave ==
    /\ ~done /\ Len(content) > MaxChunkContentLength /\ start >= Len(content)
    /\ done' = TRUE /\ UNCHANGED <<parser, content, start, parts>>

SplitNext == Whole \/ Part \/ LastPart \/ TailPart \/ Leave

SplitSpec == SplitInit /\ [][SplitNext]_splitVars

-----------------------------------------------------------------------------
SplitTypeOK ==
    /\ content \in Contents /\ start \in Nat /\ done \in BOOLEAN
    /\ parts \in Seq([from : Nat, to : Nat])

(* No byte is lost: the first part starts the content, each later one      *)
(* starts inside or right after the one before, none is longer than        *)
(* allowed, and the last one ends the content, wherever its paragraphs and *)
(* sentences end.                                                          *)
PartsCover ==
    /\ \A k \in 1 .. Len(parts) :
          /\ parts[k].from =< parts[k].to /\ parts[k].to =< Len(content)
          /\ parts[k].to - parts[k].from =< MaxChunkContentLength
          /\ parts[k].from =< IF k = 1 THEN 0 ELSE parts[k - 1].to
    /\ done => parts # << >> /\ parts[Len(parts)].to = Len(content)

Ascends == \A k \in 2 .. Len(parts) : parts[k].to > parts[k - 1].to

(* Every part of Claude's goes beyond the one before it: none only repeats *)
(* bytes that the part before has already.                                 *)
PartsAdvance == ReturnsAtEnd => Ascends

(* Content without a place to cut that is a little longer than one part    *)
(* becomes two: a full one, and the rest with the overlap.                 *)
SplitsInTwo ==
    (/\ done /\ MaxChunkContentLength < Len(content)
     /\ Len(content) =< 2 * MaxChunkContentLength - ChunkOverlap
     /\ \A p \in 1 .. Len(content) : content[p] = "letter")
    => parts = <<[from |-> 0, to |-> MaxChunkContentLength],
                 [from |-> MaxChunkContentLength - ChunkOverlap, to |-> Len(content)]>>
=============================================================================
