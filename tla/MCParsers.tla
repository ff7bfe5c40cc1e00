------------------------------ MODULE MCParsers ------------------------------
(***************************************************************************)
(* What the parsers make of a source: the turns of a file in each format,  *)
(* and the parts of a text.  splitContent sees one text and nothing of the *)
(* file it is from, so a behaviour follows the one or the other.           *)
(***************************************************************************)
EXTENDS PairedTurns, GatheredTurns, ContentSplit

CONSTANT MaxLength      \* bound: bytes of a text

MCContents == UNION {[1 .. n -> Bytes] : n \in 0 .. MaxLength}

VARIABLE part

pairedOnly == <<turns, files, summaries>>
gatheredOnly == <<where, fragments, ops, chunks>>
fileVars == <<format, entries, pending, pairedOnly, gatheredOnly>>

NoPairs == turns = {} /\ files = {} /\ summaries = {}
NothingGathered ==
    /\ sessionID = CHOOSE s \in Sessions : TRUE
    /\ sessionCWD = "" /\ lastCWD = "" /\ fragments = << >> /\ ops = << >> /\ chunks = << >>
NoText == parser = "claude" /\ content = << >> /\ start = 0 /\ parts = << >> /\ done = FALSE

Init ==
    \/ part = "paired" /\ PairedInit /\ NothingGathered /\ NoText
    \/ part = "gathered" /\ GatheredInit /\ NoPairs /\ NoText
    \/ part = "text" /\ SplitInit /\ format = "claude" /\ entries = << >> /\ pending = 0 /\ NoPairs /\ NothingGathered

Next ==
    \/ part = "paired" /\ PairedNext /\ UNCHANGED <<gatheredOnly, splitVars, part>>
    \/ part = "gathered" /\ GatheredNext /\ UNCHANGED <<pairedOnly, splitVars, part>>
    \/ part = "text" /\ SplitNext /\ UNCHANGED <<fileVars, part>>

vars == <<fileVars, splitVars, part>>

Spec == Init /\ [][Next]_vars
=============================================================================
