-------------------------- MODULE ForwardEligibility --------------------------
(***************************************************************************)
(* inspectForwardEligibility and classifyForwardTimes (watch/forward.go):  *)
(* may a snapshot of a source file be captured, given the cutoff?          *)
(*                                                                         *)
(* A snapshot's content is what the six parsers report of it:              *)
(*   kind     the source grammar (a .pb file of antigravity is its own)    *)
(*   parse    "ok"; "partial": a parse error or any issue other than an    *)
(*            invalid timestamp; "badtime": an invalid timestamp issue,    *)
(*            which the branches of the line grammars tell apart           *)
(*   records  entries, events or messages in file order; an untimed one    *)
(*            has time NoTime, one that does not count has meaningful      *)
(*            FALSE (a conversation without text is such a record)         *)
(*   doc      the session named once for a whole Gemini document           *)
(*   chunks   what Registry.Dispatch makes of it: a time and a session     *)
(* Times are naturals; 0 stands for Go's zero time and for the epoch the   *)
(* parsers fall back to.  Sessions are already trimmed and lower-cased.    *)
(***************************************************************************)
EXTENDS Integers, Sequences

CONSTANTS
    Sessions,       \* session identifiers
    Reliable,       \* those that identify one conversation
    NoSession       \* the empty identifier

ASSUME SessionsAssumption == Reliable \subseteq Sessions /\ NoSession \notin Sessions

NoTime == -1

LineKinds == {"claude", "codex", "antigravity"}
Kinds == LineKinds \cup {"antigravity_pb", "gemini", "chatgpt", "claudeapp"}

Record == [session: Sessions \cup {NoSession}, meaningful: BOOLEAN, time: Nat \cup {NoTime}]

Chunk == [time: Nat, session: Sessions]

Content == [kind: Kinds, parse: {"ok", "partial", "badtime"}, records: Seq(Record),
            doc: Sessions \cup {NoSession}, chunks: Seq(Chunk)]

-----------------------------------------------------------------------------
(* Only Claude entries and exported messages can be without text; every    *)
(* Codex, Gemini and Antigravity record must carry a timestamp.            *)
Counts(c, i) == c.kind \in {"codex", "gemini", "antigravity"} \/ c.records[i].meaningful

Counted(c) == {i \in DOMAIN c.records : Counts(c, i)}

Untimed(c) == {i \in Counted(c) : c.records[i].time = NoTime}

(* Sessions gathered from the first n records, in file order.              *)
Gathered(c, n) == {c.records[i].session : i \in 1..n} \ {NoSession}

(* The sessions returned when the scan of the records stops at record n,   *)
(* an untimed one; name is the session in the file's name, if any.         *)
SessionsAt(c, name, n) ==
    CASE c.kind = "codex" -> ({name} \cup Gathered(c, n)) \ {NoSession}
      [] c.kind = "gemini" -> {c.records[n].session} \ {NoSession}
      [] c.kind = "antigravity" -> {}
      [] OTHER -> Gathered(c, n)

(* The sessions handed to classifyForwardTimes when every record is timed. *)
SessionsOf(c, name) ==
    CASE c.kind = "codex" -> ({name} \cup Gathered(c, Len(c.records))) \ {NoSession}
      [] c.kind = "gemini" -> {c.doc} \ {NoSession}
      [] c.kind = "antigravity" -> {}
      [] OTHER -> Gathered(c, Len(c.records))

\* Mutant: only the newest record is compared with the cutoff.
classifyNewestOnly(c, cutoff) ==
    IF Counted(c) = {} THEN "wait"
    ELSE IF \E i \in Counted(c) : /\ \A j \in Counted(c) : j <= i
                                  /\ c.records[i].time < cutoff
         THEN "refuse"
    ELSE "accept"

classifyForwardTimes(c, cutoff) ==
    IF Counted(c) = {} THEN "wait"
    ELSE IF \E i \in Counted(c) : c.records[i].time < cutoff THEN "refuse"
    ELSE "accept"

inspectForwardEligibility(c, name, cutoff) ==
    IF c.kind = "antigravity_pb"
    THEN IF c.records = <<>>
         THEN [verdict |-> "wait", sessions |-> {}]
         ELSE [verdict |-> "refuse", sessions |-> {name} \ {NoSession}]
    ELSE IF c.parse # "ok"
    THEN [verdict |-> IF c.parse = "badtime" /\ c.kind \in LineKinds THEN "refuse" ELSE "wait", sessions |-> {}]
    ELSE IF Untimed(c) # {}
    THEN LET n == CHOOSE i \in Untimed(c) : \A j \in Untimed(c) : i <= j
         IN  [verdict |-> "refuse", sessions |-> SessionsAt(c, name, n)]
    ELSE [verdict |-> classifyForwardTimes(c, cutoff), sessions |-> SessionsOf(c, name)]
=============================================================================
