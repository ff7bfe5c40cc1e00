------------------------- MODULE MCForwardEligibility -------------------------
(***************************************************************************)
(* Every content of at most MaxRecords records, reached as a source file   *)
(* grows: its program appends a record, whole or partly written.           *)
(***************************************************************************)
EXTENDS ForwardEligibility

CONSTANTS
    MaxRecords,     \* bound: records in a file
    Times,          \* timestamps of records
    Cutoffs

ASSUME TimesAssumption == Times \subseteq Nat /\ Cutoffs \subseteq Nat

VARIABLES content, cutoff

Blank(kind) ==
    [kind |-> kind, parse |-> "ok", records |-> <<>>, doc |-> NoSession, chunks |-> <<>>]

Init == \E k \in Kinds : content = Blank(k) /\ cutoff \in Cutoffs

Append1(s, m, t, parse) ==
    /\ Len(content.records) < MaxRecords
    /\ content' = [content EXCEPT !.parse = IF @ = "badtime" THEN @ ELSE parse,
                     !.records = Append(@, [session |-> s, meaningful |-> m, time |-> t])]
    /\ UNCHANGED cutoff

\* A rewrite completes a record that was partly written.
Complete ==
    /\ content.parse = "partial"
    /\ content' = [content EXCEPT !.parse = "ok"]
    /\ UNCHANGED cutoff

Full == Len(content.records) = MaxRecords /\ content.parse # "partial" /\ UNCHANGED <<content, cutoff>>

Next ==
    \/ \E s \in Sessions \cup {NoSession}, m \in BOOLEAN, t \in Times \cup {NoTime},
          parse \in {"ok", "partial", "badtime"} : Append1(s, m, t, parse)
    \/ Complete
    \/ Full

Spec == Init /\ [][Next]_<<content, cutoff>>

Verdict(c, k) == inspectForwardEligibility(c, NoSession, k).verdict

(* Reference: a source is captured exactly when it parses completely, it   *)
(* has a record that counts, and each of those carries a timestamp at or   *)
(* after the cutoff, in whatever order the early returns of                *)
(* inspectForwardEligibility meet them.                                    *)
AcceptsExactlyCurrent ==
    Verdict(content, cutoff) = "accept" <=>
        /\ content.kind # "antigravity_pb" /\ content.parse = "ok"
        /\ \E i \in 1..Len(content.records) : Counts(content, i)
        /\ \A i \in 1..Len(content.records) :
              Counts(content, i) => content.records[i].time >= cutoff

(* Growth never rescues a refused source: nothing appended to it, and no   *)
(* completion of its last line, makes inspectForwardEligibility accept it, *)
(* so it does not matter when the scan met the file.                       *)
RefusalSurvivesGrowth ==
    [][Verdict(content, cutoff) = "refuse"
        => Verdict(content', cutoff) # "accept"]_<<content, cutoff>>
=============================================================================
