----------------------------- MODULE SourceFile -----------------------------
(***************************************************************************)
(* A source file as the parsers of turns read it: entry by entry, so that  *)
(* a state is a whole reading of the entries so far.                       *)
(***************************************************************************)
EXTENDS Naturals, Sequences

CONSTANTS
    Formats,        \* the formats of the files
    MaxEntries      \* bound: the length of the file

ASSUME FileAssumption == MaxEntries \in Nat

VARIABLES
    format,
    entries,        \* what has been read: [kind, blank, writes]
    pending         \* the user's entry that waits for its answer, 0 for nil

Here == Len(entries) + 1

Reads(e) == Len(entries) < MaxEntries /\ entries' = Append(entries, e) /\ UNCHANGED format
=============================================================================
