----------------------------- MODULE PairedTurns -----------------------------
(***************************************************************************)
(* Chunks of the source parsers that pair a user's message with the first  *)
(* answer to it: Claude Code transcripts, and the exports of ChatGPT and   *)
(* of the Claude app.                                                      *)
(*                                                                         *)
(* An entry is its kind, whether its text is blank and whether it uses a   *)
(* tool that writes a file.  In a Claude transcript such a use is part of  *)
(* the text, so that the text is not blank.  A text is blank when it is    *)
(* white space; the parser of the Claude app trims nothing, so that there  *)
(* only an empty one is.                                                   *)
(***************************************************************************)
EXTENDS SourceFile

PairedFormats == {"claude", "chatgpt", "claudeapp"}

Kinds == {"user", "assistant", "tool", "summary", "conversation", "other"}
PairedEntry == {e \in [kind : Kinds, blank : BOOLEAN, writes : BOOLEAN] : e.writes => e.kind = "assistant" /\ ~e.blank}

VARIABLES
    turns,          \* the pairs that became turn chunks, in order
    files,          \* the file_change chunks: their entry and their parent's answer, 0 for none
    summaries       \* the entries that became summary chunks

pairedVars == <<format, entries, pending, turns, files, summaries>>

PairedInit ==
    /\ format \in Formats \cap PairedFormats /\ entries = << >> /\ pending = 0
    /\ turns = {} /\ files = {} /\ summaries = {}

Export == format # "claude"

(* Entries the pairing does not see: blank messages of an export, roles    *)
(* and kinds without a case.                                               *)
Skipped(e) ==
    \/ e.kind = "other" \/ (Export /\ e.kind \in {"user", "assistant", "tool"} /\ e.blank)
    \/ (e.kind = "tool" /\ format # "chatgpt") \/ (e.kind = "summary" /\ Export)

Ignore(e) == Reads(e) /\ Skipped(e) /\ UNCHANGED <<pending, turns, files, summaries>>

(* An export's next conversation starts without a pending message.         *)
Conversation(e) ==
    /\ Reads(e) /\ e.kind = "conversation" /\ Export
    /\ pending' = 0 /\ UNCHANGED <<turns, files, summaries>>

Summary(e) ==
    /\ Reads(e) /\ e.kind = "summary" /\ ~Export
    /\ summaries' = IF e.blank THEN summaries ELSE summaries \cup {Here}
    /\ UNCHANGED <<pending, turns, files>>

UserWaits(e) ==
    /\ Reads(e) /\ e.kind = "user" /\ ~Skipped(e)
    /\ pending' = Here /\ UNCHANGED <<turns, files, summaries>>

Answers(e) == e.kind \in {"assistant", "tool"} /\ ~Skipped(e)

(* fileChunks of this entry below the turn with the answer parent.         *)
FileChunks(e, parent) == IF e.writes /\ ~Export THEN {[entry |-> Here, parent |-> parent]} ELSE {}

\* Mutant: an answer without a pending message is passed over.
UnpairedPassed(e) ==
    /\ Reads(e) /\ Answers(e) /\ pending = 0
    /\ UNCHANGED <<pending, turns, files, summaries>>

(* Claude keeps the file changes of an answer nobody waits for; the        *)
(* exports have none.                                                      *)
Unpaired(e) ==
    /\ Reads(e) /\ Answers(e) /\ pending = 0
    /\ files' = files \cup FileChunks(e, 0) /\ UNCHANGED <<pending, turns, summaries>>

(* turnChunks makes no chunk of two blank texts; the user's entry has had  *)
(* its answer all the same.                                                *)
HasTurn(e) == ~(entries[pending].blank /\ e.blank)

\* Mutant: the user's entry waits on when no chunk was made.
PairedWaiting(e) ==
    /\ Reads(e) /\ Answers(e) /\ pending # 0
    /\ IF HasTurn(e)
       THEN /\ turns' = turns \cup {[user |-> pending, answer |-> Here]}
            /\ files' = files \cup FileChunks(e, Here) /\ pending' = 0
       ELSE UNCHANGED <<turns, files, pending>>
    /\ UNCHANGED summaries

Paired(e) ==
    /\ Reads(e) /\ Answers(e) /\ pending # 0
    /\ IF HasTurn(e)
       THEN /\ turns' = turns \cup {[user |-> pending, answer |-> Here]}
            /\ files' = files \cup FileChunks(e, Here)
       ELSE UNCHANGED <<turns, files>>
    /\ pending' = 0 /\ UNCHANGED summaries

PairedNext ==
    \E e \in PairedEntry :
        Ignore(e) \/ Conversation(e) \/ Summary(e) \/ UserWaits(e) \/ Unpaired(e) \/ Paired(e)

PairedSpec == PairedInit /\ [][PairedNext]_pairedVars

-----------------------------------------------------------------------------
(* The reference: what the pairing sees of the file ...                    *)
Seen(i) == entries[i].kind \in {"user", "assistant", "tool", "conversation"} /\ ~Skipped(entries[i])

(* ... and the pairs in it: a user's message and an answer with nothing    *)
(* seen in between.                                                        *)
Neighbours(u, a) ==
    /\ u < a /\ Seen(u) /\ Seen(a) /\ entries[u].kind = "user" /\ Answers(entries[a])
    /\ \A k \in (u + 1) .. (a - 1) : ~Seen(k)

(* The turn chunks are exactly the pairs of neighbours that say something, *)
(* whatever is repeated, blank or interleaved: no answer is given to an    *)
(* older message or one of another conversation.                           *)
TurnsExact ==
    turns = {t \in [user : 1 .. Len(entries), answer : 1 .. Len(entries)] :
                /\ Neighbours(t.user, t.answer)
                /\ ~(entries[t.user].blank /\ entries[t.answer].blank)}

(* No file change of a transcript is lost, and it is the child of a turn   *)
(* exactly when that turn exists.                                          *)
FilesKept ==
    format = "claude" =>
        \A i \in 1 .. Len(entries) : entries[i].writes =>
            \E f \in files : /\ f.entry = i
                             /\ f.parent = IF \E t \in turns : t.answer = i THEN i ELSE 0
=============================================================================
