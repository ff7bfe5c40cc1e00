---------------------------- MODULE GatheredTurns ----------------------------
(***************************************************************************)
(* Chunks of the Codex, Gemini and Antigravity parsers.  In Codex and      *)
(* Gemini a user's message gathers the answers and tool calls after it,    *)
(* and finalize makes one turn of them when the next user's message comes  *)
(* or the file ends; everything else is a chunk of its own, as is every    *)
(* event of an Antigravity transcript or of a Gemini log.  The file is     *)
(* read entry by entry; Reading is what Chunks returns when it ends here.  *)
(*                                                                         *)
(* An entry is named by its place in the file: a line of Codex and         *)
(* Antigravity, a message of Gemini (whose IDs are taken to be distinct).  *)
(* A chunk is what it was made from: the entries of its text, the entry    *)
(* that dates it, its session and project, and the entries whose file      *)
(* changes are its children.  Two chunks that differ in one of the first   *)
(* three have different contents, and so are different rows.               *)
(***************************************************************************)
EXTENDS SourceFile, Functions

CONSTANTS
    Sessions,       \* the session IDs a Codex file names
    Projects        \* the working directories it names

ASSUME GatheredAssumption == Sessions # {} /\ "" \notin Projects

GatheredFormats == {"codex", "gemini", "gemini log", "antigravity"}

VARIABLES
    sessionID, sessionCWD, lastCWD,
    fragments,      \* the entries whose text the open turn has gathered
    ops,            \* the entries whose file operations it has gathered
    chunks

where == <<sessionID, sessionCWD, lastCWD>>
gatheredVars == <<format, entries, where, pending, fragments, ops, chunks>>

(* blank: nothing but white space.  A Gemini answer like that is gathered, *)
(* but turnChunks trims it off.                                            *)
GatheredEntry == [kind : {"user", "answer", "other", "context"}, blank : BOOLEAN, writes : BOOLEAN]

(* projectPath                                                             *)
Project == IF lastCWD # "" THEN lastCWD ELSE IF sessionCWD # "" THEN sessionCWD ELSE "/unknown"

(* makeChunks with fileChunks                                              *)
Chunk(texts, at, changes) ==
    [texts |-> texts, at |-> at, session |-> sessionID, project |-> Project, changes |-> changes]

(* userChunks or assistantChunks of one entry.                             *)
Alone(e) == IF e.blank THEN << >> ELSE <<Chunk(<<Here>>, Here, IF e.writes THEN <<Here>> ELSE << >>)>>

\* Mutant: a turn without an answer is not finalized.
FinalizedIfAnswered ==
    IF pending = 0 \/ fragments = << >> THEN << >> ELSE <<Chunk(<<pending>> \o fragments, pending, ops)>>

(* finalize                                                                *)
Finalized == IF pending = 0 THEN << >> ELSE <<Chunk(<<pending>> \o fragments, pending, ops)>>

GatheredInit ==
    /\ format \in Formats \cap GatheredFormats /\ entries = << >> /\ sessionID \in Sessions
    /\ sessionCWD = "" /\ lastCWD = "" /\ pending = 0
    /\ fragments = << >> /\ ops = << >> /\ chunks = << >>

Turns == format \in {"codex", "gemini"}

Context(e) ==
    /\ Reads(e) /\ format = "codex" /\ e.kind = "context" /\ ~e.blank /\ ~e.writes
    /\ UNCHANGED <<pending, fragments, ops, chunks>>

(* session_meta: an empty value leaves what was known.                     *)
SessionMeta(e, id, cwd) ==
    /\ Context(e) /\ sessionID' = id
    /\ sessionCWD' = IF cwd = "" THEN sessionCWD ELSE cwd
    /\ UNCHANGED lastCWD

TurnContext(e, cwd) == Context(e) /\ lastCWD' = cwd /\ UNCHANGED <<sessionID, sessionCWD>>

(* A blank message of a Codex user is passed over; Gemini's opens a turn.  *)
BlankUser(e) ==
    /\ Reads(e) /\ format = "codex" /\ e.kind = "user" /\ e.blank /\ ~e.writes
    /\ UNCHANGED <<where, pending, fragments, ops, chunks>>

\* Mutant: the file operations are not cleared.
UserKeepingOps(e) ==
    /\ Reads(e) /\ Turns /\ e.kind = "user" /\ ~e.writes /\ (e.blank => format = "gemini")
    /\ chunks' = chunks \o Finalized /\ pending' = Here /\ fragments' = << >>
    /\ UNCHANGED <<where, ops>>

\* Mutant: the open turn is given up.
UserForgetting(e) ==
    /\ Reads(e) /\ Turns /\ e.kind = "user" /\ ~e.writes /\ (e.blank => format = "gemini")
    /\ pending' = Here /\ fragments' = << >> /\ ops' = << >>
    /\ UNCHANGED <<where, chunks>>

UserOpens(e) ==
    /\ Reads(e) /\ Turns /\ e.kind = "user" /\ ~e.writes /\ (e.blank => format = "gemini")
    /\ chunks' = chunks \o Finalized /\ pending' = Here /\ fragments' = << >> /\ ops' = << >>
    /\ UNCHANGED where

(* An assistant's message or a tool call: part of the open turn, or a      *)
(* chunk of its own.  File operations come with a text that names the tool.*)
Answer(e) ==
    /\ Reads(e) /\ Turns /\ e.kind = "answer" /\ (e.writes => ~e.blank)
    /\ IF pending = 0
       THEN chunks' = chunks \o Alone(e) /\ UNCHANGED <<fragments, ops>>
       ELSE /\ fragments' = IF e.blank THEN fragments ELSE Append(fragments, Here)
            /\ ops' = IF e.writes THEN Append(ops, Here) ELSE ops
            /\ UNCHANGED chunks
    /\ UNCHANGED <<where, pending>>

\* Mutant: an event in between closes the turn.
OtherClosing(e) ==
    /\ Reads(e) /\ e.kind = "other" /\ (e.writes => format = "antigravity") /\ (format = "antigravity" => ~e.blank)
    /\ chunks' = chunks \o Finalized \o Alone(e) /\ pending' = 0 /\ fragments' = << >> /\ ops' = << >>
    /\ UNCHANGED where

(* event_msg, other roles and unknown types of Codex, info and unknown     *)
(* types of Gemini, every event of a log: a chunk of its own, whether a    *)
(* turn is open or not.  Only an Antigravity event has file operations.    *)
(* (The event of a Gemini log names its session itself; the model keeps    *)
(* one, as nothing below tells them apart.)                                *)
Other(e) ==
    /\ Reads(e) /\ e.kind = "other" /\ (e.writes => format = "antigravity") /\ (format = "antigravity" => ~e.blank)
    /\ chunks' = chunks \o Alone(e) /\ UNCHANGED <<where, pending, fragments, ops>>

GatheredNext ==
    \E e \in GatheredEntry :
        \/ \E id \in Sessions, cwd \in Projects \cup {""} : SessionMeta(e, id, cwd)
        \/ \E cwd \in Projects : TurnContext(e, cwd)
        \/ BlankUser(e) \/ UserOpens(e) \/ Answer(e) \/ Other(e)

GatheredSpec == GatheredInit /\ [][GatheredNext]_gatheredVars

-----------------------------------------------------------------------------
(* In the formats of this module; PairedTurns has the others.              *)
Gathers == format \in GatheredFormats

Reading == chunks \o Finalized
Texts == {i \in 1 .. Len(entries) : entries[i].kind # "context" /\ ~entries[i].blank}
HeldBy(i) == {k \in 1 .. Len(Reading) : i \in Range(Reading[k].texts)}
Ordered(t) == \A i, j \in 1 .. Len(t) : i < j => t[i] < t[j]
Continues(t, u) == Len(u) =< Len(t) /\ \A i \in 1 .. Len(u) : t[i] = u[i]
Opens(i) == entries[i].kind = "user" /\ (entries[i].blank => format = "gemini")

(* Every message, answer, tool call and event that says something is in    *)
(* exactly one chunk of what Chunks returns, wherever the file ends.       *)
EverythingOnce ==
    Gathers => \A i \in Texts : \E k \in 1 .. Len(Reading) : HeldBy(i) = {k} /\ IsInjective(Reading[k].texts)

(* A turn holds exactly the answers between its user's message and the     *)
(* next one, in their order, whatever events are logged in between.        *)
TurnsWhole ==
    Gathers => \A k \in 1 .. Len(Reading) : LET at == Reading[k].at IN Opens(at) =>
        LET own == {i \in Texts : entries[i].kind = "answer" /\ i > at /\ \A j \in at + 1 .. i : ~Opens(j)}
        IN  Ordered(Reading[k].texts) /\ Range(Reading[k].texts) = {at} \cup own

(* A file operation is a child of exactly the chunk that holds the text of *)
(* the entry it was found in.                                              *)
ChangesWithTheirText ==
    Gathers => \A i \in 1 .. Len(entries) : entries[i].writes =>
        \A k \in 1 .. Len(Reading) : i \in Range(Reading[k].changes) <=> k \in HeldBy(i)

(* Reading the file again after it has grown returns every chunk of the    *)
(* earlier reading but one: the turn that was open, which comes back with  *)
(* at least the entries it had.                                            *)
OnlyOpenTurnChanges ==
    [][Gathers => \A k \in 1 .. Len(Reading) :
          \/ Reading[k] \in Range(Reading')
          \/ /\ Reading[k].at = pending
             /\ \E n \in 1 .. Len(Reading') :
                   Reading'[n].at = pending /\ Continues(Reading'[n].texts, Reading[k].texts)]_gatheredVars
=============================================================================
