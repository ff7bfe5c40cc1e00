------------------------- MODULE CredentialSelector -------------------------
(***************************************************************************)
(* gcpauth.Selector.tokenSource: how a process picks the one credential it *)
(* was told to use and binds it to the identity it was told to have.  A    *)
(* selection seals the process's environment, reads the files its profile  *)
(* needs while other programs replace them, checks what they say, and      *)
(* gives the bytes to Google's library, whose token source is used later.  *)
(*                                                                         *)
(* The environment is the set of groups of variables that are set; client  *)
(* is the value of the two variables that sealAmbientGoogleTransport       *)
(* writes.  A file that is replaced is another file (its id).  A carrier   *)
(* is a record of what the checks look at: closed says that it is one JSON *)
(* value without a key that is repeated, unknown or key material out of    *)
(* place, complete that every field the source needs is there and the      *)
(* endpoints are Google's.                                                 *)
(***************************************************************************)
EXTENDS Naturals, Sequences, FiniteSets

CONSTANTS
    Identities, ProjectOf,  \* service accounts, and the project of each
    Audiences,
    Selectors,              \* what may be configured
    Environments,           \* what may be set
    Carriers,               \* what a credential file may say
    Missing,                \* no file, or no such field
    MaxSelections,          \* bound: calls of tokenSource
    MaxReplaced             \* bound: files other programs replace

Profiles == {"impersonated", "attached", "device", "workload"}
Groups == {"transport", "logging", "carrier", "override", "config", "token"}

VARIABLES
    selector,       \* the configured Selector
    environment, client,
    holds,          \* what each path names: [id, private, says] or Missing
    replaced,
    step,           \* what the selection in progress does next
    selections,     \* calls so far; the number is also the caller's context
    detach,
    looked,         \* the identity Lstat reported
    read,           \* what has been read, in order
    ended,          \* contexts that have ended
    sources,        \* the token sources handed out: [speaks, context]
    issued          \* history: the identities tokens were issued to

selectorVars == <<selector, environment, client, holds, replaced, step, selections, detach,
                  looked, read, ended, sources, issued>>
world == <<selector, environment, holds, replaced>>
call == <<step, selections, detach, looked, read>>

(* The files a profile reads, in order; what the three of a certificate    *)
(* say is which issue of it they belong to.                                *)
Reads == CASE selector.profile = "workload" -> <<"carrier", "certificates", "cert", "key">>
           [] OTHER -> <<"adc">>
CredentialPaths == {"adc", "carrier", "certificates", "cert", "key"}
Documents == {"adc", "carrier"}

SelectorInit ==
    /\ selector \in Selectors /\ environment \in Environments /\ client \in {"unset", "sealed", "other"}
    /\ \E c \in Carriers : holds = [p \in CredentialPaths |-> [id |-> 0, private |-> TRUE, says |-> IF p \in Documents THEN c ELSE 0]]
    /\ replaced = 0 /\ step = "idle" /\ selections = 0 /\ detach = FALSE /\ looked = 0
    /\ read = << >> /\ ended = {} /\ sources = {} /\ issued = {}

-----------------------------------------------------------------------------
(* A selector is closed if it names no credentials_file and no source but  *)
(* application_default, and its identity is a service account.             *)
Validate(s) ==
    /\ s.closed /\ s.profile \in Profiles /\ ~s.base
    /\ IF s.profile = "workload" THEN s.audience \in Audiences ELSE s.audience = Missing

(* The call returns, with an error or with what Build or Metadata adds.    *)
Returns == step' = "idle" /\ read' = << >> /\ looked' = 0 /\ detach' = FALSE
Goes(to) == step' = to /\ UNCHANGED <<detach, looked, read>>

(* tokenSource, called with a context that lasts or that has ended         *)
Select(lifetime) ==
    /\ step = "idle" /\ selections < MaxSelections
    /\ selections' = selections + 1 /\ detach' = lifetime
    /\ \/ step' = (IF Validate(selector) THEN "seal" ELSE "idle") /\ UNCHANGED ended
       \/ UNCHANGED step /\ ended' = ended \cup {selections + 1}
    /\ UNCHANGED <<world, client, looked, read, sources, issued>>

\* Mutant: the value it writes is not the one it accepts.
SealOther ==
    /\ step = "seal"
    /\ IF "transport" \in environment \/ client = "other"
       THEN Returns /\ UNCHANGED client
       ELSE client' = "other" /\ Goes("environment")
    /\ UNCHANGED <<world, selections, ended, sources, issued>>

(* sealAmbientGoogleTransport                                              *)
Seal ==
    /\ step = "seal"
    /\ IF "transport" \in environment \/ client = "other"
       THEN Returns /\ UNCHANGED client
       ELSE client' = "sealed" /\ Goes("environment")
    /\ UNCHANGED <<world, selections, ended, sources, issued>>

(* What each profile wants unset, and, for a workload, set.                *)
Accepted ==
    CASE selector.profile = "workload" ->
            /\ environment \cap {"transport", "logging", "override", "config", "token"} = {}
            /\ client # "other" /\ "carrier" \in environment
      [] selector.profile = "attached" -> environment \cap {"carrier", "override"} = {}
      [] OTHER -> environment \cap {"carrier", "override", "config"} = {}

Environment ==
    /\ step = "environment"
    /\ IF Accepted
       THEN Goes(IF selector.profile = "attached" THEN "metadata" ELSE "look")
       ELSE Returns
    /\ UNCHANGED <<world, client, selections, ended, sources, issued>>

-----------------------------------------------------------------------------
NextPath == Reads[Len(read) + 1]
File == holds[NextPath]

(* readOwnerOnlyRegularFile: Lstat, ...                                    *)
Look ==
    /\ step = "look"
    /\ IF File = Missing THEN Returns
       ELSE looked' = File.id /\ step' = "open" /\ UNCHANGED <<detach, read>>
    /\ UNCHANGED <<world, client, selections, ended, sources, issued>>

(* validateImpersonatedConfiguration                                       *)
Impersonates(c, identity) ==
    /\ c.closed /\ c.type = "impersonated" /\ c.target = identity /\ c.quota = ProjectOf[identity]
    /\ c.complete /\ c.source \in {"user", "account"} /\ (c.source = "account" => c.email \in Identities)
    /\ c.delegates = "none" /\ c.scopes = "platform"

Default(value, default) == IF value = Missing THEN default ELSE value

\* Mutant: the nested account is not compared with the declared identity.
DeviceAnyone(c, identity) ==
    /\ c.closed /\ c.source = "account" /\ c.target \in Identities
    /\ Impersonates([c EXCEPT !.quota = Default(@, ProjectOf[c.target]), !.delegates = Default(@, "none"),
                              !.scopes = Default(@, "platform")], c.target)

(* deviceSourceConfiguration: the carrier may be for another target, and   *)
(* lack what only an impersonation needs.                                  *)
Device(c, identity) ==
    /\ c.closed /\ c.source = "account" /\ c.email = identity /\ c.target \in Identities
    /\ Impersonates([c EXCEPT !.quota = Default(@, ProjectOf[c.target]), !.delegates = Default(@, "none"),
                              !.scopes = Default(@, "platform")], c.target)

(* ValidateWorkloadIdentityConfiguration                                   *)
Federates(c, identity) ==
    /\ c.closed /\ c.type = "external" /\ c.audience = selector.audience /\ c.target = identity
    /\ c.complete /\ c.quota \in {Missing, ProjectOf[identity]}

Good(says) ==
    CASE NextPath = "carrier" -> Federates(says, selector.identity)
      [] NextPath = "adc" -> IF selector.profile = "device" THEN Device(says, selector.identity)
                             ELSE Impersonates(says, selector.identity)
      [] NextPath = "key" -> says = read[Len(read)]
      [] OTHER -> TRUE

(* ... the file that is opened, its access and its contents.               *)
OpenFile ==
    /\ step = "open"
    /\ IF File # Missing /\ File.id = looked /\ File.private /\ Good(File.says)
       THEN /\ read' = Append(read, File.says)
            /\ step' = IF Len(read) + 1 = Len(Reads) THEN "build" ELSE "look"
            /\ UNCHANGED <<detach, looked>>
       ELSE Returns
    /\ UNCHANGED <<world, client, selections, ended, sources, issued>>

Background == 0
Context == IF detach THEN Background ELSE selections

Source(who) == [speaks |-> who, context |-> Context]

(* Whom the library's token source speaks for.                             *)
Speaks == IF selector.profile = "device" THEN read[1].email ELSE read[1].target

Build ==
    /\ step = "build" /\ Returns
    /\ sources' \in {sources, sources \cup {Source(Speaks)}}
    /\ UNCHANGED <<world, client, selections, ended, issued>>

(* attachedTokenSource: the metadata server answers for some account, and  *)
(* tokens are asked for by the account's name.                             *)
Metadata ==
    /\ step = "metadata" /\ Returns
    /\ \E email \in Identities \cup {Missing} :
          sources' = IF email = selector.identity THEN sources \cup {Source(selector.identity)} ELSE sources
    /\ UNCHANGED <<world, client, selections, ended, issued>>

-----------------------------------------------------------------------------
(* A context ends, and so does a selection that waits under it for the     *)
(* metadata server.                                                        *)
EndContext(n) ==
    /\ n \in 1 .. selections /\ n \notin ended /\ ended' = ended \cup {n}
    /\ IF n = selections /\ step = "metadata" THEN Returns ELSE Goes(step)
    /\ UNCHANGED <<world, client, selections, sources, issued>>

(* Token, at any later time while the source's context lasts               *)
Refresh(s) ==
    /\ s \in sources /\ s.context \notin ended /\ issued' = issued \cup {s.speaks}
    /\ UNCHANGED <<world, client, call, ended, sources>>

(* Another program replaces or removes a file.  Only the files of the      *)
(* profile matter, and only while they are looked at.                      *)
ReplaceFile(p, file) ==
    /\ step \in {"look", "open"} /\ replaced < MaxReplaced /\ replaced' = replaced + 1 /\ holds' = [holds EXCEPT ![p] = file]
    /\ UNCHANGED <<selector, environment, client, call, ended, sources, issued>>

NewFiles(p) ==
    {Missing} \cup [id : {replaced + 1}, private : BOOLEAN, says : IF p \in Documents THEN Carriers ELSE {0, 1}]

SelectorNext ==
    \/ \E lifetime \in BOOLEAN : Select(lifetime)
    \/ Seal \/ Environment \/ Look \/ OpenFile \/ Build \/ Metadata
    \/ \E n \in 1 .. MaxSelections : EndContext(n)
    \/ \E s \in sources : Refresh(s)
    \/ \E p \in {Reads[i] : i \in DOMAIN Reads} : \E file \in NewFiles(p) : ReplaceFile(p, file)

SelectorSpec == SelectorInit /\ [][SelectorNext]_selectorVars

-----------------------------------------------------------------------------
(* Every token a process gets speaks for the identity it was configured    *)
(* with, whatever its credential files say, whichever of them are replaced *)
(* between two calls that look at them, and whichever profile reads them.  *)
TokenIsDeclared == issued \subseteq {selector.identity}

(* What a selection writes into the environment never keeps the process    *)
(* from selecting again: neither the sealing nor the workload profile's    *)
(* own list of variables refuses what was accepted before.                 *)
SelectsAgain == [][sources # {} /\ step \in {"seal", "environment"} => step' # "idle"]_selectorVars
=============================================================================
