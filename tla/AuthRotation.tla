---------------------------- MODULE AuthRotation ----------------------------
(***************************************************************************)
(* auth.Manager and the authority routes of api.Server, with the daemon's  *)
(* restarts and one client that rotates the shared credential.  Manager    *)
(* keeps nothing in memory: every call loads the state file, and its mutex *)
(* makes a call one step, up to the ways in which WriteAtomic can fail.    *)
(***************************************************************************)
EXTENDS Naturals

CONSTANTS
    Secrets,        \* credentials that pass validateSecret
    AuthFaults,         \* "write": nothing is written; "sync": written, but an error; "crash"
    None

VARIABLES
    authority,      \* the state file: [active, pending], or None
    serving,        \* the daemon serves
    psk,            \* the credential in the daemon's environment
    held,           \* the credentials the client still keeps
    req,            \* the client's request: None or [op, key, new, verified]
    disowned,       \* history: proposals written to the file and answered as rejected
    blind           \* history: one of those was promoted by a request under the old credential

authVars == <<authority, serving, psk, held, req, disowned, blind>>
history == <<disowned, blind>>

Ops == {"rotate", "promote"}
State == [active : Secrets, pending : Secrets \cup {None}]
Request == [op : Ops, key : Secrets, new : Secrets \cup {None}, verified : BOOLEAN]

ASSUME AuthAssumption == None \notin Secrets \cup State \cup Request

AuthInit ==
    /\ authority = None /\ serving = FALSE /\ req = None /\ psk \in Secrets /\ held = {psk}
    /\ disowned = {} /\ blind = FALSE

-----------------------------------------------------------------------------
(* saveLocked, with the three ends WriteAtomic can have.                   *)
Saved(new) == authority' = new
Unwritten == "write" \in AuthFaults /\ UNCHANGED authority
Unconfirmed(new) == "sync" \in AuthFaults /\ authority' = new
Failed(new) == Unwritten \/ Unconfirmed(new)

First == [active |-> psk, pending |-> None]

(* Initialize, at every start: the first one derives the state, each later *)
(* one must find the environment's credential active.  The daemon ends     *)
(* when the save fails.                                                    *)
Initialize ==
    /\ ~serving
    /\ \/ authority = None /\ Saved(First) /\ serving' = TRUE
       \/ authority = None /\ Failed(First) /\ UNCHANGED serving
       \/ authority # None /\ authority.active = psk /\ serving' = TRUE /\ UNCHANGED authority
    /\ UNCHANGED <<psk, held, req, history>>

(* The operator puts a credential the client keeps into the environment.   *)
Configure == ~serving /\ psk' \in held /\ UNCHANGED <<authority, serving, held, req, history>>

(* The client proposes a fresh credential, or asks for the promotion of    *)
(* the one it has proposed; it keeps both while it has no clear answer.    *)
Send(op, key, new) ==
    /\ serving /\ req = None /\ key \in held
    /\ IF op = "rotate" THEN new \in Secrets \ held ELSE new = None /\ held # {key}
    /\ req' = [op |-> op, key |-> key, new |-> new, verified |-> FALSE]
    /\ held' = held \cup ({new} \ {None}) /\ UNCHANGED <<authority, serving, psk, history>>

(* withAuth: either credential in the state will do; any other request is  *)
(* answered 401 and changes nothing.                                       *)
VerifyBearer ==
    /\ serving /\ req # None /\ ~req.verified
    /\ IF req.key \in {authority.active, authority.pending}
       THEN req' = [req EXCEPT !.verified = TRUE] /\ UNCHANGED held
       ELSE req' = None /\ held' = held \ {req.new}
    /\ UNCHANGED <<authority, serving, psk, history>>

Proposed == [authority EXCEPT !.pending = req.new]

(* 202 when the proposal is saved; on any error 400, and the client        *)
(* forgets it, although the file has it if the error came after the        *)
(* rename.                                                                 *)
BeginRotation ==
    /\ serving /\ req # None /\ req.verified /\ req.op = "rotate" /\ req' = None
    /\ \/ authority.pending = None /\ Saved(Proposed) /\ UNCHANGED <<held, disowned>>
       \/ authority.pending = None /\ Unwritten /\ held' = held \ {req.new} /\ UNCHANGED disowned
       \/ /\ authority.pending = None /\ Unconfirmed(Proposed)
          /\ held' = held \ {req.new} /\ disowned' = disowned \cup {req.new}
       \/ authority.pending # None /\ held' = held \ {req.new} /\ UNCHANGED <<authority, disowned>>
    /\ UNCHANGED <<serving, psk, blind>>

Promoted == [active |-> authority.pending, pending |-> None]

(* PromotePending names no credential: a request under the old one, which  *)
(* does not show that its sender has the new one, puts that in force too.  *)
PutsInForce ==
    blind' = (blind \/ (authority.pending \in disowned /\ req.key # authority.pending))

\* Mutant: the pending credential is cleared and not put in force.
PromoteCleared ==
    /\ serving /\ req # None /\ req.verified /\ req.op = "promote" /\ req' = None
    /\ authority' = [authority EXCEPT !.pending = None]
    /\ held' = IF authority.pending = None THEN held ELSE held \ {authority.active}
    /\ UNCHANGED <<serving, psk, history>>

(* 200 when the promotion is saved, and the client drops the old           *)
(* credential; 409 on any error.                                           *)
PromotePending ==
    /\ serving /\ req # None /\ req.verified /\ req.op = "promote" /\ req' = None
    /\ \/ authority.pending # None /\ Saved(Promoted) /\ PutsInForce /\ held' = held \ {authority.active}
       \/ authority.pending # None /\ Unwritten /\ UNCHANGED <<held, blind>>
       \/ authority.pending # None /\ Unconfirmed(Promoted) /\ PutsInForce /\ UNCHANGED held
       \/ authority.pending = None /\ UNCHANGED <<authority, held, blind>>
    /\ UNCHANGED <<serving, psk, disowned>>

(* The daemon ends; a request under way gets no answer, done or not.       *)
Stop ==
    /\ serving /\ serving' = FALSE
    /\ \/ req = None /\ UNCHANGED <<authority, req, blind>>
       \/ /\ req # None /\ "crash" \in AuthFaults /\ req' = None
          /\ \/ UNCHANGED <<authority, blind>>
             \/ /\ req.verified /\ req.op = "rotate" /\ authority.pending = None
                /\ authority' = Proposed /\ UNCHANGED blind
             \/ /\ req.verified /\ req.op = "promote" /\ authority.pending # None
                /\ authority' = Promoted /\ PutsInForce
    /\ UNCHANGED <<psk, held, disowned>>

(* The client settles which credential is in force (GET /api/auth/state    *)
(* and a request with each): it drops one that is not in the state.        *)
Settle ==
    /\ serving /\ req = None /\ held' = held \cap {authority.active, authority.pending} /\ held' # {}
    /\ UNCHANGED <<authority, serving, psk, req, history>>

AuthNext ==
    \/ Initialize \/ Configure \/ VerifyBearer \/ BeginRotation \/ PromotePending \/ Stop \/ Settle
    \/ \E op \in Ops, key \in Secrets, new \in Secrets \cup {None} : Send(op, key, new)

AuthSpec == AuthInit /\ [][AuthNext]_authVars

-----------------------------------------------------------------------------
(* Whatever end a save has and whichever answers get lost, the credential  *)
(* in force is one the client keeps, so that following the answers does    *)
(* not lock it out and the daemon can be started again.  The one exception *)
(* takes two steps: a proposal that BeginRotation answers as rejected      *)
(* although WriteAtomic failed after its rename, and then a promotion that *)
(* is asked for under the old credential.  A client that asks for the      *)
(* promotion under the new one is never locked out.                        *)
NeverLockedOut == authority # None => authority.active \in held \/ blind
=============================================================================
