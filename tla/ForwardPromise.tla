---------------------------- MODULE ForwardPromise ----------------------------
(***************************************************************************)
(* What forward-only capture promises, with no files, scans or failures:   *)
(* a cutoff is set once; paths, identities and sessions are barred and     *)
(* never readmitted; only current sources that are not barred are sent;    *)
(* and a source is acknowledged only after it was sent.                    *)
(***************************************************************************)
EXTENDS Naturals

CONSTANTS
    Items,              \* sources: path, identity and content
    Cutoffs,
    Current(_, _),      \* is every record and chunk of an item at or after a cutoff?
    Barred(_, _, _, _), \* is an item barred by these paths, identities and sessions?
    Unset

VARIABLES cutoff, paths, objects, sessions, sent, acked

promise == <<cutoff, paths, objects, sessions, sent, acked>>

Init ==
    /\ cutoff = Unset
    /\ paths = {} /\ objects = {} /\ sessions = {}
    /\ sent = {} /\ acked = {}

(* Barred sets only ever grow.                                             *)
Grow == paths \subseteq paths' /\ objects \subseteq objects' /\ sessions \subseteq sessions'

Enable ==
    /\ cutoff = Unset /\ cutoff' \in Cutoffs
    /\ Grow
    /\ UNCHANGED <<sent, acked>>

Bar ==
    /\ cutoff # Unset /\ Grow
    /\ UNCHANGED <<cutoff, sent, acked>>

Send(u) ==
    /\ cutoff # Unset /\ Current(u, cutoff)
    /\ ~Barred(u, paths, objects, sessions)
    /\ sent' = sent \cup {u}
    /\ UNCHANGED <<cutoff, paths, objects, sessions, acked>>

(* The newest acknowledged content of a path replaces the one before it.   *)
Acknowledge(u) ==
    /\ u \in sent
    /\ acked' = {a \in acked : a[1] # u.path} \cup {<<u.path, u.content>>}
    /\ UNCHANGED <<cutoff, paths, objects, sessions, sent>>

Next == Enable \/ Bar \/ \E u \in Items : Send(u) \/ Acknowledge(u)

Spec == Init /\ [][Next]_promise
=============================================================================
