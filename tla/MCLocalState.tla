---------------------------- MODULE MCLocalState ----------------------------
(***************************************************************************)
(* The states the history components keep in files of their own: the       *)
(* upload queue, the cursors and the authority, each with its own file and *)
(* mutex, and a name in the daemon's state directory.  Nothing one of them *)
(* does is seen by another, so a behaviour follows one of them.            *)
(***************************************************************************)
EXTENDS UploadQueue, CursorState, AuthRotation, DurableRoot, TLC

(* The queue's items are alike to it.                                      *)
Symmetry == Permutations(Ids)

VARIABLE part

vars == <<queueVars, cursorVars, authVars, rootVars, part>>

queueOnly == <<now, enqueuing, owed>>
cursorOnly == <<putting, confirmed>>

Init ==
    /\ QueueInit /\ CursorInit /\ AuthInit /\ RootInit
    /\ part \in {"queue", "cursor", "authority", "directory"}
    /\ part # "authority" => psk = CHOOSE k \in Secrets : TRUE

Next ==
    \/ part = "queue" /\ QueueNext /\ UNCHANGED <<cursorOnly, authVars, rootVars, part>>
    \/ part = "cursor" /\ CursorNext /\ UNCHANGED <<queueOnly, authVars, rootVars, part>>
    \/ part = "authority" /\ AuthNext /\ UNCHANGED <<store, queueOnly, cursorOnly, rootVars, part>>
    \/ part = "directory" /\ RootNext /\ UNCHANGED <<queueVars, cursorOnly, authVars, part>>

Spec == Init /\ [][Next]_vars
=============================================================================
