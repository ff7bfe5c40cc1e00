----------------------------- MODULE ForwardSweep -----------------------------
(***************************************************************************)
(* ForwardWatch with a history of what stays in place during a walk.       *)
(***************************************************************************)
EXTENDS ForwardWatch

(* History: the paths in place and untouched since the current walk, a     *)
(* baseline or a scan, began; empty while nothing is walked.               *)
VARIABLE untouched

Walking == pc \in {"baseline", "scan", "snapshot", "upsert", "rename", "sync"}
WalkBegins == pc \in {"down", "idle"} /\ pc' \in {"baseline", "scan"}

Observe ==
    untouched' = IF WalkBegins THEN {p \in Paths : fs[p] # Nothing}
                 ELSE {p \in untouched : Walking' /\ fs'[p] = fs[p]}

observed == <<vars, untouched>>

SweepSpec == Init /\ untouched = {} /\ [][Next /\ Observe]_observed

ObservedSpec == SweepSpec /\ WF_observed(Daemon /\ Observe)

(* When the first state is about to be written, every source that stayed   *)
(* in place while baselineForwardPaths walked the roots is excluded by     *)
(* path and by identity, whatever was created, renamed or deleted          *)
(* meanwhile.                                                              *)
BaselineComplete ==
    pc = "rename" /\ mem = Nothing =>
        \A p \in untouched : p \in staged.paths /\ fs[p].obj \in staged.objects

(* When scanForward finishes and reports the producer ready, no source     *)
(* that stayed in place since the scan began is still to be uploaded.      *)
SweepComplete ==
    [][pc = "scan" /\ pc' = "idle" => ready' /\ \A p \in untouched : ~Awaiting(p)]_observed
=============================================================================
