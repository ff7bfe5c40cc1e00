------------------------- MODULE MCDaemonLifecycle -------------------------
(***************************************************************************)
(* Instances of DaemonLifecycle: runs and one other process, which may be  *)
(* given the PID that the first run had.                                   *)
(***************************************************************************)
EXTENDS DaemonLifecycle, TLC

CONSTANTS d1, d2, d3, x

(* x can only live, and only be mistaken for d1, while d1 does not live.   *)
MCPidOf == (d1 :> 1) @@ (d2 :> 2) @@ (d3 :> 3) @@ (x :> 1)
=============================================================================
