---------------------------- MODULE MCForwardSweep ----------------------------
(* ForwardSweep on the instances of MCForwardWatch.                        *)
EXTENDS MCForwardWatch, ForwardSweep
=============================================================================
