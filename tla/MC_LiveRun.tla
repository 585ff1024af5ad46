------------------------------ MODULE MC_LiveRun ------------------------------
(***************************************************************************)
(* Small instances of LiveRun: two processes, one or two seconds.          *)
(***************************************************************************)
EXTENDS LiveRun

CONSTANTS r1, r2, i1, i2
=============================================================================
