------------------------------ MODULE MC_SafeRead ------------------------------
(***************************************************************************)
(* Small instances of SafeRead: two files, a pipe and a directory, files   *)
(* of up to one byte more than the bound.                                  *)
(***************************************************************************)
EXTENDS SafeRead

CONSTANTS f, g, pipe, dir, x, y
=============================================================================
