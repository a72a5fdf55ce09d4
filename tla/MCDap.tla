-------------------------------- MODULE MCDap --------------------------------
(***************************************************************************)
(* A session of a few requests over a program of a few statements.         *)
(***************************************************************************)
EXTENDS Dap

MCBpSets == {{}, {1}}
=============================================================================
