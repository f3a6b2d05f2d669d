------------------------------- MODULE MCLoader -------------------------------
(* The loader with the numbers of functions the code registers. *)
EXTENDS Loader

MCNumFuncs == [CF |-> 13, IOKit |-> 6, IOReport |-> 15]
=============================================================================
