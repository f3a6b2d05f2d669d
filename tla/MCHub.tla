-------------------------------- MODULE MCHub --------------------------------
(* Small instances of the web server for TLC. *)
EXTENDS Hub, TLC

ClientsSymmetry == Permutations(Clients)
=============================================================================
