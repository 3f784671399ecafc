-------------------------------- MODULE Null --------------------------------
(* The null, undefined and None of the programs. *)
CONSTANT Nil
=============================================================================
