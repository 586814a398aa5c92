-------------------------------- MODULE MCSync --------------------------------
(* A small instance of Sync: all its values are in the configuration. *)
EXTENDS Sync

===============================================================================
