------------------------------ MODULE MCWatchdog ------------------------------
(* A small instance of Watchdog: all its values are in the configuration. *)
EXTENDS Watchdog

===============================================================================
