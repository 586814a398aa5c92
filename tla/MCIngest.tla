-------------------------------- MODULE MCIngest --------------------------------
(* Small instances of Ingest. *)
EXTENDS Ingest, TLC

CONSTANTS l1, w1, b1

(* One run of each of the three programs. *)
OneOfEach == l1 :> "local" @@ w1 :> "worker" @@ b1 :> "backfill"

=============================================================================
