-------------------------------- MODULE MCClaude -------------------------------
(* Every reply up to a length; numbers at and around the thresholds. *)
EXTENDS Claude

MCConfidences == {-20, 0, 45, 46, 100, 8500}

===============================================================================
