------------------------------- MODULE MCExtract -------------------------------
(* Small instances of Extract. *)
EXTENDS Extract, TLC

CONSTANTS c1, c2

(* Three messages of one chat; or two of one with another's in between. *)
OneChat == [m \in 1..3 |-> c1]
TwoChats == 1 :> c1 @@ 2 :> c2 @@ 3 :> c1

DispatcherSymmetry == Permutations(Dispatchers)

=============================================================================
