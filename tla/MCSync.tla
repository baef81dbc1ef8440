------------------------------- MODULE MCSync -------------------------------
(***************************************************************************)
(* Instances of Sync: nodes with services of their own and shared ones.    *)
(***************************************************************************)
EXTENDS Sync

LoadedOne == [n \in Node |-> {1}]
LoadedSome == [n \in Node |-> IF n = 1 THEN {2} ELSE {1, 3}]
=============================================================================
