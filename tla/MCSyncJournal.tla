---------------------------- MODULE MCSyncJournal ----------------------------
(* Model-checking instances of SyncJournal: two nodes, one writer on each. *)
EXTENDS SyncJournal, TLC

OwnNode == [w \in Writers |-> w]
SameTime == [n \in Nodes |-> 0]
SecondAhead == [n \in Nodes |-> IF n = 2 THEN 1 ELSE 0]
Symmetry == Permutations(Entities)
=============================================================================
