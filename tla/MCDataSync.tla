------------------------------ MODULE MCDataSync ------------------------------
(* A small instance of DataSync for TLC: how many pages each partition     *)
(* has, and the calls callers make.                                        *)
EXTENDS DataSync

MCTwoThenOne == [p \in Partition |-> IF p = 1 THEN 2 ELSE 1]

(* Every run asks for the whole dataset.                                   *)
MCWholeDataset == {[run |-> r, target |-> LastPartition] : r \in Run}
=============================================================================
