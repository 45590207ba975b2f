------------------------------- MODULE MCBTree -------------------------------
(* Model-checking instances of BTree.                                      *)
EXTENDS BTree

Small   == [size |-> 1, chunks |-> 0]
Chained == [size |-> 1, chunks |-> 2]

AnyShape   == [k \in Key |-> IF k = 3 THEN {Small, Chained} ELSE {Small}]
SmallShape == [k \in Key |-> {Small}]
=============================================================================
