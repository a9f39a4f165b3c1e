---------------------------- MODULE LinkedListMC ----------------------------
(* LinkedList on four nodes.  The nodes are interchangeable: malloc may    *)
(* return any of them and nothing compares addresses except for equality.  *)
EXTENDS LinkedList, TLC

Symmetry == Permutations(Addr)
=============================================================================
