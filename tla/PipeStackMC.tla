---------------------------- MODULE PipeStackMC ----------------------------
(* PipeStack with blocks of the heap that can take each other's places. *)
EXTENDS PipeStack, TLC

Blocks == Permutations(Addr)
=============================================================================
