------------------------------ MODULE MCAllocator ------------------------------
(* The memory allocator: two or three threads, blocks, nodes and objects. *)
EXTENDS Allocator, TLC

Symmetry == Permutations(Object) \union Permutations(User)
===============================================================================
