-------------------------------- MODULE MCRaft ---------------------------------
(* The consensus engine on three nodes and two threads that tick them. *)
EXTENDS Raft, TLC

OneSplit == {<<{1}, {2, 3}>>}
Symmetry == Permutations(Thread)
===============================================================================
