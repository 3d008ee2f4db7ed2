------------------------------- MODULE Allocator -------------------------------
(***************************************************************************)
(* The parts of the memory allocator.  They share no state: the caches ask *)
(* the system, not the arena, for memory, and neither uses the hazard      *)
(* pointers.  A behaviour of the allocator is one of each; here one part   *)
(* moves while the others stay where they started.                         *)
(***************************************************************************)
EXTENDS ThreadCache, CentralArena, HazardPointers

VARIABLE part   \* the part that moves

vars == <<part, cacheVars, arenaVars, hazardVars>>

Init == part \in {"caches", "arena", "hazards"} /\ CacheInit /\ ArenaInit /\ HazardInit

Next ==
  /\ UNCHANGED part
  /\ \/ part = "caches"  /\ CacheNext  /\ UNCHANGED <<arenaVars, hazardVars>>
     \/ part = "arena"   /\ ArenaNext  /\ UNCHANGED <<cacheVars, hazardVars>>
     \/ part = "hazards" /\ HazardNext /\ UNCHANGED <<cacheVars, arenaVars>>

Spec == Init /\ [][Next]_vars
===============================================================================
