---------------------------- MODULE AddressSpace ----------------------------
(***************************************************************************)
(* What kernel/src/Paging/paging.c promises its callers: MapPage makes one *)
(* virtual page translate to a physical one, UnmapPage makes it translate  *)
(* to nothing, and neither disturbs any other page.                        *)
(*                                                                         *)
(* The promise ends with the first table for which there is no memory.     *)
(***************************************************************************)
CONSTANTS
  Pages,      \* virtual pages
  Targets,    \* physical pages they are mapped to
  Absent      \* no translation

VARIABLES
  space,      \* the physical page of every virtual page
  exhausted   \* MapPage needed a table and there was no frame left

Map(v, p) == space' = [space EXCEPT ![v] = p]
Unmap(v)  == space' = [space EXCEPT ![v] = Absent]

SpaceInit == space = [v \in Pages |-> Absent] /\ exhausted = FALSE

SpaceNext ==
  \/ /\ ~exhausted /\ ~exhausted'
     /\ \E v \in Pages : Unmap(v) \/ \E p \in Targets : Map(v, p)
  \/ exhausted'

SpaceSpec == SpaceInit /\ [][SpaceNext]_<<space, exhausted>>
=============================================================================
