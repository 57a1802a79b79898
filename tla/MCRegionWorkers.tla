---------------------------- MODULE MCRegionWorkers ----------------------------
(* Small instances of RegionWorkers for TLC.                               *)
EXTENDS RegionWorkers, TLC

CONSTANTS o1, r1

\* One JavaScript object for one region.
MCRegionOf == o1 :> r1

\* The operations of a run.
MCAllKinds == AllKinds
MCClear == {"clear"}
MCPut == {"put"}
=============================================================================
