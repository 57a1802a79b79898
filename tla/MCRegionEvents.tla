---------------------------- MODULE MCRegionEvents ----------------------------
(* Small instances of RegionEvents for TLC.                                *)
EXTENDS RegionEvents, TLC

\* Regions and native threads are interchangeable; addresses are ordered and
\* are not.
Symmetry == Permutations(Regions) \cup Permutations(Threads)
=============================================================================
