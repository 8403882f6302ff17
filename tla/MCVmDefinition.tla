--------------------------- MODULE MCVmDefinition ---------------------------
(***************************************************************************)
(* Two disks, two trays and two interfaces at most, two ids of each, two   *)
(* paths.                                                                  *)
(***************************************************************************)
EXTENDS VmDefinition, TLC

Symmetry == Permutations(DiskIds) \union Permutations(NicIds) \union Permutations(Paths)

\* Nothing depends on which number a disk or a tray has, nor on the history.
Anonymous(devices) == {[d EXCEPT !.node = 0] : d \in devices}
MCView == <<defined, Anonymous(disks), Anonymous(trays), nics, settings, focus>>
=============================================================================
