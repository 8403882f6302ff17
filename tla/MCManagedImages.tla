-------------------------- MODULE MCManagedImages --------------------------
(***************************************************************************)
(* Two requests at a time, three images and two VMs.                       *)
(***************************************************************************)
EXTENDS ManagedImages, TLC

Symmetry == Permutations(Handlers) \union Permutations(Images) \union Permutations(Vms)
=============================================================================
