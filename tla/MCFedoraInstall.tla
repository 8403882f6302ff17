-------------------------- MODULE MCFedoraInstall --------------------------
(***************************************************************************)
(* Two runs that ask for the same VM name, disk and output path.           *)
(***************************************************************************)
EXTENDS FedoraInstall, TLC

CONSTANTS r1, r2

SameForAll == [r \in Runs |-> "alpha"]
============================================================================
