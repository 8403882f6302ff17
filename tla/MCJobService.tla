--------------------------- MODULE MCJobService ---------------------------
(***************************************************************************)
(* Two requests for the same VM name, with an image each.                  *)
(***************************************************************************)
EXTENDS JobService, TLC

CONSTANTS j1, j2

MCVmName == j1 :> "alpha" @@ j2 :> "alpha"
MCImageId == j1 :> "a.qcow2" @@ j2 :> "b.qcow2"
===========================================================================
