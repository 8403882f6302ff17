---------------------------- MODULE MCCdromMedia ----------------------------
(***************************************************************************)
(* One command of the CLI beside one request, and one upload.              *)
(***************************************************************************)
EXTENDS CdromMedia, TLC
=============================================================================
