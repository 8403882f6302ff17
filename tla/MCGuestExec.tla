---------------------------- MODULE MCGuestExec ----------------------------
(***************************************************************************)
(* Output in chunks of two, of which up to three may be unread.            *)
(***************************************************************************)
EXTENDS GuestExec, TLC
=============================================================================
