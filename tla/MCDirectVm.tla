----------------------------- MODULE MCDirectVm -----------------------------
(***************************************************************************)
(* Two commands at a time and three process numbers.                       *)
(***************************************************************************)
EXTENDS DirectVm, TLC
=============================================================================
