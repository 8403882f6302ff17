--------------------------- MODULE MCVncConsole ---------------------------
(***************************************************************************)
(* Two VMs, two ports, two tickets and two requests.                       *)
(***************************************************************************)
EXTENDS VncConsole, TLC
=============================================================================
