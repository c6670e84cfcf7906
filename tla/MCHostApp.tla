------------------------------ MODULE MCHostApp -----------------------------
(***************************************************************************)
(* HostApp for TLC.                                                        *)
(***************************************************************************)
EXTENDS HostApp
=============================================================================
