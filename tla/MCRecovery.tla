------------------------------ MODULE MCRecovery ------------------------------
(***************************************************************************)
(* Two hosts, a word of three bits, in which a base of two is gone after   *)
(* two doublings, and a back-off of at most three ticks.                   *)
(***************************************************************************)
EXTENDS Recovery
=============================================================================
