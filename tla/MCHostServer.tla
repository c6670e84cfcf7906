---------------------------- MODULE MCHostServer ----------------------------
(***************************************************************************)
(* Instance for TLC: two devices and three connections, so that both can   *)
(* be remembered and a third connection still comes, three handles, and    *)
(* sessions enough for every way to reconnect.                             *)
(***************************************************************************)
EXTENDS HostServer
=============================================================================
