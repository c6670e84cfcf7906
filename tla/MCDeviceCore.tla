---------------------------- MODULE MCDeviceCore ----------------------------
(***************************************************************************)
(* Two networks under two SSIDs, so that each is the wrong one for the     *)
(* other.                                                                  *)
(***************************************************************************)
EXTENDS DeviceCore, TLC

CONSTANTS home, shop, s1, s2

MCNets == {home, shop}
MCTwoSsids == home :> s1 @@ shop :> s2
=============================================================================
