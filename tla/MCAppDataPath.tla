--------------------------- MODULE MCAppDataPath ----------------------------
(***************************************************************************)
(* Instance for TLC: the window's thread and the scenario engine, a ring   *)
(* of two slots, four pushes (the ring wraps twice and fills), two         *)
(* sessions.                                                               *)
(***************************************************************************)
EXTENDS AppDataPath
=============================================================================
