------------------------------ MODULE MCFrames ------------------------------
(***************************************************************************)
(* FrameStream for TLC alone.  The longest text here fits the buffer twice *)
(* they stand for frames of up to 515 bytes, after a part of which another *)
(* 512 bytes never overflow it.                                            *)
(***************************************************************************)
EXTENDS FrameStream
=============================================================================
