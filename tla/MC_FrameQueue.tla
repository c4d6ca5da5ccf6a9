---------------------------- MODULE MC_FrameQueue ---------------------------
(* Model-checking instance of FrameQueue; the cfg files give the constants.*)
EXTENDS FrameQueue
=============================================================================
