----------------------------- MODULE MC_RtspOut -----------------------------
(* Model-checking instance of RtspOut; the cfg file gives the constants.   *)
EXTENDS RtspOut
=============================================================================
