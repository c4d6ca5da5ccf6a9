------------------------------ MODULE MC_Camera -----------------------------
(* Model-checking instance of Camera; the cfg file gives the constants.    *)
EXTENDS Camera
=============================================================================
