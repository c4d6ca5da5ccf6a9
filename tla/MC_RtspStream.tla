---------------------------- MODULE MC_RtspStream ---------------------------
(* Model-checking instance of RtspStream; the cfg files give the constants.*)
EXTENDS RtspStream, TLC

(* Connections are interchangeable in the safety runs.                     *)
ConnSymmetry == Permutations(Conns)
=============================================================================
