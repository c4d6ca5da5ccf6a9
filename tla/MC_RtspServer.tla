---------------------------- MODULE MC_RtspServer ---------------------------
(* Model-checking instance of RtspServer; the cfg file gives the constants.*)
EXTENDS RtspServer, TLC

(* Connections and memory blocks are interchangeable.                      *)
BlockSymmetry == Permutations(Conn) \cup Permutations(Mem)
=============================================================================
