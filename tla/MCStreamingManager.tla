-------------------------- MODULE MCStreamingManager --------------------------
(***************************************************************************)
(* Small instances of StreamingManager for TLC. Sockets and names are      *)
(* interchangeable.                                                        *)
(***************************************************************************)
EXTENDS StreamingManager, TLC

Symmetry == Permutations(Sockets) \union Permutations(Names)
================================================================================
