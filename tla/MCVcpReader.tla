----------------------------- MODULE MCVcpReader -----------------------------
(* Model-checking instance of VcpReader.                                    *)
EXTENDS VcpReader, TLC

CONSTANTS b1, b2
Symmetry == Permutations(Boards)
==============================================================================
