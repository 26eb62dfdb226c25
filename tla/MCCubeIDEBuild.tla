-------------------------- MODULE MCCubeIDEBuild ----------------------------
(* Model-checking instance of CubeIDEBuild: the calls of run_tool are the  *)
(* builds' own.                                                            *)
EXTENDS CubeIDEBuild, TLC

CONSTANTS first, second
BuildSymmetry == Permutations(Builds)
=============================================================================
