---------------------------- MODULE MCDebugRecipe ----------------------------
(* Model-checking instance of DebugRecipe.                                  *)
EXTENDS DebugRecipe
==============================================================================
