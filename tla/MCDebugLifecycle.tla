-------------------------- MODULE MCDebugLifecycle --------------------------
(* Model-checking instance of DebugLifecycle.                              *)
EXTENDS DebugLifecycle

CONSTANT c1
=============================================================================
