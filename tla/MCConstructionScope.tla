-------------------------- MODULE MCConstructionScope --------------------------
(* Model-checking instance of ConstructionScope: a root and two nested scopes.  *)
EXTENDS ConstructionScope
================================================================================
