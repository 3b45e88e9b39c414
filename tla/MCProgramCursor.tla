---------------------------- MODULE MCProgramCursor ----------------------------
(* Model-checking instances of ProgramCursor: an owner with two allowances, the *)
(* program's and one other, either of which a cursor or a receipt may use.      *)
EXTENDS ProgramCursor, TLC

Symmetry == Permutations(Threads) \cup Permutations(Cursors) \cup Permutations(Receipts)
================================================================================
