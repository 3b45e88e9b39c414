--------------------------- MODULE MCInvocationBudget ---------------------------
EXTENDS InvocationBudget

Limit(work, depth, working, result) ==
  [work |-> work, depth |-> depth, working |-> working, result |-> result]

(* Unlimited, the largest ulong, and limits that deny each resource first.      *)
MCLimits ==
  {Limit(0, 0, 0, 0), Limit(5, 0, 5, 5), Limit(2, 0, 4, 0), Limit(4, 1, 0, 4),
   Limit(3, 1, 3, 3), Limit(3, 0, 4, 5)}
=================================================================================
