---------------------------- MODULE MCFundedStorage ----------------------------
(* Model-checking instance of FundedStorage: three threads that may close the   *)
(* storage and dispose each other's uses, and three uses.                       *)
EXTENDS FundedStorage
================================================================================
