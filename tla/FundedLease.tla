------------------------------ MODULE FundedLease ------------------------------
(* What one funded storage charge promises, without gates, counters or threads. *)
(* The host pays Charge once.  Uses come and go while the lease is open.  Once  *)
(* the construction has handed its reservation over, the whole charge returns   *)
(* to the host in one step, and only after the lease is closed and its last use *)
(* has ended.                                                                   *)
EXTENDS Naturals

CONSTANTS Uses,      \* the identities of the uses that may be taken
          Charge     \* the bytes the construction reserved

VARIABLES paid,      \* bytes the host account still carries for this storage
          handed,    \* the construction has handed its reservation over
          live,      \* uses that have been granted and have not ended
          ended,     \* uses that have ended; a use is never granted twice
          closed     \* no new use is granted

leaseVars == <<paid, handed, live, ended, closed>>

Init ==
  /\ paid = Charge /\ handed = FALSE
  /\ live = {} /\ ended = {}
  /\ closed = FALSE

HandOver ==
  /\ ~handed /\ paid = Charge
  /\ handed' = TRUE
  /\ UNCHANGED <<paid, live, ended, closed>>

Grant(u) ==
  /\ ~closed /\ u \notin live \cup ended
  /\ live' = live \cup {u}
  /\ UNCHANGED <<paid, handed, ended, closed>>

End(u) ==
  /\ u \in live
  /\ live' = live \ {u} /\ ended' = ended \cup {u}
  /\ UNCHANGED <<paid, handed, closed>>

Close ==
  /\ ~closed /\ closed' = TRUE
  /\ UNCHANGED <<paid, handed, live, ended>>

(* The whole charge returns at once, when nobody uses the storage any more.     *)
Refund ==
  /\ handed /\ paid = Charge /\ closed /\ live = {}
  /\ paid' = 0
  /\ UNCHANGED <<handed, live, ended, closed>>

(* The construction failed before the hand-over: its own scope refunds it.      *)
Abandon ==
  /\ ~handed /\ paid = Charge
  /\ paid' = 0
  /\ UNCHANGED <<handed, live, ended, closed>>

Next ==
  \/ HandOver \/ Close \/ Refund \/ Abandon
  \/ \E u \in Uses : Grant(u) \/ End(u)

Lease == Init /\ [][Next]_leaseVars
================================================================================
