----------------------------- MODULE FundedStorage -----------------------------
(* Utf8FundedStorage: one conservative storage charge shared by the threads     *)
(* that use a prepared value.  Each gate section of the code is one step; the   *)
(* call to allowance.Release, made after the gate is left, is a step of its own.*)
EXTENDS Integers, FiniteSets

CONSTANTS Threads,   \* threads that call into the storage
          Uses,      \* Use objects; each is created by one Enter
          NoUse,     \* not a Use
          Charge     \* bytes reserved by the construction before Retain

ASSUME UsesAssumption == IsFiniteSet(Uses) /\ NoUse \notin Uses
ASSUME ChargeAssumption == Charge \in Nat \ {0}

VARIABLES bytes,     \* _bytes
          users,     \* _users
          closed,    \* _closed
          scope,     \* bytes still held by the construction scope
          handed,    \* Retain has been called
          owner,     \* per Use: "new", "live" (_owner set), "taken" (exchanged), "left"
          pc,        \* per thread: "idle", or the step it is about to take
          taking,    \* per thread: the Use whose Leave it will run
          due,       \* per thread: the local `release`, to be paid after the gate
          account    \* bytes the host's allowance counts for this storage

vars == <<bytes, users, closed, scope, handed, owner, pc, taking, due, account>>

--------------------------------------------------------------------------------
Init ==
  /\ bytes = 0 /\ users = 0 /\ closed = FALSE
  /\ scope = Charge /\ handed = FALSE
  /\ owner = [u \in Uses |-> "new"]
  /\ pc = [p \in Threads |-> "idle"]
  /\ taking = [p \in Threads |-> NoUse]
  /\ due = [p \in Threads |-> 0]
  /\ account = Charge

(* After a gate section thread p either pays back `amount` or is done.          *)
AfterGate(p, amount) ==
  /\ pc' = [pc EXCEPT ![p] = IF amount # 0 THEN "release" ELSE "idle"]
  /\ due' = [due EXCEPT ![p] = amount]

(* The charge is stored; a storage already closed and unused refunds at once.   *)
Retain(p) ==
  /\ pc[p] = "idle" /\ ~handed /\ scope # 0
  /\ scope' = 0 /\ handed' = TRUE
  /\ LET refund == closed /\ users = 0
     IN  /\ bytes' = IF refund THEN 0 ELSE scope
         /\ AfterGate(p, IF refund THEN scope ELSE 0)
  /\ UNCHANGED <<users, closed, owner, taking, account>>

(* A construction that fails before Retain releases its own reservation.        *)
Rollback(p) ==
  /\ pc[p] = "idle" /\ ~handed /\ scope # 0
  /\ scope' = 0 /\ account' = account - scope
  /\ UNCHANGED <<bytes, users, closed, handed, owner, pc, taking, due>>

\* mutant: a use is granted on a storage that was already closed
Enter_AfterClose(p, u) ==
  /\ pc[p] = "idle" /\ owner[u] = "new"
  /\ users' = users + 1
  /\ owner' = [owner EXCEPT ![u] = "live"]
  /\ UNCHANGED <<bytes, closed, scope, handed, pc, taking, due, account>>

(* Enter on a closed storage throws ObjectDisposedException and changes nothing.*)
Enter(p, u) ==
  /\ pc[p] = "idle" /\ owner[u] = "new"
  /\ ~closed
  /\ users' = users + 1
  /\ owner' = [owner EXCEPT ![u] = "live"]
  /\ UNCHANGED <<bytes, closed, scope, handed, pc, taking, due, account>>

\* mutant: Close refunds although uses are in flight
Close_IgnoresUsers(p) ==
  /\ pc[p] = "idle" /\ ~closed
  /\ closed' = TRUE /\ bytes' = 0
  /\ AfterGate(p, bytes)
  /\ UNCHANGED <<users, scope, handed, owner, taking, account>>

(* Close stops new uses; a second Close returns early.                          *)
Close(p) ==
  /\ pc[p] = "idle" /\ ~closed
  /\ closed' = TRUE
  /\ bytes' = IF users = 0 THEN 0 ELSE bytes
  /\ AfterGate(p, IF users = 0 THEN bytes ELSE 0)
  /\ UNCHANGED <<users, scope, handed, owner, taking, account>>

\* mutant: Dispose reads _owner and clears it only later, in Leave
Dispose_NotAtomic(p, u) ==
  /\ pc[p] = "idle" /\ owner[u] = "live"
  /\ taking' = [taking EXCEPT ![p] = u]
  /\ pc' = [pc EXCEPT ![p] = "leave"]
  /\ UNCHANGED <<bytes, users, closed, scope, handed, owner, due, account>>

(* Use.Dispose: one Interlocked.Exchange wins _owner; later calls see null.     *)
Dispose(p, u) ==
  /\ pc[p] = "idle" /\ owner[u] = "live"
  /\ owner' = [owner EXCEPT ![u] = "taken"]
  /\ taking' = [taking EXCEPT ![p] = u]
  /\ pc' = [pc EXCEPT ![p] = "leave"]
  /\ UNCHANGED <<bytes, users, closed, scope, handed, due, account>>

\* mutant: the bytes are read for the refund but not cleared
Leave_KeepsBytes(p) ==
  /\ pc[p] = "leave" /\ users > 0
  /\ users' = users - 1
  /\ AfterGate(p, IF closed THEN bytes ELSE 0)
  /\ owner' = [owner EXCEPT ![taking[p]] = "left"]
  /\ taking' = [taking EXCEPT ![p] = NoUse]
  /\ UNCHANGED <<bytes, closed, scope, handed, account>>

\* mutant: the last use to end forgets that a closed storage is now refundable
Leave_NoRefund(p) ==
  /\ pc[p] = "leave" /\ users > 0
  /\ users' = users - 1
  /\ AfterGate(p, 0)
  /\ owner' = [owner EXCEPT ![taking[p]] = "left"]
  /\ taking' = [taking EXCEPT ![p] = NoUse]
  /\ UNCHANGED <<bytes, closed, scope, handed, account>>

(* Leave: the last use of a closed storage takes the charge out for refund.     *)
(* The throw for users <= 0 is LeaveNeverThrows' subject: no step is taken.     *)
Leave(p) ==
  /\ pc[p] = "leave" /\ users > 0
  /\ users' = users - 1
  /\ LET refund == closed /\ users = 1
     IN  /\ bytes' = IF refund THEN 0 ELSE bytes
         /\ AfterGate(p, IF refund THEN bytes ELSE 0)
  /\ owner' = [owner EXCEPT ![taking[p]] = "left"]
  /\ taking' = [taking EXCEPT ![p] = NoUse]
  /\ UNCHANGED <<closed, scope, handed, account>>

(* allowance.Release(release), outside the gate.                                *)
Release(p) ==
  /\ pc[p] = "release"
  /\ account' = account - due[p]
  /\ due' = [due EXCEPT ![p] = 0]
  /\ pc' = [pc EXCEPT ![p] = "idle"]
  /\ UNCHANGED <<bytes, users, closed, scope, handed, owner, taking>>

Next ==
  \E p \in Threads :
    \/ Retain(p) \/ Rollback(p) \/ Close(p) \/ Leave(p) \/ Release(p)
    \/ \E u \in Uses : Enter(p, u) \/ Dispose(p, u)

Spec == Init /\ [][Next]_vars

(* A thread that has entered Dispose or holds a refund runs it to the end.      *)
Fairness == \A p \in Threads : WF_vars(Leave(p)) /\ WF_vars(Release(p))

FairSpec == Spec /\ Fairness

--------------------------------------------------------------------------------
InFlight == {u \in Uses : owner[u] \in {"live", "taken"}}

TypeOK ==
  /\ bytes \in {0, Charge} /\ scope \in {0, Charge} /\ account \in {0, Charge}
  /\ users \in Nat /\ closed \in BOOLEAN /\ handed \in BOOLEAN
  /\ owner \in [Uses -> {"new", "live", "taken", "left"}]
  /\ pc \in [Threads -> {"idle", "leave", "release"}]
  /\ taking \in [Threads -> Uses \cup {NoUse}]
  /\ due \in [Threads -> {0, Charge}]

(* While a granted use is in flight, a charge that has been handed over is      *)
(* neither refunded nor on its way to the host: closing a cache entry or a      *)
(* program owner under a running call never returns that call's bytes.          *)
NoRefundUnderUse ==
  handed /\ InFlight # {} => bytes = Charge /\ \A p \in Threads : due[p] = 0

(* The charge is in exactly one place (the construction scope, the storage, or  *)
(* one thread about to release it) until the host has been paid back once.      *)
ChargeInOnePlace ==
  LET holders == {p \in Threads : due[p] # 0}
  IN  /\ \A p, q \in holders : p = q
      /\ scope # 0 => bytes = 0 /\ holders = {}
      /\ bytes # 0 => holders = {}
      /\ account = (IF scope # 0 \/ bytes # 0 \/ holders # {} THEN Charge ELSE 0)

(* The InvalidOperationException of Leave, "Storage use was already released",  *)
(* is unreachable, although several threads may dispose the same Use.           *)
LeaveNeverThrows ==
  \A p \in Threads : pc[p] = "leave" => users > 0

(* Under the threads' fairness a closed storage that has been handed over and   *)
(* is no longer used is refunded, whichever of Close, Leave and Retain is last. *)
EventuallyRefunded ==
  (closed /\ handed /\ \A u \in Uses : owner[u] # "live") ~> (account = 0)

(* The detailed storage implements the lease: a charge is granted, ended and    *)
(* refunded as the abstract specification allows, at the Release step.          *)
L == INSTANCE FundedLease WITH
       paid <- account,
       live <- InFlight,
       ended <- {u \in Uses : owner[u] = "left"}

ImplementsLease == L!Lease
================================================================================
