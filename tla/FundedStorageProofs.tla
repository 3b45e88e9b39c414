-------------------------- MODULE FundedStorageProofs --------------------------
(* Proofs about FundedStorage, for any set of threads, any finite set of uses   *)
(* and any positive charge.                                                     *)
EXTENDS FundedStorage, FiniteSetTheorems, TLAPS

(* Each thread that is about to run Leave holds a Use nobody else holds.        *)
TakersDistinct ==
  /\ \A p \in Threads : pc[p] = "leave" => taking[p] \in Uses /\ owner[taking[p]] = "taken"
  /\ \A p, q \in Threads : pc[p] = "leave" /\ pc[q] = "leave" /\ taking[p] = taking[q] => p = q

(* _users counts the uses in flight.                                            *)
UsersCount == users = Cardinality(InFlight)

(* Where the charge is, by phase: with the construction until it is handed over,*)
(* then in the storage until it is closed and unused.                           *)
Phases ==
  /\ \A p \in Threads : pc[p] = "release" <=> due[p] # 0
  /\ handed => scope = 0
  /\ ~handed => bytes = 0 /\ \A p \in Threads : due[p] = 0
  /\ handed /\ ~closed => bytes = Charge /\ \A p \in Threads : due[p] = 0

IInv ==
  /\ TypeOK /\ TakersDistinct /\ UsersCount /\ Phases
  /\ ChargeInOnePlace /\ NoRefundUnderUse

(* Adding or removing one use changes the count by one.                         *)
LEMMA InFlightFinite == IsFiniteSet(InFlight) /\ IsFiniteSet(InFlight')
<1>1. InFlight \subseteq Uses /\ InFlight' \subseteq Uses
  BY DEF InFlight
<1>2. QED
  BY <1>1, UsesAssumption, FS_Subset

(* The count is zero exactly when no use is in flight.                          *)
LEMMA CountZero ==
  ASSUME UsersCount
  PROVE  /\ users \in Nat
         /\ users = 0 <=> InFlight = {}
<1>1. Cardinality(InFlight) \in Nat
  BY InFlightFinite, FS_CardinalityType
<1>2. Cardinality(InFlight) = 0 <=> InFlight = {}
  BY InFlightFinite, FS_EmptySet
<1>3. QED
  BY <1>1, <1>2 DEF UsersCount

LEMMA InitIInv == Init => IInv
<1>1. SUFFICES ASSUME Init PROVE IInv
  OBVIOUS
<1>2. InFlight = {}
  BY <1>1 DEF Init, InFlight
<1>3. UsersCount
  BY <1>1, <1>2, FS_EmptySet DEF Init, UsersCount
<1>4. TypeOK
  <2>1. closed \in BOOLEAN /\ handed \in BOOLEAN
    BY <1>1, Zenon DEF Init
  <2>2. bytes = 0 /\ users = 0 /\ scope = Charge /\ account = Charge
    BY <1>1 DEF Init
  <2>3. /\ owner = [u \in Uses |-> "new"] /\ pc = [p \in Threads |-> "idle"]
        /\ taking = [p \in Threads |-> NoUse] /\ due = [p \in Threads |-> 0]
    BY <1>1 DEF Init
  <2>4. QED
    BY <2>1, <2>2, <2>3, ChargeAssumption DEF TypeOK
<1>5. QED
  BY <1>1, <1>2, <1>3, <1>4, ChargeAssumption
     DEF Init, IInv, TakersDistinct, Phases, ChargeInOnePlace, NoRefundUnderUse

(* Leaving every field of the counters alone keeps the invariant.               *)
LEMMA StutterIInv == IInv /\ UNCHANGED vars => IInv'
<1>1. SUFFICES ASSUME IInv, UNCHANGED vars PROVE IInv'
  OBVIOUS
<1>2. InFlight' = InFlight
  BY <1>1 DEF vars, InFlight
<1>3. QED
  BY <1>1, <1>2 DEF vars, IInv, TypeOK, TakersDistinct, UsersCount, Phases,
                    ChargeInOnePlace, NoRefundUnderUse

(* Retain and Rollback take the charge from the scope; no use changes.          *)
LEMMA RetainIInv == ASSUME IInv, NEW p \in Threads, Retain(p) PROVE IInv'
<1>1. InFlight' = InFlight /\ UsersCount'
  BY DEF IInv, Retain, InFlight, UsersCount
<1>2. users = 0 <=> InFlight = {}
  BY CountZero DEF IInv
<1>3. /\ scope = Charge /\ bytes = 0 /\ ~handed /\ \A q \in Threads : due[q] = 0
      /\ account = Charge
  BY ChargeAssumption DEF IInv, Retain, TypeOK, Phases, ChargeInOnePlace
<1>4. TypeOK'
  BY <1>3, ChargeAssumption DEF IInv, Retain, TypeOK, AfterGate
<1>5. TakersDistinct'
  BY ChargeAssumption, <1>3 DEF IInv, Retain, TypeOK, AfterGate, TakersDistinct
<1>6. CASE closed /\ users = 0
  <2>1. /\ due' = [due EXCEPT ![p] = Charge] /\ pc' = [pc EXCEPT ![p] = "release"]
        /\ bytes' = 0 /\ scope' = 0 /\ handed' /\ closed' /\ account' = Charge
    BY <1>3, <1>6, ChargeAssumption DEF Retain, AfterGate
  <2>2. Phases' /\ ChargeInOnePlace' /\ NoRefundUnderUse'
    BY <1>1, <1>2, <1>3, <1>6, <2>1, ChargeAssumption
       DEF IInv, TypeOK, Phases, ChargeInOnePlace, NoRefundUnderUse
  <2>3. QED
    BY <1>1, <1>4, <1>5, <2>2 DEF IInv
<1>7. CASE ~(closed /\ users = 0)
  <2>1. /\ due' = [due EXCEPT ![p] = 0] /\ pc' = [pc EXCEPT ![p] = "idle"]
        /\ bytes' = Charge /\ scope' = 0 /\ handed' /\ account' = Charge
        /\ closed' = closed
    BY <1>3, <1>7, ChargeAssumption DEF Retain, AfterGate
  <2>2. Phases' /\ ChargeInOnePlace' /\ NoRefundUnderUse'
    BY <1>1, <1>3, <2>1, ChargeAssumption
       DEF IInv, Retain, TypeOK, Phases, ChargeInOnePlace, NoRefundUnderUse
  <2>3. QED
    BY <1>1, <1>4, <1>5, <2>2 DEF IInv
<1>8. QED
  BY <1>6, <1>7

LEMMA RollbackIInv == ASSUME IInv, NEW p \in Threads, Rollback(p) PROVE IInv'
<1>1. InFlight' = InFlight /\ UsersCount'
  BY DEF IInv, Rollback, InFlight, UsersCount
<1>2. /\ scope = Charge /\ bytes = 0 /\ ~handed /\ \A q \in Threads : due[q] = 0
      /\ account = Charge
  BY ChargeAssumption DEF IInv, Rollback, TypeOK, Phases, ChargeInOnePlace
<1>3. scope' = 0 /\ account' = 0
  BY <1>2, ChargeAssumption DEF Rollback
<1>4. QED
  BY <1>1, <1>2, <1>3, ChargeAssumption
     DEF IInv, Rollback, TypeOK, TakersDistinct, Phases, ChargeInOnePlace, NoRefundUnderUse

(* Enter adds one use to an open storage.                                       *)
LEMMA EnterIInv ==
  ASSUME IInv, NEW p \in Threads, NEW u \in Uses, Enter(p, u) PROVE IInv'
<1>1. InFlight' = InFlight \cup {u} /\ u \notin InFlight
  BY DEF IInv, TypeOK, Enter, InFlight
<1>2. UsersCount'
  BY <1>1, InFlightFinite, FS_AddElement DEF IInv, Enter, UsersCount
<1>3. TypeOK' /\ TakersDistinct'
  BY DEF IInv, TypeOK, TakersDistinct, Enter
<1>4. Phases' /\ ChargeInOnePlace'
  BY DEF IInv, Phases, ChargeInOnePlace, Enter
<1>5. NoRefundUnderUse'
  BY DEF IInv, Phases, NoRefundUnderUse, Enter
<1>6. QED
  BY <1>2, <1>3, <1>4, <1>5 DEF IInv

(* Dispose's exchange keeps the use in flight until Leave.                      *)
LEMMA DisposeIInv ==
  ASSUME IInv, NEW p \in Threads, NEW u \in Uses, Dispose(p, u) PROVE IInv'
<1>1. InFlight' = InFlight /\ UsersCount'
  BY DEF IInv, TypeOK, Dispose, InFlight, UsersCount
<1>2. TypeOK' /\ TakersDistinct'
  BY DEF IInv, TypeOK, TakersDistinct, Dispose
<1>3. Phases' /\ ChargeInOnePlace' /\ NoRefundUnderUse'
  BY <1>1 DEF IInv, TypeOK, Phases, ChargeInOnePlace, NoRefundUnderUse, Dispose
<1>4. QED
  BY <1>1, <1>2, <1>3 DEF IInv

(* Close takes the charge out for refund only when no use is in flight.         *)
LEMMA CloseIInv == ASSUME IInv, NEW p \in Threads, Close(p) PROVE IInv'
<1>1. InFlight' = InFlight /\ UsersCount'
  BY DEF IInv, Close, InFlight, UsersCount
<1>2. users = 0 <=> InFlight = {}
  BY CountZero DEF IInv
<1>3. \A q \in Threads : due[q] = 0
  BY DEF IInv, Phases, Close
<1>4. CASE users = 0
  <2>1. /\ due' = [due EXCEPT ![p] = bytes] /\ bytes' = 0 /\ closed'
        /\ pc' = [pc EXCEPT ![p] = IF bytes # 0 THEN "release" ELSE "idle"]
    BY <1>4 DEF Close, AfterGate
  <2>2. TypeOK' /\ TakersDistinct'
    BY <2>1 DEF IInv, TypeOK, TakersDistinct, Close
  <2>3. Phases'
    BY <1>3, <2>1, ChargeAssumption DEF IInv, TypeOK, Phases, Close
  <2>4. ChargeInOnePlace'
    BY <1>3, <2>1, ChargeAssumption DEF IInv, TypeOK, ChargeInOnePlace, Close
  <2>5. NoRefundUnderUse'
    BY <1>1, <1>2, <1>4 DEF NoRefundUnderUse
  <2>6. QED
    BY <1>1, <2>2, <2>3, <2>4, <2>5 DEF IInv
<1>5. CASE users # 0
  <2>1. /\ due' = [due EXCEPT ![p] = 0] /\ bytes' = bytes /\ closed'
        /\ pc' = [pc EXCEPT ![p] = "idle"]
    BY <1>5 DEF Close, AfterGate
  <2>2. QED
    BY <1>1, <1>3, <2>1, ChargeAssumption
       DEF IInv, TypeOK, TakersDistinct, Phases, ChargeInOnePlace, NoRefundUnderUse, Close
<1>6. QED
  BY <1>4, <1>5

(* Leave ends one use; only the last one of a closed storage takes the charge.  *)
LEMMA LeaveIInv == ASSUME IInv, NEW p \in Threads, Leave(p) PROVE IInv'
<1>1. taking[p] \in InFlight /\ InFlight' = InFlight \ {taking[p]}
  BY DEF IInv, TypeOK, TakersDistinct, Leave, InFlight
<1>2. UsersCount'
  BY <1>1, InFlightFinite, FS_RemoveElement DEF IInv, Leave, UsersCount
<1>3. users' \in Nat /\ (users' = 0 <=> InFlight' = {})
  <2>1. Cardinality(InFlight') \in Nat /\ (Cardinality(InFlight') = 0 <=> InFlight' = {})
    BY InFlightFinite, FS_CardinalityType, FS_EmptySet
  <2>2. QED
    BY <1>2, <2>1 DEF UsersCount
<1>4. TakersDistinct'
  BY ChargeAssumption DEF IInv, TypeOK, TakersDistinct, Leave, AfterGate
<1>5. owner' \in [Uses -> {"new", "live", "taken", "left"}] /\ taking' \in [Threads -> Uses \cup {NoUse}]
  BY DEF IInv, TypeOK, TakersDistinct, Leave
<1>6. handed => bytes = Charge /\ \A q \in Threads : due[q] = 0
  BY <1>1 DEF IInv, NoRefundUnderUse
<1>7. CASE closed /\ users = 1
  <2>1. /\ due' = [due EXCEPT ![p] = bytes] /\ bytes' = 0
        /\ pc' = [pc EXCEPT ![p] = IF bytes # 0 THEN "release" ELSE "idle"]
        /\ UNCHANGED <<closed, scope, handed, account>>
    BY <1>7 DEF Leave, AfterGate
  <2>2. InFlight' = {}
    BY <1>3, <1>7 DEF Leave
  <2>3. TypeOK'
    BY <1>3, <1>5, <2>1 DEF IInv, TypeOK
  <2>4. \A q \in Threads : due[q] = 0
    BY <1>6 DEF IInv, Phases
  <2>5. Phases' /\ ChargeInOnePlace' /\ NoRefundUnderUse'
    BY <1>7, <2>1, <2>2, <2>4, ChargeAssumption
       DEF IInv, TypeOK, Phases, ChargeInOnePlace, NoRefundUnderUse, Leave
  <2>6. QED
    BY <1>2, <1>4, <2>3, <2>5 DEF IInv
<1>8. CASE ~(closed /\ users = 1)
  <2>1. /\ due' = [due EXCEPT ![p] = 0] /\ bytes' = bytes
        /\ pc' = [pc EXCEPT ![p] = "idle"]
        /\ UNCHANGED <<closed, scope, handed, account>>
    BY <1>8 DEF Leave, AfterGate
  <2>2. \A q \in Threads : due[q] = 0
    BY <1>6 DEF IInv, Phases
  <2>3. TypeOK'
    BY <1>3, <1>5, <2>1, ChargeAssumption DEF IInv, TypeOK
  <2>4. Phases' /\ ChargeInOnePlace' /\ NoRefundUnderUse'
    BY <1>6, <2>1, <2>2, ChargeAssumption
       DEF IInv, TypeOK, Phases, ChargeInOnePlace, NoRefundUnderUse, Leave
  <2>5. QED
    BY <1>2, <1>4, <2>3, <2>4 DEF IInv
<1>9. QED
  BY <1>7, <1>8

(* Release pays the charge back; it was the only place that held it.            *)
LEMMA ReleaseIInv == ASSUME IInv, NEW p \in Threads, Release(p) PROVE IInv'
<1>1. InFlight' = InFlight /\ UsersCount'
  BY DEF IInv, Release, InFlight, UsersCount
<1>2. /\ due[p] = Charge /\ bytes = 0 /\ scope = 0 /\ account = Charge
      /\ handed /\ closed /\ InFlight = {}
      /\ \A q \in Threads : due[q] # 0 => q = p
  BY ChargeAssumption DEF IInv, TypeOK, Phases, ChargeInOnePlace, NoRefundUnderUse, Release
<1>3. account' = 0 /\ due' = [due EXCEPT ![p] = 0] /\ pc' = [pc EXCEPT ![p] = "idle"]
  BY <1>2, ChargeAssumption DEF Release
<1>4. TypeOK' /\ TakersDistinct' /\ Phases'
  BY <1>2, <1>3 DEF IInv, TypeOK, TakersDistinct, Phases, Release
<1>5. ChargeInOnePlace'
  BY <1>2, <1>3 DEF IInv, TypeOK, ChargeInOnePlace, Release
<1>6. NoRefundUnderUse'
  BY <1>1, <1>2 DEF NoRefundUnderUse
<1>7. QED
  BY <1>1, <1>4, <1>5, <1>6 DEF IInv

LEMMA NextIInv == IInv /\ [Next]_vars => IInv'
<1>1. ASSUME IInv, UNCHANGED vars PROVE IInv'
  BY <1>1, StutterIInv
<1>2. ASSUME IInv, NEW p \in Threads,
             Retain(p) \/ Rollback(p) \/ Close(p) \/ Leave(p) \/ Release(p)
      PROVE IInv'
  BY <1>2, RetainIInv, RollbackIInv, CloseIInv, LeaveIInv, ReleaseIInv
<1>3. ASSUME IInv, NEW p \in Threads, NEW u \in Uses, Enter(p, u) \/ Dispose(p, u)
      PROVE IInv'
  BY <1>3, EnterIInv, DisposeIInv
<1>4. QED
  BY <1>1, <1>2, <1>3 DEF Next

THEOREM Invariance == Spec => []IInv
<1>1. QED
  BY InitIInv, NextIInv, PTL DEF Spec

(* While a granted use is in flight its handed-over charge is not refunded:     *)
(* Utf8FundedStorage.Close, Leave and Retain may race in any order.             *)
THEOREM UseIsNeverRefunded == Spec => []NoRefundUnderUse
<1>1. IInv => NoRefundUnderUse
  BY DEF IInv
<1>2. QED
  BY <1>1, Invariance, PTL

(* The fields of Utf8FundedStorage keep their ranges under any interleaving of  *)
(* Enter, Leave, Retain and Close: _users never goes below zero, and _bytes is  *)
(* the whole charge or nothing.                                                 *)
THEOREM StorageTypes == Spec => []TypeOK
<1>1. IInv => TypeOK
  BY DEF IInv
<1>2. QED
  BY <1>1, Invariance, PTL

(* The charge is in one place and the host is paid back at most once.           *)
THEOREM ChargeIsConserved == Spec => [](TypeOK /\ ChargeInOnePlace)
<1>1. IInv => TypeOK /\ ChargeInOnePlace
  BY DEF IInv
<1>2. QED
  BY <1>1, Invariance, PTL

(* The throw in Leave, "Storage use was already released", is unreachable.      *)
THEOREM LeaveIsSafe == Spec => []LeaveNeverThrows
<1>1. IInv => LeaveNeverThrows
  <2>1. SUFFICES ASSUME IInv, NEW p \in Threads, pc[p] = "leave" PROVE users > 0
    BY DEF LeaveNeverThrows
  <2>2. taking[p] \in InFlight
    BY <2>1 DEF IInv, TakersDistinct, InFlight
  <2>3. QED
    BY <2>1, <2>2, CountZero DEF IInv
<1>2. QED
  BY <1>1, Invariance, PTL

--------------------------------------------------------------------------------
(* Refinement.                                                                  *)

LEMMA InitLease == Init => L!Init
BY DEF Init, L!Init, InFlight

LEMMA NextLease == IInv /\ [Next]_vars => [L!Next]_(L!leaseVars)
<1> DEFINE left == {u \in Uses : owner[u] = "left"}
<1>1. ASSUME IInv, UNCHANGED vars PROVE UNCHANGED L!leaseVars
  BY <1>1 DEF vars, L!leaseVars, InFlight
<1>2. ASSUME IInv, NEW p \in Threads, Retain(p) PROVE L!HandOver
  BY <1>2, ChargeAssumption
     DEF IInv, TypeOK, ChargeInOnePlace, Retain, L!HandOver, InFlight
<1>3. ASSUME IInv, NEW p \in Threads, Rollback(p) PROVE L!Abandon
  BY <1>3, ChargeAssumption
     DEF IInv, TypeOK, ChargeInOnePlace, Rollback, L!Abandon, InFlight
<1>4. ASSUME IInv, NEW p \in Threads, Close(p) PROVE L!Close
  BY <1>4 DEF Close, L!Close, InFlight
<1>5. ASSUME IInv, NEW p \in Threads, Leave(p) PROVE \E u \in Uses : L!End(u)
  <2>1. PICK u \in Uses : u = taking[p]
    BY <1>5 DEF IInv, TakersDistinct, Leave
  <2>2. owner[u] = "taken" /\ owner' = [owner EXCEPT ![u] = "left"]
    BY <1>5, <2>1 DEF IInv, TakersDistinct, Leave
  <2>3. u \in InFlight /\ InFlight' = InFlight \ {u} /\ left' = left \cup {u}
    BY <1>5, <2>2 DEF IInv, TypeOK, InFlight
  <2>4. L!End(u)
    BY <1>5, <2>3 DEF Leave, L!End
  <2>5. QED
    BY <2>4
<1>6. ASSUME IInv, NEW p \in Threads, Release(p) PROVE L!Refund
  <2>1. due[p] = Charge /\ account = Charge /\ handed /\ closed /\ InFlight = {}
    BY <1>6, ChargeAssumption
       DEF IInv, TypeOK, Phases, ChargeInOnePlace, NoRefundUnderUse, Release
  <2>2. QED
    BY <1>6, <2>1, ChargeAssumption DEF Release, L!Refund, InFlight
<1>7. ASSUME IInv, NEW p \in Threads, NEW u \in Uses, Enter(p, u) PROVE L!Grant(u)
  <2>1. u \notin InFlight \cup left /\ InFlight' = InFlight \cup {u} /\ left' = left
    BY <1>7 DEF IInv, TypeOK, Enter, InFlight
  <2>2. QED
    BY <1>7, <2>1 DEF Enter, L!Grant
<1>8. ASSUME IInv, NEW p \in Threads, NEW u \in Uses, Dispose(p, u)
      PROVE UNCHANGED L!leaseVars
  <2>1. InFlight' = InFlight /\ left' = left
    BY <1>8 DEF IInv, TypeOK, Dispose, InFlight
  <2>2. QED
    BY <1>8, <2>1 DEF Dispose, L!leaseVars
<1>9. ASSUME IInv, Next PROVE L!Next \/ UNCHANGED L!leaseVars
  <2>1. PICK p \in Threads :
          \/ Retain(p) \/ Rollback(p) \/ Close(p) \/ Leave(p) \/ Release(p)
          \/ \E u \in Uses : Enter(p, u) \/ Dispose(p, u)
    BY <1>9 DEF Next
  <2>2. CASE Retain(p) \/ Rollback(p) \/ Close(p) \/ Release(p)
    <3>1. L!HandOver \/ L!Abandon \/ L!Close \/ L!Refund
      <4>1. CASE Retain(p)
        BY <1>9, <4>1, <1>2
      <4>2. CASE Rollback(p)
        BY <1>9, <4>2, <1>3
      <4>3. CASE Close(p)
        BY <1>9, <4>3, <1>4
      <4>4. CASE Release(p)
        BY <1>9, <4>4, <1>6
      <4>5. QED
        BY <2>2, <4>1, <4>2, <4>3, <4>4
    <3>2. QED
      BY <3>1 DEF L!Next
  <2>3. CASE Leave(p)
    <3>1. \E u \in Uses : L!End(u)
      BY <1>9, <2>3, <1>5
    <3>2. QED
      BY <3>1 DEF L!Next
  <2>4. CASE \E u \in Uses : Enter(p, u) \/ Dispose(p, u)
    <3>1. PICK u \in Uses : Enter(p, u) \/ Dispose(p, u)
      BY <2>4
    <3>2. CASE Enter(p, u)
      <4>1. L!Grant(u)
        BY <1>9, <3>2, <1>7
      <4>2. QED
        BY <4>1 DEF L!Next
    <3>3. CASE Dispose(p, u)
      BY <1>9, <3>3, <1>8
    <3>4. QED
      BY <3>1, <3>2, <3>3
  <2>5. QED
    BY <2>1, <2>2, <2>3, <2>4
<1>10. QED
  BY <1>1, <1>9

(* Utf8FundedStorage implements the lease for every number of threads and uses. *)
THEOREM StorageImplementsLease == Spec => ImplementsLease
<1>1. QED
  BY InitLease, NextLease, Invariance, PTL DEF Spec, ImplementsLease, L!Lease
================================================================================
