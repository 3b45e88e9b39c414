---------------------- MODULE ConstructionCeilingsProofs ----------------------
(* The ceilings and peaks of nested restrictions, for every bound and nesting,  *)
(* on top of the invariant of ConstructionScopeProofs.                          *)
EXTENDS ConstructionScopeProofs

(* m is the least of the ceilings set by the host and by levels 1 to n.         *)
Least(m, n) ==
  /\ m <= MaxBytes
  /\ \A j \in 1..n : level[j].restricted => m <= level[j].bytes + level[j].additional
  /\ \/ m = MaxBytes
     \/ \E j \in 1..n : level[j].restricted /\ m = level[j].bytes + level[j].additional

(* The ceiling in force is the least of all; the one a level has saved is the   *)
(* least of those around it, and was respected when the level was entered.      *)
CeilingInv ==
  /\ budget.bytes <= budget.maxBytes /\ Least(budget.maxBytes, top)
  /\ \A i \in Scopes : level[i].bytes <= level[i].max /\ Least(level[i].max, i - 1)

(* j is the innermost of levels 1 to n that has a peak of its own.              *)
PeakOwner(j, n) ==
  /\ j \in 1..n /\ (j = 1 \/ level[j].restricted)
  /\ \A k \in 1..n : k > j => ~level[k].restricted

(* What an outer owner will see is what it saved and what happened since.       *)
PeakInv ==
  /\ budget.bytes <= budget.peak
  /\ \A j \in Depths : PeakOwner(j, top) => budget.peak = level[j].high
  /\ \A i \in Scopes, j \in Depths :
       level[i].restricted /\ PeakOwner(j, i - 1)
         => level[j].high = MaxOf(level[i].peak, level[i].high)

LimitInv == CeilingInv /\ PeakInv

(* What a level remembers of its entry.                                         *)
Kin(a, b) ==
  /\ a.bytes = b.bytes /\ a.additional = b.additional /\ a.restricted = b.restricted
  /\ a.max = b.max /\ a.peak = b.peak

LEMMA FieldTypes ==
  ASSUME TypeOK
  PROVE  /\ \A i \in Depths :
              /\ level[i].bytes \in Nat /\ level[i].additional \in Nat
              /\ level[i].restricted \in BOOLEAN /\ level[i].max \in Nat
              /\ level[i].peak \in Nat /\ level[i].high \in Nat
         /\ budget.bytes \in Nat /\ budget.maxBytes \in Nat /\ budget.peak \in Nat
         /\ top \in Nat /\ 1..top \subseteq Depths /\ MaxBytes \in Nat
  <1>1. \A i \in Depths : level[i] \in Levels
    BY DEF TypeOK
  <1>2. top \in 0..MaxScopes /\ MaxScopes \in Nat \ {0} /\ MaxBytes \in Nat
    BY BoundsAssumption DEF TypeOK
  <1>3. budget.bytes \in Nat /\ budget.maxBytes \in Nat /\ budget.peak \in Nat
    BY BudgetFields DEF TypeOK
  <1>4. \A i \in Depths :
          /\ level[i].bytes \in Nat /\ level[i].additional \in Nat
          /\ level[i].restricted \in BOOLEAN /\ level[i].max \in Nat
          /\ level[i].peak \in Nat /\ level[i].high \in Nat
    BY <1>1 DEF Levels
  <1>5. top \in Nat /\ 1..top \subseteq Depths
    BY <1>2 DEF Depths
  <1> QED BY <1>2, <1>3, <1>4, <1>5

--------------------------------------------------------------------------------
(* A step that notes that n bytes were reserved: the peak and the marks of all  *)
(* open levels see it, and the ceilings stay.                                   *)
Notes(n) ==
  /\ top' = top /\ budget'.maxBytes = budget.maxBytes
  /\ budget'.bytes <= budget.maxBytes /\ budget'.bytes <= budget'.peak
  /\ budget'.peak = MaxOf(budget.peak, n)
  /\ \A i \in Scopes :
       Kin(level'[i], level[i]) /\ level'[i].high = MaxOf(level[i].high, n)

(* A step that at most gives bytes back.                                        *)
Keeps ==
  /\ top' = top /\ budget'.maxBytes = budget.maxBytes /\ budget'.peak = budget.peak
  /\ budget'.bytes <= budget.bytes
  /\ \A i \in Scopes : Kin(level'[i], level[i]) /\ level'[i].high = level[i].high

LEMMA CeilingsKept ==
  ASSUME TypeOK, CeilingInv, top' = top, budget'.maxBytes = budget.maxBytes,
         budget'.bytes <= budget.maxBytes,
         \A i \in Scopes : Kin(level'[i], level[i])
  PROVE  CeilingInv'
  <1>1. Least(budget.maxBytes, top)'
    <2>1. Least(budget.maxBytes, top) /\ budget.maxBytes \in Nat /\ top \in 0..top
      BY FieldTypes DEF CeilingInv
    <2>2. /\ budget.maxBytes <= MaxBytes
          /\ \A j \in 1..top : level'[j].restricted =>
               budget.maxBytes <= level'[j].bytes + level'[j].additional
          /\ \/ budget.maxBytes = MaxBytes
             \/ \E j \in 1..top : /\ level'[j].restricted
                                  /\ budget.maxBytes = level'[j].bytes + level'[j].additional
      <3>1. \A j \in 1..top : /\ level'[j].restricted = level[j].restricted
                              /\ level'[j].bytes = level[j].bytes
                              /\ level'[j].additional = level[j].additional
        BY DEF Kin, Scopes
      <3> QED BY <2>1, <3>1 DEF Least
    <2> QED BY <2>2 DEF Least
  <1>2. ASSUME NEW i \in Scopes
        PROVE  level'[i].bytes <= level'[i].max /\ Least(level[i].max, i - 1)'
    <2>1. i \in Depths /\ i \in 1..top /\ top \in Nat
      BY FieldTypes DEF Scopes
    <2>2. level[i].max \in Nat /\ i - 1 \in 0..top
      BY <2>1, FieldTypes
    <2>3. level'[i].bytes = level[i].bytes /\ level'[i].max = level[i].max
      BY DEF Kin
    <2>4. Least(level[i].max, i - 1) /\ level[i].bytes <= level[i].max
      BY DEF CeilingInv
    <2>5. \A j \in 1..(i - 1) : /\ level'[j].restricted = level[j].restricted
                                /\ level'[j].bytes = level[j].bytes
                                /\ level'[j].additional = level[j].additional
      BY <2>1 DEF Kin, Scopes
    <2> QED BY <2>3, <2>4, <2>5 DEF Least
  <1> QED BY <1>1, <1>2 DEF CeilingInv, Scopes

LEMMA NotesHolds ==
  ASSUME TypeOK, LimitInv, NEW n \in Nat, Notes(n)
  PROVE  LimitInv'
  <1>1. CeilingInv'
    BY CeilingsKept DEF LimitInv, Notes
  <1>2. /\ \A i \in Scopes : /\ level'[i].restricted = level[i].restricted
                             /\ level'[i].peak = level[i].peak
                             /\ level'[i].high = MaxOf(level[i].high, n)
        /\ top' = top /\ budget'.peak = MaxOf(budget.peak, n)
        /\ budget'.bytes <= budget'.peak
    BY DEF Notes, Kin
  <1>3. ASSUME NEW j \in Depths, PeakOwner(j, top)'
        PROVE  budget'.peak = level'[j].high
    <2>1. PeakOwner(j, top) /\ j \in Scopes
      BY <1>2, <1>3 DEF PeakOwner, Scopes
    <2>2. budget.peak = level[j].high
      BY <2>1 DEF LimitInv, PeakInv
    <2> QED BY <1>2, <2>1, <2>2
  <1>4. ASSUME NEW i \in Scopes, NEW j \in Depths,
               level'[i].restricted, PeakOwner(j, i - 1)'
        PROVE  level'[j].high = MaxOf(level'[i].peak, level'[i].high)
    <2>1. i \in Depths /\ i \in 1..top /\ top \in Nat
      BY FieldTypes DEF Scopes
    <2>2. PeakOwner(j, i - 1) /\ j \in Scopes
      BY <1>2, <1>4, <2>1 DEF PeakOwner, Scopes
    <2>3. level[j].high = MaxOf(level[i].peak, level[i].high)
      BY <1>2, <1>4, <2>2 DEF LimitInv, PeakInv
    <2>4. level[j].high \in Nat /\ level[i].peak \in Nat /\ level[i].high \in Nat
      BY <2>1, FieldTypes
    <2>5. MaxOf(level[j].high, n) = MaxOf(level[i].peak, MaxOf(level[i].high, n))
      BY <2>3, <2>4 DEF MaxOf
    <2> QED BY <1>2, <2>2, <2>5
  <1>5. PeakInv'
    <2>1. Scopes' = Scopes
      BY <1>2 DEF Scopes
    <2> QED BY <1>2, <1>3, <1>4, <2>1 DEF PeakInv
  <1> QED BY <1>1, <1>5 DEF LimitInv

LEMMA KeepsHolds ==
  ASSUME TypeOK, TypeOK', LimitInv, Keeps
  PROVE  LimitInv'
  <1>1. /\ budget.bytes \in Nat /\ budget'.bytes \in Nat
        /\ budget.maxBytes \in Nat /\ budget.peak \in Nat
        /\ budget.bytes <= budget.maxBytes /\ budget.bytes <= budget.peak
    <2>1. budget' \in Budgets
      BY DEF TypeOK
    <2> QED BY <2>1, FieldTypes DEF LimitInv, CeilingInv, PeakInv, Budgets
  <1>2. CeilingInv'
    BY <1>1, CeilingsKept DEF LimitInv, Keeps
  <1>3. /\ \A i \in Scopes : /\ level'[i].restricted = level[i].restricted
                             /\ level'[i].peak = level[i].peak
                             /\ level'[i].high = level[i].high
        /\ top' = top /\ budget'.peak = budget.peak /\ budget'.bytes <= budget'.peak
    BY <1>1 DEF Keeps, Kin
  <1>4. ASSUME NEW j \in Depths, PeakOwner(j, top)'
        PROVE  budget'.peak = level'[j].high
    <2>1. PeakOwner(j, top) /\ j \in Scopes
      BY <1>3, <1>4 DEF PeakOwner, Scopes
    <2> QED BY <1>3, <2>1 DEF LimitInv, PeakInv
  <1>5. ASSUME NEW i \in Scopes, NEW j \in Depths,
               level'[i].restricted, PeakOwner(j, i - 1)'
        PROVE  level'[j].high = MaxOf(level'[i].peak, level'[i].high)
    <2>1. i \in 1..top /\ top \in Nat
      BY FieldTypes DEF Scopes
    <2>2. PeakOwner(j, i - 1) /\ j \in Scopes
      BY <1>3, <1>5, <2>1 DEF PeakOwner, Scopes
    <2>3. level[j].high = MaxOf(level[i].peak, level[i].high)
      BY <1>3, <1>5, <2>2 DEF LimitInv, PeakInv
    <2> QED BY <1>3, <2>2, <2>3
  <1>6. PeakInv'
    <2>1. Scopes' = Scopes
      BY <1>3 DEF Scopes
    <2> QED BY <1>3, <1>4, <1>5, <2>1 DEF PeakInv
  <1> QED BY <1>2, <1>6 DEF LimitInv

--------------------------------------------------------------------------------
(* Become, when it changes neither what the scope remembers nor its mark.       *)
LEMMA BecomeNotes ==
  ASSUME TypeOK, top > 0, NEW l \in Levels, NEW n \in Nat, Become(l, n),
         Kin(l, Current), l.high = Current.high
  PROVE  \A i \in Scopes :
           Kin(level'[i], level[i]) /\ level'[i].high = MaxOf(level[i].high, n)
  <1> SUFFICES ASSUME NEW i \in Scopes
               PROVE  /\ Kin(level'[i], level[i])
                      /\ level'[i].high = MaxOf(level[i].high, n)
    OBVIOUS
  <1>1. i \in Depths /\ i <= top /\ level[i] \in Levels
    BY FieldTypes DEF Scopes, TypeOK
  <1> DEFINE k == IF i = top THEN l ELSE level[i]
  <1>2. k \in Levels /\ Kin(k, level[i]) /\ k.high = level[i].high
    BY <1>1 DEF Current, Kin
  <1>3. level'[i] = [k EXCEPT !.high = MaxOf(@, n)]
    BY <1>1 DEF Become
  <1> HIDE DEF k
  <1>4. Same(level'[i], k) /\ level'[i].high = MaxOf(k.high, n)
    BY <1>2, <1>3 DEF Levels, MaxOf, Same
  <1> QED BY <1>2, <1>4 DEF Same, Kin

(* Bytes are admitted.                                                          *)
LEMMA AdmittedNotes ==
  ASSUME TypeOK, LimitInv, top > 0, NEW l \in Levels, NEW m \in Nat,
         Kin(l, Current), l.high = Current.high,
         HasBytes(m), Become(l, budget.bytes + m), top' = top,
         budget'.bytes \in {budget.bytes, budget.bytes + m},
         budget'.maxBytes = budget.maxBytes,
         budget'.peak = MaxOf(budget.peak, budget.bytes + m)
  PROVE  LimitInv'
  <1>1. budget.bytes \in Nat /\ budget.maxBytes \in Nat /\ budget.peak \in Nat
    BY FieldTypes
  <1>2. budget.bytes + m \in Nat /\ budget.bytes + m <= budget.maxBytes
    BY <1>1 DEF HasBytes
  <1>3. Notes(budget.bytes + m)
    BY <1>1, <1>2, BecomeNotes DEF Notes, MaxOf
  <1> QED BY <1>2, <1>3, NotesHolds

(* Nothing is admitted; bytes may be given back.                                *)
LEMMA ReleasedNotes ==
  ASSUME TypeOK, TypeOK', LimitInv, top > 0, NEW l \in Levels,
         Kin(l, Current), l.high = Current.high,
         Become(l, budget.bytes), top' = top,
         budget'.bytes <= budget.bytes,
         budget'.maxBytes = budget.maxBytes, budget'.peak = budget.peak
  PROVE  LimitInv'
  <1>1. /\ budget.bytes \in Nat /\ budget.maxBytes \in Nat /\ budget.peak \in Nat
        /\ budget'.bytes \in Nat
    <2>1. budget' \in Budgets
      BY DEF TypeOK
    <2> QED BY <2>1, FieldTypes DEF Budgets
  <1>2. budget.bytes <= budget.maxBytes /\ budget.bytes <= budget.peak
    BY DEF LimitInv, CeilingInv, PeakInv
  <1>3. Notes(budget.bytes)
    BY <1>1, <1>2, BecomeNotes DEF Notes, MaxOf
  <1> QED BY <1>1, <1>3, NotesHolds

LEMMA AdmittedFields ==
  ASSUME budget \in Budgets, NEW m, NEW n
  PROVE  /\ Admitted(m, n).bytes = budget.bytes + m
         /\ Admitted(m, n).maxBytes = budget.maxBytes
         /\ Admitted(m, n).peak = MaxOf(budget.peak, budget.bytes + m)
  BY DEF Admitted, Budgets

LEMMA ReleasedFields ==
  ASSUME budget \in Budgets, NEW m, NEW n
  PROVE  /\ Released(m, n).bytes = budget.bytes - m
         /\ Released(m, n).maxBytes = budget.maxBytes
         /\ Released(m, n).peak = budget.peak
  BY DEF Released, Budgets

LEMMA CurrentType ==
  ASSUME TypeOK, top > 0
  PROVE  /\ Current \in Levels /\ budget \in Budgets
         /\ Object \in Nat /\ budget.bytes \in Nat
         /\ ArrayBytes(Current.array) \in Nat /\ ArrayBytes(Current.grown) \in Nat
  <1>1. Current \in Levels /\ budget \in Budgets /\ Object \in Nat
    BY BoundsAssumption DEF TypeOK, Current, Depths
  <1> QED BY <1>1, BudgetFields, ArrayBytesType DEF Levels

--------------------------------------------------------------------------------
(* What code does inside a scope.                                               *)
LEMMA AllocateObjectLimits ==
  ASSUME TypeOK, LimitInv, top > 0, AllocateObject
  PROVE  LimitInv'
  <1> DEFINE l == [Current EXCEPT !.kept = @ + Object]
  <1>1. l \in Levels /\ Kin(l, Current) /\ l.high = Current.high
    BY CurrentType DEF Levels, Kin
  <1>2. /\ HasBytes(Object) /\ Become(l, budget.bytes + Object) /\ top' = top
        /\ budget' = Admitted(Object, 0)
    BY DEF AllocateObject
  <1> HIDE DEF l
  <1> QED BY <1>1, <1>2, CurrentType, AdmittedFields, AdmittedNotes

LEMMA FactoryThrowsLimits ==
  ASSUME TypeOK, LimitInv, top > 0, FactoryThrows
  PROVE  LimitInv'
  <1>1. /\ HasBytes(Object) /\ Become(Current, budget.bytes + Object) /\ top' = top
        /\ budget' = [Admitted(Object, 0) EXCEPT !.bytes = budget.bytes]
    BY DEF FactoryThrows
  <1>2. /\ budget'.bytes = budget.bytes /\ budget'.maxBytes = budget.maxBytes
        /\ budget'.peak = MaxOf(budget.peak, budget.bytes + Object)
    <2>1. Admitted(Object, 0) \in Budgets
      BY CurrentType, AdmittedType
    <2> QED BY <1>1, <2>1, CurrentType, AdmittedFields DEF Budgets
  <1> QED BY <1>1, <1>2, CurrentType, AdmittedNotes DEF Kin

LEMMA CreateSessionLimits ==
  ASSUME TypeOK, LimitInv, top > 0, CreateSession
  PROVE  LimitInv'
  <1> DEFINE l == [Current EXCEPT !.session = "open", !.kept = @ + Object]
  <1>1. l \in Levels /\ Kin(l, Current) /\ l.high = Current.high
    <2>1. Current \in Levels /\ Current.kept + Object \in Nat
      BY CurrentType DEF Levels
    <2> QED BY <2>1 DEF Levels, Kin
  <1>2. /\ HasBytes(Object) /\ Become(l, budget.bytes + Object) /\ top' = top
        /\ budget' = [Admitted(Object, 0) EXCEPT !.depth = @ + 1]
    BY DEF CreateSession
  <1>3. /\ budget'.bytes = budget.bytes + Object /\ budget'.maxBytes = budget.maxBytes
        /\ budget'.peak = MaxOf(budget.peak, budget.bytes + Object)
    BY <1>2, CurrentType DEF Admitted, Budgets
  <1> HIDE DEF l
  <1> QED BY <1>1, <1>2, <1>3, CurrentType, AdmittedNotes

LEMMA ArenaAllocateLimits ==
  ASSUME TypeOK, LimitInv, top > 0, NEW n \in Nat, NEW p \in BOOLEAN,
         ArenaAllocate(n, p)
  PROVE  LimitInv'
  <1> DEFINE m == ArrayBytes(n)
             l == [Current EXCEPT !.payload = IF p THEN @ + m ELSE @,
                                  !.temporary = IF p THEN @ ELSE @ + m]
  <1>1. m \in Nat
    BY ArrayBytesType
  <1>2. /\ HasBytes(m) /\ Become(l, budget.bytes + m) /\ top' = top
        /\ budget' = Admitted(m, 0)
    BY DEF ArenaAllocate
  <1> HIDE DEF m
  <1>3. l \in Levels /\ Kin(l, Current) /\ l.high = Current.high
    <2>1. /\ (IF p THEN Current.payload + m ELSE Current.payload) \in Nat
          /\ (IF p THEN Current.temporary ELSE Current.temporary + m) \in Nat
      BY <1>1, CurrentType DEF Levels
    <2> QED BY <2>1, CurrentType DEF Levels, Kin
  <1> HIDE DEF l
  <1> QED BY <1>1, <1>2, <1>3, CurrentType, AdmittedFields, AdmittedNotes

LEMMA AdmitExtentLimits ==
  ASSUME TypeOK, LimitInv, top > 0, NEW n \in Nat, NEW taking \in BOOLEAN,
         HasBytes(ArrayBytes(n)), AdmitExtent(n, taking)
  PROVE  LimitInv'
  <1> DEFINE m == ArrayBytes(n)
             l == [Current EXCEPT !.grown = n, !.taking = taking]
  <1>1. m \in Nat
    BY ArrayBytesType
  <1>2. /\ HasBytes(m) /\ Become(l, budget.bytes + m) /\ top' = top
        /\ budget' = Admitted(m, n)
    BY DEF AdmitExtent
  <1>3. l \in Levels /\ Kin(l, Current) /\ l.high = Current.high
    BY CurrentType DEF Levels, Kin
  <1> HIDE DEF l, m
  <1> QED BY <1>1, <1>2, <1>3, CurrentType, AdmittedFields, AdmittedNotes

LEMMA HostRefusesLimits ==
  ASSUME TypeOK, TypeOK', LimitInv, top > 0, NEW n \in Nat, HostRefuses(n)
  PROVE  LimitInv'
  <1> DEFINE l == [Current EXCEPT !.keptSlots = @ + n]
  <1>1. l \in Levels /\ Kin(l, Current) /\ l.high = Current.high
    BY CurrentType DEF Levels, Kin
  <1>2. /\ Become(l, budget.bytes) /\ top' = top
        /\ budget' = [budget EXCEPT !.slots = @ + n, !.work = @ + 1]
    BY DEF HostRefuses
  <1>3. /\ budget'.bytes <= budget.bytes /\ budget'.maxBytes = budget.maxBytes
        /\ budget'.peak = budget.peak
    BY <1>2, CurrentType DEF Budgets
  <1> HIDE DEF l
  <1> QED BY <1>1, <1>2, <1>3, ReleasedNotes

LEMMA GrowLimits ==
  ASSUME IInv, TypeOK', LimitInv, top > 0, ~published,
         NEW n \in 1..(MaxSlots + 1), Grow(n)
  PROVE  LimitInv'
  <1> DEFINE g == GrownCapacity(n)
  <1>1. g \in Nat
    <2>1. g \in Int /\ g >= n
      BY BoundsAssumption, CapacityType DEF Grow
    <2> QED BY <2>1, BoundsAssumption
  <1>2. HasBytes(ArrayBytes(g)) /\ (AdmitExtent(g, FALSE) \/ HostRefuses(g))
    BY DEF Grow
  <1>3. TypeOK /\ FALSE \in BOOLEAN
    BY DEF IInv
  <1> HIDE DEF g
  <1> QED BY <1>1, <1>2, <1>3, AdmitExtentLimits, HostRefusesLimits

LEMMA TakeExactLimits ==
  ASSUME TypeOK, TypeOK', LimitInv, top > 0, NEW n \in 1..MaxSlots, TakeExact(n)
  PROVE  LimitInv'
  <1>1. n \in Nat /\ TRUE \in BOOLEAN
    BY BoundsAssumption
  <1>2. HasBytes(ArrayBytes(n)) /\ (AdmitExtent(n, TRUE) \/ HostRefuses(n))
    BY DEF TakeExact
  <1> QED BY <1>1, <1>2, AdmitExtentLimits, HostRefusesLimits

(* Steps on the scope's own records: nothing is admitted.                       *)
LEMMA TakeWholeLimits ==
  ASSUME TypeOK, TypeOK', LimitInv, top > 0,
         TakeWhole \/ Complete \/ CompleteSession
  PROVE  LimitInv'
  <1>1. /\ Current \in Levels /\ budget \in Budgets /\ budget.bytes \in Nat
        /\ ArrayBytes(Current.array) \in Nat
    BY CurrentType
  <1>2. ASSUME NEW l \in Levels, Kin(l, Current), l.high = Current.high,
               Become(l, budget.bytes), UNCHANGED <<budget, top>>
        PROVE  LimitInv'
    BY <1>1, <1>2, ReleasedNotes
  <1>3. CASE TakeWhole
    <2> DEFINE l == [Current EXCEPT !.array = 0, !.kept = @ + ArrayBytes(Current.array),
                                    !.keptSlots = @ + Current.array]
    <2>1. l \in Levels /\ Kin(l, Current) /\ l.high = Current.high
      <3>1. /\ Current.kept + ArrayBytes(Current.array) \in Nat
            /\ Current.keptSlots + Current.array \in Nat
        BY <1>1 DEF Levels
      <3> QED BY <1>1, <3>1 DEF Levels, Kin
    <2>2. Become(l, budget.bytes) /\ UNCHANGED <<budget, top>>
      BY <1>3 DEF TakeWhole
    <2> HIDE DEF l
    <2> QED BY <1>2, <2>1, <2>2
  <1>4. CASE Complete
    <2> DEFINE l == [Current EXCEPT !.completed = TRUE]
    <2>1. l \in Levels /\ Kin(l, Current) /\ l.high = Current.high
      BY <1>1 DEF Levels, Kin
    <2>2. Become(l, budget.bytes) /\ UNCHANGED <<budget, top>>
      BY <1>4 DEF Complete
    <2> HIDE DEF l
    <2> QED BY <1>2, <2>1, <2>2
  <1>5. CASE CompleteSession
    <2> DEFINE l == [Current EXCEPT !.session = "completed"]
    <2>1. l \in Levels /\ Kin(l, Current) /\ l.high = Current.high
      BY <1>1 DEF Levels, Kin
    <2>2. Become(l, budget.bytes) /\ UNCHANGED <<budget, top>>
      BY <1>5 DEF CompleteSession
    <2> HIDE DEF l
    <2> QED BY <1>2, <2>1, <2>2
  <1> QED BY <1>3, <1>4, <1>5

(* The copy of a growing buffer ends one way or the other.                      *)
LEMMA CopyLimits ==
  ASSUME IInv, TypeOK', LimitInv, top > 0, ~published, CopyDone \/ CopyThrows
  PROVE  LimitInv'
  <1> DEFINE old == ArrayBytes(Current.array)
             new == ArrayBytes(Current.grown)
  <1>1. /\ TypeOK /\ Current \in Levels /\ budget \in Budgets /\ budget.bytes \in Nat
        /\ old \in Nat /\ new \in Nat
    BY CurrentType DEF IInv
  <1>2. Releasable(old, Current.array) /\ Releasable(new, Current.grown)
    BY HeldIsReserved
  <1>3. CASE CopyDone
    <2> DEFINE k == [Current EXCEPT !.grown = 0, !.taking = FALSE,
                                    !.array = IF Current.taking THEN 0 ELSE Current.grown]
               l == IF Current.taking
                    THEN [k EXCEPT !.kept = @ + new, !.keptSlots = @ + Current.grown]
                    ELSE k
    <2>1. /\ budget' = Released(old, Current.array) /\ Become(l, budget.bytes)
          /\ top' = top
      BY <1>2, <1>3 DEF CopyDone
    <2>2. l \in Levels /\ Kin(l, Current) /\ l.high = Current.high
      <3> HIDE DEF new
      <3>1. k \in Levels /\ Kin(k, Current) /\ k.high = Current.high
        <4>1. (IF Current.taking THEN 0 ELSE Current.grown) \in Nat
          BY <1>1 DEF Levels
        <4> QED BY <1>1, <4>1 DEF Levels, Kin
      <3> HIDE DEF k
      <3>2. k.kept + new \in Nat /\ k.keptSlots + Current.grown \in Nat
        BY <1>1, <3>1 DEF Levels
      <3> QED BY <3>1, <3>2 DEF Levels, Kin
    <2>3. /\ budget'.bytes <= budget.bytes /\ budget'.maxBytes = budget.maxBytes
          /\ budget'.peak = budget.peak
      <3> HIDE DEF old
      <3> QED BY <1>1, <2>1, ReleasedFields
    <2> HIDE DEF l
    <2> QED BY <1>1, <2>1, <2>2, <2>3, ReleasedNotes
  <1>4. CASE CopyThrows
    <2> DEFINE l == [Current EXCEPT !.grown = 0, !.taking = FALSE]
    <2>1. /\ budget' = Released(new, Current.grown) /\ Become(l, budget.bytes)
          /\ top' = top
      BY <1>2, <1>4 DEF CopyThrows
    <2>2. l \in Levels /\ Kin(l, Current) /\ l.high = Current.high
      BY <1>1 DEF Levels, Kin
    <2>3. /\ budget'.bytes <= budget.bytes /\ budget'.maxBytes = budget.maxBytes
          /\ budget'.peak = budget.peak
      <3> HIDE DEF new
      <3> QED BY <1>1, <2>1, ReleasedFields
    <2> HIDE DEF l
    <2> QED BY <1>1, <2>1, <2>2, <2>3, ReleasedNotes
  <1> QED BY <1>3, <1>4

(* The using statements of a return or an exception.                            *)
LEMMA DisposeLimits ==
  ASSUME IInv, TypeOK', LimitInv, top > 0, ~published, DisposeBuffer \/ DisposeSession
  PROVE  LimitInv'
  <1>1. /\ TypeOK /\ Current \in Levels /\ budget \in Budgets /\ budget.bytes \in Nat
        /\ ArrayBytes(Current.array) \in Nat /\ Current.temporary \in Nat
        /\ Current.payload \in Nat /\ Current.kept \in Nat
    <2>1. TypeOK
      BY DEF IInv
    <2> QED BY <2>1, CurrentType DEF Levels
  <1>2. CASE DisposeBuffer
    <2> DEFINE m == ArrayBytes(Current.array)
               l == [Current EXCEPT !.array = 0]
    <2>1. Releasable(m, Current.array) /\ m \in Nat
      BY <1>1, HeldIsReserved
    <2>2. budget' = Released(m, Current.array) /\ Become(l, budget.bytes) /\ top' = top
      BY <1>2, <2>1 DEF DisposeBuffer
    <2>3. l \in Levels /\ Kin(l, Current) /\ l.high = Current.high
      BY <1>1 DEF Levels, Kin
    <2>4. /\ budget'.bytes <= budget.bytes /\ budget'.maxBytes = budget.maxBytes
          /\ budget'.peak = budget.peak
      <3> HIDE DEF m
      <3> QED BY <1>1, <2>1, <2>2, ReleasedFields
    <2> HIDE DEF l
    <2> QED BY <1>1, <2>2, <2>3, <2>4, ReleasedNotes
  <1>3. CASE DisposeSession
    <2> DEFINE m == ArenaRelease
               k == IF Current.session = "completed" THEN Current.kept + Current.payload
                    ELSE Current.kept
               l == [Current EXCEPT !.session = "none", !.temporary = 0, !.payload = 0,
                                    !.kept = k]
    <2>1. Releasable(m, 0) /\ budget.depth # 0 /\ m \in Nat /\ k \in Nat
      BY <1>1, <1>3, HeldIsReserved DEF ArenaRelease, DisposeSession
    <2>2. /\ budget' = [Released(m, 0) EXCEPT !.depth = @ - 1]
          /\ Become(l, budget.bytes) /\ top' = top
      BY <1>3, <2>1 DEF DisposeSession
    <2> HIDE DEF k, m
    <2>3. l \in Levels /\ Kin(l, Current) /\ l.high = Current.high
      BY <1>1, <2>1 DEF Levels, Kin
    <2>4. /\ budget'.bytes <= budget.bytes /\ budget'.maxBytes = budget.maxBytes
          /\ budget'.peak = budget.peak
      <3>1. Released(m, 0) \in Budgets
        BY <1>1, <2>1, BudgetFields, ReleasedType DEF Releasable
      <3>2. /\ budget'.bytes = Released(m, 0).bytes
            /\ budget'.maxBytes = Released(m, 0).maxBytes
            /\ budget'.peak = Released(m, 0).peak
        BY <2>2, <3>1 DEF Budgets
      <3> QED BY <1>1, <2>1, <3>2, ReleasedFields
    <2> HIDE DEF l
    <2> QED BY <1>1, <2>2, <2>3, <2>4, ReleasedNotes
  <1> QED BY <1>2, <1>3

LEMMA InsideLimits ==
  ASSUME IInv, IInv', LimitInv, top > 0, InsideStep
  PROVE  LimitInv'
  <1>1. TypeOK /\ TypeOK' /\ ~published /\ MaxSlots \in Nat
    BY NothingOpen, BoundsAssumption DEF IInv
  <1>2. ASSUME NEW n \in 1..MaxSlots, NEW p \in BOOLEAN, ArenaAllocate(n, p)
        PROVE  LimitInv'
    BY <1>1, <1>2, ArenaAllocateLimits
  <1>3. ASSUME NEW n \in 1..(MaxSlots + 1), Grow(n) \/ GrowthRefused(n)
        PROVE  LimitInv'
    <2>1. CASE Grow(n)
      BY <1>1, <1>3, <2>1, GrowLimits
    <2>2. CASE GrowthRefused(n)
      <3>1. UNCHANGED <<budget, top, level>>
        BY <2>2 DEF GrowthRefused, Breaks
      <3>2. Keeps
        BY <1>1, <3>1, FieldTypes DEF Keeps, Kin
      <3> QED BY <1>1, <3>2, KeepsHolds
    <2> QED BY <1>3, <2>1, <2>2
  <1>4. ASSUME NEW n \in 1..MaxSlots, TakeExact(n)
        PROVE  LimitInv'
    BY <1>1, <1>4, TakeExactLimits
  <1> QED BY <1>1, <1>2, <1>3, <1>4, AllocateObjectLimits, FactoryThrowsLimits,
             CreateSessionLimits, TakeWholeLimits, CopyLimits, DisposeLimits
          DEF InsideStep

--------------------------------------------------------------------------------
(* Opening a scope.  An unrestricted one is neither a ceiling nor a peak.       *)
LEMMA EnterFundedLimits ==
  ASSUME IInv, IInv', EnterFunded
  PROVE  LimitInv'
  <1>1. /\ top' = 1 /\ budget' = NewBudget /\ MaxBytes \in Nat
        /\ level'[1] = Open(NewBudget, FALSE, 0)
    <2>1. 1 \in Depths /\ level \in [Depths -> Levels]
      BY BoundsAssumption DEF IInv, TypeOK, Depths
    <2> QED BY <2>1, BoundsAssumption DEF EnterFunded
  <1>2. /\ budget'.bytes = 0 /\ budget'.maxBytes = MaxBytes /\ budget'.peak = 0
        /\ level'[1].bytes = 0 /\ level'[1].max = MaxBytes
        /\ ~level'[1].restricted /\ level'[1].high = 0
    BY <1>1 DEF NewBudget, Open
  <1>3. Least(MaxBytes, 1)' /\ Least(MaxBytes, 0)'
    <2>1. MaxBytes <= MaxBytes /\ \A j \in 1..1 : j = 1
      BY <1>1
    <2> QED BY <1>2, <2>1 DEF Least
  <1>4. CeilingInv'
    <2>1. Scopes' = {1}
      BY <1>1 DEF Scopes
    <2>2. Least(budget.maxBytes, top)'
      BY <1>1, <1>2, <1>3 DEF Least
    <2>3. ASSUME NEW i \in Scopes'
          PROVE  level'[i].bytes <= level'[i].max /\ Least(level[i].max, i - 1)'
      <3>1. i = 1 /\ 1..(i - 1) = {} /\ MaxBytes <= MaxBytes /\ 0 <= MaxBytes
        BY <1>1, <2>1
      <3>2. level'[i].bytes = 0 /\ level'[i].max = MaxBytes
        BY <1>2, <3>1
      <3> QED BY <3>1, <3>2 DEF Least
    <2> QED BY <1>1, <1>2, <2>1, <2>2, <2>3 DEF CeilingInv
  <1>5. PeakInv'
    <2>1. Scopes' = {1} /\ \A j \in 1..1 : j = 1
      BY <1>1 DEF Scopes
    <2>2. \A j \in Depths : PeakOwner(j, top)' => j = 1
      BY <1>1, <2>1 DEF PeakOwner
    <2> QED BY <1>2, <2>1, <2>2 DEF PeakInv
  <1> QED BY <1>4, <1>5 DEF LimitInv

(* The open levels of the new stack: the old ones and the one on top of them.   *)
LEMMA OpenedLevels ==
  ASSUME TypeOK, top < MaxScopes, top' = top + 1, NEW l,
         level' = [level EXCEPT ![top + 1] = l]
  PROVE  /\ top + 1 \in Depths /\ top \in Nat /\ level'[top + 1] = l
         /\ \A i \in 1..top : level'[i] = level[i]
         /\ Scopes' = 1..(top + 1) /\ \A i \in Scopes' : i \in 1..top \/ i = top + 1
  <1>1. top \in Nat /\ level \in [Depths -> Levels] /\ 1..top \subseteq Depths
    BY FieldTypes DEF TypeOK
  <1>2. top + 1 \in Depths
    BY <1>1, BoundsAssumption DEF Depths
  <1> QED BY <1>1, <1>2 DEF Scopes

LEMMA EnterLimits ==
  ASSUME TypeOK, LimitInv, top > 0, Enter
  PROVE  LimitInv'
  <1>0. PICK n \in Nat : n = top + 1
    BY FieldTypes
  <1>1. /\ top' = n /\ budget' = budget /\ top < MaxScopes
        /\ level' = [level EXCEPT ![n] = Open(budget, FALSE, 0)]
    BY <1>0 DEF Enter
  <1>2. /\ n \in Depths /\ top \in Nat /\ level'[n] = Open(budget, FALSE, 0)
        /\ \A i \in 1..top : level'[i] = level[i]
        /\ Scopes' = 1..n /\ \A i \in Scopes' : i \in 1..top \/ i = n
    BY <1>0, <1>1, OpenedLevels
  <1>3. /\ level'[n].bytes = budget.bytes /\ level'[n].max = budget.maxBytes
        /\ ~level'[n].restricted
    BY <1>2 DEF Open
  <1>4. CeilingInv'
    <2>1. Least(budget.maxBytes, n)' /\ Least(budget.maxBytes, n - 1)'
      <3>1. Least(budget.maxBytes, top) /\ n - 1 = top /\ 1..top \subseteq 1..n
            /\ \A j \in 1..n : j \in 1..top \/ j = n
        BY <1>0, <1>2 DEF LimitInv, CeilingInv
      <3> QED BY <1>1, <1>2, <1>3, <3>1 DEF Least
    <2>2. ASSUME NEW i \in 1..top
          PROVE  level'[i].bytes <= level'[i].max /\ Least(level[i].max, i - 1)'
      <3>1. level[i].bytes <= level[i].max /\ Least(level[i].max, i - 1)
        BY DEF LimitInv, CeilingInv, Scopes
      <3>2. \A j \in 1..(i - 1) : level'[j] = level[j]
        BY <1>2
      <3> QED BY <1>2, <3>1, <3>2 DEF Least
    <2> QED BY <1>1, <1>2, <1>3, <2>1, <2>2 DEF LimitInv, CeilingInv
  <1>5. PeakInv'
    <2>1. ASSUME NEW j \in Depths, PeakOwner(j, n)'
          PROVE  budget.peak = level'[j].high
      <3>1. j \in 1..n /\ j # n
        <4>1. n > 1
          BY <1>0, FieldTypes
        <4>2. j \in 1..n /\ (j = 1 \/ level'[j].restricted)
          BY <2>1 DEF PeakOwner
        <4> QED BY <1>3, <4>1, <4>2
      <3>2. j \in 1..top /\ 1..top \subseteq 1..n
        BY <1>0, <1>2, <3>1
      <3>3. PeakOwner(j, top)
        BY <1>2, <2>1, <3>2 DEF PeakOwner
      <3> QED BY <1>2, <3>2, <3>3 DEF LimitInv, PeakInv
    <2>2. ASSUME NEW i \in Scopes', NEW j \in Depths,
                 level'[i].restricted, PeakOwner(j, i - 1)'
          PROVE  level'[j].high = MaxOf(level'[i].peak, level'[i].high)
      <3>1. i \in 1..top
        BY <1>2, <1>3, <2>2
      <3>2. j \in 1..top /\ PeakOwner(j, i - 1) /\ level[i].restricted
        BY <1>2, <2>2, <3>1 DEF PeakOwner
      <3> QED BY <1>2, <3>1, <3>2 DEF LimitInv, PeakInv, Scopes
    <2> QED BY <1>1, <2>1, <2>2 DEF LimitInv, PeakInv
  <1> QED BY <1>4, <1>5 DEF LimitInv

(* A restriction is a ceiling of its own under those around it, and starts a    *)
(* peak of its own.                                                             *)
LEMMA RestrictLimits ==
  ASSUME TypeOK, LimitInv, top > 0, NEW a \in Additional, RestrictAdditionalBytes(a)
  PROVE  LimitInv'
  <1>0. PICK n \in Nat, m \in Nat : n = top + 1 /\ m = budget.maxBytes
    BY FieldTypes
  <1> DEFINE c == Ceiling(a)
  <1>1. /\ top' = n /\ top < MaxScopes
        /\ budget' = [budget EXCEPT !.maxBytes = c, !.peak = budget.bytes]
        /\ level' = [level EXCEPT ![n] = Open(budget, TRUE, a)]
    BY <1>0 DEF RestrictAdditionalBytes
  <1>2. /\ n \in Depths /\ top \in Nat /\ level'[n] = Open(budget, TRUE, a)
        /\ \A i \in 1..top : level'[i] = level[i]
        /\ Scopes' = 1..n /\ \A i \in Scopes' : i \in 1..top \/ i = n
    BY <1>0, <1>1, OpenedLevels
  <1>3. /\ level'[n].bytes = budget.bytes /\ level'[n].max = m
        /\ level'[n].restricted /\ level'[n].additional = a
        /\ level'[n].peak = budget.peak /\ level'[n].high = budget.bytes
    BY <1>0, <1>2 DEF Open
  <1>4. /\ a \in Nat /\ budget.bytes \in Nat /\ budget.bytes <= m
        /\ budget.peak \in Nat
        /\ budget.bytes <= budget.peak /\ MaxBytes \in Nat
    BY <1>0, FieldTypes, BoundsAssumption DEF LimitInv, CeilingInv, PeakInv
  <1>5. /\ c \in Nat /\ c <= m /\ c <= budget.bytes + a
        /\ budget.bytes <= c /\ (c = m \/ c = budget.bytes + a)
    BY <1>0, <1>4 DEF Ceiling, MinOf
  <1>6. budget'.bytes = budget.bytes /\ budget'.maxBytes = c /\ budget'.peak = budget.bytes
    <2> HIDE DEF c
    <2> QED BY <1>1 DEF TypeOK, Budgets
  <1> HIDE DEF c
  <1>7. CeilingInv'
    <2>1. Least(m, top) /\ n - 1 = top /\ 1..top \subseteq 1..n
          /\ \A j \in 1..n : j \in 1..top \/ j = n
      BY <1>0, <1>2 DEF LimitInv, CeilingInv
    <2>2. /\ m <= MaxBytes
          /\ \A j \in 1..top : level'[j].restricted =>
               m <= level'[j].bytes + level'[j].additional
          /\ \/ m = MaxBytes
             \/ \E j \in 1..top : /\ level'[j].restricted
                                  /\ m = level'[j].bytes + level'[j].additional
      BY <1>2, <2>1 DEF Least
    <2>3. \A j \in 1..top : level'[j].bytes \in Nat /\ level'[j].additional \in Nat
      BY <1>2, FieldTypes
    <2>4. c <= MaxBytes
      BY <1>4, <1>5, <2>2
    <2>5. \A j \in 1..n : level'[j].restricted =>
            c <= level'[j].bytes + level'[j].additional
      <3> TAKE j \in 1..n
      <3>1. CASE j \in 1..top
        BY <1>4, <1>5, <2>2, <2>3, <3>1
      <3>2. CASE j = n
        BY <1>3, <1>5, <3>2
      <3> QED BY <2>1, <3>1, <3>2
    <2>6. \/ c = MaxBytes
          \/ \E j \in 1..n : /\ level'[j].restricted
                             /\ c = level'[j].bytes + level'[j].additional
      <3>1. CASE c = m
        BY <2>1, <2>2, <3>1
      <3>2. CASE c = budget.bytes + a
        <4>1. n \in 1..n
          BY <1>0, <1>2
        <4> QED BY <1>3, <3>2, <4>1
      <3> QED BY <1>5, <3>1, <3>2
    <2>7. Least(budget.maxBytes, top)' /\ Least(m, n - 1)'
      <3>1. Least(budget.maxBytes, top)'
        BY <1>1, <1>6, <2>4, <2>5, <2>6 DEF Least
      <3>2. Least(m, n - 1)'
        BY <2>1, <2>2 DEF Least
      <3> QED BY <3>1, <3>2
    <2>8. ASSUME NEW i \in 1..top
          PROVE  level'[i].bytes <= level'[i].max /\ Least(level[i].max, i - 1)'
      <3>1. level[i].bytes <= level[i].max /\ Least(level[i].max, i - 1)
        BY DEF LimitInv, CeilingInv, Scopes
      <3>2. \A j \in 1..(i - 1) : level'[j] = level[j]
        BY <1>2
      <3> QED BY <1>2, <3>1, <3>2 DEF Least
    <2> QED BY <1>1, <1>2, <1>3, <1>4, <1>5, <1>6, <2>7, <2>8 DEF CeilingInv
  <1>8. PeakInv'
    <2>1. ASSUME NEW j \in Depths, PeakOwner(j, n)'
          PROVE  budget'.peak = level'[j].high
      <3>1. j \in 1..n /\ n \in 1..n /\ \A k \in 1..n : k > j => ~level'[k].restricted
        BY <1>0, <1>2, <2>1 DEF PeakOwner
      <3>2. ~(n > j)
        BY <1>3, <3>1
      <3>3. j = n
        BY <3>1, <3>2
      <3> QED BY <1>3, <1>6, <3>3
    <2>2. ASSUME NEW i \in Scopes', NEW j \in Depths,
                 level'[i].restricted, PeakOwner(j, i - 1)'
          PROVE  level'[j].high = MaxOf(level'[i].peak, level'[i].high)
      <3>1. CASE i \in 1..top
        <4>1. j \in 1..top /\ PeakOwner(j, i - 1) /\ level[i].restricted
          BY <1>2, <2>2, <3>1 DEF PeakOwner
        <4> QED BY <1>2, <3>1, <4>1 DEF LimitInv, PeakInv, Scopes
      <3>2. CASE i = n
        <4>1. j \in 1..top /\ PeakOwner(j, top)
          <5>1. i - 1 = top
            BY <1>0, <1>2, <3>2
          <5>2. /\ j \in 1..top /\ (j = 1 \/ level'[j].restricted)
                /\ \A k \in 1..top : k > j => ~level'[k].restricted
            BY <2>2, <5>1 DEF PeakOwner
          <5>3. \A k \in 1..top : level'[k].restricted = level[k].restricted
            BY <1>2
          <5> QED BY <5>2, <5>3 DEF PeakOwner
        <4>2. level[j].high = budget.peak
          BY <4>1 DEF LimitInv, PeakInv
        <4>3. level'[i].peak = budget.peak /\ level'[i].high = budget.bytes
          BY <1>3, <3>2
        <4>4. level'[j].high = budget.peak
          BY <1>2, <4>1, <4>2
        <4> QED BY <1>4, <4>3, <4>4 DEF MaxOf
      <3>3. i \in 1..top \/ i = n
        BY <1>2
      <3> QED BY <3>1, <3>2, <3>3
    <2>3. budget'.bytes <= budget'.peak
      BY <1>4, <1>6
    <2>4. \A j \in Depths : PeakOwner(j, top)' => budget'.peak = level'[j].high
      BY <1>1, <2>1
    <2> QED BY <2>2, <2>3, <2>4 DEF PeakInv
  <1> QED BY <1>7, <1>8 DEF LimitInv

--------------------------------------------------------------------------------
(* Leaving a scope.                                                             *)
LEMMA CloseLimits ==
  ASSUME IInv, TypeOK', LimitInv, top > 0, DisposeScope
  PROVE  LimitInv'
  <1>0. PICK n \in Nat, c \in Levels : n = top - 1 /\ c = Current
    <2>1. TypeOK
      BY DEF IInv
    <2> QED BY <2>1, FieldTypes, CurrentType
  <1>1. CASE Breaks
    <2>1. Keeps
      <3>1. TypeOK
        BY DEF IInv
      <3> QED BY <1>1, <3>1, FieldTypes DEF Breaks, Keeps, Kin
    <2> QED BY <2>1, KeepsHolds DEF IInv
  <1>2. CASE ~Breaks
    <2> DEFINE r == RolledBack
               d == Rest(r)
    <2>1. /\ Current.completed \/ CanRollback
          /\ budget' = RestoreByteLimit(d) /\ top' = n
      BY <1>0, <1>2 DEF DisposeScope
    <2>2. /\ TypeOK /\ budget \in Budgets /\ top \in Nat /\ n \in 0..top /\ n # top
          /\ budget.bytes \in Nat /\ budget.maxBytes \in Nat /\ budget.peak \in Nat
          /\ c.bytes \in Nat /\ c.max \in Nat /\ c.peak \in Nat
          /\ c.high \in Nat /\ c.additional \in Nat /\ c = level[top]
          /\ top \in Depths /\ top \in Scopes /\ 1..n \subseteq Scopes
      <3>1. TypeOK
        BY DEF IInv
      <3> QED BY <1>0, <3>1, FieldTypes, CurrentType DEF Levels, Scopes, Current
    <2>3. /\ budget'.bytes \in Nat /\ budget'.bytes <= budget.bytes
          /\ budget'.bytes <= c.bytes \/ budget'.bytes = budget.bytes \/ budget'.bytes = 0
          /\ budget'.maxBytes = IF c.restricted THEN c.max ELSE budget.maxBytes
          /\ budget'.peak = IF c.restricted THEN MaxOf(budget.peak, c.peak)
                            ELSE budget.peak
      <3>1. /\ r \in Budgets /\ r.maxBytes = budget.maxBytes /\ r.peak = budget.peak
            /\ r.bytes = budget.bytes \/ (r.bytes = c.bytes /\ c.bytes <= budget.bytes)
        <4>1. Current.slots \in Nat /\ Current.depth \in Nat /\ Current = c
          BY <1>0 DEF Levels
        <4> QED BY <2>1, <2>2, <4>1 DEF RolledBack, CanRollback, Budgets
      <3> HIDE DEF r
      <3>2. /\ d \in Budgets /\ d.maxBytes = budget.maxBytes /\ d.peak = budget.peak
            /\ d.bytes = r.bytes \/ d.bytes = 0
        BY <3>1 DEF Rest, Budgets
      <3> HIDE DEF d
      <3>3. /\ budget'.bytes = d.bytes
            /\ budget'.maxBytes = IF c.restricted THEN c.max ELSE d.maxBytes
            /\ budget'.peak = IF c.restricted THEN MaxOf(d.peak, c.peak) ELSE d.peak
        BY <1>0, <2>1, <3>2 DEF RestoreByteLimit, Budgets
      <3>4. d.bytes \in Nat
        BY <3>2 DEF Budgets
      <3> QED BY <2>2, <3>1, <3>2, <3>3, <3>4
    <2>4. \A i \in 1..n : Kin(level'[i], level[i]) /\ level'[i].high = level[i].high
      <3> SUFFICES ASSUME NEW i \in 1..n
                   PROVE  Kin(level'[i], level[i]) /\ level'[i].high = level[i].high
        OBVIOUS
      <3>1. i \in Depths /\ i # top /\ level[i] \in Levels
        BY <2>2, FieldTypes DEF TypeOK
      <3>2. \/ level'[i] = level[i]
            \/ level'[i] = [level[i] EXCEPT !.kept = @ + (budget'.bytes - Current.bytes),
                                            !.keptSlots = @ + (budget'.slots - Current.slots)]
        <4> DEFINE b == RestoreByteLimit(d)
        <4>1. \/ level'[i] = level[i]
              \/ level'[i] = [level[i] EXCEPT !.kept = @ + (b.bytes - Current.bytes),
                                              !.keptSlots = @ + (b.slots - Current.slots)]
          BY <1>2, <3>1 DEF DisposeScope
        <4> QED BY <2>1, <4>1
      <3> QED BY <3>1, <3>2 DEF Levels, Kin
    <2> HIDE DEF r, d
    <2>5. /\ Least(budget.maxBytes, top) /\ Least(c.max, n) /\ c.bytes <= c.max
          /\ budget.bytes <= budget.maxBytes /\ budget.bytes <= budget.peak
      <3>1. Least(level[top].max, top - 1) /\ level[top].bytes <= level[top].max
        BY <2>2 DEF LimitInv, CeilingInv
      <3> QED BY <1>0, <2>2, <3>1 DEF LimitInv, CeilingInv, PeakInv
    <2>6. CeilingInv'
      <3>1. \A i \in 1..n : /\ level'[i].restricted = level[i].restricted
                            /\ level'[i].bytes = level[i].bytes
                            /\ level'[i].additional = level[i].additional
                            /\ level'[i].max = level[i].max
        BY <2>4 DEF Kin
      <3>2. 1..n \subseteq 1..top /\ \A i \in 1..top : i \in 1..n \/ i = top
        BY <1>0, <2>2
      <3>3. budget.maxBytes <= c.max
        <4>1. \A j \in 1..n : level[j].bytes \in Nat /\ level[j].additional \in Nat
          BY <2>2, FieldTypes DEF Scopes
        <4> QED BY <2>2, <2>5, <3>2, <4>1, BoundsAssumption DEF Least
      <3>4. Least(budget.maxBytes, top)' /\ budget'.bytes <= budget'.maxBytes
        <4>1. CASE c.restricted
          <5>1. budget'.maxBytes = c.max
            BY <2>3, <4>1
          <5>2. budget'.bytes <= c.max
            BY <2>2, <2>3, <2>5, <3>3
          <5>3. Least(c.max, n)
            BY <2>5
          <5> QED BY <2>1, <3>1, <5>1, <5>2, <5>3 DEF Least
        <4>2. CASE ~c.restricted
          <5>1. budget'.maxBytes = budget.maxBytes
            BY <2>3, <4>2
          <5>2. budget'.bytes <= budget.maxBytes
            BY <2>2, <2>3, <2>5
          <5>3. Least(budget.maxBytes, n)
            BY <2>2, <2>5, <3>2, <4>2 DEF Least
          <5> QED BY <2>1, <3>1, <5>1, <5>2, <5>3 DEF Least
        <4> QED BY <4>1, <4>2
      <3>5. ASSUME NEW i \in 1..n
            PROVE  level'[i].bytes <= level'[i].max /\ Least(level[i].max, i - 1)'
        <4>1. level[i].bytes <= level[i].max /\ Least(level[i].max, i - 1)
          BY <2>2 DEF LimitInv, CeilingInv
        <4>2. 1..(i - 1) \subseteq 1..n
          OBVIOUS
        <4> QED BY <3>1, <4>1, <4>2 DEF Least
      <3> QED BY <2>1, <3>4, <3>5 DEF CeilingInv, Scopes
    <2>7. PeakInv'
      <3>1. \A i \in 1..n : /\ level'[i].restricted = level[i].restricted
                            /\ level'[i].peak = level[i].peak
                            /\ level'[i].high = level[i].high
        BY <2>4 DEF Kin
      <3>2. budget'.bytes <= budget'.peak
        BY <2>2, <2>3, <2>5 DEF MaxOf
      <3>3. ASSUME NEW j \in Depths, PeakOwner(j, top)'
            PROVE  budget'.peak = level'[j].high
        <4>1. j \in 1..n /\ PeakOwner(j, n)
          BY <2>1, <3>1, <3>3 DEF PeakOwner
        <4>2. /\ n = top - 1 /\ 1..n \subseteq 1..top /\ top > 1
              /\ \A i \in 1..top : i \in 1..n \/ i = top
          BY <1>0, <2>2, <4>1
        <4>3. CASE c.restricted
          <5>1. PeakOwner(top, top)
            BY <2>2, <4>2, <4>3 DEF PeakOwner
          <5>2. budget.peak = c.high
            BY <2>2, <5>1 DEF LimitInv, PeakInv
          <5>3. PeakOwner(j, top - 1)
            BY <4>1, <4>2
          <5>4. level[j].high = MaxOf(c.peak, c.high)
            BY <2>2, <4>3, <5>3 DEF LimitInv, PeakInv
          <5>5. budget'.peak = MaxOf(budget.peak, c.peak)
            BY <2>3, <4>3
          <5> QED BY <2>2, <3>1, <4>1, <5>2, <5>4, <5>5 DEF MaxOf
        <4>4. CASE ~c.restricted
          <5>1. PeakOwner(j, top)
            BY <2>2, <4>1, <4>2, <4>4 DEF PeakOwner
          <5> QED BY <2>3, <3>1, <4>1, <4>4, <5>1 DEF LimitInv, PeakInv
        <4> QED BY <4>3, <4>4
      <3>4. ASSUME NEW i \in 1..n, NEW j \in Depths,
                   level'[i].restricted, PeakOwner(j, i - 1)'
            PROVE  level'[j].high = MaxOf(level'[i].peak, level'[i].high)
        <4>1. 1..(i - 1) \subseteq 1..n
          OBVIOUS
        <4>2. j \in 1..n /\ PeakOwner(j, i - 1) /\ level[i].restricted
          BY <3>1, <3>4, <4>1 DEF PeakOwner
        <4>3. level[j].high = MaxOf(level[i].peak, level[i].high)
          BY <2>2, <4>2 DEF LimitInv, PeakInv
        <4> QED BY <3>1, <4>2, <4>3
      <3> QED BY <2>1, <3>2, <3>3, <3>4 DEF PeakInv, Scopes
    <2> QED BY <2>6, <2>7 DEF LimitInv
  <1> QED BY <1>1, <1>2

(* Exits, refunds and stutters change nothing here; a transfer leaves nothing   *)
(* reserved.                                                                    *)
LEMMA QuietLimits ==
  ASSUME IInv, IInv', LimitInv,
         \/ UNCHANGED <<budget, top, level>>
         \/ TransferFundedBytes
  PROVE  LimitInv'
  <1>1. TypeOK /\ TypeOK'
    BY DEF IInv
  <1>2. CASE UNCHANGED <<budget, top, level>>
    <2>1. Keeps
      BY <1>1, <1>2, FieldTypes DEF Keeps, Kin
    <2> QED BY <1>1, <2>1, KeepsHolds
  <1>3. CASE TransferFundedBytes
    <2>1. /\ budget' = [budget EXCEPT !.bytes = 0] /\ top' = top
          /\ level' = [i \in Depths |-> [level[i] EXCEPT !.kept = 0]]
      BY <1>3 DEF TransferFundedBytes, Transferred
    <2>2. /\ budget'.bytes = 0 /\ budget'.maxBytes = budget.maxBytes
          /\ budget'.peak = budget.peak /\ 0 <= budget.bytes
      BY <1>1, <2>1, FieldTypes DEF TypeOK, Budgets
    <2>3. \A i \in Scopes : Kin(level'[i], level[i]) /\ level'[i].high = level[i].high
      <3> TAKE i \in Scopes
      <3>1. i \in Depths /\ level[i] \in Levels
        BY <1>1, FieldTypes DEF Scopes, TypeOK
      <3>2. level'[i] = [level[i] EXCEPT !.kept = 0]
        BY <2>1, <3>1
      <3> QED BY <3>1, <3>2 DEF Levels, Kin
    <2>4. Keeps
      BY <2>1, <2>2, <2>3 DEF Keeps
    <2> QED BY <1>1, <2>4, KeepsHolds
  <1> QED BY <1>2, <1>3

LEMMA LimitsAtStart ==
  ASSUME Init
  PROVE  LimitInv
  <1>1. /\ top = 0 /\ budget.bytes = 0 /\ budget.peak = 0 /\ budget.maxBytes = MaxBytes
        /\ MaxBytes \in Nat
    BY BoundsAssumption DEF Init, NewBudget
  <1>2. 1..top = {} /\ MaxBytes <= MaxBytes
    BY <1>1
  <1>3. Least(budget.maxBytes, top)
    BY <1>1, <1>2 DEF Least
  <1> QED BY <1>1, <1>2, <1>3 DEF LimitInv, CeilingInv, PeakInv, PeakOwner, Scopes

LEMMA LimitsKept ==
  ASSUME IInv, LimitInv, [Next]_vars
  PROVE  LimitInv'
  <1>1. IInv' /\ TypeOK /\ TypeOK'
    BY NextHolds DEF IInv
  <1>2. top \in Nat /\ (mode = "idle" <=> top = 0) /\ mode # "broken"
    BY DEF IInv, TypeOK, NoInternalError
  <1>3. CASE \/ StorageRefunds \/ Throw \/ Return \/ UNCHANGED vars
             \/ TransferFundedBytes
    BY <1>1, <1>3, QuietLimits DEF StorageRefunds, Throw, Return, vars
  <1>4. CASE EnterFunded
    BY <1>1, <1>4, EnterFundedLimits
  <1>5. CASE Enter
    BY <1>1, <1>2, <1>5, EnterLimits DEF Enter, Running
  <1>6. ASSUME NEW a \in Additional, RestrictAdditionalBytes(a)
        PROVE  LimitInv'
    <2>1. mode = "run"
      BY <1>6 DEF RestrictAdditionalBytes, Running
    <2> QED BY <1>1, <1>2, <1>6, <2>1, RestrictLimits
  <1>7. CASE InsideStep
    <2>1. mode \in {"run", "leave", "throw"}
      BY <1>7 DEF InsideStep, AllocateObject, FactoryThrows, CreateSession,
           CompleteSession, ArenaAllocate, Grow, GrowthRefused, TakeExact, TakeWhole,
           CopyDone, CopyThrows, Complete, DisposeBuffer, DisposeSession, Running,
           Leaving
    <2> QED BY <1>1, <1>2, <1>7, <2>1, InsideLimits
  <1>8. CASE DisposeScope
    <2>1. mode \in {"leave", "throw"}
      BY <1>8 DEF DisposeScope, Leaving
    <2> QED BY <1>1, <1>2, <1>8, <2>1, CloseLimits
  <1>9. CASE Next
    <2>1. \/ EnterFunded \/ StorageRefunds \/ Throw \/ Return \/ Enter
          \/ \E a \in Additional : RestrictAdditionalBytes(a)
          \/ InsideStep \/ TransferFundedBytes \/ DisposeScope
      BY <1>9, Zenon DEF Next, InsideStep
    <2> QED BY <2>1, <1>3, <1>4, <1>5, <1>6, <1>7, <1>8
  <1> QED BY <1>3, <1>9

--------------------------------------------------------------------------------
THEOREM LimitsInvariant == Spec => []LimitInv
  <1>1. Init => LimitInv
    BY LimitsAtStart
  <1>2. IInv /\ LimitInv /\ [Next]_vars => LimitInv'
    BY LimitsKept
  <1> QED BY <1>1, <1>2, ScopesInvariant, PTL DEF Spec

(* However restrictions nest, and whatever fails or is transferred inside them, *)
(* no scope has more reserved than the tightest of the open ceilings, and that  *)
(* ceiling is in force again when the ones inside it have gone.                 *)
THEOREM RestrictionsNest == Spec => []CeilingsNest
  <1>1. IInv /\ LimitInv => CeilingsNest
    <2> SUFFICES ASSUME IInv, LimitInv PROVE CeilingsNest
      OBVIOUS
    <2>1. budget.bytes <= budget.maxBytes /\ Least(budget.maxBytes, top)
      BY DEF LimitInv, CeilingInv
    <2> DEFINE restricted == {i \in Scopes : level[i].restricted}
               ceilings == {level[i].bytes + level[i].additional : i \in restricted}
                             \cup {MaxBytes}
    <2>2. budget.maxBytes \in ceilings
      BY <2>1 DEF Least, Scopes
    <2>3. \A c \in ceilings : budget.maxBytes <= c
      BY <2>1 DEF Least, Scopes
    <2> QED BY <2>1, <2>2, <2>3 DEF CeilingsNest
  <1> QED BY <1>1, ScopesInvariant, LimitsInvariant, PTL

(* The peak a preparation or its caller reads is the most that was reserved     *)
(* since that scope was entered, including what restricted scopes inside it     *)
(* reserved and released again.                                                 *)
THEOREM PeakSeesEverything == Spec => []PeakIsHighWater
  <1>1. IInv /\ LimitInv => PeakIsHighWater
    <2> SUFFICES ASSUME IInv, LimitInv, NEW i \in Scopes,
                        i = 1 \/ level[i].restricted,
                        \A j \in Scopes : j > i => ~level[j].restricted
                 PROVE  budget.peak = level[i].high
      BY DEF PeakIsHighWater
    <2>1. i \in Depths
      BY FieldTypes DEF IInv, Scopes
    <2>2. PeakOwner(i, top)
      BY DEF PeakOwner, Scopes
    <2> QED BY <2>1, <2>2 DEF LimitInv, PeakInv
  <1> QED BY <1>1, ScopesInvariant, LimitsInvariant, PTL
================================================================================
