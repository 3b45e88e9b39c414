------------------------ MODULE ConstructionScopeProofs ------------------------
(* Safety of ConstructionScope for every bound, size and nesting: the budget's  *)
(* InvalidOperationExceptions are unreachable, and every admitted byte, slot    *)
(* and depth frame has one holder.                                              *)
EXTENDS ConstructionScope, TLAPS

(* A scope without a session holds nothing in an arena.                         *)
SessionInv ==
  \A i \in Depths :
    level[i].session = "none" => level[i].temporary = 0 /\ level[i].payload = 0

(* Only the running code of the current scope is inside a buffer operation.     *)
GrownInv == \A i \in Depths : level[i].grown # 0 => i = top /\ mode = "run"

(* After the transfer no level holds anything, and only the root may roll back. *)
PublishedInv ==
  published =>
    \A i \in Scopes :
      /\ level[i].session = "none" /\ level[i].array = 0 /\ level[i].grown = 0
      /\ i > 1 => level[i].completed

(* The root's checkpoints are those of a new budget.                            *)
RootInv ==
  top > 0 => level[1].slots = 0 /\ level[1].bytes = 0 /\ level[1].depth = 0

IInv ==
  /\ TypeOK /\ NoInternalError /\ Accounted
  /\ SessionInv /\ GrownInv /\ PublishedInv /\ RootInv

--------------------------------------------------------------------------------
(* Sizes are naturals.                                                          *)
LEMMA RoundUpType ==
  ASSUME NEW n \in Nat
  PROVE  RoundUp(n) \in Nat /\ RoundUp(n) >= n
  <1> USE BoundsAssumption
  <1> DEFINE q == (n + Pad - 1) \div Pad
  <1>1. q \in Nat /\ Pad * q <= n + Pad - 1 /\ n + Pad - 1 < Pad * q + Pad
    BY Z3
  <1>2. q * Pad = Pad * q /\ Pad * q \in Nat
    BY <1>1
  <1> QED BY <1>1, <1>2 DEF RoundUp

LEMMA ArrayBytesType ==
  ASSUME NEW n \in Nat
  PROVE  ArrayBytes(n) \in Nat /\ ArrayBytes(0) = 0
  BY BoundsAssumption, RoundUpType DEF ArrayBytes

(* The largest array the remaining bytes can hold is large enough for every     *)
(* array whose bytes still fit.                                                 *)
LEMMA AvailableFits ==
  ASSUME NEW rest \in Int, NEW n \in Nat \ {0}, ArrayBytes(n) <= rest
  PROVE  ~(rest < Header) /\ ((rest - Header) \div Pad) * Pad >= n
  <1> USE BoundsAssumption
  <1> DEFINE q == (n + Pad - 1) \div Pad
             r == (rest - Header) \div Pad
  <1>1. RoundUp(n) \in Nat /\ RoundUp(n) >= n /\ RoundUp(n) = q * Pad
    BY RoundUpType DEF RoundUp
  <1>2. Header + q * Pad <= rest
    BY <1>1 DEF ArrayBytes
  <1>3. q \in Nat
    BY Z3
  <1>4. rest - Header \in Nat
    BY <1>1, <1>2, <1>3
  <1>5. r \in Nat /\ Pad * r <= rest - Header /\ rest - Header < Pad * r + Pad
    <2> HIDE DEF q
    <2> QED BY <1>4, Z3
  <1>6. q <= r
    <2> SUFFICES ASSUME r + 1 <= q PROVE FALSE
      BY <1>3, <1>5
    <2> HIDE DEF q, r
    <2>1. Pad * (r + 1) <= Pad * q
      BY <1>3, <1>5, Z3
    <2>2. Pad * (r + 1) = Pad * r + Pad /\ Pad * q = q * Pad
      BY <1>3, <1>5, Z3
    <2> QED BY <2>1, <2>2, <1>2, <1>3, <1>5
  <1>7. r * Pad >= q * Pad
    <2> HIDE DEF q, r
    <2> QED BY <1>3, <1>5, <1>6, Z3
  <1> HIDE DEF q
  <1> QED BY <1>1, <1>2, <1>3, <1>4, <1>5, <1>7

--------------------------------------------------------------------------------
(* Everything but the history variable `high`.                                  *)
Same(a, b) ==
  /\ a.slots = b.slots /\ a.bytes = b.bytes /\ a.depth = b.depth
  /\ a.completed = b.completed /\ a.restricted = b.restricted
  /\ a.max = b.max /\ a.peak = b.peak
  /\ a.session = b.session /\ a.temporary = b.temporary /\ a.payload = b.payload
  /\ a.array = b.array /\ a.grown = b.grown /\ a.taking = b.taking
  /\ a.kept = b.kept /\ a.keptSlots = b.keptSlots /\ a.additional = b.additional

LEMMA LevelHigh ==
  ASSUME NEW k \in Levels, NEW n \in Nat
  PROVE  /\ [k EXCEPT !.high = MaxOf(@, n)] \in Levels
         /\ Same([k EXCEPT !.high = MaxOf(@, n)], k)
  BY DEF Levels, MaxOf, Same

(* Become changes the current level and notes the high-water mark.              *)
LEMMA BecomeFrame ==
  ASSUME TypeOK, NEW l \in Levels, NEW seen \in Nat, Become(l, seen)
  PROVE  /\ level' \in [Depths -> Levels]
         /\ \A i \in Depths : i # top => Same(level'[i], level[i])
         /\ \A i \in Depths : i = top => Same(level'[i], l)
  <1> DEFINE K(i) == IF i = top THEN l ELSE level[i]
             H(i) == IF i <= top THEN [K(i) EXCEPT !.high = MaxOf(@, seen)] ELSE K(i)
  <1>1. level' = [i \in Depths |-> H(i)]
    BY DEF Become
  <1>2. \A i \in Depths : K(i) \in Levels
    BY DEF TypeOK
  <1>3. \A i \in Depths : H(i) \in Levels /\ Same(H(i), K(i))
    <2> TAKE i \in Depths
    <2>1. K(i) \in Levels
      BY <1>2
    <2> HIDE DEF K
    <2> QED BY <2>1, LevelHigh DEF Same
  <1>4. level' \in [Depths -> Levels] /\ \A i \in Depths : level'[i] = H(i)
    <2> HIDE DEF H
    <2> QED BY <1>1, <1>3
  <1>5. \A i \in Depths : Same(level'[i], K(i))
    <2> HIDE DEF H, K
    <2> QED BY <1>3, <1>4
  <1> QED BY <1>4, <1>5

(* What the current code does to its own level keeps the invariant when budget  *)
(* and account follow what the level holds.                                     *)
LEMMA LocalStep ==
  ASSUME IInv, top > 0, ~published,
         NEW l \in Levels, NEW seen \in Nat, Become(l, seen),
         l.slots = Current.slots, l.bytes = Current.bytes, l.depth = Current.depth,
         l.session = "none" => l.temporary = 0 /\ l.payload = 0,
         l.grown # 0 => mode' = "run",
         mode' \in {"run", "leave", "throw"},
         UNCHANGED <<top, published, retained>>,
         budget' \in Budgets,
         budget'.bytes = l.bytes + BytesOf(l),
         budget'.slots = l.slots + SlotsOf(l),
         budget'.depth = l.depth + DepthOf(l),
         account' = budget'.bytes + retained
  PROVE  IInv'
  <1> USE DEF IInv
  <1>0. top \in Depths /\ MaxScopes \in Nat \ {0}
    BY BoundsAssumption DEF TypeOK, Depths
  <1>1. /\ level' \in [Depths -> Levels]
        /\ \A i \in Depths : i # top => Same(level'[i], level[i])
        /\ \A i \in Depths : i = top => Same(level'[i], l)
    BY BecomeFrame
  <1>2. budget'.bytes \in Nat
    BY DEF Budgets
  <1>3. TypeOK'
    BY <1>0, <1>1, <1>2 DEF TypeOK
  <1>4. NoInternalError'
    BY DEF NoInternalError
  <1>5. Accounted'
    <2>1. account' = budget'.bytes + retained' /\ ~(top' = 0 \/ published')
      BY DEF TypeOK
    <2>2. ASSUME NEW i \in Scopes
          PROVE  LET b == IF i = top THEN budget' ELSE level'[i + 1]
                 IN  /\ b.bytes = level'[i].bytes + BytesOf(level'[i])
                     /\ b.slots = level'[i].slots + SlotsOf(level'[i])
                     /\ b.depth = level'[i].depth + DepthOf(level'[i])
      <3>1. i \in Depths /\ (i # top => i + 1 \in Depths)
        BY <1>0 DEF Scopes, Depths, TypeOK
      <3>2. CASE i = top
        <4>1. Same(level'[i], l)
          BY <1>1, <3>1, <3>2
        <4> QED BY <4>1, <3>2 DEF Same, BytesOf, SlotsOf, DepthOf
      <3>3. CASE i # top
        <4>1. Same(level'[i], level[i])
          BY <1>1, <3>1, <3>3
        <4>2. /\ level'[i + 1].bytes = level[i + 1].bytes
              /\ level'[i + 1].slots = level[i + 1].slots
              /\ level'[i + 1].depth = level[i + 1].depth
          <5>1. CASE i + 1 = top
            BY <1>1, <3>1, <3>3, <5>1 DEF Same, Current
          <5>2. CASE i + 1 # top
            BY <1>1, <3>1, <3>3, <5>2 DEF Same
          <5> QED BY <5>1, <5>2
        <4>3. /\ level[i + 1].bytes = level[i].bytes + BytesOf(level[i])
              /\ level[i + 1].slots = level[i].slots + SlotsOf(level[i])
              /\ level[i + 1].depth = level[i].depth + DepthOf(level[i])
          BY <3>3 DEF Accounted
        <4>4. /\ BytesOf(level'[i]) = BytesOf(level[i])
              /\ SlotsOf(level'[i]) = SlotsOf(level[i])
              /\ DepthOf(level'[i]) = DepthOf(level[i])
          BY <4>1 DEF Same, BytesOf, SlotsOf, DepthOf
        <4> QED BY <4>1, <4>2, <4>3, <4>4, <3>3 DEF Same
      <3> QED BY <3>2, <3>3
    <2>3. Scopes' = Scopes
      BY DEF Scopes
    <2> QED BY <2>1, <2>2, <2>3 DEF Accounted
  <1>6. SessionInv'
    BY <1>0, <1>1 DEF SessionInv, Same, Depths
  <1>7. GrownInv'
    BY <1>0, <1>1 DEF GrownInv, Same
  <1>8. PublishedInv' /\ RootInv'
    <2>1. 1 \in Depths
      BY <1>0 DEF Depths
    <2>2. CASE top = 1
      BY <1>1, <2>1, <2>2 DEF PublishedInv, RootInv, Same, Current
    <2>3. CASE top # 1
      BY <1>1, <2>1, <2>3 DEF PublishedInv, RootInv, Same
    <2> QED BY <2>2, <2>3
  <1> QED BY <1>3, <1>4, <1>5, <1>6, <1>7, <1>8

--------------------------------------------------------------------------------
(* What the invariant says of the current scope.                                *)
LEMMA CurrentHolds ==
  ASSUME IInv, top > 0, ~published
  PROVE  /\ Current \in Levels /\ top \in Depths
         /\ budget.bytes = Current.bytes + BytesOf(Current)
         /\ budget.slots = Current.slots + SlotsOf(Current)
         /\ budget.depth = Current.depth + DepthOf(Current)
         /\ account = budget.bytes + retained
         /\ Current.session = "none" => Current.temporary = 0 /\ Current.payload = 0
         /\ ArrayBytes(Current.array) \in Nat /\ ArrayBytes(Current.grown) \in Nat
         /\ Current.grown # 0 => mode = "run"
  <1>1. top \in Depths /\ Current \in Levels /\ top \in Scopes
    BY BoundsAssumption DEF IInv, TypeOK, Depths, Scopes, Current
  <1>2. ArrayBytes(Current.array) \in Nat /\ ArrayBytes(Current.grown) \in Nat
    BY <1>1, ArrayBytesType DEF Levels
  <1> QED BY <1>1, <1>2 DEF IInv, Accounted, SessionInv, GrownInv, Current

LEMMA BudgetFields ==
  ASSUME budget \in Budgets
  PROVE  /\ budget.slots \in Nat /\ budget.bytes \in Nat /\ budget.maxBytes \in Nat
         /\ budget.peak \in Nat /\ budget.work \in Nat /\ budget.depth \in Nat
  BY DEF Budgets

LEMMA AdmittedType ==
  ASSUME budget \in Budgets, NEW m \in Nat, NEW n \in Nat
  PROVE  /\ Admitted(m, n) \in Budgets
         /\ Admitted(m, n).bytes = budget.bytes + m
         /\ Admitted(m, n).slots = budget.slots + n
         /\ Admitted(m, n).depth = budget.depth
  <1>1. /\ MaxOf(budget.peak, budget.bytes + m) \in Nat /\ budget.work + 1 \in Nat
        /\ budget.bytes + m \in Nat /\ budget.slots + n \in Nat
    BY BudgetFields DEF MaxOf
  <1> QED BY <1>1 DEF Admitted, Budgets

LEMMA ReleasedType ==
  ASSUME budget \in Budgets, NEW m \in Nat, NEW n \in Nat,
         m <= budget.bytes, n <= budget.slots
  PROVE  /\ Released(m, n) \in Budgets
         /\ Released(m, n).bytes = budget.bytes - m
         /\ Released(m, n).slots = budget.slots - n
         /\ Released(m, n).depth = budget.depth
  <1>1. budget.bytes - m \in Nat /\ budget.slots - n \in Nat
    BY BudgetFields
  <1> QED BY <1>1 DEF Released, Budgets

(* The current scope is charged m bytes and n slots more.                       *)
LEMMA AdmitStep ==
  ASSUME IInv, top > 0, ~published, mode = "run",
         NEW l \in Levels, NEW m \in Nat, NEW n \in Nat,
         l.slots = Current.slots, l.bytes = Current.bytes, l.depth = Current.depth,
         l.session = "none" => l.temporary = 0 /\ l.payload = 0,
         BytesOf(l) = BytesOf(Current) + m, SlotsOf(l) = SlotsOf(Current) + n,
         DepthOf(l) = DepthOf(Current),
         Become(l, budget.bytes + m), budget' = Admitted(m, n),
         account' = account + m, UNCHANGED <<top, mode, published, retained>>
  PROVE  IInv'
  <1>1. budget \in Budgets /\ retained \in Nat
    BY DEF IInv, TypeOK
  <1>2. /\ budget' \in Budgets
        /\ budget'.bytes = budget.bytes + m /\ budget'.slots = budget.slots + n
        /\ budget'.depth = budget.depth
    BY <1>1, AdmittedType
  <1>3. budget.bytes + m \in Nat
    BY <1>1, BudgetFields
  <1>4. /\ BytesOf(Current) \in Int /\ SlotsOf(Current) \in Int
        /\ Current.bytes \in Int /\ Current.slots \in Int
    BY CurrentHolds DEF Levels, BytesOf, SlotsOf
  <1>5. /\ budget'.bytes = l.bytes + BytesOf(l)
        /\ budget'.slots = l.slots + SlotsOf(l)
        /\ budget'.depth = l.depth + DepthOf(l)
        /\ account' = budget'.bytes + retained
    BY <1>1, <1>2, <1>4, CurrentHolds
  <1> QED BY <1>2, <1>3, <1>5, LocalStep

(* The current scope gives m bytes and n slots back.                            *)
LEMMA ReleaseStep ==
  ASSUME IInv, top > 0, ~published,
         NEW l \in Levels, NEW m \in Nat, NEW n \in Nat, NEW b \in Budgets,
         l.slots = Current.slots, l.bytes = Current.bytes, l.depth = Current.depth,
         l.session = "none" => l.temporary = 0 /\ l.payload = 0,
         l.grown # 0 => mode' = "run", mode' \in {"run", "leave", "throw"},
         BytesOf(l) + m = BytesOf(Current), SlotsOf(l) + n = SlotsOf(Current),
         b.bytes = budget.bytes - m, b.slots = budget.slots - n,
         b.depth = l.depth + DepthOf(l),
         Become(l, budget.bytes), budget' = b,
         account' = account - m, UNCHANGED <<top, published, retained>>
  PROVE  IInv'
  <1>1. budget \in Budgets /\ retained \in Nat /\ budget.bytes \in Nat
    BY BudgetFields DEF IInv, TypeOK
  <1>2. BytesOf(l) \in Int /\ SlotsOf(l) \in Int
    BY ArrayBytesType DEF Levels, BytesOf, SlotsOf
  <1>3. /\ BytesOf(Current) \in Int /\ SlotsOf(Current) \in Int
        /\ Current.bytes \in Int /\ Current.slots \in Int
    BY CurrentHolds DEF Levels, BytesOf, SlotsOf
  <1>4. /\ budget'.bytes = l.bytes + BytesOf(l)
        /\ budget'.slots = l.slots + SlotsOf(l)
        /\ budget'.depth = l.depth + DepthOf(l)
        /\ account' = budget'.bytes + retained
    BY <1>1, <1>2, <1>3, CurrentHolds
  <1> QED BY <1>1, <1>4, LocalStep

(* What the current scope holds is reserved.                                    *)
LEMMA HeldIsReserved ==
  ASSUME IInv, top > 0, ~published
  PROVE  /\ Releasable(ArrayBytes(Current.array), Current.array)
         /\ Releasable(ArrayBytes(Current.grown), Current.grown)
         /\ Releasable(Current.temporary + Current.payload, 0)
         /\ Releasable(Current.temporary, 0)
         /\ CanRollback
         /\ Current.session # "none" => budget.depth # 0
  <1>1. /\ Current.slots \in Nat /\ Current.bytes \in Nat /\ Current.depth \in Nat
        /\ Current.array \in Nat /\ Current.grown \in Nat /\ Current.kept \in Nat
        /\ Current.temporary \in Nat /\ Current.payload \in Nat
        /\ Current.keptSlots \in Nat
    BY CurrentHolds DEF Levels
  <1>2. ArrayBytes(Current.array) \in Nat /\ ArrayBytes(Current.grown) \in Nat
    BY CurrentHolds
  <1>3. /\ budget.bytes = Current.bytes + BytesOf(Current)
        /\ budget.slots = Current.slots + SlotsOf(Current)
        /\ budget.depth = Current.depth + DepthOf(Current)
    BY CurrentHolds
  <1>4. budget.bytes = Current.bytes + (ArrayBytes(Current.array) + ArrayBytes(Current.grown)
          + Current.temporary + Current.payload + Current.kept)
    BY <1>3 DEF BytesOf
  <1>5. budget.slots = Current.slots + (Current.array + Current.grown + Current.keptSlots)
    BY <1>3 DEF SlotsOf
  <1>6. budget.depth = Current.depth + (IF Current.session = "none" THEN 0 ELSE 1)
    BY <1>3 DEF DepthOf
  <1> QED BY <1>1, <1>2, <1>4, <1>5, <1>6 DEF Releasable, CanRollback

--------------------------------------------------------------------------------
(* The operations of the code inside the current scope.                         *)
LEMMA AllocateObjectStep ==
  ASSUME IInv, top > 0, ~published, AllocateObject
  PROVE  IInv'
  <1> DEFINE l == [Current EXCEPT !.kept = @ + Object]
  <1>1. /\ Current \in Levels /\ Object \in Nat
        /\ ArrayBytes(Current.array) \in Nat /\ ArrayBytes(Current.grown) \in Nat
        /\ Current.session = "none" => Current.temporary = 0 /\ Current.payload = 0
    BY CurrentHolds, BoundsAssumption
  <1>2. /\ l \in Levels
        /\ l.slots = Current.slots /\ l.bytes = Current.bytes /\ l.depth = Current.depth
        /\ l.session = Current.session
        /\ l.temporary = Current.temporary /\ l.payload = Current.payload
        /\ l.array = Current.array /\ l.grown = Current.grown
        /\ l.kept = Current.kept + Object /\ l.keptSlots = Current.keptSlots
    BY <1>1 DEF Levels
  <1>3. /\ budget' = Admitted(Object, 0) /\ Become(l, budget.bytes + Object)
        /\ account' = account + Object /\ UNCHANGED <<top, mode, published, retained>>
        /\ mode = "run"
    BY DEF AllocateObject, Running
  <1> HIDE DEF l
  <1>4. /\ BytesOf(l) = BytesOf(Current) + Object
        /\ SlotsOf(l) = SlotsOf(Current) + 0 /\ DepthOf(l) = DepthOf(Current)
    BY <1>1, <1>2 DEF Levels, BytesOf, SlotsOf, DepthOf
  <1> QED BY <1>1, <1>2, <1>3, <1>4, AdmitStep

LEMMA FactoryThrowsStep ==
  ASSUME IInv, top > 0, ~published, FactoryThrows
  PROVE  IInv'
  <1>1. /\ Current \in Levels /\ Object \in Nat /\ budget \in Budgets
        /\ Current.session = "none" => Current.temporary = 0 /\ Current.payload = 0
        /\ budget.bytes \in Nat /\ budget.slots \in Nat
        /\ Current.grown = 0
    BY CurrentHolds, BoundsAssumption, BudgetFields DEF IInv, TypeOK, FactoryThrows, Running
  <1> DEFINE b == [Admitted(Object, 0) EXCEPT !.bytes = budget.bytes]
  <1>2. /\ b \in Budgets /\ b.bytes = budget.bytes /\ b.slots = budget.slots
        /\ b.depth = budget.depth
    <2>1. /\ Admitted(Object, 0) \in Budgets
          /\ Admitted(Object, 0).slots = budget.slots + 0
          /\ Admitted(Object, 0).depth = budget.depth
      BY <1>1, AdmittedType
    <2> QED BY <1>1, <2>1 DEF Budgets
  <1>3. /\ budget' = b /\ Become(Current, budget.bytes + Object) /\ mode' = "throw"
        /\ UNCHANGED <<top, published, retained, account>>
    BY DEF FactoryThrows
  <1> HIDE DEF b
  <1>4. budget.bytes + Object \in Nat
    BY <1>1
  <1> QED BY <1>1, <1>2, <1>3, <1>4, CurrentHolds, LocalStep

LEMMA CreateSessionStep ==
  ASSUME IInv, top > 0, ~published, CreateSession
  PROVE  IInv'
  <1> DEFINE l == [Current EXCEPT !.session = "open", !.kept = @ + Object]
             b == [Admitted(Object, 0) EXCEPT !.depth = @ + 1]
  <1>1. /\ Current \in Levels /\ Object \in Nat /\ budget \in Budgets
        /\ ArrayBytes(Current.array) \in Nat /\ ArrayBytes(Current.grown) \in Nat
        /\ Current.session = "none" /\ Current.grown = 0
        /\ budget.bytes \in Nat /\ budget.slots \in Nat /\ budget.depth \in Nat
        /\ retained \in Nat
    BY CurrentHolds, BoundsAssumption, BudgetFields
       DEF IInv, TypeOK, CreateSession, Running
  <1>2. /\ l \in Levels
        /\ l.slots = Current.slots /\ l.bytes = Current.bytes
        /\ l.depth = Current.depth /\ l.session = "open"
        /\ l.temporary = Current.temporary /\ l.payload = Current.payload
        /\ l.array = Current.array /\ l.grown = Current.grown
        /\ l.kept = Current.kept + Object /\ l.keptSlots = Current.keptSlots
    <2>1. Current.kept + Object \in Nat
      BY <1>1 DEF Levels
    <2> QED BY <1>1, <2>1 DEF Levels
  <1>3. /\ b \in Budgets /\ b.bytes = budget.bytes + Object /\ b.slots = budget.slots
        /\ b.depth = budget.depth + 1
    <2>1. /\ Admitted(Object, 0) \in Budgets
          /\ Admitted(Object, 0).bytes = budget.bytes + Object
          /\ Admitted(Object, 0).slots = budget.slots + 0
          /\ Admitted(Object, 0).depth = budget.depth
      BY <1>1, AdmittedType
    <2> QED BY <1>1, <2>1 DEF Budgets
  <1>4. /\ budget' = b /\ Become(l, budget.bytes + Object) /\ mode' = "run"
        /\ account' = account + Object /\ UNCHANGED <<top, published, retained>>
    BY DEF CreateSession, Running
  <1> HIDE DEF l, b
  <1>5. /\ BytesOf(l) = BytesOf(Current) + Object /\ SlotsOf(l) = SlotsOf(Current)
        /\ DepthOf(l) = 1 /\ DepthOf(Current) = 0
        /\ BytesOf(Current) \in Nat /\ SlotsOf(Current) \in Nat
        /\ Current.bytes \in Nat /\ Current.slots \in Nat /\ Current.depth \in Nat
    BY <1>1, <1>2 DEF Levels, BytesOf, SlotsOf, DepthOf
  <1>6. /\ b.bytes = l.bytes + BytesOf(l) /\ b.slots = l.slots + SlotsOf(l)
        /\ b.depth = l.depth + DepthOf(l) /\ account + Object = b.bytes + retained
    BY <1>1, <1>2, <1>3, <1>5, CurrentHolds
  <1>7. budget.bytes + Object \in Nat
    BY <1>1
  <1> QED BY <1>1, <1>2, <1>3, <1>4, <1>6, <1>7, LocalStep

LEMMA ArenaAllocateStep ==
  ASSUME IInv, top > 0, ~published, NEW n \in Nat, NEW p \in BOOLEAN, ArenaAllocate(n, p)
  PROVE  IInv'
  <1> DEFINE l == [Current EXCEPT
                    !.payload = IF p THEN @ + ArrayBytes(n) ELSE @,
                    !.temporary = IF p THEN @ ELSE @ + ArrayBytes(n)]
  <1>1. /\ Current \in Levels /\ ArrayBytes(n) \in Nat
        /\ ArrayBytes(Current.array) \in Nat /\ ArrayBytes(Current.grown) \in Nat
        /\ Current.session = "none" => Current.temporary = 0 /\ Current.payload = 0
    BY CurrentHolds, ArrayBytesType, BoundsAssumption
  <1>2. /\ l \in Levels
        /\ l.slots = Current.slots /\ l.bytes = Current.bytes
        /\ l.depth = Current.depth /\ l.session = Current.session
        /\ l.temporary = (IF p THEN Current.temporary ELSE Current.temporary + ArrayBytes(n))
        /\ l.payload = (IF p THEN Current.payload + ArrayBytes(n) ELSE Current.payload)
        /\ l.array = Current.array /\ l.grown = Current.grown
        /\ l.kept = Current.kept /\ l.keptSlots = Current.keptSlots
    <2>1. Current.kept + ArrayBytes(n) \in Nat /\ Current.temporary + ArrayBytes(n) \in Nat
          /\ Current.payload + ArrayBytes(n) \in Nat
      BY <1>1 DEF Levels
    <2>2. /\ (IF p THEN Current.payload + ArrayBytes(n) ELSE Current.payload) \in Nat
          /\ (IF p THEN Current.temporary ELSE Current.temporary + ArrayBytes(n)) \in Nat
      BY <1>1, <2>1 DEF Levels
    <2> QED BY <1>1, <2>1, <2>2 DEF Levels
  <1>3. /\ budget' = Admitted(ArrayBytes(n), 0) /\ Become(l, budget.bytes + ArrayBytes(n))
        /\ account' = account + ArrayBytes(n) /\ UNCHANGED <<top, mode, published, retained>>
        /\ mode = "run" /\ Current.session = "open"
    BY DEF ArenaAllocate, Running
  <1> HIDE DEF l
  <1>4. /\ BytesOf(l) = BytesOf(Current) + ArrayBytes(n)
        /\ SlotsOf(l) = SlotsOf(Current) + 0 /\ DepthOf(l) = DepthOf(Current)
    BY <1>1, <1>2, <1>3, ArrayBytesType DEF Levels, BytesOf, SlotsOf, DepthOf
  <1>5. l.session = "none" => l.temporary = 0 /\ l.payload = 0
    BY <1>1, <1>2, <1>3
  <1> QED BY <1>1, <1>2, <1>3, <1>4, <1>5, AdmitStep

LEMMA AdmitExtentStep ==
  ASSUME IInv, top > 0, ~published, NEW n \in Nat, NEW taking \in BOOLEAN,
         mode = "run", Current.grown = 0, AdmitExtent(n, taking)
  PROVE  IInv'
  <1> DEFINE l == [Current EXCEPT !.grown = n, !.taking = taking]
  <1>1. /\ Current \in Levels /\ ArrayBytes(n) \in Nat
        /\ ArrayBytes(Current.array) \in Nat /\ ArrayBytes(Current.grown) \in Nat
        /\ Current.session = "none" => Current.temporary = 0 /\ Current.payload = 0
    BY CurrentHolds, ArrayBytesType, BoundsAssumption
  <1>2. /\ l \in Levels
        /\ l.slots = Current.slots /\ l.bytes = Current.bytes
        /\ l.depth = Current.depth /\ l.session = Current.session
        /\ l.temporary = Current.temporary /\ l.payload = Current.payload
        /\ l.array = Current.array /\ l.grown = n /\ l.kept = Current.kept
        /\ l.keptSlots = Current.keptSlots
    <2>1. Current.kept + ArrayBytes(n) \in Nat /\ Current.temporary + ArrayBytes(n) \in Nat
          /\ Current.payload + ArrayBytes(n) \in Nat
      BY <1>1 DEF Levels
    <2>2. TRUE
      BY <1>1, <2>1 DEF Levels
    <2> QED BY <1>1, <2>1, <2>2 DEF Levels
  <1>3. /\ budget' = Admitted(ArrayBytes(n), n) /\ Become(l, budget.bytes + ArrayBytes(n))
        /\ account' = account + ArrayBytes(n) /\ UNCHANGED <<top, mode, published, retained>>
        /\ mode = "run" /\ Current.grown = 0
    BY DEF AdmitExtent
  <1> HIDE DEF l
  <1>4. /\ BytesOf(l) = BytesOf(Current) + ArrayBytes(n)
        /\ SlotsOf(l) = SlotsOf(Current) + n /\ DepthOf(l) = DepthOf(Current)
    BY <1>1, <1>2, <1>3, ArrayBytesType DEF Levels, BytesOf, SlotsOf, DepthOf
  <1>5. l.session = "none" => l.temporary = 0 /\ l.payload = 0
    BY <1>1, <1>2, <1>3
  <1> QED BY <1>1, <1>2, <1>3, <1>4, <1>5, AdmitStep

LEMMA HostRefusesStep ==
  ASSUME IInv, top > 0, ~published, NEW n \in Nat, Current.grown = 0, HostRefuses(n)
  PROVE  IInv'
  <1> DEFINE l == [Current EXCEPT !.keptSlots = @ + n]
             b == [budget EXCEPT !.slots = @ + n, !.work = @ + 1]
  <1>1. /\ Current \in Levels /\ budget \in Budgets
        /\ ArrayBytes(Current.array) \in Nat /\ ArrayBytes(Current.grown) \in Nat
        /\ budget.bytes \in Nat /\ budget.slots \in Nat /\ budget.work \in Nat
        /\ Current.session = "none" => Current.temporary = 0 /\ Current.payload = 0
    BY CurrentHolds, BudgetFields DEF IInv, TypeOK
  <1>2. /\ l \in Levels
        /\ l.slots = Current.slots /\ l.bytes = Current.bytes
        /\ l.depth = Current.depth /\ l.session = Current.session
        /\ l.temporary = Current.temporary /\ l.payload = Current.payload
        /\ l.array = Current.array /\ l.grown = Current.grown
        /\ l.kept = Current.kept /\ l.keptSlots = Current.keptSlots + n
    <2>1. Current.keptSlots + n \in Nat
      BY <1>1 DEF Levels
    <2> QED BY <1>1, <2>1 DEF Levels
  <1>3. /\ b \in Budgets /\ b.bytes = budget.bytes /\ b.slots = budget.slots + n
        /\ b.depth = budget.depth
    <2>1. budget.slots + n \in Nat /\ budget.work + 1 \in Nat
      BY <1>1
    <2> QED BY <1>1, <2>1 DEF Budgets
  <1>4. /\ budget' = b /\ Become(l, budget.bytes) /\ mode' = "throw"
        /\ UNCHANGED <<top, published, retained, account>>
    BY DEF HostRefuses
  <1> HIDE DEF l, b
  <1>5. /\ BytesOf(l) = BytesOf(Current) /\ SlotsOf(l) = SlotsOf(Current) + n
        /\ DepthOf(l) = DepthOf(Current) /\ SlotsOf(Current) \in Nat
        /\ Current.slots \in Nat
    BY <1>1, <1>2 DEF Levels, BytesOf, SlotsOf, DepthOf
  <1>6. /\ b.bytes = l.bytes + BytesOf(l) /\ b.slots = l.slots + SlotsOf(l)
        /\ b.depth = l.depth + DepthOf(l)
    BY <1>1, <1>2, <1>3, <1>5, CurrentHolds
  <1> QED BY <1>1, <1>2, <1>3, <1>4, <1>6, CurrentHolds, LocalStep

LEMMA CopyThrowsStep ==
  ASSUME IInv, top > 0, ~published, CopyThrows
  PROVE  IInv'
  <1> DEFINE l == [Current EXCEPT !.grown = 0, !.taking = FALSE]
             m == ArrayBytes(Current.grown)
  <1>1. /\ Current \in Levels /\ budget \in Budgets
        /\ Current.array \in Nat /\ Current.grown \in Nat
        /\ ArrayBytes(Current.array) \in Nat /\ ArrayBytes(Current.grown) \in Nat
        /\ Current.session = "none" => Current.temporary = 0 /\ Current.payload = 0
    BY CurrentHolds DEF IInv, TypeOK, Levels
  <1>2. /\ l \in Levels
        /\ l.slots = Current.slots /\ l.bytes = Current.bytes
        /\ l.depth = Current.depth /\ l.session = Current.session
        /\ l.temporary = Current.temporary /\ l.payload = Current.payload
        /\ l.array = Current.array /\ l.grown = 0 /\ l.kept = Current.kept
        /\ l.keptSlots = Current.keptSlots
    BY <1>1 DEF Levels
  <1>3. Releasable(m, Current.grown)
    BY HeldIsReserved
  <1>4. /\ budget' = Released(m, Current.grown) /\ Become(l, budget.bytes)
        /\ account' = account - m /\ UNCHANGED <<top, published, retained>>
        /\ mode' = "throw" /\ l.grown = 0
    BY <1>3 DEF CopyThrows, Levels
  <1>5. m \in Nat
    BY <1>1
  <1> HIDE DEF l
  <1>6. /\ BytesOf(l) + m = BytesOf(Current)
        /\ SlotsOf(l) + Current.grown = SlotsOf(Current) /\ DepthOf(l) = DepthOf(Current)
    BY <1>1, <1>2, <1>4, ArrayBytesType DEF Levels, BytesOf, SlotsOf, DepthOf
  <1> HIDE DEF m
  <1>7. /\ Released(m, Current.grown) \in Budgets
        /\ Released(m, Current.grown).bytes = budget.bytes - m
        /\ Released(m, Current.grown).slots = budget.slots - Current.grown
        /\ Released(m, Current.grown).depth = budget.depth
    BY <1>1, <1>3, <1>5, ReleasedType DEF Releasable
  <1>8. budget.depth = l.depth + DepthOf(l)
    BY <1>2, <1>6, CurrentHolds
  <1>9. l.session = "none" => l.temporary = 0 /\ l.payload = 0
    BY <1>1, <1>2
  <1> QED BY <1>1, <1>2, <1>4, <1>5, <1>6, <1>7, <1>8, <1>9, CurrentHolds, ReleaseStep

LEMMA DisposeBufferStep ==
  ASSUME IInv, top > 0, ~published, DisposeBuffer
  PROVE  IInv'
  <1> DEFINE l == [Current EXCEPT !.array = 0]
             m == ArrayBytes(Current.array)
  <1>1. /\ Current \in Levels /\ budget \in Budgets
        /\ Current.array \in Nat /\ Current.grown \in Nat
        /\ ArrayBytes(Current.array) \in Nat /\ ArrayBytes(Current.grown) \in Nat
        /\ Current.session = "none" => Current.temporary = 0 /\ Current.payload = 0
    BY CurrentHolds DEF IInv, TypeOK, Levels
  <1>2. /\ l \in Levels
        /\ l.slots = Current.slots /\ l.bytes = Current.bytes
        /\ l.depth = Current.depth /\ l.session = Current.session
        /\ l.temporary = Current.temporary /\ l.payload = Current.payload
        /\ l.array = 0 /\ l.grown = Current.grown /\ l.kept = Current.kept
        /\ l.keptSlots = Current.keptSlots
    BY <1>1 DEF Levels
  <1>3. Releasable(m, Current.array)
    BY HeldIsReserved
  <1>4. /\ budget' = Released(m, Current.array) /\ Become(l, budget.bytes)
        /\ account' = account - m /\ UNCHANGED <<top, published, retained>>
        /\ mode' = mode /\ mode \in {"leave", "throw"}
    BY <1>3 DEF DisposeBuffer, Leaving
  <1>5. m \in Nat
    BY <1>1
  <1> HIDE DEF l
  <1>6. /\ BytesOf(l) + m = BytesOf(Current)
        /\ SlotsOf(l) + Current.array = SlotsOf(Current) /\ DepthOf(l) = DepthOf(Current)
    BY <1>1, <1>2, <1>4, ArrayBytesType DEF Levels, BytesOf, SlotsOf, DepthOf
  <1> HIDE DEF m
  <1>7. /\ Released(m, Current.array) \in Budgets
        /\ Released(m, Current.array).bytes = budget.bytes - m
        /\ Released(m, Current.array).slots = budget.slots - Current.array
        /\ Released(m, Current.array).depth = budget.depth
    BY <1>1, <1>3, <1>5, ReleasedType DEF Releasable
  <1>8. budget.depth = l.depth + DepthOf(l)
    BY <1>2, <1>6, CurrentHolds
  <1>9. l.session = "none" => l.temporary = 0 /\ l.payload = 0
    BY <1>1, <1>2
  <1> QED BY <1>1, <1>2, <1>4, <1>5, <1>6, <1>7, <1>8, <1>9, CurrentHolds, ReleaseStep

LEMMA TakeWholeStep ==
  ASSUME IInv, top > 0, ~published, TakeWhole
  PROVE  IInv'
  <1> DEFINE l == [Current EXCEPT !.array = 0, !.kept = @ + ArrayBytes(Current.array),
                              !.keptSlots = @ + Current.array]
  <1>1. /\ Current \in Levels /\ budget \in Budgets
        /\ Current.array \in Nat /\ Current.grown = 0
        /\ ArrayBytes(Current.array) \in Nat /\ ArrayBytes(0) = 0
        /\ Current.kept + ArrayBytes(Current.array) \in Nat
        /\ Current.keptSlots + Current.array \in Nat
        /\ Current.session = "none" => Current.temporary = 0 /\ Current.payload = 0
    BY CurrentHolds, ArrayBytesType DEF IInv, TypeOK, Levels, TakeWhole, Running
  <1>2. /\ l \in Levels
        /\ l.slots = Current.slots /\ l.bytes = Current.bytes
        /\ l.depth = Current.depth /\ l.session = Current.session
        /\ l.temporary = Current.temporary /\ l.payload = Current.payload
        /\ l.array = 0 /\ l.grown = Current.grown
        /\ l.kept = Current.kept + ArrayBytes(Current.array)
        /\ l.keptSlots = Current.keptSlots + Current.array
    BY <1>1 DEF Levels
  <1>3. /\ Become(l, budget.bytes) /\ mode' = "run"
        /\ UNCHANGED <<budget, top, published, retained, account>>
    BY DEF TakeWhole, Running
  <1> HIDE DEF l
  <1>4. /\ BytesOf(l) = BytesOf(Current) /\ SlotsOf(l) = SlotsOf(Current)
        /\ DepthOf(l) = DepthOf(Current)
        /\ l.session = "none" => l.temporary = 0 /\ l.payload = 0
    BY <1>1, <1>2, <1>3 DEF Levels, BytesOf, SlotsOf, DepthOf
  <1>5. /\ budget' \in Budgets /\ budget'.bytes = l.bytes + BytesOf(l)
        /\ budget'.slots = l.slots + SlotsOf(l) /\ budget'.depth = l.depth + DepthOf(l)
        /\ account' = budget'.bytes + retained /\ budget.bytes \in Nat
    BY <1>1, <1>2, <1>3, <1>4, CurrentHolds, BudgetFields
  <1> QED BY <1>1, <1>2, <1>3, <1>4, <1>5, LocalStep

LEMMA CompleteStep ==
  ASSUME IInv, top > 0, ~published, Complete
  PROVE  IInv'
  <1> DEFINE l == [Current EXCEPT !.completed = TRUE]
  <1>1. /\ Current \in Levels /\ budget \in Budgets
        /\ Current.array \in Nat /\ Current.grown = 0
        /\ ArrayBytes(Current.array) \in Nat /\ ArrayBytes(0) = 0
        /\ Current.kept + ArrayBytes(Current.array) \in Nat
        /\ Current.keptSlots + Current.array \in Nat
        /\ Current.session = "none" => Current.temporary = 0 /\ Current.payload = 0
    BY CurrentHolds, ArrayBytesType DEF IInv, TypeOK, Levels, Complete, Running
  <1>2. /\ l \in Levels
        /\ l.slots = Current.slots /\ l.bytes = Current.bytes
        /\ l.depth = Current.depth /\ l.session = Current.session
        /\ l.temporary = Current.temporary /\ l.payload = Current.payload
        /\ l.array = Current.array /\ l.grown = Current.grown
        /\ l.kept = Current.kept /\ l.keptSlots = Current.keptSlots
    BY <1>1 DEF Levels
  <1>3. /\ Become(l, budget.bytes) /\ mode' = "run"
        /\ UNCHANGED <<budget, top, published, retained, account>>
    BY DEF Complete, Running
  <1> HIDE DEF l
  <1>4. /\ BytesOf(l) = BytesOf(Current) /\ SlotsOf(l) = SlotsOf(Current)
        /\ DepthOf(l) = DepthOf(Current)
        /\ l.session = "none" => l.temporary = 0 /\ l.payload = 0
    BY <1>1, <1>2, <1>3 DEF Levels, BytesOf, SlotsOf, DepthOf
  <1>5. /\ budget' \in Budgets /\ budget'.bytes = l.bytes + BytesOf(l)
        /\ budget'.slots = l.slots + SlotsOf(l) /\ budget'.depth = l.depth + DepthOf(l)
        /\ account' = budget'.bytes + retained /\ budget.bytes \in Nat
    BY <1>1, <1>2, <1>3, <1>4, CurrentHolds, BudgetFields
  <1> QED BY <1>1, <1>2, <1>3, <1>4, <1>5, LocalStep

LEMMA CompleteSessionStep ==
  ASSUME IInv, top > 0, ~published, CompleteSession
  PROVE  IInv'
  <1> DEFINE l == [Current EXCEPT !.session = "completed"]
  <1>1. /\ Current \in Levels /\ budget \in Budgets
        /\ Current.array \in Nat /\ Current.grown = 0
        /\ ArrayBytes(Current.array) \in Nat /\ ArrayBytes(0) = 0
        /\ Current.kept + ArrayBytes(Current.array) \in Nat
        /\ Current.keptSlots + Current.array \in Nat
        /\ Current.session = "none" => Current.temporary = 0 /\ Current.payload = 0
    BY CurrentHolds, ArrayBytesType DEF IInv, TypeOK, Levels, CompleteSession, Running
  <1>2. /\ l \in Levels
        /\ l.slots = Current.slots /\ l.bytes = Current.bytes
        /\ l.depth = Current.depth /\ l.session = "completed"
        /\ l.temporary = Current.temporary /\ l.payload = Current.payload
        /\ l.array = Current.array /\ l.grown = Current.grown
        /\ l.kept = Current.kept /\ l.keptSlots = Current.keptSlots
    BY <1>1 DEF Levels
  <1>3. /\ Become(l, budget.bytes) /\ mode' = "run"
        /\ UNCHANGED <<budget, top, published, retained, account>> /\ Current.session = "open"
    BY DEF CompleteSession, Running
  <1> HIDE DEF l
  <1>4. /\ BytesOf(l) = BytesOf(Current) /\ SlotsOf(l) = SlotsOf(Current)
        /\ DepthOf(l) = DepthOf(Current)
        /\ l.session = "none" => l.temporary = 0 /\ l.payload = 0
    BY <1>1, <1>2, <1>3 DEF Levels, BytesOf, SlotsOf, DepthOf
  <1>5. /\ budget' \in Budgets /\ budget'.bytes = l.bytes + BytesOf(l)
        /\ budget'.slots = l.slots + SlotsOf(l) /\ budget'.depth = l.depth + DepthOf(l)
        /\ account' = budget'.bytes + retained /\ budget.bytes \in Nat
    BY <1>1, <1>2, <1>3, <1>4, CurrentHolds, BudgetFields
  <1> QED BY <1>1, <1>2, <1>3, <1>4, <1>5, LocalStep

LEMMA CopyDoneStep ==
  ASSUME IInv, top > 0, ~published, CopyDone
  PROVE  IInv'
  <1> DEFINE n == Current.grown
             m == ArrayBytes(Current.array)
             l == IF Current.taking
                  THEN [Current EXCEPT !.grown = 0, !.taking = FALSE, !.array = 0,
                                       !.kept = @ + ArrayBytes(n), !.keptSlots = @ + n]
                  ELSE [Current EXCEPT !.grown = 0, !.taking = FALSE, !.array = n]
  <1>1. /\ Current \in Levels /\ budget \in Budgets
        /\ Current.array \in Nat /\ n \in Nat
        /\ m \in Nat /\ ArrayBytes(n) \in Nat /\ ArrayBytes(0) = 0
        /\ Current.kept + ArrayBytes(n) \in Nat /\ Current.keptSlots + n \in Nat
        /\ Current.session = "none" => Current.temporary = 0 /\ Current.payload = 0
    BY CurrentHolds, ArrayBytesType DEF IInv, TypeOK, Levels
  <1>2. /\ l \in Levels
        /\ l.slots = Current.slots /\ l.bytes = Current.bytes
        /\ l.depth = Current.depth /\ l.session = Current.session
        /\ l.temporary = Current.temporary /\ l.payload = Current.payload
        /\ l.grown = 0
        /\ \/ l.array = 0 /\ l.kept = Current.kept + ArrayBytes(n)
              /\ l.keptSlots = Current.keptSlots + n
           \/ l.array = n /\ l.kept = Current.kept /\ l.keptSlots = Current.keptSlots
    <2>1. CASE Current.taking
      BY <1>1, <2>1 DEF Levels
    <2>2. CASE ~Current.taking
      BY <1>1, <2>2 DEF Levels
    <2> QED BY <2>1, <2>2
  <1>3. Releasable(m, Current.array)
    BY HeldIsReserved
  <1>4. /\ budget' = Released(m, Current.array) /\ Become(l, budget.bytes)
        /\ account' = account - m /\ UNCHANGED <<top, published, retained, mode>>
        /\ mode = "run"
    <2>1. CASE Current.taking
      <3>1. [[Current EXCEPT !.grown = 0, !.taking = FALSE, !.array = 0]
               EXCEPT !.kept = @ + ArrayBytes(n), !.keptSlots = @ + n] = l
        BY <1>1, <2>1 DEF Levels
      <3> QED BY <1>3, <2>1, <3>1 DEF CopyDone
    <2>2. CASE ~Current.taking
      BY <1>3, <2>2 DEF CopyDone
    <2> QED BY <2>1, <2>2
  <1> HIDE DEF l
  <1>5. /\ BytesOf(l) + m = BytesOf(Current)
        /\ SlotsOf(l) + Current.array = SlotsOf(Current) /\ DepthOf(l) = DepthOf(Current)
    BY <1>1, <1>2 DEF Levels, BytesOf, SlotsOf, DepthOf
  <1>6. /\ Released(m, Current.array) \in Budgets
        /\ Released(m, Current.array).bytes = budget.bytes - m
        /\ Released(m, Current.array).slots = budget.slots - Current.array
        /\ Released(m, Current.array).depth = budget.depth
    BY <1>1, <1>3, ReleasedType DEF Releasable
  <1>7. budget.depth = l.depth + DepthOf(l)
    BY <1>2, <1>5, CurrentHolds
  <1>8. l.session = "none" => l.temporary = 0 /\ l.payload = 0
    BY <1>1, <1>2
  <1> HIDE DEF m
  <1> QED BY <1>1, <1>2, <1>4, <1>5, <1>6, <1>7, <1>8, ReleaseStep

LEMMA DisposeSessionStep ==
  ASSUME IInv, top > 0, ~published, DisposeSession
  PROVE  IInv'
  <1> DEFINE m == ArenaRelease
             k == IF Current.session = "completed" THEN Current.kept + Current.payload
                  ELSE Current.kept
             l == [Current EXCEPT !.session = "none", !.temporary = 0, !.payload = 0,
                                  !.kept = k]
             b == [Released(m, 0) EXCEPT !.depth = @ - 1]
  <1>1. /\ Current \in Levels /\ budget \in Budgets /\ budget.depth \in Nat
        /\ Current.array = 0 /\ Current.session # "none"
        /\ Current.grown \in Nat /\ ArrayBytes(Current.grown) \in Nat
        /\ Current.temporary \in Nat /\ Current.payload \in Nat /\ Current.kept \in Nat
        /\ ArrayBytes(0) = 0
    BY CurrentHolds, ArrayBytesType, BudgetFields
       DEF IInv, TypeOK, Levels, DisposeSession
  <1>2. /\ m \in Nat /\ k \in Nat
        /\ k + m = Current.kept + Current.temporary + Current.payload
    BY <1>1 DEF ArenaRelease
  <1>3. Releasable(m, 0) /\ budget.depth # 0
    BY <1>1, HeldIsReserved DEF ArenaRelease
  <1>4. /\ l \in Levels
        /\ l.slots = Current.slots /\ l.bytes = Current.bytes
        /\ l.depth = Current.depth /\ l.session = "none"
        /\ l.temporary = 0 /\ l.payload = 0
        /\ l.array = Current.array /\ l.grown = Current.grown
        /\ l.kept = k /\ l.keptSlots = Current.keptSlots
    <2> HIDE DEF k
    <2> QED BY <1>1, <1>2 DEF Levels
  <1>5. /\ b \in Budgets /\ b.bytes = budget.bytes - m /\ b.slots = budget.slots - 0
        /\ b.depth = budget.depth - 1
    <2>1. /\ Released(m, 0) \in Budgets
          /\ Released(m, 0).bytes = budget.bytes - m
          /\ Released(m, 0).slots = budget.slots - 0
          /\ Released(m, 0).depth = budget.depth
      <3> HIDE DEF m
      <3> QED BY <1>1, <1>2, <1>3, ReleasedType DEF Releasable
    <2>2. budget.depth - 1 \in Nat
      BY <1>1, <1>3
    <2> HIDE DEF m
    <2> QED BY <2>1, <2>2 DEF Budgets
  <1>6. /\ budget' = b /\ Become(l, budget.bytes) /\ account' = account - m
        /\ UNCHANGED <<top, mode, published, retained>>
        /\ mode \in {"leave", "throw"}
    BY <1>3 DEF DisposeSession, Leaving
  <1> HIDE DEF l, b, m, k
  <1>7. /\ BytesOf(l) + m = BytesOf(Current)
        /\ SlotsOf(l) + 0 = SlotsOf(Current)
    BY <1>1, <1>2, <1>4 DEF Levels, BytesOf, SlotsOf
  <1>8. DepthOf(l) = 0 /\ DepthOf(Current) = 1
    BY <1>1, <1>4 DEF DepthOf
  <1>9. b.depth = l.depth + DepthOf(l) /\ (l.grown # 0 => mode' = "run")
    BY <1>1, <1>4, <1>5, <1>6, <1>8, CurrentHolds DEF Levels
  <1> QED BY <1>2, <1>4, <1>5, <1>6, <1>7, <1>9, ReleaseStep

--------------------------------------------------------------------------------
(* Opening a scope: its checkpoints are what the scopes around it hold.         *)
LEMMA OpenStep ==
  ASSUME IInv, mode \in {"idle", "run"}, top < MaxScopes, published' = FALSE,
         top > 0 => ~published /\ Current.grown = 0,
         NEW b \in Budgets, NEW r \in BOOLEAN, NEW a \in Nat, NEW c \in Budgets,
         b.bytes = budget.bytes, c.bytes = b.bytes, c.slots = b.slots, c.depth = b.depth,
         top > 0 => b = budget,
         top = 0 => b.slots = 0 /\ b.bytes = 0 /\ b.depth = 0,
         top' = top + 1, level' = [level EXCEPT ![top + 1] = Open(b, r, a)],
         budget' = c, mode' = "run", UNCHANGED <<retained, account>>
  PROVE  IInv'
  <1> USE DEF IInv
  <1> DEFINE o == Open(b, r, a)
  <1>1. /\ top + 1 \in Depths /\ top \in Nat /\ MaxScopes \in Nat
        /\ level \in [Depths -> Levels] /\ retained \in Nat
    BY BoundsAssumption DEF TypeOK, Depths
  <1>2. /\ o \in Levels /\ o.slots = b.slots /\ o.bytes = b.bytes /\ o.depth = b.depth
        /\ o.session = "none" /\ o.temporary = 0 /\ o.payload = 0
        /\ o.array = 0 /\ o.grown = 0 /\ o.kept = 0 /\ o.keptSlots = 0
    <2>1. /\ b.slots \in Nat /\ b.bytes \in Nat /\ b.depth \in Nat
          /\ b.maxBytes \in Nat /\ b.peak \in Nat
      BY DEF Budgets
    <2> QED BY <2>1 DEF Open, Levels
  <1>3. BytesOf(o) = 0 /\ SlotsOf(o) = 0 /\ DepthOf(o) = 0
    BY <1>2, ArrayBytesType DEF BytesOf, SlotsOf, DepthOf
  <1> HIDE DEF o
  <1>4. /\ level' \in [Depths -> Levels] /\ level'[top + 1] = o
        /\ \A i \in Depths : i # top + 1 => level'[i] = level[i]
    BY <1>1, <1>2 DEF o
  <1>5. TypeOK' /\ NoInternalError'
    <2>1. top' \in 0..MaxScopes /\ top' # 0
      BY <1>1 DEF TypeOK
    <2>2. budget' \in Budgets /\ retained' \in Nat /\ account' \in Nat
          /\ published' \in BOOLEAN /\ mode' = "run"
      BY DEF TypeOK
    <2> QED BY <1>4, <2>1, <2>2 DEF TypeOK, NoInternalError
  <1>6. Accounted'
    <2>1. account' = budget'.bytes + retained'
      BY DEF Accounted
    <2>2. ASSUME NEW i \in Scopes'
          PROVE  LET d == IF i = top' THEN budget' ELSE level'[i + 1]
                 IN  /\ d.bytes = level'[i].bytes + BytesOf(level'[i])
                     /\ d.slots = level'[i].slots + SlotsOf(level'[i])
                     /\ d.depth = level'[i].depth + DepthOf(level'[i])
      <3>0. i \in Depths /\ i \in 1..(top + 1)
        BY <1>1 DEF Scopes, Depths
      <3>1. CASE i = top + 1
        <4>1. b.bytes \in Nat /\ b.slots \in Nat /\ b.depth \in Nat
          BY DEF Budgets
        <4> QED BY <4>1, <1>2, <1>3, <1>4, <3>1
      <3>2. CASE i = top
        <4>1. /\ budget.bytes = level[i].bytes + BytesOf(level[i])
              /\ budget.slots = level[i].slots + SlotsOf(level[i])
              /\ budget.depth = level[i].depth + DepthOf(level[i])
          BY <1>1, <3>0, <3>2 DEF Accounted, Scopes
        <4>2. b = budget
          BY <3>0, <3>2
        <4> QED BY <4>1, <4>2, <1>1, <1>2, <1>4, <3>0, <3>2
      <3>3. CASE i < top
        <4>1. /\ level[i + 1].bytes = level[i].bytes + BytesOf(level[i])
              /\ level[i + 1].slots = level[i].slots + SlotsOf(level[i])
              /\ level[i + 1].depth = level[i].depth + DepthOf(level[i])
          BY <1>1, <3>0, <3>3 DEF Accounted, Scopes
        <4>2. level'[i] = level[i] /\ level'[i + 1] = level[i + 1]
          BY <1>1, <1>4, <3>0, <3>3 DEF Depths
        <4> QED BY <4>1, <4>2, <1>1, <3>0, <3>3
      <3> QED BY <1>1, <3>0, <3>1, <3>2, <3>3
    <2> QED BY <1>1, <2>1, <2>2 DEF Accounted
  <1>7. SessionInv'
    BY <1>2, <1>4 DEF SessionInv
  <1>8. GrownInv'
    <2>1. \A i \in Depths : level[i].grown = 0
      BY <1>1 DEF GrownInv, Current, TypeOK
    <2> QED BY <2>1, <1>2, <1>4 DEF GrownInv
  <1>9. PublishedInv' /\ RootInv'
    <2>1. CASE top = 0
      BY <2>1, <1>1, <1>2, <1>4 DEF PublishedInv, RootInv
    <2>2. CASE top > 0
      <3>1. 1 \in Depths /\ 1 # top + 1
        BY <1>1, <2>2, BoundsAssumption DEF Depths
      <3> QED BY <3>1, <2>2, <1>4 DEF PublishedInv, RootInv
    <2> QED BY <1>1, <2>1, <2>2
  <1> QED BY <1>5, <1>6, <1>7, <1>8, <1>9

LEMMA NewBudgetType ==
  /\ NewBudget \in Budgets /\ NewBudget.bytes = 0 /\ NewBudget.slots = 0
  /\ NewBudget.depth = 0 /\ NewBudget.maxBytes = MaxBytes /\ NewBudget.peak = 0
  BY BoundsAssumption DEF NewBudget, Budgets

LEMMA EnterFundedStep ==
  ASSUME IInv, EnterFunded
  PROVE  IInv'
  <1>1. top = 0 /\ budget.bytes = 0 /\ top < MaxScopes
    BY BoundsAssumption DEF IInv, TypeOK, Accounted, EnterFunded
  <1>2. /\ top' = top + 1 /\ level' = [level EXCEPT ![top + 1] = Open(NewBudget, FALSE, 0)]
        /\ budget' = NewBudget /\ mode' = "run" /\ published' = FALSE
        /\ UNCHANGED <<retained, account>> /\ mode = "idle"
    BY <1>1 DEF EnterFunded
  <1>3. NewBudget.bytes = budget.bytes /\ ~(top > 0) /\ FALSE \in BOOLEAN /\ 0 \in Nat
    BY <1>1, NewBudgetType
  <1>4. UNCHANGED retained /\ UNCHANGED account
    BY <1>2
  <1> HIDE DEF IInv
  <1> QED BY <1>1, <1>2, <1>3, <1>4, NewBudgetType, OpenStep

LEMMA EnterStep ==
  ASSUME IInv, top > 0, Enter
  PROVE  IInv'
  <1>1. budget \in Budgets
    BY DEF IInv, TypeOK
  <1>2. /\ top' = top + 1 /\ level' = [level EXCEPT ![top + 1] = Open(budget, FALSE, 0)]
        /\ budget' = budget /\ mode = "run" /\ mode' = "run" /\ ~published
        /\ published' = FALSE /\ UNCHANGED <<retained, account>>
        /\ top < MaxScopes /\ Current.grown = 0 /\ ~(top = 0)
        /\ FALSE \in BOOLEAN /\ 0 \in Nat
    BY DEF Enter, Running, IInv, TypeOK
  <1> QED BY <1>1, <1>2, OpenStep

LEMMA RestrictStep ==
  ASSUME IInv, top > 0, NEW a \in Additional, RestrictAdditionalBytes(a)
  PROVE  IInv'
  <1> DEFINE c == [budget EXCEPT !.maxBytes = Ceiling(a), !.peak = budget.bytes]
  <1>1. budget \in Budgets /\ a \in Nat /\ budget.bytes \in Nat /\ budget.maxBytes \in Nat
    BY BoundsAssumption, BudgetFields DEF IInv, TypeOK
  <1>2. Ceiling(a) \in Nat
    BY <1>1 DEF Ceiling, MinOf
  <1>3. /\ c \in Budgets /\ c.bytes = budget.bytes /\ c.slots = budget.slots
        /\ c.depth = budget.depth
    BY <1>1, <1>2 DEF Budgets
  <1> HIDE DEF c
  <1>4. /\ ~(top = 0) /\ TRUE \in BOOLEAN
        /\ budget' = c /\ top' = top + 1 /\ top < MaxScopes /\ mode = "run" /\ mode' = "run"
        /\ level' = [level EXCEPT ![top + 1] = Open(budget, TRUE, a)]
        /\ ~published /\ published' = FALSE /\ Current.grown = 0
        /\ UNCHANGED <<retained, account>>
    BY DEF RestrictAdditionalBytes, Running, c, IInv, TypeOK
  <1> QED BY <1>1, <1>3, <1>4, OpenStep

--------------------------------------------------------------------------------
(* Publication: what was reserved is the storage's, and nobody holds it here.   *)
LEMMA TransferStep ==
  ASSUME IInv, top > 0, TransferFundedBytes
  PROVE  IInv'
  <1> USE DEF IInv
  <1> DEFINE L(i) == [level[i] EXCEPT !.kept = 0]
  <1>1. /\ budget \in Budgets /\ budget.bytes \in Nat /\ level \in [Depths -> Levels]
        /\ top \in Nat /\ Scopes \subseteq Depths
        /\ level' = [i \in Depths |-> L(i)]
        /\ budget' = [budget EXCEPT !.bytes = 0] /\ retained' = retained + budget.bytes
        /\ published' = TRUE /\ UNCHANGED <<top, mode, account>>
        /\ mode = "run" /\ Current.grown = 0 /\ ~published
    BY BoundsAssumption, BudgetFields
       DEF TypeOK, TransferFundedBytes, Transferred, Running, Scopes, Depths
  <1>2. \A i \in Depths :
          /\ L(i) \in Levels /\ L(i).slots = level[i].slots /\ L(i).bytes = level[i].bytes
          /\ L(i).depth = level[i].depth /\ L(i).session = level[i].session
          /\ L(i).temporary = level[i].temporary /\ L(i).payload = level[i].payload
          /\ L(i).array = level[i].array /\ L(i).grown = level[i].grown
          /\ L(i).completed = level[i].completed
    <2> TAKE i \in Depths
    <2>1. level[i] \in Levels
      BY <1>1
    <2> QED BY <2>1 DEF Levels
  <1> HIDE DEF L
  <1>3. level' \in [Depths -> Levels] /\ \A i \in Depths : level'[i] = L(i)
    BY <1>1, <1>2
  <1>4. budget' \in Budgets /\ budget'.bytes = 0
    BY <1>1 DEF Budgets
  <1>5. TypeOK' /\ NoInternalError'
    <2>1. retained' \in Nat /\ account' \in Nat /\ published' \in BOOLEAN
          /\ top' \in 0..MaxScopes /\ mode' = "run" /\ top' # 0
      BY <1>1 DEF TypeOK
    <2> QED BY <1>3, <1>4, <2>1 DEF TypeOK, NoInternalError
  <1>7. Accounted'
    <2>1. account = budget.bytes + retained /\ retained \in Nat
      BY DEF Accounted, TypeOK
    <2>2. account' = budget'.bytes + retained'
      BY <1>1, <1>4, <2>1
    <2> QED BY <1>1, <1>4, <2>2 DEF Accounted
  <1>8. SessionInv' /\ GrownInv'
    BY <1>1, <1>2, <1>3 DEF SessionInv, GrownInv
  <1>9. PublishedInv'
    <2>1. \A i \in Scopes : level[i].grown = 0
      BY <1>1 DEF GrownInv, Current
    <2>2. \A i \in Scopes : level[i].session = "none" /\ level[i].array = 0
                            /\ (i > 1 => level[i].completed)
      BY DEF TransferFundedBytes, NestedCompleted, Scopes
    <2> QED BY <1>1, <1>2, <1>3, <2>1, <2>2 DEF PublishedInv, Scopes
  <1>10. RootInv'
    <2>1. 1 \in Depths
      BY BoundsAssumption DEF Depths
    <2> QED BY <2>1, <1>1, <1>2, <1>3 DEF RootInv
  <1> QED BY <1>5, <1>7, <1>8, <1>9, <1>10

LEMMA RefundStep ==
  ASSUME IInv, StorageRefunds
  PROVE  IInv'
  <1> USE DEF IInv
  <1>1. /\ account' = budget.bytes /\ retained' = 0 /\ budget.bytes \in Nat
        /\ UNCHANGED <<budget, top, level, mode, published>>
    BY BudgetFields DEF TypeOK, Accounted, StorageRefunds
  <1>2. TypeOK' /\ NoInternalError' /\ Accounted'
    BY <1>1 DEF TypeOK, NoInternalError, Accounted, Scopes
  <1>3. SessionInv' /\ GrownInv' /\ PublishedInv' /\ RootInv'
    BY <1>1 DEF SessionInv, GrownInv, PublishedInv, RootInv, Scopes
  <1> QED BY <1>2, <1>3

(* A throw or a return outside of a buffer operation.                           *)
LEMMA ExitStep ==
  ASSUME IInv, top > 0, mode = "run", Current.grown = 0, mode' \in {"leave", "throw"},
         UNCHANGED <<budget, top, level, published, retained, account>>
  PROVE  IInv'
  <1> USE DEF IInv
  <1>1. TypeOK' /\ NoInternalError' /\ Accounted'
    BY DEF TypeOK, NoInternalError, Accounted, Scopes
  <1>2. \A i \in Depths : level[i].grown = 0
    BY DEF GrownInv, Current
  <1>3. SessionInv' /\ GrownInv' /\ PublishedInv' /\ RootInv'
    BY <1>2 DEF SessionInv, GrownInv, PublishedInv, RootInv, Scopes
  <1> QED BY <1>1, <1>3

(* The capacity asked for is an integer, and what a level holds a natural.      *)
LEMMA CapacityType ==
  ASSUME IInv, top > 0, ~published, NEW n \in Nat
  PROVE  GrownCapacity(n) \in Int
  <1>1. /\ Current.array \in Nat /\ budget.bytes \in Nat /\ budget.maxBytes \in Nat
        /\ budget.slots \in Nat
    BY CurrentHolds, BudgetFields DEF Levels, IInv, TypeOK
  <1>2. Available \in Int
    <2> DEFINE q == (budget.maxBytes - budget.bytes - Header) \div Pad
    <2>1. q \in Int
      BY <1>1, BoundsAssumption
    <2>2. q * Pad \in Int
      <3> HIDE DEF q
      <3> QED BY <2>1, BoundsAssumption
    <2> QED BY <2>2 DEF Available
  <1> QED BY <1>1, <1>2, BoundsAssumption DEF GrownCapacity, MinOf, MaxOf

LEMMA HoldingType ==
  ASSUME NEW k \in Levels
  PROVE  BytesOf(k) \in Nat /\ SlotsOf(k) \in Nat
  <1>1. /\ k.kept \in Nat /\ k.keptSlots \in Nat /\ k.temporary \in Nat
        /\ k.payload \in Nat /\ k.array \in Nat /\ k.grown \in Nat
    BY DEF Levels
  <1>2. ArrayBytes(k.array) \in Nat /\ ArrayBytes(k.grown) \in Nat
    BY <1>1, ArrayBytesType
  <1> QED BY <1>1, <1>2 DEF BytesOf, SlotsOf

LEMMA BlankType ==
  /\ Blank \in Levels /\ Blank.grown = 0
  /\ Blank.session = "none" /\ Blank.temporary = 0 /\ Blank.payload = 0
  <1>1. /\ NewBudget.slots \in Nat /\ NewBudget.bytes \in Nat /\ NewBudget.depth \in Nat
        /\ NewBudget.maxBytes \in Nat /\ NewBudget.peak \in Nat
    BY NewBudgetType DEF Budgets
  <1> QED BY <1>1 DEF Blank, Open, Levels

(* A growth that finds no room is stopped by one of the two limits.             *)
LEMMA GrowthNamesItsLimit ==
  ASSUME IInv, top > 0, ~published, NEW n \in Nat \ {0}, GrownCapacity(n) < n
  PROVE  ~(HasSlots(n) /\ HasBytes(ArrayBytes(n)))
  <1> SUFFICES ASSUME HasSlots(n), HasBytes(ArrayBytes(n))
               PROVE  GrownCapacity(n) >= n
    <2>1. GrownCapacity(n) \in Int
      BY CapacityType
    <2> QED BY <2>1
  <1>1. /\ Current.array \in Nat /\ budget.bytes \in Nat /\ budget.maxBytes \in Nat
        /\ budget.slots \in Nat /\ ArrayBytes(n) \in Nat
    BY CurrentHolds, BudgetFields, ArrayBytesType DEF Levels, IInv, TypeOK
  <1>2. MaxOf(n, 2 * Current.array) >= n /\ MaxOf(n, 2 * Current.array) \in Nat
    BY <1>1 DEF MaxOf
  <1>3. Available >= n
    <2> DEFINE rest == budget.maxBytes - budget.bytes
    <2>1. rest \in Int /\ ArrayBytes(n) <= rest
      BY <1>1 DEF HasBytes
    <2>2. ~(rest < Header) /\ ((rest - Header) \div Pad) * Pad >= n
      <3> HIDE DEF rest
      <3> QED BY <2>1, AvailableFits
    <2> QED BY <2>2 DEF Available
  <1>4. MaxSlots - budget.slots >= n
    BY <1>1, BoundsAssumption DEF HasSlots
  <1> QED BY <1>2, <1>3, <1>4 DEF GrownCapacity, MinOf

LEMMA GrowStep ==
  ASSUME IInv, top > 0, ~published, NEW n \in 1..(MaxSlots + 1), Grow(n)
  PROVE  IInv'
  <1> DEFINE g == GrownCapacity(n)
  <1>1. mode = "run" /\ Current.grown = 0 /\ g >= n /\ FALSE \in BOOLEAN
    BY DEF Grow, Running
  <1>2. g \in Nat
    <2>1. g \in Int
      BY BoundsAssumption, CapacityType
    <2> QED BY <2>1, <1>1, BoundsAssumption
  <1>3. AdmitExtent(g, FALSE) \/ HostRefuses(g)
    BY DEF Grow
  <1> HIDE DEF g
  <1> QED BY <1>1, <1>2, <1>3, AdmitExtentStep, HostRefusesStep

LEMMA GrowthRefusedStep ==
  ASSUME IInv, top > 0, ~published, NEW n \in 1..(MaxSlots + 1), GrowthRefused(n)
  PROVE  IInv'
  <1>1. n \in Nat \ {0} /\ mode = "run" /\ Current.grown = 0 /\ GrownCapacity(n) < n
    BY BoundsAssumption DEF GrowthRefused, Running
  <1>2. ~(HasSlots(n) /\ HasBytes(ArrayBytes(n)))
    BY <1>1, GrowthNamesItsLimit
  <1>3. mode' = "throw" /\ UNCHANGED <<budget, top, level, published, retained, account>>
    BY <1>2 DEF GrowthRefused
  <1> QED BY <1>1, <1>3, ExitStep

LEMMA TakeExactStep ==
  ASSUME IInv, top > 0, ~published, NEW n \in 1..MaxSlots, TakeExact(n)
  PROVE  IInv'
  <1>1. mode = "run" /\ Current.grown = 0 /\ n \in Nat /\ TRUE \in BOOLEAN
    BY BoundsAssumption DEF TakeExact, Running
  <1>2. AdmitExtent(n, TRUE) \/ HostRefuses(n)
    BY DEF TakeExact
  <1> QED BY <1>1, <1>2, AdmitExtentStep, HostRefusesStep

--------------------------------------------------------------------------------
(* What is left of the budget when the current scope has ended.                 *)
LEMMA RestType ==
  ASSUME IInv, top > 0, Current.completed \/ CanRollback
  PROVE  LET b == RestoreByteLimit(Rest(RolledBack))
         IN  /\ b \in Budgets
             /\ b.slots = RolledBack.slots /\ b.depth = RolledBack.depth
             /\ b.bytes = IF top = 1 THEN 0 ELSE RolledBack.bytes
  <1>1. /\ budget \in Budgets /\ Current \in Levels
        /\ Current.slots \in Nat /\ Current.bytes \in Nat /\ Current.depth \in Nat
        /\ Current.max \in Nat /\ Current.peak \in Nat
    <2>1. budget \in Budgets /\ level[top] \in Levels
      BY BoundsAssumption DEF IInv, TypeOK, Depths
    <2> QED BY <2>1 DEF Current, Levels
  <1> DEFINE r == RolledBack
             d == Rest(r)
  <1>2. r \in Budgets
    BY <1>1 DEF RolledBack, Budgets
  <1> HIDE DEF r
  <1>3. /\ d \in Budgets /\ d.slots = r.slots /\ d.depth = r.depth
        /\ d.bytes = IF top = 1 THEN 0 ELSE r.bytes
    BY <1>2 DEF Rest, Budgets
  <1>4. d.peak \in Nat
    BY <1>3 DEF Budgets
  <1> HIDE DEF d
  <1>5. MaxOf(d.peak, Current.peak) \in Nat
    BY <1>1, <1>4 DEF MaxOf
  <1>6. /\ RestoreByteLimit(d) \in Budgets
        /\ RestoreByteLimit(d).slots = d.slots /\ RestoreByteLimit(d).depth = d.depth
        /\ RestoreByteLimit(d).bytes = d.bytes
    BY <1>1, <1>3, <1>5 DEF RestoreByteLimit, Budgets
  <1> QED BY <1>3, <1>6 DEF d, r

(* The end of a scope: what a completed one leaves reserved becomes its         *)
(* parent's, anything else goes back to the checkpoints, which are what the     *)
(* parent holds.                                                                *)
LEMMA DisposeScopeStep ==
  ASSUME IInv, top > 0, DisposeScope
  PROVE  IInv'
  <1> USE DEF IInv
  <1> DEFINE b == RestoreByteLimit(Rest(RolledBack))
             given == Current.completed /\ ~published
             P(l) == [l EXCEPT !.kept = @ + (b.bytes - Current.bytes),
                               !.keptSlots = @ + (b.slots - Current.slots)]
  <1>1. /\ top \in Depths /\ top \in Nat /\ MaxScopes \in Nat /\ Scopes \subseteq Depths
        /\ level \in [Depths -> Levels] /\ budget \in Budgets
        /\ retained \in Nat /\ account \in Nat /\ published \in BOOLEAN
        /\ budget.bytes \in Nat /\ budget.slots \in Nat /\ budget.depth \in Nat
    BY BoundsAssumption, BudgetFields DEF TypeOK, Depths, Scopes
  <1>2. /\ Current \in Levels /\ Current.slots \in Nat /\ Current.bytes \in Nat
        /\ Current.depth \in Nat /\ Current.completed \in BOOLEAN /\ Current = level[top]
    <2>1. level[top] \in Levels
      BY <1>1
    <2> QED BY <2>1 DEF Levels, Current
  <1>3. Current.completed \/ CanRollback
    <2>1. CASE ~published
      BY <2>1, HeldIsReserved
    <2>2. CASE published /\ top > 1
      BY <1>1, <1>2, <2>2 DEF PublishedInv, Scopes
    <2>3. CASE published /\ top = 1
      BY <1>1, <1>2, <2>3 DEF RootInv, CanRollback
    <2> QED BY <1>1, <2>1, <2>2, <2>3
  <1>4. /\ b \in Budgets /\ b.slots = RolledBack.slots /\ b.depth = RolledBack.depth
        /\ b.bytes = IF top = 1 THEN 0 ELSE RolledBack.bytes
    BY <1>3, RestType
  <1> HIDE DEF b
  <1>5. /\ budget' = b /\ account' = account - (budget.bytes - b.bytes)
        /\ level' = [i \in Depths |-> IF i = top THEN Blank
                                      ELSE IF i = top - 1 /\ given THEN P(level[i])
                                      ELSE level[i]]
        /\ top' = top - 1 /\ UNCHANGED <<published, retained>>
        /\ \/ top = 1 /\ mode' = "idle"
           \/ top > 1 /\ mode' = "run"
           \/ top > 1 /\ mode = "throw" /\ mode' = "throw"
        /\ mode \in {"leave", "throw"} /\ Current.array = 0 /\ Current.session = "none"
    BY <1>3 DEF DisposeScope, Leaving, b
  <1>6. b.bytes \in Nat /\ b.slots \in Nat /\ b.depth \in Nat
    BY <1>4 DEF Budgets
  <1>7. /\ RolledBack.bytes = IF Current.completed THEN budget.bytes ELSE Current.bytes
        /\ RolledBack.slots = IF Current.completed THEN budget.slots ELSE Current.slots
        /\ RolledBack.depth = IF Current.completed THEN budget.depth ELSE Current.depth
    BY <1>1 DEF RolledBack, Budgets
  <1>8. top > 1 /\ ~published =>
          /\ b.bytes - Current.bytes \in Nat /\ b.slots - Current.slots \in Nat
          /\ b.depth = Current.depth
    <2> SUFFICES ASSUME top > 1, ~published
                 PROVE  /\ b.bytes - Current.bytes \in Nat /\ b.slots - Current.slots \in Nat
                        /\ b.depth = Current.depth
      OBVIOUS
    <2>1. Current.slots <= budget.slots /\ Current.bytes <= budget.bytes
      BY HeldIsReserved DEF CanRollback
    <2>2. budget.depth = Current.depth + DepthOf(Current)
      BY <1>1, <1>2 DEF Accounted, Scopes
    <2>3. DepthOf(Current) = 0
      BY <1>5 DEF DepthOf
    <2> QED BY <1>1, <1>2, <1>4, <1>6, <1>7, <2>1, <2>2, <2>3
  <1>9. ASSUME NEW k \in Levels, top > 1, ~published
        PROVE  /\ P(k) \in Levels /\ P(k).slots = k.slots /\ P(k).bytes = k.bytes
               /\ P(k).depth = k.depth /\ DepthOf(P(k)) = DepthOf(k)
               /\ BytesOf(P(k)) = BytesOf(k) + (b.bytes - Current.bytes)
               /\ SlotsOf(P(k)) = SlotsOf(k) + (b.slots - Current.slots)
               /\ P(k).session = k.session /\ P(k).temporary = k.temporary
               /\ P(k).payload = k.payload /\ P(k).grown = k.grown
    <2> DEFINE x == b.bytes - Current.bytes
               y == b.slots - Current.slots
    <2>1. x \in Nat /\ y \in Nat
      BY <1>8, <1>9
    <2>2. /\ k.kept \in Nat /\ k.keptSlots \in Nat /\ k.temporary \in Nat
          /\ k.payload \in Nat /\ k.array \in Nat /\ k.grown \in Nat
          /\ ArrayBytes(k.array) \in Nat /\ ArrayBytes(k.grown) \in Nat
      BY ArrayBytesType DEF Levels
    <2> HIDE DEF x, y
    <2> DEFINE q == [k EXCEPT !.kept = @ + x, !.keptSlots = @ + y]
    <2>3. /\ q \in Levels /\ q.slots = k.slots /\ q.bytes = k.bytes /\ q.depth = k.depth
          /\ q.session = k.session /\ q.temporary = k.temporary /\ q.payload = k.payload
          /\ q.array = k.array /\ q.grown = k.grown
          /\ q.kept = k.kept + x /\ q.keptSlots = k.keptSlots + y
      <3>1. k.kept + x \in Nat /\ k.keptSlots + y \in Nat
        BY <2>1, <2>2
      <3> QED BY <3>1 DEF Levels
    <2>4. P(k) = q
      BY DEF x, y
    <2> HIDE DEF q, P
    <2>5. BytesOf(q) = BytesOf(k) + x /\ SlotsOf(q) = SlotsOf(k) + y
      BY <2>1, <2>2, <2>3 DEF BytesOf, SlotsOf
    <2>6. DepthOf(q) = DepthOf(k)
      BY <2>3 DEF DepthOf
    <2> QED BY <2>3, <2>4, <2>5, <2>6 DEF x, y
  <1>10. /\ Blank \in Levels /\ Blank.grown = 0
         /\ Blank.session = "none" /\ Blank.temporary = 0 /\ Blank.payload = 0
    BY BlankType
  <1> HIDE DEF P
  <1>11. /\ level' \in [Depths -> Levels]
         /\ level'[top] = Blank
         /\ \A i \in Depths : i # top /\ ~(i = top - 1 /\ given) => level'[i] = level[i]
         /\ top > 1 /\ given => level'[top - 1] = P(level[top - 1])
    <2>1. \A i \in Depths : i = top - 1 => top > 1
      BY <1>1 DEF Depths
    <2>2. top > 1 => top - 1 \in Depths /\ top - 1 # top
      BY <1>1 DEF Depths
    <2>3. \A i \in Depths : i = top - 1 /\ given => P(level[i]) \in Levels
      BY <1>1, <1>9, <2>1
    <2> QED BY <1>1, <1>5, <1>10, <2>1, <2>2, <2>3
  <1>12. account' = b.bytes + retained /\ account' \in Nat
    BY <1>1, <1>5, <1>6 DEF Accounted
  <1>13. TypeOK' /\ NoInternalError'
    <2>1. top' \in 0..MaxScopes /\ (top' = 0 <=> top = 1)
      BY <1>1, <1>5 DEF Depths
    <2>2. /\ mode' \in {"idle", "run", "leave", "throw", "broken"} /\ mode' # "broken"
          /\ mode' = "idle" <=> top = 1
      BY <1>1, <1>5
    <2>3. budget' \in Budgets /\ retained' \in Nat /\ published' \in BOOLEAN
      BY <1>1, <1>4, <1>5
    <2> QED BY <1>11, <1>12, <2>1, <2>2, <2>3 DEF TypeOK, NoInternalError
  <1>14. Accounted'
    <2>1. account' = budget'.bytes + retained'
      BY <1>5, <1>12
    <2>2. top' = 0 \/ published' => budget'.bytes = 0
      <3>1. top = 1 => b.bytes = 0
        BY <1>4
      <3>2. CASE published
        <4>1. budget.bytes = 0
          BY <3>2 DEF Accounted
        <4>2. top = 1 \/ Current.completed
          BY <1>1, <1>2, <3>2 DEF PublishedInv, Scopes
        <4> QED BY <1>4, <1>5, <1>7, <4>1, <4>2
      <3> QED BY <1>1, <1>5, <3>1, <3>2
    <2>3. ASSUME ~published, NEW i \in 1..(top - 1)
          PROVE  LET d == IF i = top - 1 THEN b ELSE level'[i + 1]
                 IN  /\ d.bytes = level'[i].bytes + BytesOf(level'[i])
                     /\ d.slots = level'[i].slots + SlotsOf(level'[i])
                     /\ d.depth = level'[i].depth + DepthOf(level'[i])
      <3>1. /\ i \in Depths /\ i + 1 \in Depths /\ i # top /\ i \in Scopes /\ top > 1
            /\ level[i] \in Levels
        BY <1>1, <2>3 DEF Depths, Scopes
      <3>2. /\ level[i + 1].bytes = level[i].bytes + BytesOf(level[i])
            /\ level[i + 1].slots = level[i].slots + SlotsOf(level[i])
            /\ level[i + 1].depth = level[i].depth + DepthOf(level[i])
        BY <2>3, <3>1 DEF Accounted
      <3>3. CASE i < top - 1
        <4>1. level'[i] = level[i] /\ i + 1 # top
          BY <1>1, <1>11, <3>1, <3>3
        <4>2. level'[i + 1] = level[i + 1] \/ level'[i + 1] = P(level[i + 1])
          BY <1>11, <3>1, <4>1
        <4>3. level[i + 1] \in Levels
          BY <1>1, <3>1
        <4>4. /\ level'[i + 1].slots = level[i + 1].slots
              /\ level'[i + 1].bytes = level[i + 1].bytes
              /\ level'[i + 1].depth = level[i + 1].depth
          BY <1>9, <2>3, <3>1, <4>2, <4>3
        <4> QED BY <1>1, <3>2, <3>3, <4>1, <4>4
      <3>4. CASE i = top - 1 /\ Current.completed
        <4>1. level'[i] = P(level[i]) /\ i + 1 = top
          BY <1>1, <1>11, <2>3, <3>1, <3>4
        <4>2. /\ level[i].bytes \in Nat /\ level[i].slots \in Nat
              /\ BytesOf(level[i]) \in Nat /\ SlotsOf(level[i]) \in Nat
          BY <3>1, HoldingType DEF Levels
        <4>3. /\ P(level[i]).slots = level[i].slots /\ P(level[i]).bytes = level[i].bytes
              /\ P(level[i]).depth = level[i].depth
              /\ DepthOf(P(level[i])) = DepthOf(level[i])
              /\ BytesOf(P(level[i])) = BytesOf(level[i]) + (b.bytes - Current.bytes)
              /\ SlotsOf(P(level[i])) = SlotsOf(level[i]) + (b.slots - Current.slots)
          BY <1>9, <2>3, <3>1
        <4> QED BY <1>2, <1>6, <1>8, <2>3, <3>1, <3>2, <3>4, <4>1, <4>2, <4>3
      <3>5. CASE i = top - 1 /\ ~Current.completed
        <4>1. level'[i] = level[i] /\ i + 1 = top
          BY <1>1, <1>11, <3>1, <3>5
        <4> QED BY <1>2, <1>4, <1>7, <3>1, <3>2, <3>5, <4>1
      <3> QED BY <1>1, <3>1, <3>3, <3>4, <3>5
    <2> QED BY <1>1, <1>5, <2>1, <2>2, <2>3 DEF Accounted, Scopes
  <1>15. \A i \in Depths : \/ level'[i] = Blank \/ level'[i] = level[i]
                           \/ top > 1 /\ ~published /\ level'[i] = P(level[i])
    <2>1. \A i \in Depths : i = top - 1 => top > 1
      BY <1>1 DEF Depths
    <2> QED BY <1>11, <2>1
  <1>16. SessionInv'
    <2> SUFFICES ASSUME NEW i \in Depths, level'[i].session = "none"
                 PROVE  level'[i].temporary = 0 /\ level'[i].payload = 0
      BY DEF SessionInv
    <2>1. level[i] \in Levels
      BY <1>1
    <2> QED BY <1>9, <1>10, <1>15, <2>1 DEF SessionInv
  <1>17. GrownInv'
    <2>1. \A i \in Depths : level[i].grown = 0
      BY <1>5 DEF GrownInv
    <2> SUFFICES ASSUME NEW i \in Depths
                 PROVE  level'[i].grown = 0
      BY DEF GrownInv
    <2>2. level[i] \in Levels
      BY <1>1
    <2> QED BY <1>9, <1>10, <1>15, <2>1, <2>2
  <1>18. PublishedInv'
    <2> SUFFICES ASSUME published, NEW i \in 1..(top - 1)
                 PROVE  /\ level'[i].session = "none" /\ level'[i].array = 0
                        /\ level'[i].grown = 0
                        /\ i > 1 => level'[i].completed
      BY <1>5 DEF PublishedInv, Scopes
    <2>1. i \in Depths /\ i \in Scopes /\ i # top
      BY <1>1 DEF Depths, Scopes
    <2>2. level'[i] = level[i]
      BY <1>11, <2>1
    <2> QED BY <2>1, <2>2 DEF PublishedInv
  <1>19. RootInv'
    <2> SUFFICES ASSUME top > 1
                 PROVE  level'[1].slots = 0 /\ level'[1].bytes = 0 /\ level'[1].depth = 0
      BY <1>1, <1>5 DEF RootInv
    <2>1. 1 \in Depths /\ 1 # top /\ level[1] \in Levels
      BY <1>1 DEF Depths
    <2>2. level'[1] = level[1] \/ (~published /\ level'[1] = P(level[1]))
      BY <1>11, <2>1
    <2> QED BY <1>9, <2>1, <2>2 DEF RootInv
  <1> QED BY <1>13, <1>14, <1>16, <1>17, <1>18, <1>19

--------------------------------------------------------------------------------
LEMMA InitHolds ==
  ASSUME Init
  PROVE  IInv
  <1>1. /\ Blank \in Levels /\ Blank.grown = 0
        /\ Blank.session = "none" /\ Blank.temporary = 0 /\ Blank.payload = 0
    BY BlankType
  <1>2. budget \in Budgets /\ budget.bytes = 0
    BY NewBudgetType DEF Init
  <1>3. level \in [Depths -> Levels] /\ \A i \in Depths : level[i] = Blank
    BY <1>1 DEF Init
  <1>4. TypeOK /\ NoInternalError
    <2>1. /\ top = 0 /\ mode = "idle" /\ published = FALSE /\ retained = 0 /\ account = 0
          /\ top \in 0..MaxScopes
      BY BoundsAssumption DEF Init
    <2> QED BY <1>2, <1>3, <2>1 DEF TypeOK, NoInternalError
  <1>5. Accounted
    BY <1>2 DEF Accounted, Init, Scopes
  <1>6. SessionInv /\ GrownInv /\ PublishedInv /\ RootInv
    BY <1>1, <1>3 DEF SessionInv, GrownInv, PublishedInv, RootInv, Init
  <1> QED BY <1>4, <1>5, <1>6 DEF IInv

(* What code does inside a scope, the exits and the disposals apart.            *)
InsideStep ==
  \/ AllocateObject \/ FactoryThrows \/ CreateSession \/ CompleteSession
  \/ \E n \in 1..MaxSlots, p \in BOOLEAN : ArenaAllocate(n, p)
  \/ \E n \in 1..(MaxSlots + 1) : Grow(n) \/ GrowthRefused(n)
  \/ \E n \in 1..MaxSlots : TakeExact(n)
  \/ TakeWhole \/ CopyDone \/ CopyThrows \/ Complete
  \/ DisposeBuffer \/ DisposeSession

(* After publication nothing is open that these steps could work on.            *)
LEMMA NothingOpen ==
  ASSUME IInv, top > 0, InsideStep
  PROVE  ~published
  <1> SUFFICES ASSUME published PROVE FALSE
    OBVIOUS
  <1>1. Current.session = "none" /\ Current.array = 0 /\ Current.grown = 0
    <2>1. top \in Scopes
      BY DEF IInv, TypeOK, Scopes
    <2> QED BY <2>1 DEF IInv, PublishedInv, Current
  <1>2. ~Running
    BY DEF Running
  <1> QED BY <1>1, <1>2
       DEF InsideStep, AllocateObject, FactoryThrows, CreateSession, CompleteSession,
           ArenaAllocate, Grow, GrowthRefused, TakeExact, TakeWhole, CopyDone,
           CopyThrows, Complete, DisposeBuffer, DisposeSession

LEMMA InsideStepHolds ==
  ASSUME IInv, top > 0, InsideStep
  PROVE  IInv'
  <1>0. ~published /\ MaxSlots \in Nat
    BY NothingOpen, BoundsAssumption
  <1>1. ASSUME NEW n \in 1..MaxSlots, NEW p \in BOOLEAN, ArenaAllocate(n, p)
        PROVE  IInv'
    BY <1>0, <1>1, ArenaAllocateStep
  <1>2. ASSUME NEW n \in 1..(MaxSlots + 1), Grow(n) \/ GrowthRefused(n)
        PROVE  IInv'
    BY <1>0, <1>2, GrowStep, GrowthRefusedStep
  <1>3. ASSUME NEW n \in 1..MaxSlots, TakeExact(n)
        PROVE  IInv'
    BY <1>0, <1>3, TakeExactStep
  <1> QED BY <1>0, <1>1, <1>2, <1>3, AllocateObjectStep, FactoryThrowsStep,
             CreateSessionStep, CompleteSessionStep, TakeWholeStep, CopyDoneStep,
             CopyThrowsStep, CompleteStep, DisposeBufferStep, DisposeSessionStep
          DEF InsideStep

LEMMA NextHolds ==
  ASSUME IInv, [Next]_vars
  PROVE  IInv'
  <1>0. top \in Nat /\ (mode = "idle" <=> top = 0) /\ mode # "broken"
    BY DEF IInv, TypeOK, NoInternalError
  <1>1. CASE EnterFunded
    BY <1>1, EnterFundedStep
  <1>2. CASE StorageRefunds
    BY <1>2, RefundStep
  <1>3. CASE Throw \/ Return
    BY <1>0, <1>3, ExitStep DEF Throw, Return
  <1>4. CASE Enter
    BY <1>0, <1>4, EnterStep DEF Enter, Running
  <1>5. ASSUME NEW a \in Additional, RestrictAdditionalBytes(a)
        PROVE  IInv'
    <2>1. mode = "run"
      BY <1>5 DEF RestrictAdditionalBytes, Running
    <2> QED BY <1>0, <1>5, <2>1, RestrictStep
  <1>6. CASE InsideStep
    <2>1. mode \in {"run", "leave", "throw"}
      BY <1>6 DEF InsideStep, AllocateObject, FactoryThrows, CreateSession,
           CompleteSession, ArenaAllocate, Grow, GrowthRefused, TakeExact, TakeWhole,
           CopyDone, CopyThrows, Complete, DisposeBuffer, DisposeSession, Running,
           Leaving
    <2> QED BY <1>0, <1>6, <2>1, InsideStepHolds
  <1>7. CASE TransferFundedBytes
    <2>1. mode = "run"
      BY <1>7 DEF TransferFundedBytes, Running
    <2> QED BY <1>0, <1>7, <2>1, TransferStep
  <1>8. CASE DisposeScope
    <2>1. mode \in {"leave", "throw"}
      BY <1>8 DEF DisposeScope, Leaving
    <2> QED BY <1>0, <1>8, <2>1, DisposeScopeStep
  <1>9. CASE UNCHANGED vars
    <2>1. TypeOK' /\ NoInternalError'
      BY <1>9 DEF IInv, TypeOK, NoInternalError, vars
    <2>2. Accounted'
      BY <1>9 DEF IInv, Accounted, Scopes, vars
    <2>3. SessionInv' /\ GrownInv' /\ PublishedInv' /\ RootInv'
      BY <1>9 DEF IInv, SessionInv, GrownInv, PublishedInv, RootInv, Scopes, vars
    <2> QED BY <2>1, <2>2, <2>3 DEF IInv
  <1>10. CASE Next
    <2>1. \/ EnterFunded \/ StorageRefunds \/ Throw \/ Return \/ Enter
          \/ \E a \in Additional : RestrictAdditionalBytes(a)
          \/ InsideStep \/ TransferFundedBytes \/ DisposeScope
      BY <1>10, Zenon DEF Next, InsideStep
    <2> QED BY <2>1, <1>1, <1>2, <1>3, <1>4, <1>5, <1>6, <1>7, <1>8
  <1> QED BY <1>9, <1>10

--------------------------------------------------------------------------------
THEOREM ScopesInvariant == Spec => []IInv
  <1>1. Init => IInv
    BY InitHolds
  <1>2. IInv /\ [Next]_vars => IInv'
    BY NextHolds
  <1> QED BY <1>1, <1>2, PTL DEF Spec

(* The state of budget, scopes and host keeps its type: in particular no       *)
(* counter of the budget or of the account is ever negative.                    *)
THEOREM ScopesTyped == Spec => []TypeOK
  <1>1. IInv => TypeOK
    BY DEF IInv
  <1> QED BY <1>1, ScopesInvariant, PTL

(* No construction ever meets an InvalidOperationException of its budget or of  *)
(* its buffers, however scopes nest and whatever fails inside them.             *)
THEOREM NeverBroken == Spec => []NoInternalError
  <1>1. IInv => NoInternalError
    BY DEF IInv
  <1> QED BY <1>1, ScopesInvariant, PTL

(* Every byte the host counts is reserved by the open construction, where one   *)
(* scope holds it, or has been handed to a storage.                             *)
THEOREM ReservationAccounted == Spec => []Accounted
  <1>1. IInv => Accounted
    BY DEF IInv
  <1> QED BY <1>1, ScopesInvariant, PTL
================================================================================
