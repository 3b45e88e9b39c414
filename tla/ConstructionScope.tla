--------------------------- MODULE ConstructionScope ---------------------------
(* Utf8ConstructionScope and Utf8ConstructionBudget: the nested scopes of one   *)
(* construction, on the thread that runs it, over one budget that a host funds. *)
(* A scope is modelled together with what its code has open inside it: a        *)
(* session with its arena, and a growable buffer.  They are instruction buffers,*)
(* so that their arrays are admitted twice, as slots and as bytes.              *)
EXTENDS Integers

CONSTANTS MaxScopes,      \* bound: how deep scopes nest
          MaxSlots,       \* Maximum: instruction slots
          MaxBytes,       \* MaximumBytes of the policy
          MaxWork,        \* MaximumWorkSteps
          MaxDepth,       \* MaximumDepth
          Additional,     \* arguments of RestrictAdditionalBytes
          Header, Pad,    \* an array has a header, its payload is padded
          Object          \* what AllocateObject charges

ASSUME BoundsAssumption ==
  /\ MaxScopes \in Nat \ {0} /\ MaxSlots \in Nat /\ MaxBytes \in Nat
  /\ MaxWork \in Nat /\ MaxDepth \in Nat /\ Additional \subseteq Nat
  /\ Header \in Nat /\ Pad \in Nat \ {0} /\ Object \in Nat \ {0}

VARIABLES budget,    \* the shared Utf8ConstructionBudget
          top,       \* how many scopes are open; s_current is level[top]
          level,     \* the scopes, outermost first
          mode,      \* "idle", "run", "leave" (returning), "throw", "broken"
          published, \* TransferFundedBytes has been called
          retained,  \* bytes a Utf8FundedStorage has taken over
          account    \* bytes the host's allowance counts

vars == <<budget, top, level, mode, published, retained, account>>

Depths == 1..MaxScopes
MaxOf(m, n) == IF m > n THEN m ELSE n
MinOf(m, n) == IF m < n THEN m ELSE n

(* ArrayBytes: nothing for an empty array, else a header and the padded payload.*)
RoundUp(n) == ((n + Pad - 1) \div Pad) * Pad
ArrayBytes(n) == IF n = 0 THEN 0 ELSE Header + RoundUp(n)

(* A scope takes three checkpoints; `additional` and `high` are history: the    *)
(* allowance of a restricted scope, and the most bytes reserved since it opened.*)
Open(b, restricted, additional) ==
  [slots |-> b.slots, bytes |-> b.bytes, depth |-> b.depth,
   completed |-> FALSE,
   restricted |-> restricted, max |-> b.maxBytes, peak |-> b.peak,
   session |-> "none", temporary |-> 0, payload |-> 0,
   array |-> 0, grown |-> 0, taking |-> FALSE,
   kept |-> 0, keptSlots |-> 0,
   additional |-> additional, high |-> b.bytes]

NewBudget == [slots |-> 0, bytes |-> 0, maxBytes |-> MaxBytes, peak |-> 0,
              work |-> 0, depth |-> 0]

Blank == Open(NewBudget, FALSE, 0)

Init ==
  /\ budget = NewBudget /\ top = 0 /\ level = [i \in Depths |-> Blank]
  /\ mode = "idle" /\ published = FALSE /\ retained = 0 /\ account = 0

Current == level[top]

(* The code of the current scope runs, and is not inside a buffer operation.    *)
Running == mode = "run" /\ ~published /\ Current.grown = 0

(* CheckSlots, CheckBytes and the limit of ChargeWork.                          *)
HasSlots(n) == budget.slots + n <= MaxSlots
HasBytes(n) == budget.bytes + n <= budget.maxBytes
CanWork == budget.work < MaxWork

(* Work, slots and bytes have been admitted.                                    *)
Admitted(bytes, slots) ==
  [budget EXCEPT !.bytes = @ + bytes, !.slots = @ + slots, !.work = @ + 1,
                 !.peak = MaxOf(@, budget.bytes + bytes)]

(* The current scope becomes l; `seen` bytes were reserved at some point.       *)
Become(l, seen) ==
  level' = [i \in Depths |->
              LET k == IF i = top THEN l ELSE level[i]
              IN  IF i <= top THEN [k EXCEPT !.high = MaxOf(@, seen)] ELSE k]

(* An InvalidOperationException of the budget: the construction is over.        *)
Breaks ==
  mode' = "broken" /\ UNCHANGED <<budget, top, level, published, retained, account>>

--------------------------------------------------------------------------------
(* Utf8ConstructionScope.Enter with a policy and an allowance: the root.  Bound:*)
(* one construction is charged to the account at a time.                        *)
EnterFunded ==
  /\ mode = "idle" /\ retained = 0
  /\ budget' = NewBudget /\ top' = 1
  /\ level' = [level EXCEPT ![1] = Open(NewBudget, FALSE, 0)]
  /\ mode' = "run" /\ published' = FALSE
  /\ UNCHANGED <<retained, account>>

(* A second explicit construction cannot replace an active owner; a token, the  *)
(* deadline, a limit or the code itself may throw at any point.                 *)
Throw ==
  /\ mode = "run" /\ Current.grown = 0
  /\ mode' = "throw"
  /\ UNCHANGED <<budget, top, level, published, retained, account>>

Enter ==
  /\ Running /\ top < MaxScopes
  /\ top' = top + 1
  /\ level' = [level EXCEPT ![top + 1] = Open(budget, FALSE, 0)]
  /\ UNCHANGED <<budget, mode, published, retained, account>>

\* mutant: an inner restriction may exceed the ceiling of the outer one
Ceiling_NoMin(additional) == budget.bytes + additional

Ceiling(additional) == MinOf(budget.maxBytes, budget.bytes + additional)

(* RestrictAdditionalBytes saves limit and peak, then restricts and restarts.   *)
RestrictAdditionalBytes(additional) ==
  /\ Running /\ top < MaxScopes
  /\ top' = top + 1
  /\ level' = [level EXCEPT ![top + 1] = Open(budget, TRUE, additional)]
  /\ budget' = [budget EXCEPT !.maxBytes = Ceiling(additional), !.peak = budget.bytes]
  /\ UNCHANGED <<mode, published, retained, account>>

--------------------------------------------------------------------------------
(* AllocateObject, CopyText: the charge stays until the scope ends.             *)
AllocateObject ==
  /\ Running /\ HasBytes(Object) /\ CanWork
  /\ budget' = Admitted(Object, 0)
  /\ Become([Current EXCEPT !.kept = @ + Object], budget.bytes + Object)
  /\ account' = account + Object
  /\ UNCHANGED <<top, mode, published, retained>>

(* The factory throws: the charge is released, the peak has seen it.            *)
FactoryThrows ==
  /\ Running /\ HasBytes(Object) /\ CanWork
  /\ budget' = [Admitted(Object, 0) EXCEPT !.bytes = budget.bytes]
  /\ Become(Current, budget.bytes + Object)
  /\ mode' = "throw"
  /\ UNCHANGED <<top, published, retained, account>>

(* Utf8ConstructionSession.Create: one depth frame and its helper objects.  If  *)
(* it throws half-way it leaves the frame, and its charges to the scope, which  *)
(* is AllocateObject followed by Throw.                                         *)
CreateSession ==
  /\ Running /\ Current.session = "none" /\ Current.array = 0
  /\ budget.depth < MaxDepth /\ HasBytes(Object) /\ CanWork
  /\ budget' = [Admitted(Object, 0) EXCEPT !.depth = @ + 1]
  /\ Become([Current EXCEPT !.session = "open", !.kept = @ + Object],
            budget.bytes + Object)
  /\ account' = account + Object
  /\ UNCHANGED <<top, mode, published, retained>>

(* Utf8ConstructionArena.Allocate and Retain, for a temporary or a payload.     *)
ArenaAllocate(n, isPayload) ==
  /\ Running /\ Current.session = "open"
  /\ HasBytes(ArrayBytes(n)) /\ CanWork
  /\ budget' = Admitted(ArrayBytes(n), 0)
  /\ Become([Current EXCEPT !.payload = IF isPayload THEN @ + ArrayBytes(n) ELSE @,
                            !.temporary = IF isPayload THEN @ ELSE @ + ArrayBytes(n)],
            budget.bytes + ArrayBytes(n))
  /\ account' = account + ArrayBytes(n)
  /\ UNCHANGED <<top, mode, published, retained>>

CompleteSession ==
  /\ Running /\ Current.session = "open"
  /\ Become([Current EXCEPT !.session = "completed"], budget.bytes)
  /\ UNCHANGED <<budget, top, mode, published, retained, account>>

--------------------------------------------------------------------------------
(* AvailableArrayCapacity: the largest array the remaining bytes can hold.      *)
Available ==
  LET rest == budget.maxBytes - budget.bytes
  IN  IF rest < Header THEN 0 ELSE ((rest - Header) \div Pad) * Pad

(* The capacity EnsureCapacity asks for: doubled, but no more than there is.    *)
GrownCapacity(required) ==
  MinOf(MinOf(MaxOf(required, 2 * Current.array), Available), MaxSlots - budget.slots)

(* Both extents are admitted while the items are copied.                        *)
AdmitExtent(n, taking) ==
  /\ CanWork
  /\ budget' = Admitted(ArrayBytes(n), n)
  /\ Become([Current EXCEPT !.grown = n, !.taking = taking],
            budget.bytes + ArrayBytes(n))
  /\ account' = account + ArrayBytes(n)
  /\ UNCHANGED <<top, mode, published, retained>>

(* The host refuses the bytes after the slots were reserved: AllocateArray      *)
(* throws without returning the slots, which stay with the scope.               *)
HostRefuses(n) ==
  /\ CanWork
  /\ budget' = [budget EXCEPT !.slots = @ + n, !.work = @ + 1]
  /\ Become([Current EXCEPT !.keptSlots = @ + n], budget.bytes)
  /\ mode' = "throw"
  /\ UNCHANGED <<top, published, retained, account>>

(* EnsureCapacity: admit the grown extent.  AllocateArray repeats the checks.   *)
Grow(required) ==
  /\ Running /\ required > Current.array
  /\ LET n == GrownCapacity(required)
     IN  /\ n >= required /\ HasSlots(n) /\ HasBytes(ArrayBytes(n))
         /\ AdmitExtent(n, FALSE) \/ HostRefuses(n)

(* No extent is large enough: one of the two checks must say which limit it is, *)
(* or "The construction buffer cannot represent its next extent." is thrown.    *)
GrowthRefused(required) ==
  /\ Running /\ required > Current.array
  /\ GrownCapacity(required) < required
  /\ IF HasSlots(required) /\ HasBytes(ArrayBytes(required))
     THEN Breaks
     ELSE /\ mode' = "throw"
          /\ UNCHANGED <<budget, top, level, published, retained, account>>

(* Take of a buffer that is not full copies the items into an exact array.      *)
TakeExact(n) ==
  /\ Running /\ n \in 1..(Current.array - 1)
  /\ HasSlots(n) /\ HasBytes(ArrayBytes(n))
  /\ AdmitExtent(n, TRUE) \/ HostRefuses(n)

(* Take of a full buffer hands its array over with its charge.                  *)
TakeWhole ==
  /\ Running /\ Current.array # 0
  /\ Become([Current EXCEPT !.array = 0, !.kept = @ + ArrayBytes(Current.array),
                            !.keptSlots = @ + Current.array], budget.bytes)
  /\ UNCHANGED <<budget, top, mode, published, retained, account>>

(* ReleaseBytes and Release throw when they would release too much.             *)
Releasable(bytes, slots) == bytes <= budget.bytes /\ slots <= budget.slots

Released(bytes, slots) == [budget EXCEPT !.bytes = @ - bytes, !.slots = @ - slots]

(* The copy is done: the old array is released, the new one replaces it.        *)
CopyDone ==
  /\ mode = "run" /\ Current.grown # 0
  /\ LET old == ArrayBytes(Current.array)
         n == Current.grown
         rest == [Current EXCEPT !.grown = 0, !.taking = FALSE,
                                 !.array = IF Current.taking THEN 0 ELSE n]
     IN  IF ~Releasable(old, Current.array) THEN Breaks
         ELSE /\ budget' = Released(old, Current.array)
              /\ Become(IF Current.taking
                        THEN [rest EXCEPT !.kept = @ + ArrayBytes(n), !.keptSlots = @ + n]
                        ELSE rest, budget.bytes)
              /\ account' = account - old
              /\ UNCHANGED <<top, mode, published, retained>>

(* The copy's work is refused: the new array is released, the old one stays.    *)
CopyThrows ==
  /\ mode = "run" /\ Current.grown # 0
  /\ LET n == Current.grown
     IN  IF ~Releasable(ArrayBytes(n), n) THEN Breaks
         ELSE /\ budget' = Released(ArrayBytes(n), n)
              /\ Become([Current EXCEPT !.grown = 0, !.taking = FALSE], budget.bytes)
              /\ account' = account - ArrayBytes(n)
              /\ mode' = "throw"
              /\ UNCHANGED <<top, published, retained>>

--------------------------------------------------------------------------------
Complete ==
  /\ Running /\ ~Current.completed
  /\ Become([Current EXCEPT !.completed = TRUE], budget.bytes)
  /\ UNCHANGED <<budget, top, mode, published, retained, account>>

(* A return: the code's using statements dispose what it opened.                *)
Return ==
  /\ mode = "run" /\ Current.grown = 0
  /\ mode' = "leave"
  /\ UNCHANGED <<budget, top, level, published, retained, account>>

\* mutant: the bytes are transferred before the nested scope is completed
NestedCompleted_Never(i) == TRUE

NestedCompleted(i) == i > 1 => level[i].completed

\* mutant: the reservation is not cleared
Transferred_Kept == budget

Transferred == [budget EXCEPT !.bytes = 0]

(* TransferFundedBytes at publication, into the storage's Retain: temporaries   *)
(* are gone, and a nested scope has been completed first.                       *)
TransferFundedBytes ==
  /\ Running
  /\ \A i \in 1..top : /\ NestedCompleted(i)
                       /\ level[i].session = "none" /\ level[i].array = 0
  /\ retained' = retained + budget.bytes /\ budget' = Transferred
  /\ level' = [i \in Depths |-> [level[i] EXCEPT !.kept = 0]]
  /\ published' = TRUE
  /\ UNCHANGED <<top, mode, account>>

(* The storage is closed and unused, at any later time: see FundedStorage.      *)
StorageRefunds ==
  /\ retained # 0
  /\ account' = account - retained /\ retained' = 0
  /\ UNCHANGED <<budget, top, level, mode, published>>

--------------------------------------------------------------------------------
Leaving == mode \in {"leave", "throw"}

(* Utf8ConstructionBuffer.Dispose.                                              *)
DisposeBuffer ==
  /\ Leaving /\ Current.array # 0
  /\ LET n == Current.array
     IN  IF ~Releasable(ArrayBytes(n), n) THEN Breaks
         ELSE /\ budget' = Released(ArrayBytes(n), n)
              /\ Become([Current EXCEPT !.array = 0], budget.bytes)
              /\ account' = account - ArrayBytes(n)
              /\ UNCHANGED <<top, mode, published, retained>>

(* Utf8ConstructionArena.Dispose.                                               *)
ArenaRelease ==
  IF Current.session = "completed" THEN Current.temporary
  ELSE Current.temporary + Current.payload

(* Utf8ConstructionSession.Dispose: the arena, then the depth frame.            *)
DisposeSession ==
  /\ Leaving /\ Current.array = 0 /\ Current.session # "none"
  /\ IF ~Releasable(ArenaRelease, 0) \/ budget.depth = 0 THEN Breaks
     ELSE /\ budget' = [Released(ArenaRelease, 0) EXCEPT !.depth = @ - 1]
          /\ Become([Current EXCEPT !.session = "none", !.temporary = 0, !.payload = 0,
                                    !.kept = IF Current.session = "completed"
                                             THEN @ + Current.payload ELSE @],
                    budget.bytes)
          /\ account' = account - ArenaRelease
          /\ UNCHANGED <<top, mode, published, retained>>

(* Rollback throws when a checkpoint exceeds what is reserved.                  *)
CanRollback ==
  Current.slots <= budget.slots /\ Current.bytes <= budget.bytes
    /\ Current.depth <= budget.depth

(* The root owns the funding and releases whatever is left.                     *)
Rest(b) == IF top = 1 THEN [b EXCEPT !.bytes = 0] ELSE b

\* mutant: the peak of the outer owner forgets the inner one
RestoreByteLimit_OldPeak(b) ==
  IF Current.restricted THEN [b EXCEPT !.maxBytes = Current.max, !.peak = Current.peak]
  ELSE b

RestoreByteLimit(b) ==
  IF Current.restricted
  THEN [b EXCEPT !.maxBytes = Current.max, !.peak = MaxOf(@, Current.peak)]
  ELSE b

\* mutant: slots are not rolled back
RolledBack_Bytes ==
  IF Current.completed THEN budget
  ELSE [budget EXCEPT !.bytes = Current.bytes, !.depth = Current.depth]

RolledBack ==
  IF Current.completed THEN budget
  ELSE [budget EXCEPT !.slots = Current.slots, !.bytes = Current.bytes,
                      !.depth = Current.depth]

(* Utf8ConstructionScope.Dispose.  What a completed scope leaves reserved is    *)
(* the enclosing scope's from then on.  An exception may be caught there.       *)
DisposeScope ==
  /\ Leaving /\ Current.array = 0 /\ Current.session = "none"
  /\ IF ~Current.completed /\ ~CanRollback THEN Breaks
     ELSE LET b == RestoreByteLimit(Rest(RolledBack))
          IN  /\ budget' = b
              /\ account' = account - (budget.bytes - b.bytes)
              /\ level' = [i \in Depths |->
                             IF i = top THEN Blank
                             ELSE IF i = top - 1 /\ Current.completed /\ ~published
                             THEN [level[i] EXCEPT
                                     !.kept = @ + (b.bytes - Current.bytes),
                                     !.keptSlots = @ + (b.slots - Current.slots)]
                             ELSE level[i]]
              /\ top' = top - 1
              /\ \/ top = 1 /\ mode' = "idle"
                 \/ top > 1 /\ mode' = "run"
                 \/ top > 1 /\ mode = "throw" /\ mode' = "throw"
              /\ UNCHANGED <<published, retained>>

Next ==
  \/ EnterFunded \/ Throw \/ Enter \/ \E a \in Additional : RestrictAdditionalBytes(a)
  \/ AllocateObject \/ FactoryThrows
  \/ CreateSession \/ CompleteSession
  \/ \E n \in 1..MaxSlots, p \in BOOLEAN : ArenaAllocate(n, p)
  \/ \E n \in 1..(MaxSlots + 1) : Grow(n) \/ GrowthRefused(n)
  \/ \E n \in 1..MaxSlots : TakeExact(n)
  \/ TakeWhole \/ CopyDone \/ CopyThrows
  \/ Complete \/ Return \/ TransferFundedBytes \/ StorageRefunds
  \/ DisposeBuffer \/ DisposeSession \/ DisposeScope

Spec == Init /\ [][Next]_vars

--------------------------------------------------------------------------------
Scopes == 1..top

(* What level i has reserved on top of its checkpoint, and who holds it.        *)
BytesOf(l) == ArrayBytes(l.array) + ArrayBytes(l.grown) + l.temporary + l.payload + l.kept
SlotsOf(l) == l.array + l.grown + l.keptSlots
DepthOf(l) == IF l.session = "none" THEN 0 ELSE 1

Budgets == [slots : Nat, bytes : Nat, maxBytes : Nat, peak : Nat, work : Nat, depth : Nat]

Levels ==
  [slots : Nat, bytes : Nat, depth : Nat, completed : BOOLEAN,
   restricted : BOOLEAN, max : Nat, peak : Nat,
   session : {"none", "open", "completed"}, temporary : Nat, payload : Nat,
   array : Nat, grown : Nat, taking : BOOLEAN, kept : Nat, keptSlots : Nat,
   additional : Nat, high : Nat]

TypeOK ==
  /\ budget \in Budgets /\ level \in [Depths -> Levels]
  /\ top \in 0..MaxScopes
  /\ mode \in {"idle", "run", "leave", "throw", "broken"}
  /\ published \in BOOLEAN /\ retained \in Nat /\ account \in Nat
  /\ mode = "idle" <=> top = 0

(* None of the InvalidOperationExceptions of budget and buffer is reachable: no *)
(* rollback finds less reserved than at its checkpoint, no release exceeds what *)
(* is admitted, and a buffer that cannot grow names the limit that stops it,    *)
(* whatever fails in between and wherever the bytes are transferred.            *)
NoInternalError == mode # "broken"

(* Before publication every admitted byte, slot and depth frame has one holder: *)
(* each scope's checkpoints are what the scopes around it hold.  After it, and  *)
(* outside of any construction, the host carries what the storage took over.    *)
Accounted ==
  /\ account = budget.bytes + retained
  /\ top = 0 \/ published => budget.bytes = 0
  /\ ~published =>
       \A i \in Scopes :
         LET b == IF i = top THEN budget ELSE level[i + 1]
         IN  /\ b.bytes = level[i].bytes + BytesOf(level[i])
             /\ b.slots = level[i].slots + SlotsOf(level[i])
             /\ b.depth = level[i].depth + DepthOf(level[i])

(* A restricted scope never has more than its additional bytes, however deep    *)
(* restrictions nest, and leaving it gives the enclosing ceiling back.          *)
CeilingsNest ==
  LET restricted == {i \in Scopes : level[i].restricted}
      ceilings == {level[i].bytes + level[i].additional : i \in restricted} \cup {MaxBytes}
  IN  /\ budget.bytes <= budget.maxBytes
      /\ budget.maxBytes \in ceilings
      /\ \A c \in ceilings : budget.maxBytes <= c

(* PeakBytes is the most that was reserved since the innermost restricted scope *)
(* was entered, or since the root was: a nested preparation neither hides the   *)
(* peak of the owner around it nor lends it its own history.                    *)
PeakIsHighWater ==
  \A i \in Scopes :
    (i = 1 \/ level[i].restricted) /\ (\A j \in Scopes : j > i => ~level[j].restricted)
      => budget.peak = level[i].high
================================================================================
