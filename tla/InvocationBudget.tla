---------------------------- MODULE InvocationBudget ----------------------------
(* One invocation: Utf8ExecutionBudget, Utf8StorageLedger and the ledgers of    *)
(* what it holds: a staging buffer, results, the loan of a construction scope,  *)
(* and the reservation of a replacement's preparation.  An invocation runs on   *)
(* one thread; what may fail between two of its steps is what interleaves.      *)
EXTENDS Integers

CONSTANTS Max,           \* ulong.MaxValue
          Limits,        \* the limits an invocation may have; 0 is unlimited
          Sizes, Depths, \* bytes asked for, depths noted
          Policies,      \* MaximumBytes of the construction policy
          Baselines      \* bytes its scope holds when a preparation begins

ASSUME MaxAssumption == Max \in Nat \ {0}
ASSUME LimitsAssumption ==
  Limits \subseteq [work : 0..Max, depth : 0..Max, working : 0..Max, result : 0..Max]
ASSUME SizesAssumption ==
  Sizes \subseteq 1..Max /\ Depths \subseteq 0..Max /\ Policies \subseteq 0..Max
    /\ Baselines \subseteq 0..Max

VARIABLES limits, funded, \* Limits; the invocation has a memory allowance
          budget,         \* Utf8ExecutionBudget
          reserved,       \* _reservedBytes of the storage ledger
          own,            \* who holds what is reserved
          prep,           \* the nested construction of a preparation
          account,        \* bytes the host's allowance counts
          transferred,    \* bytes a receipt has taken over
          mode,           \* "run", "prepare", "leave", "fail", "ended", "broken"
          cause           \* of a failure

vars == <<limits, funded, budget, reserved, own, prep, account, transferred, mode, cause>>

storage == <<reserved, own, account, transferred>>
fixed == <<limits, funded>>

Kinds == {"WorkSteps", "Depth", "WorkingBytes", "ResultBytes"}

NoPrep == [available |-> 0, baseline |-> 0, ceiling |-> 0, held |-> 0, peak |-> 0]
NoHolders == [staging |-> 0, pending |-> 0, for |-> "none", results |-> 0, loan |-> 0,
              preparation |-> 0]

Init ==
  /\ limits \in Limits /\ funded \in BOOLEAN
  /\ budget = [steps |-> 0, depth |-> 0, peak |-> 0, result |-> 0, breach |-> "None"]
  /\ reserved = 0 /\ own = NoHolders /\ prep = NoPrep
  /\ account = 0 /\ transferred = 0 /\ mode = "run" /\ cause = "none"

--------------------------------------------------------------------------------
\* mutant: additions wrap
Saturated_Wraps(a, b) == (a + b) % (Max + 1)

(* Additions of ulongs saturate.                                                *)
Saturated(a, b) == IF a + b > Max THEN Max ELSE a + b

MaxOf(a, b) == IF a > b THEN a ELSE b
MinOf(a, b) == IF a < b THEN a ELSE b
Over(value, limit) == limit # 0 /\ value > limit

Breached(b) == b.breach # "None"

(* The first denial is the one that stays.                                      *)
Denied(b, denied, kind) == IF denied /\ ~Breached(b) THEN [b EXCEPT !.breach = kind] ELSE b

(* TryChargeStep: a saturated counter is denied under any finite limit.         *)
StepCharged ==
  Denied([budget EXCEPT !.steps = Saturated(@, 1)],
         limits.work # 0 /\ budget.steps + 1 > limits.work, "WorkSteps")

DepthNoted(d) ==
  Denied([budget EXCEPT !.depth = MaxOf(@, d)], Over(d, limits.depth), "Depth")

(* TryChargeResultBytes: nothing is charged once anything has been denied.      *)
ResultCharged(n) ==
  IF limits.result = 0 \/ Breached(budget) THEN budget
  ELSE Denied([budget EXCEPT !.result = Saturated(@, n)],
              budget.result + n > limits.result, "ResultBytes")

\* mutant: the extent that is still held is not part of the request
WorkingNoted_NoOverlap(b, n) ==
  IF Breached(b) THEN b
  ELSE Denied([b EXCEPT !.peak = MaxOf(@, n)], Over(n, limits.working), "WorkingBytes")

\* mutant: a later denial replaces the first
WorkingNoted_Overwrites(b, n) ==
  LET requested == Saturated(reserved, n)
      c == [b EXCEPT !.peak = MaxOf(@, requested)]
  IN  IF Over(requested, limits.working) \/ reserved + n > Max
      THEN [c EXCEPT !.breach = "WorkingBytes"] ELSE c

(* TryReserveWorking up to the host: the limit is checked against what is held  *)
(* and asked for together, and the ledger refuses what it cannot count.         *)
WorkingNoted(b, n) ==
  LET requested == Saturated(reserved, n)
  IN  IF Breached(b) THEN b
      ELSE Denied([b EXCEPT !.peak = MaxOf(@, requested)],
                  Over(requested, limits.working) \/ reserved + n > Max, "WorkingBytes")

--------------------------------------------------------------------------------
(* An exception of this cause leaves the operation.                             *)
Fail(why) == mode' = "fail" /\ cause' = why

Active == mode \in {"run", "prepare"}

(* Utf8StorageLedger.Release, and the host's.                                   *)
Release(n) ==
  /\ reserved' = reserved - n
  /\ account' = IF funded THEN account - n ELSE account

(* "Storage release exceeds the outstanding reservation."                       *)
Breaks == mode' = "broken" /\ UNCHANGED <<fixed, budget, storage, prep, cause>>

(* TryReserveWorking with budget b, for a holder that then has own h.           *)
Acquire(b, n, h) ==
  LET c == WorkingNoted(b, n)
  IN  \/ Breached(c) /\ budget' = c /\ Fail("breach") /\ UNCHANGED storage
      \/ ~Breached(c) /\ funded /\ n # 0 /\ budget' = c /\ Fail("host") /\ UNCHANGED storage
      \/ /\ ~Breached(c) /\ budget' = c /\ own' = h
         /\ reserved' = reserved + n
         /\ account' = IF funded THEN account + n ELSE account
         /\ mode' = "run" /\ UNCHANGED <<cause, transferred>>

(* A release by holder h' of n bytes that are its own.                          *)
Drop(n, h) ==
  IF n > reserved THEN Breaks
  ELSE Release(n) /\ own' = h /\ UNCHANGED <<fixed, budget, prep, transferred, mode, cause>>

--------------------------------------------------------------------------------
(* Work of the machine.  A denial is a return value: the machine goes on until  *)
(* a caller turns it into an exception, the compiler of a preparation at once.  *)
ChargeStep ==
  /\ Active /\ budget' = StepCharged
  /\ IF Breached(StepCharged) /\ mode = "prepare" THEN Fail("breach")
     ELSE UNCHANGED <<mode, cause>>
  /\ UNCHANGED <<fixed, storage, prep>>

NoteDepth(d) ==
  /\ mode = "run" /\ budget' = DepthNoted(d)
  /\ UNCHANGED <<fixed, storage, prep, mode, cause>>

(* CreateResourceFailure and ThrowIfSliceBreached.                              *)
ThrowDenied ==
  /\ mode = "run" /\ Breached(budget) /\ Fail("breach")
  /\ UNCHANGED <<fixed, budget, storage, prep>>

(* The token is cancelled or the deadline has passed, at any checkpoint.        *)
Interrupt ==
  /\ Active /\ Fail("interrupted")
  /\ UNCHANGED <<fixed, budget, storage, prep>>

(* TryPush of a full buffer (Utf8InvocationResultBuffer.Add) and AllocateArray: *)
(* result bytes are charged, then working bytes, the old extent still held.     *)
Request(n, for) ==
  /\ mode = "run" /\ own.pending = 0
  /\ for = "staging" => n > own.staging
  /\ LET b == ResultCharged(n)
     IN  IF Breached(b)
         THEN budget' = b /\ Fail("breach") /\ UNCHANGED storage
         ELSE Acquire(b, n, [own EXCEPT !.pending = n, !.for = for])
  /\ UNCHANGED <<fixed, prep>>

\* mutant: the reservation of an extent that was not adopted is kept
Abandon_Keeps ==
  /\ mode = "fail" /\ own.pending # 0
  /\ own' = [own EXCEPT !.pending = 0, !.for = "none"]
  /\ UNCHANGED <<fixed, budget, reserved, account, transferred, prep, mode, cause>>

(* A checkpoint or the copy failed: the new extent is released.                 *)
Abandon ==
  /\ mode = "fail" /\ own.pending # 0
  /\ Drop(own.pending, [own EXCEPT !.pending = 0, !.for = "none"])

\* mutant: the old extent is released with the size of the new one
Adopt_ReleasesNew ==
  /\ mode = "run" /\ own.pending # 0
  /\ IF own.for = "staging"
     THEN Drop(own.pending, [own EXCEPT !.staging = own.pending, !.pending = 0, !.for = "none"])
     ELSE /\ own' = [own EXCEPT !.results = @ + own.pending, !.pending = 0, !.for = "none"]
          /\ UNCHANGED <<fixed, budget, reserved, account, transferred, prep, mode, cause>>

(* The new extent is filled: the buffer releases its old one, a result counts.  *)
Adopt ==
  /\ mode = "run" /\ own.pending # 0
  /\ IF own.for = "staging"
     THEN Drop(own.staging, [own EXCEPT !.staging = own.pending, !.pending = 0, !.for = "none"])
     ELSE /\ own' = [own EXCEPT !.results = @ + own.pending, !.pending = 0, !.for = "none"]
          /\ UNCHANGED <<fixed, budget, reserved, account, transferred, prep, mode, cause>>

(* CompleteArray of a full buffer: the result takes its loan over.              *)
TakeFullArray ==
  /\ mode = "run" /\ own.staging # 0 /\ own.pending = 0
  /\ own' = [own EXCEPT !.results = @ + own.staging, !.staging = 0]
  /\ UNCHANGED <<fixed, budget, reserved, account, transferred, prep, mode, cause>>

Leaving == mode \in {"leave", "fail"} /\ own.pending = 0

ReleaseStaging ==
  /\ mode = "run" \/ Leaving
  /\ own.staging # 0 /\ own.for # "staging"
  /\ Drop(own.staging, [own EXCEPT !.staging = 0])

(* ReleaseSince and Release of the result ledger.                               *)
ReleaseSince(marker) ==
  /\ (mode = "run" /\ own.pending = 0) \/ (Leaving /\ marker = 0)
  /\ marker < own.results
  /\ Drop(own.results - marker, [own EXCEPT !.results = marker])

(* TransferSince: the host keeps counting the bytes, for a receipt.  Bound:     *)
(* receipts have no more than Max bytes.                                        *)
TransferSince(marker) ==
  /\ mode = "run" /\ own.pending = 0 /\ funded /\ marker < own.results
  /\ LET n == own.results - marker
     IN  IF n > reserved THEN Breaks
         ELSE /\ transferred + n <= Max
              /\ reserved' = reserved - n /\ transferred' = transferred + n
              /\ own' = [own EXCEPT !.results = marker]
              /\ UNCHANGED <<fixed, budget, account, prep, mode, cause>>

(* A construction scope borrows the ledger as its allowance.                    *)
Borrow(n) ==
  /\ mode = "run" /\ funded /\ own.pending = 0
  /\ Acquire(budget, n, [own EXCEPT !.loan = @ + n])
  /\ UNCHANGED <<fixed, prep>>

Repay(n) ==
  /\ (mode = "run" /\ own.pending = 0) \/ (Leaving /\ n = own.loan)
  /\ n # 0 /\ n <= own.loan
  /\ Drop(n, [own EXCEPT !.loan = @ - n])

--------------------------------------------------------------------------------
\* mutant: the ceiling forgets what is reserved
PrepareAvailable_All == limits.working

(* What the working limit leaves, as a ulong.                                   *)
PrepareAvailable == (limits.working - reserved) % (Max + 1)

(* Pcre2ReplacementPreparationControl.Prepare: a checkpoint, then a nested      *)
(* construction that may use no more than what is left.                         *)
Prepare(policy, baseline) ==
  /\ mode = "run" /\ own.pending = 0 /\ ~funded /\ limits.working # 0
  /\ budget' = StepCharged /\ baseline <= policy
  /\ IF Breached(StepCharged) THEN Fail("breach") /\ prep' = prep
     ELSE /\ mode' = "prepare" /\ cause' = cause
          /\ prep' = [available |-> PrepareAvailable, baseline |-> baseline,
                      ceiling |-> MinOf(policy, Saturated(baseline, PrepareAvailable)),
                      held |-> 0, peak |-> 0]
  /\ UNCHANGED <<fixed, storage>>

(* The ceiling is the public one, not that of a tighter construction policy.    *)
PublicCeiling ==
  prep.available <= Max - prep.baseline /\ prep.ceiling = prep.baseline + prep.available

(* The compiler allocates.  A denial under the public ceiling is reported as a  *)
(* denial of working bytes; the construction's own failure is rethrown if that  *)
(* were admitted, and under a tighter policy.  Bound: one construction does not *)
(* ask for more than a ulong counts; its extents are lengths of arrays.         *)
Construct(n) ==
  /\ mode = "prepare" /\ prep.baseline + prep.held + n <= Max
  /\ LET requested == prep.baseline + prep.held + n
     IN  IF requested <= prep.ceiling
         THEN /\ prep' = [prep EXCEPT !.held = @ + n, !.peak = MaxOf(@, prep.held + n)]
              /\ UNCHANGED <<budget, storage, mode, cause>>
         ELSE /\ prep' = NoPrep
              /\ IF ~PublicCeiling
                 THEN Fail("construction") /\ UNCHANGED <<budget, storage>>
                 ELSE LET c == WorkingNoted(budget, requested - prep.baseline)
                      IN  /\ budget' = c
                          /\ IF Breached(c) THEN Fail("breach") /\ UNCHANGED storage
                             ELSE /\ Fail("construction")
                                  /\ reserved' = reserved + requested - prep.baseline
                                  /\ UNCHANGED <<own, account, transferred>>
  /\ UNCHANGED fixed

ConstructRelease(n) ==
  /\ mode = "prepare" /\ n <= prep.held
  /\ prep' = [prep EXCEPT !.held = @ - n]
  /\ UNCHANGED <<fixed, budget, storage, mode, cause>>

(* The peak is reserved until the control is disposed.                          *)
Prepared ==
  /\ mode = "prepare" /\ prep' = NoPrep
  /\ Acquire(budget, prep.peak, [own EXCEPT !.preparation = @ + prep.peak])
  /\ UNCHANGED fixed

ReleasePreparation ==
  /\ Leaving /\ own.preparation # 0
  /\ Drop(own.preparation, [own EXCEPT !.preparation = 0])

--------------------------------------------------------------------------------
(* FinishFundedInvocation: the last checkpoint of a funded invocation, before   *)
(* its result is published.                                                     *)
Finish ==
  /\ mode = "run" /\ own.pending = 0 /\ funded
  /\ budget' = StepCharged
  /\ IF Breached(StepCharged) THEN Fail("breach") ELSE mode' = "leave" /\ cause' = cause
  /\ UNCHANGED <<fixed, storage, prep>>

(* An unfunded operation returns what its engine found without one.  Where the  *)
(* engine reports a denial every caller throws, as ThrowDenied says.            *)
Return ==
  /\ mode = "run" /\ own.pending = 0 /\ ~funded /\ ~Breached(budget)
  /\ mode' = "leave"
  /\ UNCHANGED <<fixed, budget, storage, prep, cause>>

(* The operation's last finally releases what a funded ledger still counts; an  *)
(* unfunded one is dropped with the invocation.                                 *)
End ==
  /\ Leaving /\ own.loan = 0
  /\ mode' = "ended" /\ own' = NoHolders /\ prep' = NoPrep
  /\ Release(reserved)
  /\ UNCHANGED <<fixed, budget, transferred, cause>>

Next ==
  \/ ChargeStep \/ \E d \in Depths : NoteDepth(d)
  \/ ThrowDenied \/ Interrupt
  \/ \E n \in Sizes : Request(n, "staging") \/ Request(n, "result")
  \/ Abandon \/ Adopt \/ TakeFullArray \/ ReleaseStaging
  \/ \E m \in 0..Max : ReleaseSince(m) \/ TransferSince(m)
  \/ \E n \in Sizes : Borrow(n)
  \/ \E n \in 1..Max : Repay(n)
  \/ \E p \in Policies, b \in Baselines : Prepare(p, b)
  \/ \E n \in Sizes : Construct(n) \/ ConstructRelease(n)
  \/ Prepared \/ ReleasePreparation
  \/ Finish \/ Return \/ End

Spec == Init /\ [][Next]_vars

--------------------------------------------------------------------------------
Budgets ==
  [steps : 0..Max, depth : 0..Max, peak : 0..Max, result : 0..Max,
   breach : Kinds \cup {"None"}]

Preparations ==
  [available : 0..Max, baseline : 0..Max, ceiling : 0..Max, held : 0..Max, peak : 0..Max]

Holders ==
  [staging : 0..Max, pending : 0..Max, for : {"none", "staging", "result"},
   results : 0..Max, loan : 0..Max, preparation : 0..Max]

(* Every counter is a ulong: no sum wraps and no difference is negative.        *)
TypeOK ==
  /\ limits \in Limits /\ funded \in BOOLEAN
  /\ budget \in Budgets
  /\ reserved \in 0..Max /\ own \in Holders /\ account \in Nat /\ transferred \in Nat
  /\ prep \in Preparations
  /\ mode \in {"run", "prepare", "leave", "fail", "ended", "broken"}
  /\ cause \in {"none", "breach", "host", "interrupted", "construction"}

HeldBy(h) == h.staging + h.pending + h.results + h.loan + h.preparation

(* What the ledger counts is held by someone, no release exceeds it, and the    *)
(* host counts that and what receipts took over: whatever fails in between,     *)
(* nothing stays behind when the invocation has ended.                          *)
Conserved ==
  /\ mode # "broken"
  /\ reserved = HeldBy(own)
  /\ account = transferred + (IF funded THEN reserved ELSE 0)
  /\ mode = "ended" => reserved = 0

NoneOver(b) ==
  /\ ~Over(b.steps, limits.work) /\ ~Over(b.depth, limits.depth)
  /\ ~Over(b.peak, limits.working) /\ ~Over(b.result, limits.result)

(* The working limit bounds what is held at any moment, overlaps included, so   *)
(* that the ceiling of a preparation is what the limit leaves; while nothing    *)
(* has been denied no counter is over its limit.                                *)
WithinLimits ==
  /\ ~Over(reserved, limits.working) /\ reserved <= budget.peak
  /\ prep.ceiling # 0 => PrepareAvailable = limits.working - reserved
  /\ ~Breached(budget) => NoneOver(budget)

(* CreateResourceFailure: the limit and the request an exception reports.       *)
Reported(b) ==
  CASE b.breach = "WorkSteps" -> <<limits.work, b.steps>>
    [] b.breach = "Depth" -> <<limits.depth, b.depth>>
    [] b.breach = "ResultBytes" -> <<limits.result, b.result>>
    [] b.breach = "WorkingBytes" -> <<limits.working, b.peak>>

Explained(b) == Reported(b)[2] > Reported(b)[1] \/ Reported(b)[2] = Max

(* A failure of the budget reports the counter that was denied, and with it a   *)
(* request over the limit, or one that no ulong can count, although counters    *)
(* saturate and go on counting; and no funded invocation that denied something  *)
(* at or before its last checkpoint ends well.                                  *)
FailuresExplained ==
  /\ cause = "breach" => Breached(budget)
  /\ Breached(budget) => Explained(budget)
  /\ mode = "leave" /\ funded => ~Breached(budget)

(* Once something was denied that denial is the one reported, and nothing more  *)
(* is admitted: no step reserves working bytes or charges result bytes.         *)
FirstDenialStands ==
  [][Breached(budget) => /\ budget'.breach = budget.breach
                         /\ reserved' <= reserved /\ budget'.result = budget.result]_vars

(* The preparation's own construction failure escapes only under a construction *)
(* policy tighter than the working limit, and its peak is always admitted.      *)
CeilingIsTheLimit ==
  [][mode = "prepare" /\ PublicCeiling =>
       cause' # "construction" /\ (Prepared => mode' = "run")]_vars
================================================================================
