------------------------- MODULE InvocationBudgetProofs -------------------------
(* Safety of InvocationBudget for every width, limit and size.                  *)
EXTENDS InvocationBudget, TLAPS

(* A preparation runs on an unfunded invocation that has denied nothing; what   *)
(* it holds is under its ceiling, and the ceiling is under what is left.        *)
Ceiled(p) ==
  /\ p.held <= p.peak
  /\ p.peak = 0 \/ p.baseline + p.peak <= p.ceiling
  /\ p.ceiling # 0 => limits.working # 0
  /\ p.ceiling <= p.baseline + p.available

PrepInv ==
  /\ Ceiled(prep)
  /\ mode = "prepare" =>
       /\ ~Breached(budget) /\ own.pending = 0 /\ ~funded /\ limits.working # 0
       /\ prep.available = limits.working - reserved

IInv ==
  /\ TypeOK /\ Conserved /\ WithinLimits /\ FailuresExplained /\ PrepInv

--------------------------------------------------------------------------------
LEMMA Numbers ==
  ASSUME NEW l \in Limits
  PROVE  /\ Max \in Nat \ {0}
         /\ l.work \in 0..Max /\ l.depth \in 0..Max
         /\ l.working \in 0..Max /\ l.result \in 0..Max
  BY MaxAssumption, LimitsAssumption

(* What a denial of each kind is explained by.                                  *)
Shown(kind, b) ==
  /\ kind = "WorkSteps" => b.steps > limits.work \/ b.steps = Max
  /\ kind = "Depth" => b.depth > limits.depth \/ b.depth = Max
  /\ kind = "ResultBytes" => b.result > limits.result \/ b.result = Max
  /\ kind = "WorkingBytes" => b.peak > limits.working \/ b.peak = Max

LEMMA ExplainedIsShown ==
  ASSUME NEW b \in Budgets, Breached(b)
  PROVE  Explained(b) <=> Shown(b.breach, b)
  <1>1. CASE b.breach = "WorkSteps"
    BY <1>1 DEF Explained, Reported, Shown
  <1>2. CASE b.breach = "Depth"
    BY <1>2 DEF Explained, Reported, Shown
  <1>3. CASE b.breach = "ResultBytes"
    BY <1>3 DEF Explained, Reported, Shown
  <1>4. CASE b.breach = "WorkingBytes"
    BY <1>4 DEF Explained, Reported, Shown
  <1> QED BY <1>1, <1>2, <1>3, <1>4 DEF Budgets, Kinds, Breached

(* What a call of the budget may do to it: the counters only grow, the first    *)
(* denial stays, a denial explains itself, and without one all is within.       *)
Grows(b, c) ==
  /\ c \in Budgets
  /\ b.steps <= c.steps /\ b.depth <= c.depth /\ b.peak <= c.peak
  /\ b.result <= c.result

GoodBudget(b) ==
  /\ ~Breached(b) => NoneOver(b)
  /\ Breached(b) => Shown(b.breach, b)

Sound(b, c) ==
  /\ Grows(b, c)
  /\ Breached(b) => c.breach = b.breach /\ c.result = b.result
  /\ GoodBudget(b) => GoodBudget(c)

LEMMA BudgetFields ==
  ASSUME NEW b \in Budgets
  PROVE  /\ b.steps \in 0..Max /\ b.depth \in 0..Max /\ b.peak \in 0..Max
         /\ b.result \in 0..Max /\ b.breach \in Kinds \cup {"None"}
  BY DEF Budgets

LEMMA DeniedSound ==
  ASSUME limits \in Limits,
         NEW b \in Budgets, NEW c \in Budgets, NEW denied \in BOOLEAN, NEW kind \in Kinds,
         Grows(b, c), c.breach = b.breach, Breached(b) => c.result = b.result,
         ~Breached(b) /\ NoneOver(b) /\ ~denied => NoneOver(c),
         denied => Shown(kind, c)
  PROVE  /\ Sound(b, Denied(c, denied, kind))
         /\ Breached(Denied(c, denied, kind)) <=> Breached(b) \/ denied
         /\ Denied(c, denied, kind).peak = c.peak
  <1>1. /\ b.steps \in 0..Max /\ b.depth \in 0..Max /\ b.peak \in 0..Max
        /\ b.result \in 0..Max /\ c.steps \in 0..Max /\ c.depth \in 0..Max
        /\ c.peak \in 0..Max /\ c.result \in 0..Max
        /\ limits.work \in 0..Max /\ limits.depth \in 0..Max
        /\ limits.working \in 0..Max /\ limits.result \in 0..Max /\ Max \in Nat
    BY BudgetFields, Numbers
  <1> DEFINE d == [c EXCEPT !.breach = kind]
  <1>2. /\ d \in Budgets /\ d.steps = c.steps /\ d.depth = c.depth /\ d.peak = c.peak
        /\ d.result = c.result /\ d.breach = kind /\ Breached(d)
    BY DEF Budgets, Kinds, Breached
  <1> HIDE DEF d
  <1>3. CASE denied /\ ~Breached(b)
    <2>1. Denied(c, denied, kind) = d
      BY <1>3 DEF Denied, Breached, d
    <2>2. Shown(kind, d)
      BY <1>2, <1>3 DEF Shown
    <2> QED BY <1>1, <1>2, <1>3, <2>1, <2>2 DEF Sound, Grows, GoodBudget
  <1>4. CASE ~denied /\ ~Breached(b)
    BY <1>4 DEF Denied, Sound, GoodBudget, Breached
  <1>5. CASE Breached(b)
    <2>1. Denied(c, denied, kind) = c /\ Breached(c)
      BY <1>5 DEF Denied, Breached
    <2>2. Shown(b.breach, b) => Shown(c.breach, c)
      BY <1>1, <1>5 DEF Shown, Grows
    <2> QED BY <1>5, <2>1, <2>2 DEF Sound, GoodBudget
  <1> QED BY <1>3, <1>4, <1>5

LEMMA StepChargedSound ==
  ASSUME limits \in Limits, budget \in Budgets
  PROVE  Sound(budget, StepCharged)
  <1> DEFINE c == [budget EXCEPT !.steps = Saturated(@, 1)]
             denied == limits.work # 0 /\ budget.steps + 1 > limits.work
  <1>1. /\ budget.steps \in 0..Max /\ Max \in Nat /\ limits.work \in 0..Max
        /\ budget.depth \in 0..Max /\ budget.peak \in 0..Max /\ budget.result \in 0..Max
    BY BudgetFields, Numbers
  <1>2. /\ Saturated(budget.steps, 1) \in 0..Max
        /\ budget.steps <= Saturated(budget.steps, 1)
        /\ denied => Saturated(budget.steps, 1) > limits.work \/ Saturated(budget.steps, 1) = Max
        /\ ~denied => ~Over(Saturated(budget.steps, 1), limits.work)
    BY <1>1 DEF Saturated, Over
  <1>3. /\ c \in Budgets /\ c.steps = Saturated(budget.steps, 1) /\ c.depth = budget.depth
        /\ c.peak = budget.peak /\ c.result = budget.result /\ c.breach = budget.breach
    BY <1>2 DEF Budgets
  <1>4. StepCharged = Denied(c, denied, "WorkSteps")
    BY DEF StepCharged
  <1> HIDE DEF c, denied
  <1>5. Grows(budget, c) /\ denied \in BOOLEAN /\ "WorkSteps" \in Kinds
    BY <1>1, <1>2, <1>3 DEF Grows, denied, Kinds
  <1>6. denied => Shown("WorkSteps", c)
    BY <1>2, <1>3 DEF Shown
  <1>7. NoneOver(budget) /\ ~denied => NoneOver(c)
    BY <1>2, <1>3 DEF NoneOver
  <1> QED BY <1>3, <1>4, <1>5, <1>6, <1>7, DeniedSound

LEMMA DepthNotedSound ==
  ASSUME limits \in Limits, budget \in Budgets, NEW n \in 0..Max
  PROVE  Sound(budget, DepthNoted(n))
  <1> DEFINE c == [budget EXCEPT !.depth = MaxOf(@, n)]
             denied == Over(n, limits.depth)
  <1>1. /\ budget.steps \in 0..Max /\ Max \in Nat /\ limits.depth \in 0..Max
        /\ budget.depth \in 0..Max /\ budget.peak \in 0..Max /\ budget.result \in 0..Max
    BY BudgetFields, Numbers
  <1>2. /\ MaxOf(budget.depth, n) \in 0..Max
        /\ budget.depth <= MaxOf(budget.depth, n)
        /\ denied => MaxOf(budget.depth, n) > limits.depth
        /\ ~denied /\ ~Over(budget.depth, limits.depth)
             => ~Over(MaxOf(budget.depth, n), limits.depth)
    BY <1>1 DEF MaxOf, Over
  <1>3. /\ c \in Budgets /\ c.depth = MaxOf(budget.depth, n) /\ c.steps = budget.steps
        /\ c.peak = budget.peak /\ c.result = budget.result /\ c.breach = budget.breach
    BY <1>2 DEF Budgets
  <1>4. DepthNoted(n) = Denied(c, denied, "Depth")
    BY DEF DepthNoted
  <1>0. denied \in BOOLEAN
    BY DEF Over
  <1> HIDE DEF c, denied
  <1>5. Grows(budget, c) /\ "Depth" \in Kinds
    BY <1>1, <1>2, <1>3 DEF Grows, Kinds
  <1>6. denied => Shown("Depth", c)
    BY <1>2, <1>3 DEF Shown
  <1>7. NoneOver(budget) /\ ~denied => NoneOver(c)
    BY <1>2, <1>3 DEF NoneOver
  <1> QED BY <1>0, <1>3, <1>4, <1>5, <1>6, <1>7, DeniedSound

LEMMA ResultChargedSound ==
  ASSUME limits \in Limits, budget \in Budgets, NEW n \in 0..Max
  PROVE  Sound(budget, ResultCharged(n))
  <1> DEFINE c == [budget EXCEPT !.result = Saturated(@, n)]
             denied == budget.result + n > limits.result
  <1>1. /\ budget.steps \in 0..Max /\ Max \in Nat /\ limits.result \in 0..Max
        /\ budget.depth \in 0..Max /\ budget.peak \in 0..Max /\ budget.result \in 0..Max
    BY BudgetFields, Numbers
  <1>2. CASE limits.result = 0 \/ Breached(budget)
    BY <1>1, <1>2 DEF ResultCharged, Sound, Grows
  <1>3. CASE limits.result # 0 /\ ~Breached(budget)
    <2>2. /\ Saturated(budget.result, n) \in 0..Max
          /\ budget.result <= Saturated(budget.result, n)
          /\ denied => Saturated(budget.result, n) > limits.result
                        \/ Saturated(budget.result, n) = Max
          /\ ~denied => ~Over(Saturated(budget.result, n), limits.result)
      BY <1>1 DEF Saturated, Over
    <2>3. /\ c \in Budgets /\ c.result = Saturated(budget.result, n)
          /\ c.steps = budget.steps /\ c.depth = budget.depth
          /\ c.peak = budget.peak /\ c.breach = budget.breach
      BY <2>2 DEF Budgets
    <2>4. ResultCharged(n) = Denied(c, denied, "ResultBytes")
      BY <1>3 DEF ResultCharged
    <2> HIDE DEF c, denied
    <2>5. Grows(budget, c) /\ denied \in BOOLEAN /\ "ResultBytes" \in Kinds
      BY <1>1, <2>2, <2>3 DEF Grows, denied, Kinds
    <2>6. denied => Shown("ResultBytes", c)
      BY <2>2, <2>3 DEF Shown
    <2>7. NoneOver(budget) /\ ~denied => NoneOver(c)
      BY <2>2, <2>3 DEF NoneOver
    <2> QED BY <1>3, <2>3, <2>4, <2>5, <2>6, <2>7, DeniedSound
  <1> QED BY <1>2, <1>3

(* An admitted request fits the ledger, the limit and the peak.                 *)
LEMMA WorkingNotedSound ==
  ASSUME limits \in Limits, reserved \in 0..Max, NEW b \in Budgets, NEW n \in 0..Max
  PROVE  /\ Sound(b, WorkingNoted(b, n))
         /\ ~Breached(WorkingNoted(b, n)) =>
              /\ ~Breached(b)
              /\ reserved + n \in 0..Max /\ reserved + n <= WorkingNoted(b, n).peak
              /\ ~Over(reserved + n, limits.working)
         /\ Breached(WorkingNoted(b, n)) =>
              \/ Breached(b) \/ reserved + n > Max \/ Over(reserved + n, limits.working)
  <1> DEFINE q == Saturated(reserved, n)
             c == [b EXCEPT !.peak = MaxOf(@, q)]
             denied == Over(q, limits.working) \/ reserved + n > Max
  <1>1. /\ b.steps \in 0..Max /\ Max \in Nat /\ limits.working \in 0..Max
        /\ b.depth \in 0..Max /\ b.peak \in 0..Max /\ b.result \in 0..Max
    BY BudgetFields, Numbers
  <1>2. CASE Breached(b)
    BY <1>1, <1>2 DEF WorkingNoted, Sound, Grows
  <1>3. CASE ~Breached(b)
    <2>1. /\ q \in 0..Max /\ (reserved + n <= Max => q = reserved + n)
          /\ reserved + n > Max => q = Max
      BY <1>1 DEF Saturated
    <2> HIDE DEF q
    <2>2. /\ MaxOf(b.peak, q) \in 0..Max /\ b.peak <= MaxOf(b.peak, q)
          /\ q <= MaxOf(b.peak, q)
          /\ denied => MaxOf(b.peak, q) > limits.working \/ MaxOf(b.peak, q) = Max
          /\ ~denied /\ ~Over(b.peak, limits.working) => ~Over(MaxOf(b.peak, q), limits.working)
      BY <1>1, <2>1 DEF MaxOf, Over
    <2>3. /\ c \in Budgets /\ c.peak = MaxOf(b.peak, q) /\ c.steps = b.steps
          /\ c.depth = b.depth /\ c.result = b.result /\ c.breach = b.breach
      BY <2>2 DEF Budgets
    <2>4. WorkingNoted(b, n) = Denied(c, denied, "WorkingBytes")
      BY <1>3 DEF WorkingNoted, q
    <2>5. denied \in BOOLEAN
      BY DEF Over
    <2>6. /\ ~denied => /\ reserved + n \in 0..Max /\ reserved + n <= c.peak
                        /\ ~Over(reserved + n, limits.working)
          /\ denied => reserved + n > Max \/ Over(reserved + n, limits.working)
      BY <1>1, <2>1, <2>2, <2>3
    <2> HIDE DEF c, denied
    <2>7. Grows(b, c) /\ "WorkingBytes" \in Kinds
      BY <1>1, <2>2, <2>3 DEF Grows, Kinds
    <2>8. denied => Shown("WorkingBytes", c)
      BY <2>2, <2>3 DEF Shown
    <2>9. NoneOver(b) /\ ~denied => NoneOver(c)
      BY <2>2, <2>3 DEF NoneOver
    <2>10. /\ Sound(b, WorkingNoted(b, n))
           /\ Breached(WorkingNoted(b, n)) <=> denied
           /\ WorkingNoted(b, n).peak = c.peak
      BY <1>3, <2>3, <2>4, <2>5, <2>7, <2>8, <2>9, DeniedSound
    <2> QED BY <1>3, <2>6, <2>10
  <1> QED BY <1>2, <1>3

--------------------------------------------------------------------------------
LEMMA HolderFields ==
  ASSUME NEW h \in Holders
  PROVE  /\ h.staging \in 0..Max /\ h.pending \in 0..Max /\ h.results \in 0..Max
         /\ h.loan \in 0..Max /\ h.preparation \in 0..Max
         /\ h.for \in {"none", "staging", "result"}
         /\ HeldBy(h) \in Nat
  <1>1. /\ h.staging \in 0..Max /\ h.pending \in 0..Max /\ h.results \in 0..Max
        /\ h.loan \in 0..Max /\ h.preparation \in 0..Max
        /\ h.for \in {"none", "staging", "result"}
    BY DEF Holders
  <1> QED BY <1>1, MaxAssumption DEF HeldBy

LEMMA Available ==
  ASSUME limits \in Limits, reserved \in 0..Max, ~Over(reserved, limits.working),
         limits.working # 0
  PROVE  PrepareAvailable = limits.working - reserved
  <1>1. /\ limits.working - reserved \in 0..Max /\ Max + 1 \in Nat \ {0}
    BY Numbers DEF Over
  <1>2. \A x \in 0..Max : x % (Max + 1) = x
    BY MaxAssumption
  <1> QED BY <1>1, <1>2 DEF PrepareAvailable

LEMMA CountedType ==
  ASSUME NEW t \in Nat, NEW r \in 0..Max, NEW f \in BOOLEAN
  PROVE  t + (IF f THEN r ELSE 0) \in Nat
  BY MaxAssumption

(* What every step must show.                                                   *)
LEMMA StepHolds ==
  ASSUME IInv, UNCHANGED fixed, Sound(budget, budget'),
         own' \in Holders, reserved' \in 0..Max, reserved' = HeldBy(own'),
         ~Over(reserved', limits.working), reserved' <= budget'.peak,
         prep' \in Preparations, PrepInv',
         mode' \in {"run", "prepare", "leave", "fail", "ended"},
         cause' \in {"none", "breach", "host", "interrupted", "construction"},
         transferred' \in Nat,
         account' = transferred' + (IF funded THEN reserved' ELSE 0),
         mode' = "ended" => reserved' = 0,
         cause' = "breach" => Breached(budget'),
         mode' = "leave" /\ funded => ~Breached(budget')
  PROVE  IInv'
  <1> USE DEF IInv
  <1>1. limits' = limits /\ funded' = funded /\ limits \in Limits /\ funded \in BOOLEAN
    BY DEF fixed, TypeOK
  <1>2. GoodBudget(budget)
    BY ExplainedIsShown DEF GoodBudget, WithinLimits, FailuresExplained, TypeOK
  <1>3. GoodBudget(budget') /\ budget' \in Budgets
    BY <1>2 DEF Sound, Grows
  <1>4. account' \in Nat
    BY <1>1, CountedType
  <1>5. TypeOK'
    BY <1>1, <1>3, <1>4 DEF TypeOK
  <1>6. Conserved'
    BY <1>1 DEF Conserved
  <1>7. WithinLimits'
    <2>1. prep'.ceiling # 0 => PrepareAvailable' = limits.working - reserved'
      <3> SUFFICES ASSUME prep'.ceiling # 0
                   PROVE  PrepareAvailable' = limits.working - reserved'
        OBVIOUS
      <3>1. limits'.working # 0
        BY DEF PrepInv, Ceiled
      <3>2. /\ limits.working - reserved' \in 0..Max /\ Max + 1 \in Nat \ {0}
        BY <1>1, <3>1, Numbers DEF Over
      <3>3. \A x \in 0..Max : x % (Max + 1) = x
        BY MaxAssumption
      <3> QED BY <1>1, <3>2, <3>3 DEF PrepareAvailable
    <2>2. ~Breached(budget)' => NoneOver(budget)'
      BY <1>1, <1>3 DEF GoodBudget, NoneOver, Over, Breached
    <2>3. ~Over(reserved, limits.working)'
      BY <1>1 DEF Over
    <2> QED BY <1>1, <2>1, <2>2, <2>3 DEF WithinLimits
  <1>8. FailuresExplained'
    <2>1. Breached(budget') => Explained(budget')
      BY <1>3, ExplainedIsShown DEF GoodBudget
    <2>2. Breached(budget)' => Explained(budget)'
      BY <1>1, <2>1 DEF Breached, Explained, Reported
    <2> QED BY <1>1, <2>2 DEF FailuresExplained, Breached
  <1> QED BY <1>5, <1>6, <1>7, <1>8

(* Outside of a preparation, one that is not entered keeps what it was.         *)
LEMMA PrepKept ==
  ASSUME IInv, UNCHANGED fixed, prep' = prep \/ prep' = NoPrep, mode' # "prepare"
  PROVE  PrepInv' /\ prep' \in Preparations
  <1>1. limits' = limits /\ prep \in Preparations
    BY DEF fixed, IInv, TypeOK
  <1>2. /\ NoPrep \in Preparations /\ Ceiled(NoPrep)
    BY MaxAssumption DEF NoPrep, Preparations, Ceiled
  <1>3. Ceiled(prep)
    BY DEF IInv, PrepInv
  <1>4. Ceiled(prep)'
    BY <1>1, <1>2, <1>3 DEF Ceiled
  <1> QED BY <1>1, <1>2, <1>4 DEF PrepInv

LEMMA Facts ==
  ASSUME IInv
  PROVE  /\ limits \in Limits /\ funded \in BOOLEAN /\ budget \in Budgets
         /\ own \in Holders /\ prep \in Preparations
         /\ reserved \in 0..Max /\ reserved = HeldBy(own) /\ Max \in Nat
         /\ account = transferred + (IF funded THEN reserved ELSE 0)
         /\ transferred \in Nat /\ ~Over(reserved, limits.working)
         /\ reserved <= budget.peak /\ mode # "broken"
         /\ budget.peak \in 0..Max
         /\ mode \in {"run", "prepare", "leave", "fail", "ended"}
         /\ cause \in {"none", "breach", "host", "interrupted", "construction"}
         /\ mode = "ended" => reserved = 0
         /\ cause = "breach" => Breached(budget)
         /\ mode = "leave" /\ funded => ~Breached(budget)
         /\ limits.working \in 0..Max
         /\ Sound(budget, budget)
  <1> USE DEF IInv
  <1>1. /\ limits \in Limits /\ budget \in Budgets /\ mode # "broken"
        /\ mode \in {"run", "prepare", "leave", "fail", "ended", "broken"}
    BY DEF TypeOK, Conserved
  <1>2. /\ budget.peak \in 0..Max /\ budget.steps \in 0..Max /\ budget.depth \in 0..Max
        /\ budget.result \in 0..Max /\ limits.working \in 0..Max /\ Max \in Nat
    BY <1>1, BudgetFields, Numbers
  <1>3. Sound(budget, budget)
    BY <1>1, <1>2 DEF Sound, Grows
  <1> QED BY <1>1, <1>2, <1>3 DEF TypeOK, Conserved, WithinLimits, FailuresExplained

(* FirstDenialStands of one step.                                               *)
Stands ==
  Breached(budget) => /\ budget'.breach = budget.breach
                      /\ reserved' <= reserved /\ budget'.result = budget.result

(* A step that only calls the budget, or fails.                                 *)
LEMMA BudgetStep ==
  ASSUME IInv, UNCHANGED <<fixed, storage>>, Sound(budget, budget'),
         prep' = prep \/ prep' = NoPrep,
         mode' \in {"run", "leave", "fail"},
         cause' \in {"none", "breach", "host", "interrupted", "construction"},
         cause' = "breach" => Breached(budget'),
         mode' = "leave" /\ funded => ~Breached(budget')
  PROVE  IInv' /\ Stands
  <1>1. /\ limits' = limits /\ funded' = funded /\ UNCHANGED fixed /\ reserved' = reserved
        /\ own' = own /\ account' = account /\ transferred' = transferred
    BY DEF fixed, storage
  <1>2. PrepInv' /\ prep' \in Preparations
    BY <1>1, PrepKept
  <1>3. budget'.peak \in 0..Max /\ budget.peak <= budget'.peak
    BY BudgetFields DEF Sound, Grows
  <1>4. reserved' <= budget'.peak
    BY <1>1, <1>3, Facts
  <1>5. mode' # "ended"
    OBVIOUS
  <1>6. IInv'
    BY <1>1, <1>2, <1>4, <1>5, Facts, StepHolds
  <1> QED BY <1>1, <1>6, Facts DEF Stands, Sound

(* A reservation, granted or not.                                               *)
LEMMA AcquireStep ==
  ASSUME IInv, UNCHANGED fixed, NEW b \in Budgets, NEW n \in 0..Max, NEW h,
         reserved + n \in 0..Max => h \in Holders,
         Sound(budget, b), HeldBy(h) = HeldBy(own) + n,
         prep' = prep \/ prep' = NoPrep, Acquire(b, n, h)
  PROVE  IInv' /\ Stands
  <1> DEFINE c == WorkingNoted(b, n)
  <1>1. /\ Sound(b, c)
        /\ ~Breached(c) => /\ reserved + n \in 0..Max /\ reserved + n <= c.peak
                           /\ ~Over(reserved + n, limits.working)
    BY Facts, WorkingNotedSound
  <1> HIDE DEF c
  <1>2. Sound(budget, c)
    <2>1. /\ budget.steps \in 0..Max /\ budget.depth \in 0..Max /\ budget.peak \in 0..Max
          /\ budget.result \in 0..Max /\ b.steps \in 0..Max /\ b.depth \in 0..Max
          /\ b.peak \in 0..Max /\ b.result \in 0..Max /\ Max \in Nat
      BY Facts, BudgetFields
    <2>2. /\ c.steps \in 0..Max /\ c.depth \in 0..Max /\ c.peak \in 0..Max
          /\ c.result \in 0..Max
      BY <1>1, BudgetFields DEF Sound, Grows
    <2> QED BY <1>1, <2>1, <2>2 DEF Sound, Grows, Breached
  <1>3. CASE Breached(c) /\ budget' = c /\ Fail("breach") /\ UNCHANGED storage
    BY <1>2, <1>3, BudgetStep DEF Fail, fixed
  <1>4. CASE ~Breached(c) /\ funded /\ n # 0 /\ budget' = c /\ Fail("host") /\ UNCHANGED storage
    BY <1>2, <1>4, BudgetStep DEF Fail, fixed
  <1>5. CASE /\ ~Breached(c) /\ budget' = c /\ own' = h
             /\ reserved' = reserved + n
             /\ account' = IF funded THEN account + n ELSE account
             /\ mode' = "run" /\ UNCHANGED <<cause, transferred>>
    <2>1. PrepInv' /\ prep' \in Preparations
      BY <1>5, PrepKept
    <2>2. reserved' = HeldBy(own') /\ cause' # "breach"
      <3>1. cause = "breach" => Breached(budget)
        BY Facts
      <3>2. Breached(budget) => Breached(c)
        BY <1>2 DEF Sound, Breached
      <3> QED BY <1>5, <3>1, <3>2, Facts
    <2>3. account' = transferred' + (IF funded THEN reserved' ELSE 0)
      <3>1. reserved \in Nat /\ transferred \in Nat /\ n \in Nat
        BY Facts
      <3>2. CASE funded
        BY <1>5, <3>1, <3>2, Facts
      <3>3. CASE ~funded
        BY <1>5, <3>1, <3>3, Facts
      <3> QED BY <3>2, <3>3
    <2>4. /\ mode' # "ended" /\ mode' # "leave" /\ transferred' \in Nat
          /\ cause' \in {"none", "breach", "host", "interrupted", "construction"}
      BY <1>5, Facts
    <2>5. /\ reserved' \in 0..Max /\ reserved' <= budget'.peak /\ own' \in Holders
          /\ ~Over(reserved', limits.working) /\ mode' = "run" /\ Sound(budget, budget')
      BY <1>1, <1>2, <1>5
    <2>6. ~Breached(budget)
      BY <1>2, <1>5 DEF Sound, Breached
    <2>7. IInv'
      BY <2>1, <2>2, <2>3, <2>4, <2>5, StepHolds
    <2> QED BY <2>6, <2>7 DEF Stands
  <1> QED BY <1>3, <1>4, <1>5 DEF Acquire, c

(* A release by a holder, or a change of holders.                               *)
LEMMA HandStep ==
  ASSUME IInv, mode # "prepare", mode # "ended",
         NEW n \in 0..Max, NEW h \in Holders, n <= reserved, HeldBy(h) = HeldBy(own) - n,
         own' = h, reserved' = reserved - n, transferred' \in Nat,
         account' = transferred' + (IF funded THEN reserved' ELSE 0),
         UNCHANGED <<fixed, budget, prep, mode, cause>>
  PROVE  IInv' /\ Stands
  <1>1. UNCHANGED fixed /\ budget' = budget /\ prep' = prep /\ mode' = mode /\ cause' = cause
    OBVIOUS
  <1>2. /\ reserved' \in 0..Max /\ reserved' <= budget'.peak /\ reserved' = HeldBy(own')
        /\ ~Over(reserved', limits.working)
    <2>1. reserved \in 0..Max /\ budget.peak \in 0..Max /\ limits.working \in 0..Max /\ Max \in Nat
      BY Facts
    <2>2. reserved <= budget.peak /\ ~Over(reserved, limits.working) /\ reserved = HeldBy(own)
      BY Facts
    <2> QED BY <1>1, <2>1, <2>2 DEF Over
  <1>3. PrepInv' /\ prep' \in Preparations
    BY <1>1, PrepKept
  <1>4. /\ mode' \in {"run", "prepare", "leave", "fail", "ended"} /\ mode' # "ended"
        /\ cause' \in {"none", "breach", "host", "interrupted", "construction"}
        /\ cause' = "breach" => Breached(budget')
        /\ mode' = "leave" /\ funded => ~Breached(budget')
        /\ Sound(budget, budget') /\ own' \in Holders
    BY <1>1, Facts
  <1>5. IInv'
    BY <1>1, <1>2, <1>3, <1>4, StepHolds
  <1>6. reserved' <= reserved
    BY Facts
  <1> QED BY <1>1, <1>5, <1>6 DEF Stands

LEMMA DropStep ==
  ASSUME IInv, mode # "prepare", mode # "ended",
         NEW n \in 0..Max, NEW h \in Holders, n <= reserved, HeldBy(h) = HeldBy(own) - n,
         Drop(n, h)
  PROVE  IInv' /\ Stands
  <1>1. /\ own' = h /\ reserved' = reserved - n /\ transferred' = transferred
        /\ account' = IF funded THEN account - n ELSE account
        /\ UNCHANGED <<fixed, budget, prep, mode, cause>>
    <2>1. ~(n > reserved)
      BY Facts
    <2> QED BY <2>1 DEF Drop, Release
  <1>2. reserved \in Nat /\ transferred \in Nat /\ n \in Nat
    BY Facts
  <1>3. account' = transferred' + (IF funded THEN reserved' ELSE 0)
    <2>2. CASE funded
      BY <1>1, <1>2, <2>2, Facts
    <2>3. CASE ~funded
      BY <1>1, <1>2, <2>3, Facts
    <2> QED BY <2>2, <2>3
  <1> QED BY <1>1, <1>2, <1>3, HandStep

--------------------------------------------------------------------------------
LEMMA InitHolds == Init => IInv
  <1> SUFFICES ASSUME Init PROVE IInv
    OBVIOUS
  <1>1. /\ limits \in Limits /\ funded \in BOOLEAN /\ reserved = 0 /\ own = NoHolders
        /\ budget = [steps |-> 0, depth |-> 0, peak |-> 0, result |-> 0, breach |-> "None"]
        /\ prep = NoPrep /\ account = 0 /\ transferred = 0 /\ mode = "run" /\ cause = "none"
    BY DEF Init
  <1>2. /\ budget \in Budgets /\ NoHolders \in Holders /\ HeldBy(NoHolders) = 0
        /\ NoPrep \in Preparations /\ Max \in Nat
    BY <1>1, MaxAssumption DEF Budgets, NoHolders, Holders, HeldBy, NoPrep, Preparations
  <1>3. TypeOK /\ Conserved
    BY <1>1, <1>2 DEF TypeOK, Conserved
  <1>4. WithinLimits
    BY <1>1, Numbers DEF WithinLimits, NoneOver, Over, NoPrep
  <1>5. FailuresExplained /\ PrepInv
    BY <1>1 DEF FailuresExplained, Breached, PrepInv, Ceiled, NoPrep
  <1> QED BY <1>3, <1>4, <1>5 DEF IInv

(* A preparation may go on after a step that keeps what the ledger counts.      *)
LEMMA PrepareGoesOn ==
  ASSUME IInv, UNCHANGED <<fixed, storage>>, Sound(budget, budget'), ~Breached(budget'),
         own.pending = 0, ~funded, limits.working # 0, mode \in {"run", "prepare"},
         mode' = "prepare", UNCHANGED cause,
         prep' \in Preparations, Ceiled(prep'),
         prep'.available = limits.working - reserved
  PROVE  IInv' /\ Stands
  <1>1. /\ limits' = limits /\ funded' = funded /\ UNCHANGED fixed /\ reserved' = reserved
        /\ own' = own /\ account' = account /\ transferred' = transferred
    BY DEF fixed, storage
  <1>2. PrepInv'
    BY <1>1 DEF PrepInv, Ceiled, Breached
  <1>3. reserved' <= budget'.peak
    <2>1. /\ budget'.peak \in 0..Max /\ budget.peak <= budget'.peak /\ Max \in Nat
      BY BudgetFields, Facts DEF Sound, Grows
    <2> QED BY <1>1, <2>1, Facts
  <1>4. ~Breached(budget)
    BY DEF Sound, Breached
  <1>5. /\ cause' # "breach" /\ mode' # "ended" /\ mode' # "leave"
        /\ cause' \in {"none", "breach", "host", "interrupted", "construction"}
    BY <1>4, Facts
  <1>6. IInv'
    BY <1>1, <1>2, <1>3, <1>5, Facts, StepHolds
  <1> QED BY <1>4, <1>6 DEF Stands

LEMMA ChargeStepHolds == ASSUME IInv, ChargeStep PROVE IInv' /\ Stands
  <1>1. UNCHANGED fixed /\ UNCHANGED storage /\ prep' = prep /\ budget' = StepCharged
    BY DEF ChargeStep
  <1>2. Sound(budget, budget')
    BY <1>1, Facts, StepChargedSound
  <1>3. CASE Breached(StepCharged) /\ mode = "prepare"
    BY <1>1, <1>2, <1>3, BudgetStep DEF ChargeStep, Fail
  <1>4. CASE mode = "run"
    <2>1. UNCHANGED <<mode, cause>>
      BY <1>4 DEF ChargeStep
    <2>2. cause' = "breach" => Breached(budget')
      BY <1>2, <2>1, Facts DEF Sound, Breached
    <2> QED BY <1>1, <1>2, <1>4, <2>1, <2>2, Facts, BudgetStep
  <1>5. CASE mode = "prepare" /\ ~Breached(StepCharged)
    <2>1. /\ UNCHANGED cause /\ mode' = "prepare" /\ ~Breached(budget')
      BY <1>1, <1>5 DEF ChargeStep
    <2>2. /\ own.pending = 0 /\ ~funded /\ limits.working # 0 /\ Ceiled(prep)
          /\ prep.available = limits.working - reserved
      BY <1>5 DEF IInv, PrepInv
    <2>3. Ceiled(prep') /\ prep' \in Preparations
      BY <1>1, <2>2, Facts
    <2> QED BY <1>1, <1>2, <1>5, <2>1, <2>2, <2>3, PrepareGoesOn
  <1> QED BY <1>3, <1>4, <1>5 DEF ChargeStep, Active

LEMMA NoteDepthHolds ==
  ASSUME IInv, NEW d \in Depths, NoteDepth(d) PROVE IInv' /\ Stands
  <1>1. d \in 0..Max
    BY SizesAssumption
  <1>2. Sound(budget, budget')
    BY <1>1, Facts, DepthNotedSound DEF NoteDepth
  <1>3. cause' = "breach" => Breached(budget')
    BY <1>2, Facts DEF NoteDepth, Sound, Breached
  <1> QED BY <1>2, <1>3, Facts, BudgetStep DEF NoteDepth

LEMMA ThrowDeniedHolds == ASSUME IInv, ThrowDenied PROVE IInv' /\ Stands
  BY Facts, BudgetStep DEF ThrowDenied, Fail, Breached

LEMMA InterruptHolds == ASSUME IInv, Interrupt PROVE IInv' /\ Stands
  BY Facts, BudgetStep DEF Interrupt, Fail

(* Nobody holds more than the ledger counts.                                    *)
LEMMA HoldersFacts ==
  ASSUME IInv
  PROVE  /\ own.staging \in 0..Max /\ own.pending \in 0..Max /\ own.results \in 0..Max
         /\ own.loan \in 0..Max /\ own.preparation \in 0..Max
         /\ own.for \in {"none", "staging", "result"} /\ Max \in Nat
         /\ reserved = own.staging + own.pending + own.results + own.loan + own.preparation
         /\ reserved \in 0..Max
         /\ own = [staging |-> own.staging, pending |-> own.pending, for |-> own.for,
                   results |-> own.results, loan |-> own.loan,
                   preparation |-> own.preparation]
  BY Facts, HolderFields DEF HeldBy, Holders

LEMMA RequestHolds ==
  ASSUME IInv, NEW n \in Sizes, NEW for \in {"staging", "result"}, Request(n, for)
  PROVE  IInv' /\ Stands
  <1> DEFINE b == ResultCharged(n)
             h == [own EXCEPT !.pending = n, !.for = for]
  <1>1. n \in 0..Max
    BY SizesAssumption, MaxAssumption
  <1>2. Sound(budget, b) /\ b \in Budgets
    BY <1>1, Facts, ResultChargedSound DEF Sound, Grows
  <1>3. h \in Holders /\ HeldBy(h) = HeldBy(own) + n
    <2>1. h \in Holders
      BY <1>1, Facts DEF Holders
    <2>2. /\ h.staging = own.staging /\ h.pending = n /\ h.results = own.results
          /\ h.loan = own.loan /\ h.preparation = own.preparation
      BY Facts DEF Holders
    <2>3. own.pending = 0
      BY DEF Request
    <2> HIDE DEF h
    <2> QED BY <1>1, <2>1, <2>2, <2>3, HoldersFacts DEF HeldBy
  <1>4. /\ UNCHANGED fixed /\ prep' = prep
        /\ \/ Breached(b) /\ budget' = b /\ Fail("breach") /\ UNCHANGED storage
           \/ Acquire(b, n, h)
    BY DEF Request
  <1> HIDE DEF b, h
  <1>5. CASE Breached(b) /\ budget' = b /\ Fail("breach") /\ UNCHANGED storage
    BY <1>2, <1>4, <1>5, BudgetStep DEF Fail
  <1>6. CASE Acquire(b, n, h)
    BY <1>1, <1>2, <1>3, <1>4, <1>6, AcquireStep
  <1> QED BY <1>4, <1>5, <1>6

LEMMA AbandonHolds == ASSUME IInv, Abandon PROVE IInv' /\ Stands
  <1> DEFINE h == [own EXCEPT !.pending = 0, !.for = "none"]
  <1>1. /\ h \in Holders /\ HeldBy(h) = HeldBy(own) - own.pending
        /\ own.pending \in 0..Max /\ own.pending <= reserved
    <2>0. own \in Holders /\ 0 \in 0..Max
      BY Facts, MaxAssumption
    <2>1. h \in Holders
      BY <2>0 DEF Holders
    <2>2. /\ h.staging = own.staging /\ h.pending = 0 /\ h.results = own.results
          /\ h.loan = own.loan /\ h.preparation = own.preparation
      BY Facts DEF Holders
    <2> HIDE DEF h
    <2> QED BY <2>1, <2>2, HoldersFacts DEF HeldBy
  <1>2. Drop(own.pending, h) /\ mode = "fail"
    BY DEF Abandon
  <1> QED BY <1>1, <1>2, DropStep

LEMMA AdoptHolds == ASSUME IInv, Adopt PROVE IInv' /\ Stands
  <1>1. CASE own.for = "staging"
    <2> DEFINE h == [own EXCEPT !.staging = own.pending, !.pending = 0, !.for = "none"]
    <2>1. /\ h \in Holders /\ HeldBy(h) = HeldBy(own) - own.staging
          /\ own.staging \in 0..Max /\ own.staging <= reserved
      <3>0. own \in Holders /\ 0 \in 0..Max /\ own.pending \in 0..Max
        BY HoldersFacts, Facts
      <3>1. h \in Holders
        BY <3>0 DEF Holders
      <3>2. /\ h.staging = own.pending /\ h.pending = 0 /\ h.results = own.results
            /\ h.loan = own.loan /\ h.preparation = own.preparation
        BY Facts DEF Holders
      <3> HIDE DEF h
      <3> QED BY <3>1, <3>2, HoldersFacts DEF HeldBy
    <2>2. Drop(own.staging, h) /\ mode = "run"
      BY <1>1 DEF Adopt
    <2> QED BY <2>1, <2>2, DropStep
  <1>2. CASE own.for # "staging"
    <2> DEFINE h == [own EXCEPT !.results = @ + own.pending, !.pending = 0, !.for = "none"]
    <2>1. /\ h \in Holders /\ HeldBy(h) = HeldBy(own) - 0
      <3>1. own.results + own.pending \in 0..Max
        BY HoldersFacts
      <3>0. own \in Holders /\ 0 \in 0..Max
        BY Facts, MaxAssumption
      <3>2. h \in Holders
        BY <3>0, <3>1 DEF Holders
      <3>3. /\ h.staging = own.staging /\ h.pending = 0
            /\ h.results = own.results + own.pending
            /\ h.loan = own.loan /\ h.preparation = own.preparation
        BY Facts DEF Holders
      <3> HIDE DEF h
      <3> QED BY <3>2, <3>3, HoldersFacts DEF HeldBy
    <2>2. /\ own' = h /\ reserved' = reserved - 0 /\ transferred' = transferred
          /\ account' = account /\ mode = "run"
          /\ UNCHANGED <<fixed, budget, prep, mode, cause>>
      BY <1>2, HoldersFacts DEF Adopt
    <2>3. account' = transferred' + (IF funded THEN reserved' ELSE 0)
      BY <2>2, Facts
    <2>4. 0 \in 0..Max /\ 0 <= reserved
      BY HoldersFacts
    <2> QED BY <2>1, <2>2, <2>3, <2>4, Facts, HandStep
  <1> QED BY <1>1, <1>2

LEMMA TakeFullArrayHolds == ASSUME IInv, TakeFullArray PROVE IInv' /\ Stands
  <1> DEFINE h == [own EXCEPT !.results = @ + own.staging, !.staging = 0]
  <1>1. /\ h \in Holders /\ HeldBy(h) = HeldBy(own) - 0
    <2>1. own.results + own.staging \in 0..Max
      BY HoldersFacts
    <2>0. own \in Holders /\ 0 \in 0..Max
      BY Facts, MaxAssumption
    <2>2. h \in Holders
      BY <2>0, <2>1 DEF Holders
    <2>3. /\ h.staging = 0 /\ h.pending = own.pending
          /\ h.results = own.results + own.staging
          /\ h.loan = own.loan /\ h.preparation = own.preparation
      BY Facts DEF Holders
    <2> HIDE DEF h
    <2> QED BY <2>2, <2>3, HoldersFacts DEF HeldBy
  <1>2. /\ own' = h /\ reserved' = reserved - 0 /\ transferred' = transferred
        /\ account' = account /\ mode = "run"
        /\ UNCHANGED <<fixed, budget, prep, mode, cause>>
    BY HoldersFacts DEF TakeFullArray
  <1>3. account' = transferred' + (IF funded THEN reserved' ELSE 0)
    BY <1>2, Facts
  <1>4. 0 \in 0..Max /\ 0 <= reserved
    BY HoldersFacts
  <1> QED BY <1>1, <1>2, <1>3, <1>4, Facts, HandStep

LEMMA ReleaseStagingHolds == ASSUME IInv, ReleaseStaging PROVE IInv' /\ Stands
  <1> DEFINE h == [own EXCEPT !.staging = 0]
  <1>1. /\ h \in Holders /\ HeldBy(h) = HeldBy(own) - own.staging
        /\ own.staging \in 0..Max /\ own.staging <= reserved
    BY HoldersFacts DEF Holders, HeldBy
  <1>2. Drop(own.staging, h) /\ mode # "prepare" /\ mode # "ended"
    BY DEF ReleaseStaging, Leaving
  <1> QED BY <1>1, <1>2, DropStep

LEMMA ReleaseSinceHolds ==
  ASSUME IInv, NEW m \in 0..Max, ReleaseSince(m) PROVE IInv' /\ Stands
  <1> DEFINE h == [own EXCEPT !.results = m]
  <1>1. /\ h \in Holders /\ HeldBy(h) = HeldBy(own) - (own.results - m)
        /\ own.results - m \in 0..Max /\ own.results - m <= reserved
    BY HoldersFacts DEF Holders, HeldBy, ReleaseSince
  <1>2. Drop(own.results - m, h) /\ mode # "prepare" /\ mode # "ended"
    BY DEF ReleaseSince, Leaving
  <1> QED BY <1>1, <1>2, DropStep

LEMMA TransferSinceHolds ==
  ASSUME IInv, NEW m \in 0..Max, TransferSince(m) PROVE IInv' /\ Stands
  <1> DEFINE n == own.results - m
             h == [own EXCEPT !.results = m]
  <1>1. /\ h \in Holders /\ HeldBy(h) = HeldBy(own) - n
        /\ n \in 0..Max /\ n <= reserved
    BY HoldersFacts DEF Holders, HeldBy, TransferSince
  <1>2. mode = "run" /\ funded /\ ~(n > reserved)
    BY <1>1, Facts DEF TransferSince
  <1>3. /\ own' = h /\ reserved' = reserved - n /\ transferred' = transferred + n
        /\ account' = account
        /\ UNCHANGED <<fixed, budget, prep, mode, cause>>
    BY <1>2 DEF TransferSince
  <1> HIDE DEF n, h
  <1>4. /\ account' = transferred' + (IF funded THEN reserved' ELSE 0)
        /\ transferred' \in Nat
    <2>1. reserved \in Nat /\ transferred \in Nat /\ n \in Nat
      BY <1>1, Facts
    <2> QED BY <1>2, <1>3, <2>1, Facts
  <1> QED BY <1>1, <1>2, <1>3, <1>4, HandStep

LEMMA BorrowHolds ==
  ASSUME IInv, NEW n \in Sizes, Borrow(n) PROVE IInv' /\ Stands
  <1> DEFINE h == [own EXCEPT !.loan = @ + n]
  <1>1. n \in 0..Max
    BY SizesAssumption, MaxAssumption
  <1>2. HeldBy(h) = HeldBy(own) + n
    BY <1>1, HoldersFacts DEF HeldBy
  <1>3. reserved + n \in 0..Max => h \in Holders
    BY <1>1, HoldersFacts DEF Holders
  <1>4. UNCHANGED fixed /\ prep' = prep /\ Acquire(budget, n, h)
    BY DEF Borrow
  <1> HIDE DEF h
  <1> QED BY <1>1, <1>2, <1>3, <1>4, Facts, AcquireStep

LEMMA RepayHolds ==
  ASSUME IInv, NEW n \in 1..Max, Repay(n) PROVE IInv' /\ Stands
  <1> DEFINE h == [own EXCEPT !.loan = @ - n]
  <1>1. /\ h \in Holders /\ HeldBy(h) = HeldBy(own) - n
        /\ n \in 0..Max /\ n <= reserved
    BY HoldersFacts DEF Holders, HeldBy, Repay
  <1>2. Drop(n, h) /\ mode # "prepare" /\ mode # "ended"
    BY DEF Repay, Leaving
  <1> QED BY <1>1, <1>2, DropStep

LEMMA PrepareHolds ==
  ASSUME IInv, NEW p \in Policies, NEW b \in Baselines, Prepare(p, b) PROVE IInv' /\ Stands
  <1>1. /\ UNCHANGED <<fixed, storage>> /\ budget' = StepCharged /\ mode = "run"
        /\ own.pending = 0 /\ ~funded /\ limits.working # 0
    BY DEF Prepare
  <1>2. Sound(budget, budget')
    BY <1>1, Facts, StepChargedSound
  <1>3. CASE Breached(StepCharged)
    BY <1>1, <1>2, <1>3, BudgetStep DEF Prepare, Fail
  <1>4. CASE ~Breached(StepCharged)
    <2>1. PrepareAvailable = limits.working - reserved
      BY <1>1, Facts, Available
    <2>2. /\ mode' = "prepare" /\ cause' = cause /\ ~Breached(budget')
          /\ prep' = [available |-> PrepareAvailable, baseline |-> b,
                      ceiling |-> MinOf(p, Saturated(b, PrepareAvailable)),
                      held |-> 0, peak |-> 0]
      BY <1>1, <1>4 DEF Prepare
    <2>3. /\ p \in 0..Max /\ b \in 0..Max /\ Max \in Nat /\ limits.working \in 0..Max
          /\ reserved \in 0..Max
          /\ ~Over(reserved, limits.working)
      BY SizesAssumption, Facts
    <2>4. PrepareAvailable \in 0..Max
      BY <1>1, <2>1, <2>3 DEF Over
    <2>5. /\ MinOf(p, Saturated(b, PrepareAvailable)) \in 0..Max
          /\ MinOf(p, Saturated(b, PrepareAvailable)) <= b + PrepareAvailable
      BY <2>3, <2>4 DEF MinOf, Saturated
    <2>6. prep' \in Preparations
      BY <2>2, <2>3, <2>4, <2>5 DEF Preparations
    <2>7. Ceiled(prep')
      BY <1>1, <2>2, <2>5 DEF Ceiled
    <2>8. prep'.available = limits.working - reserved
      BY <2>1, <2>2
    <2> QED BY <1>1, <1>2, <2>2, <2>6, <2>7, <2>8, PrepareGoesOn
  <1> QED BY <1>3, <1>4

(* What an invariant preparation is.                                            *)
LEMMA PrepFacts ==
  ASSUME IInv, mode = "prepare"
  PROVE  /\ prep.available \in 0..Max /\ prep.baseline \in 0..Max /\ prep.ceiling \in 0..Max
         /\ prep.held \in 0..Max /\ prep.peak \in 0..Max /\ Max \in Nat
         /\ ~Breached(budget) /\ own.pending = 0 /\ ~funded /\ limits.working # 0
         /\ prep.available = limits.working - reserved /\ limits.working \in 0..Max
         /\ reserved \in 0..Max
         /\ prep.held <= prep.peak
         /\ prep.peak = 0 \/ prep.baseline + prep.peak <= prep.ceiling
         /\ prep.ceiling # 0 => limits.working # 0
         /\ prep.ceiling <= prep.baseline + prep.available
  BY Facts DEF IInv, PrepInv, Ceiled, Preparations

(* Under the public ceiling the working limit denies what the ceiling denied.   *)
LEMMA DeniedBoth ==
  ASSUME IInv, mode = "prepare", NEW n \in 0..Max, PublicCeiling,
         prep.baseline + prep.held + n <= Max,
         prep.baseline + prep.held + n > prep.ceiling
  PROVE  /\ prep.held + n \in 0..Max
         /\ Breached(WorkingNoted(budget, prep.held + n))
         /\ Sound(budget, WorkingNoted(budget, prep.held + n))
  <1>1. prep.held + n \in 0..Max /\ reserved + (prep.held + n) > limits.working
    BY PrepFacts DEF PublicCeiling
  <1>2. Over(reserved + (prep.held + n), limits.working)
    BY <1>1, PrepFacts DEF Over
  <1> QED BY <1>1, <1>2, Facts, WorkingNotedSound

LEMMA ConstructHolds ==
  ASSUME IInv, NEW n \in Sizes, Construct(n) PROVE IInv' /\ Stands
  <1> DEFINE requested == prep.baseline + prep.held + n
  <1>1. n \in 0..Max /\ mode = "prepare" /\ requested <= Max /\ UNCHANGED fixed
    BY SizesAssumption, MaxAssumption DEF Construct
  <1>2. CASE requested <= prep.ceiling
    <2>1. /\ prep' = [prep EXCEPT !.held = @ + n, !.peak = MaxOf(@, prep.held + n)]
          /\ UNCHANGED <<fixed, storage>> /\ budget' = budget
          /\ mode' = "prepare" /\ UNCHANGED cause
      BY <1>1, <1>2 DEF Construct
    <2>2. /\ prep.held + n \in 0..Max /\ MaxOf(prep.peak, prep.held + n) \in 0..Max
          /\ prep.held + n <= MaxOf(prep.peak, prep.held + n)
          /\ MaxOf(prep.peak, prep.held + n) = 0
             \/ prep.baseline + MaxOf(prep.peak, prep.held + n) <= prep.ceiling
      BY <1>1, <1>2, PrepFacts DEF MaxOf
    <2>3. prep' \in Preparations
      BY <2>1, <2>2, Facts DEF Preparations
    <2>4. /\ prep'.held = prep.held + n /\ prep'.peak = MaxOf(prep.peak, prep.held + n)
          /\ prep'.baseline = prep.baseline /\ prep'.ceiling = prep.ceiling
          /\ prep'.available = prep.available
      BY <2>1, Facts DEF Preparations
    <2>5. Ceiled(prep')
      BY <2>2, <2>4, <1>1, PrepFacts DEF Ceiled
    <2>6. Sound(budget, budget') /\ ~Breached(budget')
      BY <1>1, <2>1, Facts, PrepFacts
    <2> QED BY <1>1, <2>1, <2>3, <2>4, <2>5, <2>6, PrepFacts, PrepareGoesOn
  <1>3. CASE ~(requested <= prep.ceiling) /\ ~PublicCeiling
    BY <1>1, <1>3, Facts, BudgetStep DEF Construct, Fail
  <1>4. CASE ~(requested <= prep.ceiling) /\ PublicCeiling
    <2> DEFINE c == WorkingNoted(budget, prep.held + n)
    <2>1. requested > prep.ceiling /\ requested - prep.baseline = prep.held + n
      BY <1>1, <1>4, PrepFacts
    <2>2. Breached(c) /\ Sound(budget, c)
      BY <1>1, <1>4, <2>1, DeniedBoth
    <2>3. prep' = NoPrep /\ budget' = c /\ Fail("breach") /\ UNCHANGED storage
      BY <1>1, <1>4, <2>1, <2>2 DEF Construct
    <2> QED BY <1>1, <2>2, <2>3, BudgetStep DEF Fail
  <1> QED BY <1>2, <1>3, <1>4

LEMMA ConstructReleaseHolds ==
  ASSUME IInv, NEW n \in Sizes, ConstructRelease(n) PROVE IInv' /\ Stands
  <1>1. /\ n \in 0..Max /\ mode = "prepare" /\ n <= prep.held
        /\ prep' = [prep EXCEPT !.held = @ - n]
        /\ UNCHANGED <<fixed, storage>> /\ budget' = budget
        /\ mode' = "prepare" /\ UNCHANGED cause
    BY SizesAssumption, MaxAssumption DEF ConstructRelease
  <1>2. prep.held - n \in 0..Max /\ prep.held - n <= prep.peak
    BY <1>1, PrepFacts
  <1>3. prep' \in Preparations
    BY <1>1, <1>2, Facts DEF Preparations
  <1>4. /\ prep'.held = prep.held - n /\ prep'.peak = prep.peak
        /\ prep'.baseline = prep.baseline /\ prep'.ceiling = prep.ceiling
        /\ prep'.available = prep.available
    BY <1>1, Facts DEF Preparations
  <1>5. Ceiled(prep')
    BY <1>1, <1>2, <1>4, PrepFacts DEF Ceiled
  <1>6. Sound(budget, budget') /\ ~Breached(budget')
    BY <1>1, Facts, PrepFacts
  <1> QED BY <1>1, <1>3, <1>4, <1>5, <1>6, PrepFacts, PrepareGoesOn

LEMMA PreparedHolds == ASSUME IInv, Prepared PROVE IInv' /\ Stands
  <1> DEFINE h == [own EXCEPT !.preparation = @ + prep.peak]
  <1>1. /\ mode = "prepare" /\ UNCHANGED fixed /\ prep' = NoPrep
        /\ Acquire(budget, prep.peak, h)
    BY DEF Prepared
  <1>2. prep.peak \in 0..Max
    BY <1>1, PrepFacts
  <1>3. HeldBy(h) = HeldBy(own) + prep.peak
    BY <1>2, HoldersFacts DEF HeldBy
  <1>4. reserved + prep.peak \in 0..Max => h \in Holders
    BY <1>2, HoldersFacts DEF Holders
  <1> HIDE DEF h
  <1> QED BY <1>1, <1>2, <1>3, <1>4, Facts, AcquireStep

LEMMA ReleasePreparationHolds == ASSUME IInv, ReleasePreparation PROVE IInv' /\ Stands
  <1> DEFINE h == [own EXCEPT !.preparation = 0]
  <1>1. /\ h \in Holders /\ HeldBy(h) = HeldBy(own) - own.preparation
        /\ own.preparation \in 0..Max /\ own.preparation <= reserved
    BY HoldersFacts DEF Holders, HeldBy
  <1>2. Drop(own.preparation, h) /\ mode # "prepare" /\ mode # "ended"
    BY DEF ReleasePreparation, Leaving
  <1> QED BY <1>1, <1>2, DropStep

LEMMA FinishHolds == ASSUME IInv, Finish PROVE IInv' /\ Stands
  <1>1. UNCHANGED <<fixed, storage>> /\ prep' = prep /\ budget' = StepCharged
    BY DEF Finish
  <1>2. Sound(budget, budget')
    BY <1>1, Facts, StepChargedSound
  <1>3. CASE Breached(StepCharged)
    BY <1>1, <1>2, <1>3, BudgetStep DEF Finish, Fail
  <1>4. CASE ~Breached(StepCharged)
    <2>1. mode' = "leave" /\ cause' = cause
      BY <1>4 DEF Finish
    <2>2. cause' = "breach" => Breached(budget')
      BY <1>2, <2>1, Facts DEF Sound, Breached
    <2> QED BY <1>1, <1>2, <1>4, <2>1, <2>2, Facts, BudgetStep
  <1> QED BY <1>3, <1>4

LEMMA ReturnHolds == ASSUME IInv, Return PROVE IInv' /\ Stands
  <1>1. /\ UNCHANGED <<fixed, storage>> /\ prep' = prep /\ budget' = budget /\ cause' = cause
        /\ mode' = "leave" /\ ~Breached(budget)
    BY DEF Return
  <1>2. Sound(budget, budget')
    BY <1>1, Facts
  <1>3. cause' = "breach" => Breached(budget')
    BY <1>1, Facts DEF Breached
  <1> QED BY <1>1, <1>2, <1>3, Facts, BudgetStep

LEMMA EndHolds == ASSUME IInv, End PROVE IInv' /\ Stands
  <1>1. /\ UNCHANGED fixed /\ budget' = budget /\ transferred' = transferred
        /\ cause' = cause /\ mode' = "ended" /\ own' = NoHolders /\ prep' = NoPrep
        /\ reserved' = reserved - reserved
        /\ account' = IF funded THEN account - reserved ELSE account
    BY DEF End, Release
  <1>2. /\ NoHolders \in Holders /\ HeldBy(NoHolders) = 0
    BY MaxAssumption DEF NoHolders, Holders, HeldBy
  <1>3. /\ reserved' = 0 /\ reserved' \in 0..Max /\ reserved' <= reserved
        /\ reserved' <= budget'.peak /\ ~Over(reserved', limits.working)
    BY <1>1, Facts DEF Over
  <1>4. account' = transferred' + (IF funded THEN reserved' ELSE 0)
    <2>1. reserved \in Nat /\ transferred \in Nat
      BY Facts
    <2> QED BY <1>1, <1>3, <2>1, Facts
  <1>5. PrepInv' /\ prep' \in Preparations
    BY <1>1, PrepKept
  <1>6. IInv'
    BY <1>1, <1>2, <1>3, <1>4, <1>5, Facts, StepHolds
  <1> QED BY <1>1, <1>3, <1>6 DEF Stands

--------------------------------------------------------------------------------
LEMMA NextHolds == ASSUME IInv, Next PROVE IInv' /\ Stands
  <1>1. CASE ChargeStep BY <1>1, ChargeStepHolds
  <1>2. ASSUME NEW d \in Depths, NoteDepth(d) PROVE IInv' /\ Stands
    BY <1>2, NoteDepthHolds
  <1>3. CASE ThrowDenied \/ Interrupt BY <1>3, ThrowDeniedHolds, InterruptHolds
  <1>4. ASSUME NEW n \in Sizes, Request(n, "staging") \/ Request(n, "result")
        PROVE  IInv' /\ Stands
    <2>1. CASE Request(n, "staging") BY <2>1, RequestHolds
    <2>2. CASE Request(n, "result") BY <2>2, RequestHolds
    <2> QED BY <1>4, <2>1, <2>2
  <1>5. CASE Abandon \/ Adopt \/ TakeFullArray \/ ReleaseStaging
    BY <1>5, AbandonHolds, AdoptHolds, TakeFullArrayHolds, ReleaseStagingHolds
  <1>6. ASSUME NEW m \in 0..Max, ReleaseSince(m) \/ TransferSince(m)
        PROVE  IInv' /\ Stands
    BY <1>6, ReleaseSinceHolds, TransferSinceHolds
  <1>7. ASSUME NEW n \in Sizes, Borrow(n) PROVE IInv' /\ Stands
    BY <1>7, BorrowHolds
  <1>8. ASSUME NEW n \in 1..Max, Repay(n) PROVE IInv' /\ Stands
    BY <1>8, RepayHolds
  <1>9. ASSUME NEW p \in Policies, NEW b \in Baselines, Prepare(p, b)
        PROVE  IInv' /\ Stands
    BY <1>9, PrepareHolds
  <1>10. ASSUME NEW n \in Sizes, Construct(n) \/ ConstructRelease(n)
         PROVE  IInv' /\ Stands
    BY <1>10, ConstructHolds, ConstructReleaseHolds
  <1>11. CASE Prepared \/ ReleasePreparation
    BY <1>11, PreparedHolds, ReleasePreparationHolds
  <1>12. CASE Finish \/ Return \/ End BY <1>12, FinishHolds, ReturnHolds, EndHolds
  <1> QED
    BY <1>1, <1>2, <1>3, <1>4, <1>5, <1>6, <1>7, <1>8, <1>9, <1>10, <1>11, <1>12 DEF Next

LEMMA StutterHolds == ASSUME IInv, UNCHANGED vars PROVE IInv'
  <1>1. TypeOK' /\ Conserved'
    BY DEF IInv, vars, TypeOK, Conserved, HeldBy
  <1>2. WithinLimits'
    BY DEF IInv, vars, WithinLimits, NoneOver, Over, PrepareAvailable, Breached
  <1>3. FailuresExplained'
    BY DEF IInv, vars, FailuresExplained, Breached, Explained, Reported
  <1>4. PrepInv'
    BY DEF IInv, vars, PrepInv, Ceiled, Breached
  <1> QED BY <1>1, <1>2, <1>3, <1>4 DEF IInv

(* The inductive invariant: what the runs check, and what a preparation is.     *)
THEOREM BudgetInvariant == Spec => []IInv
  <1>1. IInv /\ [Next]_vars => IInv'
    BY NextHolds, StutterHolds
  <1> QED BY <1>1, InitHolds, PTL DEF Spec

(* For every width and every limit: no counter leaves its width.                *)
THEOREM BudgetTyped == Spec => []TypeOK
  <1>1. IInv => TypeOK
    BY DEF IInv
  <1> QED BY <1>1, BudgetInvariant, PTL

(* For every width and every limit: what is reserved is held by someone, the    *)
(* host counts it until it is released or transferred, nothing stays behind.    *)
THEOREM ReservationConserved == Spec => []Conserved
  <1>1. IInv => Conserved
    BY DEF IInv
  <1> QED BY <1>1, BudgetInvariant, PTL

(* For every width and every limit: no limit is passed without a denial, and    *)
(* the working limit never is.                                                  *)
THEOREM LimitsKept == Spec => []WithinLimits
  <1>1. IInv => WithinLimits
    BY DEF IInv
  <1> QED BY <1>1, BudgetInvariant, PTL

(* For every width and every limit: a failure of the budget reports a request   *)
(* over the limit it reports.                                                   *)
THEOREM ReportsAreTrue == Spec => []FailuresExplained
  <1>1. IInv => FailuresExplained
    BY DEF IInv
  <1> QED BY <1>1, BudgetInvariant, PTL

(* For every width and every limit: the first denial is final.                  *)
THEOREM DenialIsFinal == Spec => FirstDenialStands
  <1>1. IInv /\ [Next]_vars => [Breached(budget) =>
            /\ budget'.breach = budget.breach
            /\ reserved' <= reserved /\ budget'.result = budget.result]_vars
    BY NextHolds DEF Stands
  <1> QED BY <1>1, BudgetInvariant, PTL DEF Spec, FirstDenialStands

--------------------------------------------------------------------------------
(* A cause is only there once the operation has failed.                         *)
CauseInv == mode \in {"run", "prepare"} => cause = "none"

LEMMA CauseStep == ASSUME CauseInv, [Next]_vars PROVE CauseInv'
  <1> USE DEF CauseInv, Fail, Drop, Breaks, Active, Leaving
  <1>0. ASSUME NEW b, NEW n, NEW h, Acquire(b, n, h), mode \in {"run", "prepare"}
        PROVE  CauseInv'
    BY <1>0 DEF Acquire
  <1>1. CASE ChargeStep BY <1>1 DEF ChargeStep
  <1>2. ASSUME NEW d \in Depths, NoteDepth(d) PROVE CauseInv'
    BY <1>2 DEF NoteDepth
  <1>3. CASE ThrowDenied \/ Interrupt BY <1>3 DEF ThrowDenied, Interrupt
  <1>4. ASSUME NEW n \in Sizes, NEW for, Request(n, for) PROVE CauseInv'
    BY <1>0, <1>4 DEF Request
  <1>5. CASE Abandon \/ Adopt \/ TakeFullArray \/ ReleaseStaging
    BY <1>5 DEF Abandon, Adopt, TakeFullArray, ReleaseStaging
  <1>6. ASSUME NEW m \in 0..Max, ReleaseSince(m) \/ TransferSince(m) PROVE CauseInv'
    BY <1>6 DEF ReleaseSince, TransferSince
  <1>7. ASSUME NEW n \in Sizes, Borrow(n) PROVE CauseInv'
    BY <1>0, <1>7 DEF Borrow
  <1>8. ASSUME NEW n \in 1..Max, Repay(n) PROVE CauseInv'
    BY <1>8 DEF Repay
  <1>9. ASSUME NEW p \in Policies, NEW b \in Baselines, Prepare(p, b) PROVE CauseInv'
    BY <1>9 DEF Prepare
  <1>10. ASSUME NEW n \in Sizes, Construct(n) \/ ConstructRelease(n) PROVE CauseInv'
    BY <1>10 DEF Construct, ConstructRelease
  <1>11. CASE Prepared \/ ReleasePreparation
    BY <1>0, <1>11 DEF Prepared, ReleasePreparation
  <1>12. CASE Finish \/ Return \/ End BY <1>12 DEF Finish, Return, End
  <1>13. CASE UNCHANGED vars BY <1>13 DEF vars
  <1> QED
    BY <1>1, <1>2, <1>3, <1>4, <1>5, <1>6, <1>7, <1>8, <1>9, <1>10, <1>11, <1>12, <1>13
       DEF Next

(* The peak of a preparation under its ceiling is what the limit leaves.        *)
LEMMA PeakAdmitted ==
  ASSUME IInv, mode = "prepare", PublicCeiling, Prepared
  PROVE  mode' = "run" /\ UNCHANGED cause
  <1> DEFINE c == WorkingNoted(budget, prep.peak)
  <1>1. /\ prep.peak \in 0..Max /\ reserved + prep.peak <= limits.working
        /\ ~Breached(budget) /\ ~funded /\ limits.working \in 0..Max /\ Max \in Nat
        /\ reserved \in 0..Max
    BY PrepFacts
  <1>2. ~Over(reserved + prep.peak, limits.working) /\ ~(reserved + prep.peak > Max)
    BY <1>1 DEF Over
  <1>3. ~Breached(c)
    BY <1>1, <1>2, Facts, WorkingNotedSound
  <1> HIDE DEF c
  <1> QED BY <1>1, <1>3 DEF Prepared, Acquire, c

LEMMA CeilingStep ==
  ASSUME IInv, CauseInv, Next, mode = "prepare", PublicCeiling
  PROVE  cause' # "construction" /\ (Prepared => mode' = "run")
  <1>1. cause = "none"
    BY DEF CauseInv
  <1>2. Prepared => mode' = "run" /\ UNCHANGED cause
    BY PeakAdmitted
  <1>3. CASE ChargeStep \/ Interrupt
    BY <1>1, <1>2, <1>3 DEF ChargeStep, Interrupt, Fail
  <1>4. ASSUME NEW n \in Sizes, Construct(n)
        PROVE  cause' # "construction"
    <2> DEFINE requested == prep.baseline + prep.held + n
    <2>1. n \in 0..Max /\ requested <= Max
      BY <1>4, SizesAssumption, MaxAssumption DEF Construct
    <2>2. CASE requested <= prep.ceiling
      BY <1>1, <1>4, <2>2 DEF Construct
    <2>3. CASE ~(requested <= prep.ceiling)
      <3>1. requested > prep.ceiling /\ requested - prep.baseline = prep.held + n
        BY <2>1, <2>3, PrepFacts
      <3>2. Breached(WorkingNoted(budget, prep.held + n))
        BY <2>1, <3>1, DeniedBoth
      <3> QED BY <1>4, <2>3, <3>1, <3>2 DEF Construct, Fail
    <2> QED BY <2>2, <2>3
  <1>5. ASSUME NEW n \in Sizes, ConstructRelease(n)
        PROVE  cause' # "construction"
    BY <1>1, <1>5 DEF ConstructRelease
  <1>6. CASE Prepared
    BY <1>1, <1>2, <1>6
  <1>7. \/ ChargeStep \/ Interrupt \/ Prepared
        \/ \E n \in Sizes : Construct(n) \/ ConstructRelease(n)
    BY DEF Next, NoteDepth, ThrowDenied, Request, Abandon, Adopt, TakeFullArray,
           ReleaseStaging, ReleaseSince, TransferSince, Borrow, Repay, Prepare,
           ReleasePreparation, Finish, Return, End, Leaving
  <1> QED BY <1>2, <1>3, <1>4, <1>5, <1>6, <1>7

(* For every width and every limit: under the public ceiling a preparation that *)
(* needs too much fails as the working limit does, and one that does not is     *)
(* admitted.                                                                    *)
THEOREM CeilingAgrees == Spec => CeilingIsTheLimit
  <1>1. Init => CauseInv
    BY DEF Init, CauseInv
  <1>2. CauseInv /\ [Next]_vars => CauseInv'
    BY CauseStep
  <1>3. Spec => []CauseInv
    BY <1>1, <1>2, PTL DEF Spec
  <1>4. IInv /\ CauseInv /\ [Next]_vars =>
          [mode = "prepare" /\ PublicCeiling =>
             cause' # "construction" /\ (Prepared => mode' = "run")]_vars
    BY CeilingStep
  <1> QED BY <1>3, <1>4, BudgetInvariant, PTL DEF Spec, CeilingIsTheLimit
=================================================================================
