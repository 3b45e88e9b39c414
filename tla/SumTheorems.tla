------------------------------ MODULE SumTheorems ------------------------------
(* Sums over finite sets: what SumFunctionOnSet of the community module         *)
(* Functions returns when a summand changes, is added or may be left out. Its   *)
(* fold is recursive over the subsets of the index set and no induction rule    *)
(* with an operator parameter can be used, so every fact is proved by a least   *)
(* counterexample: the strict subsets of a finite set are well founded. The     *)
(* ledgers of PreparationCache and ProgramCursor are stated with these sums.    *)
EXTENDS Integers, FiniteSets, Functions, FiniteSetTheorems, WellFoundedInduction, TLAPS

(* The element that the fold takes first, and what it adds to the sum of the    *)
(* rest.                                                                        *)
Pick(s) == CHOOSE x \in s : TRUE

Body(f, g, s) == IF s = {} THEN 0 ELSE f[Pick(s)] + g[s \ {Pick(s)}]

(* The function on the subsets of S that the fold's recursion defines.          *)
Solves(f, g, S) == g = [s \in SUBSET S |-> Body(f, g, s)]

Solution(f, S) == CHOOSE g : Solves(f, g, S)

(* The sum is that function at S: the fold's definition unfolded.               *)
LEMMA SumIsSolution ==
  ASSUME NEW f, NEW S
  PROVE  SumFunctionOnSet(f, S) = Solution(f, S)[S]
  BY DEF SumFunctionOnSet, FoldFunctionOnSet, MapThenFoldSet, Solution, Solves, Body, Pick

(* The element taken is an element.                                             *)
LEMMA PickIn ==
  ASSUME NEW s, s # {}
  PROVE  Pick(s) \in s
  BY DEF Pick

(* Induction over the subsets of a finite set, as a least member.               *)
LEMMA LeastSubset ==
  ASSUME NEW S, IsFiniteSet(S), NEW T, T \subseteq SUBSET S, T # {}
  PROVE  \E A \in T : \A B \in T : B \subseteq A => B = A
  <1>1. FiniteSubsetsOf(S) = SUBSET S
    BY FS_FiniteSubsetsOfFinite
  <1>2. IsWellFoundedOn(StrictSubsetOrdering(S), SUBSET S)
    BY <1>1, FS_StrictSubsetOrderingWellFounded
  <1>3. PICK A \in T : \A B \in T : ~(<<B, A>> \in StrictSubsetOrdering(S))
    BY <1>2, WFMin
  <1>4. \A B \in T : B \subseteq A /\ B # A => <<B, A>> \in StrictSubsetOrdering(S)
    BY DEF StrictSubsetOrdering
  <1>5. \A B \in T : B \subseteq A => B = A
    BY <1>3, <1>4
  <1> QED BY <1>5

(* A solution satisfies the recursive equation at every subset.                 *)
LEMMA SolutionAt ==
  ASSUME NEW f, NEW S, NEW g, Solves(f, g, S), NEW s \in SUBSET S
  PROVE  g[s] = Body(f, g, s)
  <1> DEFINE h == [u \in SUBSET S |-> Body(f, g, u)]
  <1>1. g = h
    BY DEF Solves
  <1>2. h[s] = Body(f, g, s)
    OBVIOUS
  <1> HIDE DEF h
  <1> QED BY <1>1, <1>2

(* A solution for a set restricts to one for each of its subsets.               *)
LEMMA SolutionRestricts ==
  ASSUME NEW f, NEW S, NEW g, Solves(f, g, S), NEW B \in SUBSET S
  PROVE  Solves(f, [s \in SUBSET B |-> g[s]], B)
  <1> DEFINE h == [s \in SUBSET B |-> g[s]]
  <1>1. \A s \in SUBSET B : h[s] = Body(f, h, s)
    <2> TAKE s \in SUBSET B
    <2>1. h[s] = Body(f, g, s)
      BY SolutionAt
    <2>2. s # {} => h[s \ {Pick(s)}] = g[s \ {Pick(s)}]
      OBVIOUS
    <2> HIDE DEF h
    <2> QED BY <2>1, <2>2 DEF Body
  <1>2. h = [s \in SUBSET B |-> h[s]]
    OBVIOUS
  <1> HIDE DEF h
  <1>3. [s \in SUBSET B |-> h[s]] = [s \in SUBSET B |-> Body(f, h, s)]
    BY <1>1
  <1>4. Solves(f, h, B)
    BY <1>2, <1>3 DEF Solves
  <1> QED BY <1>4 DEF h

(* There is at most one solution.                                               *)
LEMMA SolutionUnique ==
  ASSUME NEW f, NEW S, IsFiniteSet(S), NEW g, NEW h, Solves(f, g, S), Solves(f, h, S)
  PROVE  g = h
  <1> DEFINE T == {s \in SUBSET S : g[s] # h[s]}
  <1>1. T = {}
    <2> SUFFICES ASSUME T # {} PROVE FALSE
      OBVIOUS
    <2>0. T \subseteq SUBSET S
      OBVIOUS
    <2>1. PICK A \in T : \A B \in T : B \subseteq A => B = A
      <3> HIDE DEF T
      <3> QED BY <2>0, LeastSubset
    <2>2. A \in SUBSET S /\ g[A] # h[A]
      OBVIOUS
    <2>3. g[A] = Body(f, g, A) /\ h[A] = Body(f, h, A)
      BY <2>2, SolutionAt
    <2>4. A # {}
      BY <2>2, <2>3 DEF Body
    <2> DEFINE B == A \ {Pick(A)}
    <2>5. B \subseteq A /\ B # A /\ B \in SUBSET S
      BY <2>2, <2>4, PickIn
    <2>6. g[B] = h[B]
      BY <2>1, <2>5
    <2> QED BY <2>2, <2>3, <2>6 DEF Body
  <1>2. \A s \in SUBSET S : g[s] = h[s]
    BY <1>1
  <1>3. DOMAIN g = SUBSET S /\ DOMAIN h = SUBSET S
    BY DEF Solves
  <1>4. g = [s \in DOMAIN g |-> g[s]] /\ h = [s \in DOMAIN h |-> h[s]]
    BY DEF Solves
  <1> QED BY <1>2, <1>3, <1>4

(* There is one: the recursion is well defined on a finite set.                 *)
LEMMA SolutionExists ==
  ASSUME NEW f, NEW S, IsFiniteSet(S)
  PROVE  Solves(f, Solution(f, S), S)
  <1> DEFINE T == {A \in SUBSET S : ~\E g : Solves(f, g, A)}
  <1>1. T = {}
    <2> SUFFICES ASSUME T # {} PROVE FALSE
      OBVIOUS
    <2>0. T \subseteq SUBSET S
      OBVIOUS
    <2>1. PICK A \in T : \A B \in T : B \subseteq A => B = A
      <3> HIDE DEF T
      <3> QED BY <2>0, LeastSubset
    <2>2. A \in SUBSET S /\ ~\E g : Solves(f, g, A)
      OBVIOUS
    <2> HIDE DEF T
    <2>3. \A B \in SUBSET A : B # A => \E g : Solves(f, g, B)
      BY <2>1, <2>2 DEF T
    <2> DEFINE sum(s) == Solution(f, s)[s]
               value(s) == IF s = {} THEN 0 ELSE f[Pick(s)] + sum(s \ {Pick(s)})
               g == [s \in SUBSET A |-> value(s)]
    <2>4. ASSUME NEW B \in SUBSET A, B # A
          PROVE  sum(B) = value(B)
      <3>1. Solves(f, Solution(f, B), B)
        BY <2>3, <2>4 DEF Solution
      <3>2. sum(B) = Body(f, Solution(f, B), B)
        BY <3>1, SolutionAt
      <3>3. CASE B = {}
        BY <3>2, <3>3 DEF Body
      <3>4. CASE B # {}
        <4> DEFINE C == B \ {Pick(B)}
        <4>1. C \in SUBSET B /\ C \in SUBSET A /\ C # A
          BY <2>4, <3>4, PickIn
        <4>2. Solves(f, Solution(f, C), C)
          BY <2>3, <4>1 DEF Solution
        <4>3. Solves(f, [s \in SUBSET C |-> Solution(f, B)[s]], C)
          BY <3>1, <4>1, SolutionRestricts
        <4>4. IsFiniteSet(C)
          BY <2>2, <4>1, FS_Subset
        <4>5. Solution(f, C) = [s \in SUBSET C |-> Solution(f, B)[s]]
          <5> HIDE DEF C
          <5> QED BY <4>2, <4>3, <4>4, SolutionUnique
        <4>6. sum(C) = Solution(f, B)[C]
          <5> HIDE DEF C
          <5>1. C \in SUBSET C
            OBVIOUS
          <5> QED BY <4>5, <5>1
        <4>7. sum(B) = f[Pick(B)] + Solution(f, B)[C]
          BY <3>2, <3>4 DEF Body
        <4> HIDE DEF sum
        <4> QED BY <3>4, <4>6, <4>7
      <3> QED BY <3>3, <3>4
    <2> HIDE DEF sum
    <2>5. \A s \in SUBSET A : g[s] = Body(f, g, s)
      <3> TAKE s \in SUBSET A
      <3>1. g[s] = value(s)
        OBVIOUS
      <3>2. CASE s = {}
        BY <3>1, <3>2 DEF Body
      <3>3. CASE s # {}
        <4> DEFINE u == s \ {Pick(s)}
        <4>1. u \in SUBSET A /\ u # A
          BY <3>3, PickIn
        <4>2. g[u] = value(u) /\ sum(u) = value(u)
          BY <2>4, <4>1
        <4> HIDE DEF g
        <4> QED BY <3>1, <3>3, <4>2 DEF Body
      <3> QED BY <3>2, <3>3
    <2>6. g = [s \in SUBSET A |-> g[s]]
      OBVIOUS
    <2> HIDE DEF g
    <2>7. Solves(f, g, A)
      <3>1. [s \in SUBSET A |-> g[s]] = [s \in SUBSET A |-> Body(f, g, s)]
        BY <2>5
      <3> QED BY <2>6, <3>1 DEF Solves
    <2> QED BY <2>2, <2>7
  <1>2. \E g : Solves(f, g, S)
    BY <1>1
  <1> QED BY <1>2 DEF Solution

(* The recursive equation of the sum itself.                                    *)
LEMMA SumUnfolds ==
  ASSUME NEW f, NEW S, IsFiniteSet(S)
  PROVE  SumFunctionOnSet(f, S) =
           IF S = {} THEN 0
           ELSE f[Pick(S)] + SumFunctionOnSet(f, S \ {Pick(S)})
  <1>1. Solves(f, Solution(f, S), S)
    BY SolutionExists
  <1>2. SumFunctionOnSet(f, S) = Body(f, Solution(f, S), S)
    <2>1. S \in SUBSET S
      OBVIOUS
    <2> QED BY <1>1, <2>1, SolutionAt, SumIsSolution
  <1>3. CASE S = {}
    BY <1>2, <1>3 DEF Body
  <1>4. CASE S # {}
    <2> DEFINE C == S \ {Pick(S)}
    <2>1. C \in SUBSET S /\ IsFiniteSet(C) /\ C \in SUBSET C
      BY FS_Subset
    <2> HIDE DEF C
    <2>2. Solves(f, Solution(f, C), C)
      BY <2>1, SolutionExists
    <2>3. Solves(f, [s \in SUBSET C |-> Solution(f, S)[s]], C)
      BY <1>1, <2>1, SolutionRestricts
    <2>4. Solution(f, C) = [s \in SUBSET C |-> Solution(f, S)[s]]
      BY <2>1, <2>2, <2>3, SolutionUnique
    <2>5. SumFunctionOnSet(f, C) = Solution(f, S)[C]
      BY <2>1, <2>4, SumIsSolution
    <2> QED BY <1>2, <1>4, <2>5 DEF C, Body
  <1> QED BY <1>3, <1>4

(* The empty sum.                                                               *)
LEMMA SumEmpty ==
  ASSUME NEW f
  PROVE  SumFunctionOnSet(f, {}) = 0
  BY SumUnfolds, FS_EmptySet

(* A sum of integers is an integer.                                             *)
LEMMA SumType ==
  ASSUME NEW S, IsFiniteSet(S), NEW f, \A x \in S : f[x] \in Int
  PROVE  SumFunctionOnSet(f, S) \in Int
  <1> DEFINE T == {A \in SUBSET S : SumFunctionOnSet(f, A) \notin Int}
  <1> SUFFICES ASSUME T # {} PROVE FALSE
    OBVIOUS
  <1>0. T \subseteq SUBSET S
    OBVIOUS
  <1>1. PICK A \in T : \A B \in T : B \subseteq A => B = A
    <2> HIDE DEF T
    <2> QED BY <1>0, LeastSubset
  <1>2. A \in SUBSET S /\ SumFunctionOnSet(f, A) \notin Int /\ IsFiniteSet(A)
    BY FS_Subset
  <1>3. A # {}
    BY <1>2, SumEmpty
  <1> DEFINE B == A \ {Pick(A)}
  <1>4. Pick(A) \in A /\ B \in SUBSET S /\ B \subseteq A /\ B # A
    BY <1>2, <1>3, PickIn
  <1>5. SumFunctionOnSet(f, B) \in Int
    BY <1>1, <1>4
  <1>6. SumFunctionOnSet(f, A) = f[Pick(A)] + SumFunctionOnSet(f, B)
    BY <1>2, <1>3, SumUnfolds
  <1> QED BY <1>2, <1>4, <1>5, <1>6

(* Equal summands have equal sums.                                              *)
LEMMA SumSame ==
  ASSUME NEW S, IsFiniteSet(S), NEW f, NEW g, \A x \in S : f[x] = g[x]
  PROVE  SumFunctionOnSet(f, S) = SumFunctionOnSet(g, S)
  <1> DEFINE T == {A \in SUBSET S : SumFunctionOnSet(f, A) # SumFunctionOnSet(g, A)}
  <1> SUFFICES ASSUME T # {} PROVE FALSE
    OBVIOUS
  <1>0. T \subseteq SUBSET S
    OBVIOUS
  <1>1. PICK A \in T : \A B \in T : B \subseteq A => B = A
    <2> HIDE DEF T
    <2> QED BY <1>0, LeastSubset
  <1>2. /\ A \in SUBSET S /\ IsFiniteSet(A)
        /\ SumFunctionOnSet(f, A) # SumFunctionOnSet(g, A)
    BY FS_Subset
  <1>3. A # {}
    BY <1>2, SumUnfolds
  <1> DEFINE B == A \ {Pick(A)}
  <1>4. Pick(A) \in A /\ B \in SUBSET S /\ B \subseteq A /\ B # A
    BY <1>2, <1>3, PickIn
  <1>5. SumFunctionOnSet(f, B) = SumFunctionOnSet(g, B)
    BY <1>1, <1>4
  <1>6. /\ SumFunctionOnSet(f, A) = f[Pick(A)] + SumFunctionOnSet(f, B)
        /\ SumFunctionOnSet(g, A) = g[Pick(A)] + SumFunctionOnSet(g, B)
    BY <1>2, <1>3, SumUnfolds
  <1> QED BY <1>2, <1>4, <1>5, <1>6

(* Any element may be taken first: the order of the fold does not matter.       *)
LEMMA SumRemove ==
  ASSUME NEW S, IsFiniteSet(S), NEW f, \A x \in S : f[x] \in Int, NEW y \in S
  PROVE  SumFunctionOnSet(f, S) = f[y] + SumFunctionOnSet(f, S \ {y})
  <1> DEFINE Holds(A, z) == SumFunctionOnSet(f, A) = f[z] + SumFunctionOnSet(f, A \ {z})
             T == {A \in SUBSET S : \E z \in A : ~Holds(A, z)}
  <1> SUFFICES ASSUME T # {} PROVE FALSE
    OBVIOUS
  <1>0. T \subseteq SUBSET S
    OBVIOUS
  <1>1. PICK A \in T : \A B \in T : B \subseteq A => B = A
    <2> HIDE DEF T
    <2> QED BY <1>0, LeastSubset
  <1>2. A \in SUBSET S /\ IsFiniteSet(A) /\ \E z \in A : ~Holds(A, z)
    BY FS_Subset
  <1> HIDE DEF Holds
  <1>3. \A B \in SUBSET A : \A z \in B : B # A => Holds(B, z)
    BY <1>1, <1>2
  <1>4. PICK z \in A : ~Holds(A, z)
    BY <1>2
  <1> DEFINE p == Pick(A)
             C == (A \ {p}) \ {z}
  <1>5. p \in A /\ Holds(A, p)
    BY <1>2, <1>4, PickIn, SumUnfolds DEF Holds
  <1>6. p # z /\ z \in A \ {p} /\ p \in A \ {z} /\ (A \ {z}) \ {p} = C
    BY <1>4, <1>5
  <1>7. Holds(A \ {p}, z) /\ Holds(A \ {z}, p)
    <2>1. A \ {p} \in SUBSET A /\ A \ {p} # A /\ A \ {z} \in SUBSET A /\ A \ {z} # A
      BY <1>4, <1>5
    <2> QED BY <1>3, <1>6, <2>1
  <1>8. IsFiniteSet(C) /\ C \subseteq S /\ p \in S /\ z \in S
    BY <1>2, <1>4, <1>5, FS_Subset
  <1>9. SumFunctionOnSet(f, C) \in Int /\ f[p] \in Int /\ f[z] \in Int
    BY <1>8, SumType
  <1> HIDE DEF p, C
  <1>10. /\ SumFunctionOnSet(f, A) = f[p] + SumFunctionOnSet(f, A \ {p})
         /\ SumFunctionOnSet(f, A \ {p}) = f[z] + SumFunctionOnSet(f, C)
         /\ SumFunctionOnSet(f, A \ {z}) = f[p] + SumFunctionOnSet(f, C)
    BY <1>5, <1>6, <1>7 DEF Holds, C
  <1> QED BY <1>4, <1>9, <1>10 DEF Holds

(* A sum of natural numbers is a natural number.                                *)
LEMMA SumNat ==
  ASSUME NEW S, IsFiniteSet(S), NEW f, \A x \in S : f[x] \in Nat
  PROVE  SumFunctionOnSet(f, S) \in Nat
  <1> DEFINE T == {A \in SUBSET S : SumFunctionOnSet(f, A) \notin Nat}
  <1> SUFFICES ASSUME T # {} PROVE FALSE
    OBVIOUS
  <1>0. T \subseteq SUBSET S
    OBVIOUS
  <1>1. PICK A \in T : \A B \in T : B \subseteq A => B = A
    <2> HIDE DEF T
    <2> QED BY <1>0, LeastSubset
  <1>2. A \in SUBSET S /\ SumFunctionOnSet(f, A) \notin Nat /\ IsFiniteSet(A)
    BY FS_Subset
  <1>3. A # {}
    BY <1>2, SumUnfolds
  <1> DEFINE B == A \ {Pick(A)}
  <1>4. Pick(A) \in A /\ B \in SUBSET S /\ B \subseteq A /\ B # A
    BY <1>2, <1>3, PickIn
  <1>5. SumFunctionOnSet(f, B) \in Nat
    BY <1>1, <1>4
  <1>6. SumFunctionOnSet(f, A) = f[Pick(A)] + SumFunctionOnSet(f, B)
    BY <1>2, <1>3, SumUnfolds
  <1> QED BY <1>2, <1>4, <1>5, <1>6

(* The sum over a part and over the rest.                                       *)
LEMMA SumSplit ==
  ASSUME NEW S, IsFiniteSet(S), NEW f, \A x \in S : f[x] \in Int, NEW P \in SUBSET S
  PROVE  SumFunctionOnSet(f, S) = SumFunctionOnSet(f, P) + SumFunctionOnSet(f, S \ P)
  <1> DEFINE Holds(A) ==
               SumFunctionOnSet(f, S) = SumFunctionOnSet(f, A) + SumFunctionOnSet(f, S \ A)
             T == {A \in SUBSET S : ~Holds(A)}
  <1> SUFFICES ASSUME T # {} PROVE FALSE
    OBVIOUS
  <1>0. T \subseteq SUBSET S
    OBVIOUS
  <1>1. PICK A \in T : \A B \in T : B \subseteq A => B = A
    <2> HIDE DEF T
    <2> QED BY <1>0, LeastSubset
  <1>2. A \in SUBSET S /\ IsFiniteSet(A) /\ ~Holds(A) /\ IsFiniteSet(S \ A)
    BY FS_Subset
  <1>3. A # {}
    <2> SUFFICES ASSUME A = {} PROVE FALSE
      OBVIOUS
    <2>1. S \ A = S /\ SumFunctionOnSet(f, S) \in Int
      BY SumType
    <2> QED BY <1>2, <2>1, SumEmpty
  <1>4. PICK a : a \in A
    BY <1>3
  <1> DEFINE B == A \ {a}
             D == S \ A
  <1>5. /\ B \in SUBSET S /\ B \subseteq A /\ B # A /\ a \in S /\ a \in S \ B
        /\ (S \ B) \ {a} = D /\ IsFiniteSet(B) /\ IsFiniteSet(S \ B)
    BY <1>2, <1>4, FS_Subset
  <1>6. Holds(B)
    BY <1>1, <1>5
  <1>7. SumFunctionOnSet(f, S \ B) = f[a] + SumFunctionOnSet(f, D)
    <2> DEFINE E == S \ B
    <2>1. IsFiniteSet(E) /\ a \in E /\ E \ {a} = D /\ E \subseteq S
      BY <1>5
    <2> HIDE DEF E, D
    <2>2. SumFunctionOnSet(f, E) = f[a] + SumFunctionOnSet(f, E \ {a})
      BY <2>1, SumRemove
    <2> QED BY <2>1, <2>2 DEF E
  <1>8. SumFunctionOnSet(f, A) = f[a] + SumFunctionOnSet(f, B)
    BY <1>2, <1>4, SumRemove
  <1>9. /\ SumFunctionOnSet(f, B) \in Int /\ SumFunctionOnSet(f, D) \in Int
        /\ f[a] \in Int
    BY <1>2, <1>5, SumType
  <1> QED BY <1>2, <1>6, <1>7, <1>8, <1>9

(* The sum of differences is the difference of the sums.                        *)
LEMMA SumMinus ==
  ASSUME NEW S, IsFiniteSet(S), NEW f, NEW g, NEW h,
         \A x \in S : f[x] \in Int /\ g[x] \in Int /\ h[x] = f[x] - g[x]
  PROVE  SumFunctionOnSet(h, S) = SumFunctionOnSet(f, S) - SumFunctionOnSet(g, S)
  <1> DEFINE Holds(A) ==
               SumFunctionOnSet(h, A) = SumFunctionOnSet(f, A) - SumFunctionOnSet(g, A)
             T == {A \in SUBSET S : ~Holds(A)}
  <1> SUFFICES ASSUME T # {} PROVE FALSE
    OBVIOUS
  <1>0. T \subseteq SUBSET S
    OBVIOUS
  <1>1. PICK A \in T : \A B \in T : B \subseteq A => B = A
    <2> HIDE DEF T
    <2> QED BY <1>0, LeastSubset
  <1>2. A \in SUBSET S /\ IsFiniteSet(A) /\ ~Holds(A)
    BY FS_Subset
  <1>3. A # {}
    <2> SUFFICES ASSUME A = {} PROVE FALSE
      OBVIOUS
    <2>1. /\ SumFunctionOnSet(f, A) = 0 /\ SumFunctionOnSet(g, A) = 0
          /\ SumFunctionOnSet(h, A) = 0
      BY SumEmpty
    <2> QED BY <1>2, <2>1
  <1> DEFINE B == A \ {Pick(A)}
  <1>4. Pick(A) \in A /\ B \in SUBSET S /\ B \subseteq A /\ B # A /\ IsFiniteSet(B)
    BY <1>2, <1>3, PickIn, FS_Subset
  <1>5. Holds(B)
    BY <1>1, <1>4
  <1>6. /\ SumFunctionOnSet(f, A) = f[Pick(A)] + SumFunctionOnSet(f, B)
        /\ SumFunctionOnSet(g, A) = g[Pick(A)] + SumFunctionOnSet(g, B)
        /\ SumFunctionOnSet(h, A) = h[Pick(A)] + SumFunctionOnSet(h, B)
    BY <1>2, <1>3, SumUnfolds
  <1>7. SumFunctionOnSet(f, B) \in Int /\ SumFunctionOnSet(g, B) \in Int
    BY <1>4, SumType
  <1> HIDE DEF B
  <1>8. f[Pick(A)] \in Int /\ g[Pick(A)] \in Int /\ h[Pick(A)] = f[Pick(A)] - g[Pick(A)]
    BY <1>2, <1>4
  <1> QED BY <1>2, <1>5, <1>6, <1>7, <1>8

(* One summand changes.                                                         *)
LEMMA SumChange ==
  ASSUME NEW S, IsFiniteSet(S), NEW f, NEW g, NEW y \in S,
         \A x \in S : f[x] \in Int /\ g[x] \in Int,
         \A x \in S \ {y} : f[x] = g[x]
  PROVE  SumFunctionOnSet(g, S) = SumFunctionOnSet(f, S) - f[y] + g[y]
  <1>1. IsFiniteSet(S \ {y})
    BY FS_Subset
  <1>2. SumFunctionOnSet(f, S \ {y}) = SumFunctionOnSet(g, S \ {y})
    BY <1>1, SumSame
  <1>3. /\ SumFunctionOnSet(f, S) = f[y] + SumFunctionOnSet(f, S \ {y})
        /\ SumFunctionOnSet(g, S) = g[y] + SumFunctionOnSet(g, S \ {y})
    BY SumRemove
  <1>4. SumFunctionOnSet(f, S \ {y}) \in Int
    BY <1>1, SumType
  <1> QED BY <1>2, <1>3, <1>4

(* Summands that are zero may be left out.                                      *)
LEMMA SumSupport ==
  ASSUME NEW S, IsFiniteSet(S), NEW P \in SUBSET S, NEW f, NEW g,
         \A x \in P : f[x] \in Int /\ g[x] = f[x], \A x \in S \ P : f[x] = 0
  PROVE  SumFunctionOnSet(g, P) = SumFunctionOnSet(f, S)
  <1> DEFINE zero == [x \in S \ P |-> 0]
  <1>1. IsFiniteSet(P) /\ IsFiniteSet(S \ P)
    BY FS_Subset
  <1>2. SumFunctionOnSet(g, P) = SumFunctionOnSet(f, P)
    BY <1>1, SumSame
  <1>3. SumFunctionOnSet(zero, S \ P) = 0
    <2>1. \A x \in S \ P : zero[x] \in Int /\ zero[x] = zero[x] - zero[x]
      OBVIOUS
    <2>2. SumFunctionOnSet(zero, S \ P) \in Int
      BY <1>1, <2>1, SumType
    <2>3. SumFunctionOnSet(zero, S \ P)
            = SumFunctionOnSet(zero, S \ P) - SumFunctionOnSet(zero, S \ P)
      BY <1>1, <2>1, SumMinus
    <2> QED BY <2>2, <2>3
  <1>4. SumFunctionOnSet(f, S \ P) = SumFunctionOnSet(zero, S \ P)
    BY <1>1, SumSame
  <1>5. SumFunctionOnSet(f, S) = SumFunctionOnSet(f, P) + SumFunctionOnSet(f, S \ P)
    BY SumSplit
  <1>6. SumFunctionOnSet(f, P) \in Int
    BY <1>1, SumType
  <1> QED BY <1>2, <1>3, <1>4, <1>5, <1>6

(* An element more.                                                             *)
LEMMA SumAdd ==
  ASSUME NEW S, IsFiniteSet(S), NEW y, y \notin S, NEW f, NEW g,
         \A x \in S : f[x] \in Int /\ g[x] = f[x], g[y] \in Int
  PROVE  SumFunctionOnSet(g, S \cup {y}) = SumFunctionOnSet(f, S) + g[y]
  <1> DEFINE Y == S \cup {y}
  <1>1. IsFiniteSet(Y) /\ y \in Y /\ Y \ {y} = S
    BY FS_AddElement
  <1>2. \A x \in Y : g[x] \in Int
    OBVIOUS
  <1> HIDE DEF Y
  <1>3. SumFunctionOnSet(g, Y) = g[y] + SumFunctionOnSet(g, S)
    BY <1>1, <1>2, SumRemove
  <1>4. SumFunctionOnSet(g, S) = SumFunctionOnSet(f, S) /\ SumFunctionOnSet(f, S) \in Int
    BY SumSame, SumType
  <1> QED BY <1>3, <1>4 DEF Y

(* A sum of zeros is zero.                                                      *)
LEMMA SumZero ==
  ASSUME NEW S, IsFiniteSet(S), NEW f, \A x \in S : f[x] = 0
  PROVE  SumFunctionOnSet(f, S) = 0
  <1>1. SumFunctionOnSet(f, {}) = SumFunctionOnSet(f, S)
    <2>1. \A x \in {} : f[x] \in Int /\ f[x] = f[x]
      OBVIOUS
    <2>2. {} \in SUBSET S /\ \A x \in S \ {} : f[x] = 0
      OBVIOUS
    <2> QED BY <2>1, <2>2, SumSupport
  <1> QED BY <1>1, SumEmpty
================================================================================
