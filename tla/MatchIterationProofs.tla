------------------------- MODULE MatchIterationProofs -------------------------
(* For every subject, table of alternatives and lane of MatchIteration: what a  *)
(* cursor reports follows from what it reported before, and false means that    *)
(* nothing is left.  The two hypotheses are the two findings: \G that a cursor  *)
(* of Core looks behind at, and a slice cursor called again after the end.      *)
EXTENDS MatchIteration, TLAPS

CoreLooksAhead ==
  "Core" \in Lanes =>
    \A p \in Patterns["Core"] : \A n \in 1..Len(p) : p[n].pin = Free \/ p[n].at <= p[n].pin

SliceCallersStop == "Slice" \in Lanes => Again["Slice"] = 0

E == LastEnd(Len(matches))
Emptied == WasEmpty(Len(matches))
Retries == {"Python", "Generic", "Slice"}

Idle ==
  phase = "idle" =>
    /\ ~cursor.finished
    /\ lane \in Retries => cursor.position = E /\ cursor.retry = Emptied
    /\ lane = "Core" => cursor.position = IF Emptied THEN AdvancePastScalar(E) ELSE E
    /\ lane = "Count" => Len(matches) = 0 /\ cursor.position = 0

(* Where \G stands, as far as an attempt can tell.                              *)
Origin ==
  /\ lane \in {"Count", "Generic"} => cursor.origin = E
  /\ lane = "Core" => cursor.origin <= E /\ (~Emptied => cursor.origin = E)
  /\ (lane = "Slice" /\ phase = "search") => cursor.origin = E

(* Nothing eligible was passed, and the candidate is one a search may visit.    *)
Searching ==
  phase = "search" =>
    /\ ~cursor.finished /\ E <= at
    /\ \A n \in Eligible(E, Emptied) : at <= pattern[n].at
    /\ (lane = "Slice" /\ at \notin input.boundaries) \/ Visits(E, Emptied, at)
    /\ lane \in {"Core", "Count"} => at \in input.boundaries /\ (Emptied => at # E)
    /\ lane = "Python" => at \in input.boundaries
    /\ lane \in Retries => cursor.retry = (Emptied /\ at = E)
    /\ lane = "Slice" => cursor.position = at
    /\ cursor.retry => cursor.position = at \/ lane \in {"Core", "Count"}

Ended ==
  phase = "over" =>
    /\ Eligible(E, Emptied) = {}
    /\ lane \in {"Core", "Python", "Generic"} => cursor.finished

Asked == again > 0 => phase = "over"

IInv == TypeOK /\ MatchesFollow /\ Idle /\ Origin /\ Searching /\ Ended /\ Asked

--------------------------------------------------------------------------------
(* What a legal subject gives.                                                  *)
LEMMA SubjectFacts ==
  ASSUME input \in Inputs
  PROVE  /\ input.boundaries \subseteq Positions
         /\ 0 \in input.boundaries /\ Length \in input.boundaries
         /\ \A p \in 0..(Length - 1) : input.next[p] \in Positions
         /\ \A p \in input.boundaries \ {Length} :
              /\ input.next[p] \in input.boundaries /\ p < input.next[p]
              /\ \A q \in input.boundaries : q <= p \/ input.next[p] <= q
         /\ \A p \in input.crlf : {p, p + 1, p + 2} \subseteq input.boundaries /\ p + 1 \notin input.crlf
         /\ input.skips \in BOOLEAN /\ input.anchored \in BOOLEAN
BY InputsAssumption, LengthAssumption, Z3 DEF Positions

(* No boundary lies between a boundary and where its scalar ends.               *)
LEMMA NextBoundary ==
  ASSUME input \in Inputs, NEW e \in Positions, NEW b \in BOOLEAN, NEW p \in input.boundaries,
         e <= p, NEW q, Visits(e, b, q), p < q
  PROVE  p < Length /\ input.next[p] <= q
<1>1. /\ input.boundaries \subseteq Positions /\ Length \in Nat
      /\ \A r \in input.boundaries \ {Length} :
           \A s \in input.boundaries : s <= r \/ input.next[r] <= s
      /\ \A r \in 0..(Length - 1) : input.next[r] \in Positions
  BY SubjectFacts, LengthAssumption
<1>2. q \in Positions /\ (q = e \/ q \in input.boundaries
                           \/ \A r \in input.boundaries : r < e \/ q < r)
  BY DEF Visits, Reach
<1>3. q \in input.boundaries
  BY <1>1, <1>2 DEF Positions
<1>4. p < Length
  BY <1>1, <1>2 DEF Positions
<1> QED BY <1>1, <1>3, <1>4 DEF Positions

(* The end of the scalar at a boundary is a place the search may visit.         *)
LEMMA NextVisits ==
  ASSUME input \in Inputs, NEW e \in Positions, NEW b \in BOOLEAN, NEW p \in input.boundaries,
         e <= p, p < Length, ~input.anchored, p \notin input.crlf \/ ~input.skips,
         (b /\ p = e) => p \notin input.crlf
  PROVE  /\ input.next[p] \in Positions /\ p < input.next[p]
         /\ input.next[p] \in input.boundaries /\ Visits(e, b, input.next[p])
<1>1. /\ input.boundaries \subseteq Positions /\ Length \in Nat
      /\ input.next[p] \in input.boundaries /\ p < input.next[p]
      /\ \A s \in input.boundaries : s <= p \/ input.next[p] <= s
      /\ \A c \in input.crlf : c \in input.boundaries
  BY SubjectFacts, LengthAssumption DEF Positions
<1> DEFINE n == input.next[p]
<1>2. n \in Positions /\ n > e /\ n \in Reach(e)
  BY <1>1 DEF Reach, Positions
<1>3. input.skips => (n - 1) \notin input.crlf
  <2> SUFFICES ASSUME input.skips, (n - 1) \in input.crlf PROVE FALSE
    OBVIOUS
  <2>1. (n - 1) \in input.boundaries /\ n - 1 < n
    BY <1>1, <1>2 DEF Positions
  <2>2. n - 1 <= p
    BY <1>1, <1>2, <2>1 DEF Positions
  <2>3. n - 1 = p
    BY <1>1, <1>2, <2>2 DEF Positions
  <2> QED BY <2>3
<1>4. (b /\ e \in input.crlf) => n # e + 1
  <2> SUFFICES ASSUME b, e \in input.crlf, n = e + 1 PROVE FALSE
    OBVIOUS
  <2>1. p = e
    BY <1>1, <1>2 DEF Positions
  <2> QED BY <2>1
<1> QED BY <1>1, <1>2, <1>3, <1>4 DEF Visits

--------------------------------------------------------------------------------
(* The alternatives and the last end are positions.                             *)
LEMMA PatternFacts ==
  ASSUME TypeOK, NEW n \in 1..Len(pattern)
  PROVE  /\ pattern \in Seq(Alternative) /\ pattern[n] \in Alternative
         /\ pattern[n].at <= pattern[n].end /\ pattern[n].at <= pattern[n].from
         /\ lane # "Generic" => /\ pattern[n].from = pattern[n].at
                               /\ {pattern[n].at, pattern[n].end} \subseteq input.boundaries
         /\ lane = "Python" => pattern[n].pin = Free
<1>1. pattern \in Seq(Alternative)
  BY PatternsAssumption DEF TypeOK
<1> QED BY <1>1 DEF TypeOK, Admissible

LEMMA LastEndFacts ==
  ASSUME TypeOK, MatchesFollow
  PROVE  /\ E \in Positions /\ Emptied \in BOOLEAN /\ Len(matches) \in Nat
         /\ lane # "Generic" => E \in input.boundaries
<1>1. input \in Inputs /\ Len(matches) \in Nat /\ 0 \in Positions /\ 0 \in input.boundaries
  BY SubjectFacts, LengthAssumption DEF TypeOK, Positions
<1>2. CASE Len(matches) = 0
  BY <1>1, <1>2 DEF E, Emptied, LastEnd, WasEmpty
<1>3. CASE Len(matches) # 0
  <2>1. Len(matches) \in 1..Len(matches)
    BY <1>1, <1>3
  <2>2. PICK n \in 1..Len(pattern) : matches[Len(matches)] = pattern[n]
    BY <2>1 DEF MatchesFollow
  <2>3. pattern[n].end \in Positions
    BY PatternFacts DEF Alternative
  <2> QED BY <1>1, <1>3, <2>2, <2>3, PatternFacts DEF E, Emptied, LastEnd, WasEmpty
<1> QED BY <1>2, <1>3

(* Outside PCRE2's own cursors no newline convention and no anchor applies.     *)
LEMMA PlainSubject ==
  ASSUME TypeOK, lane # "Generic"
  PROVE  input.crlf = {} /\ ~input.skips /\ ~input.anchored
BY DEF TypeOK, Admissible

(* An attempt sees \G where the last match ended.                               *)
LEMMA PinsAgree ==
  ASSUME TypeOK, MatchesFollow, Origin, Searching, phase = "search", CoreLooksAhead,
         NEW n \in 1..Len(pattern), pattern[n].at = at
  PROVE  pattern[n].pin \in {Free, cursor.origin} <=> pattern[n].pin \in {Free, E}
<1>1. E \in Positions /\ at \in Positions /\ cursor.origin \in Positions
      /\ pattern[n].pin \in Positions \cup {Free}
  BY LastEndFacts, PatternFacts DEF TypeOK, Alternative
<1>2. lane \in {"Core", "Count", "Python", "Generic", "Slice"}
  BY LanesAssumption DEF TypeOK
<1>3. CASE lane = "Python"
  BY <1>3, PatternFacts
<1>4. CASE lane \in {"Count", "Generic", "Slice"}
  BY <1>4 DEF Origin
<1>5. CASE lane = "Core" /\ ~Emptied
  BY <1>5 DEF Origin
<1>6. CASE lane = "Core" /\ Emptied
  <2>1. at # E /\ E <= at /\ cursor.origin <= E
    BY <1>6 DEF Origin, Searching
  <2>2. pattern[n].pin = Free \/ pattern[n].at <= pattern[n].pin
    BY <1>6 DEF CoreLooksAhead, TypeOK
  <2> QED BY <1>1, <2>1, <2>2 DEF Positions
<1> QED BY <1>2, <1>3, <1>4, <1>5, <1>6

(* What the lane asks of an attempt at the candidate.                           *)
Wants(n) == (Emptied /\ at = E) => (lane \notin {"Core", "Count"} /\ pattern[n].from # pattern[n].end)
NonEmpty == lane \in Retries /\ cursor.retry

(* An attempt admits exactly the eligible alternatives at its candidate.        *)
LEMMA AdmitsEligible ==
  ASSUME TypeOK, MatchesFollow, Origin, Searching, phase = "search", CoreLooksAhead,
         NEW n \in 1..Len(pattern), pattern[n].at = at
  PROVE  Admits(n, at, cursor.origin, NonEmpty) <=> n \in Eligible(E, Emptied)
<1>1. lane \in {"Core", "Count", "Python", "Generic", "Slice"}
  BY LanesAssumption DEF TypeOK
<1>2. Visits(E, Emptied, at)
  <2>1. CASE lane = "Slice"
    BY <2>1, PatternFacts DEF Searching
  <2>2. CASE lane # "Slice"
    BY <2>2 DEF Searching
  <2> QED BY <2>1, <2>2
<1>3. Wants(n) <=> (NonEmpty => pattern[n].from # pattern[n].end)
  <2>1. CASE lane \in {"Core", "Count"}
    BY <2>1 DEF Wants, NonEmpty, Searching, Retries
  <2>2. CASE lane \in Retries
    BY <2>2 DEF Wants, NonEmpty, Searching, Retries
  <2> QED BY <1>1, <2>1, <2>2 DEF Retries
<1>4. n \in Eligible(E, Emptied) <=> pattern[n].pin \in {Free, E} /\ Wants(n)
  BY <1>2 DEF Eligible, Wants
<1> QED BY <1>3, <1>4, PinsAgree DEF Admits

(* So a match is the next one, and a miss passes nothing.                       *)
LEMMA FoundIsNext ==
  ASSUME TypeOK, MatchesFollow, Origin, Searching, phase = "search", CoreLooksAhead,
         NEW n \in 1..Len(pattern), Found(n, at, cursor.origin, NonEmpty)
  PROVE  IsNext(n, Len(matches)) /\ pattern[n].at = at
<1>1. pattern[n].at = at
  BY DEF Found, Admits
<1>2. n \in Eligible(E, Emptied)
  BY <1>1, AdmitsEligible DEF Found
<1>3. ASSUME NEW m \in Eligible(E, Emptied)
      PROVE  Before(n, m)
  <2>1. m \in 1..Len(pattern) /\ at <= pattern[m].at /\ at \in Positions
        /\ pattern[m].at \in Positions
    BY PatternFacts DEF Eligible, Searching, TypeOK, Alternative
  <2>2. CASE pattern[m].at = at
    <3>1. Admits(m, at, cursor.origin, NonEmpty)
      BY <2>1, <2>2, AdmitsEligible
    <3>2. ~(m \in 1..(n - 1))
      BY <3>1 DEF Found
    <3>3. Len(pattern) \in Nat
      BY PatternFacts
    <3> QED BY <1>1, <2>1, <2>2, <3>2, <3>3 DEF Before
  <2>3. CASE pattern[m].at # at
    BY <1>1, <2>1, <2>3 DEF Before, Positions
  <2> QED BY <2>2, <2>3
<1> QED BY <1>1, <1>2, <1>3 DEF IsNext, EligibleAfter, E, Emptied

LEMMA MissPasses ==
  ASSUME TypeOK, MatchesFollow, Origin, Searching, phase = "search", CoreLooksAhead,
         Missed(at, cursor.origin, NonEmpty), NEW n \in Eligible(E, Emptied)
  PROVE  /\ n \in 1..Len(pattern) /\ pattern[n].at \in Positions /\ at < pattern[n].at
         /\ Visits(E, Emptied, pattern[n].at)
<1>1. n \in 1..Len(pattern) /\ at <= pattern[n].at /\ at \in Positions
      /\ pattern[n].at \in Positions /\ Visits(E, Emptied, pattern[n].at)
  BY PatternFacts DEF Eligible, Searching, TypeOK, Alternative
<1>2. pattern[n].at # at
  BY <1>1, AdmitsEligible DEF Missed
<1> QED BY <1>1, <1>2 DEF Positions

--------------------------------------------------------------------------------
(* Where a search goes on after a miss: over a scalar, over a byte inside one,  *)
(* or over a CR LF pair; nothing eligible lies between.                         *)
Onward(q) ==
  /\ q \in Positions /\ at < q /\ Visits(E, Emptied, q)
  /\ \A n \in Eligible(E, Emptied) : q <= pattern[n].at

Looking == /\ TypeOK /\ MatchesFollow /\ Origin /\ Searching /\ phase = "search"
           /\ CoreLooksAhead /\ Missed(at, cursor.origin, NonEmpty)

LEMMA MissScalar ==
  ASSUME Looking, at \in input.boundaries
  PROVE  /\ at >= Length => Eligible(E, Emptied) = {}
         /\ (/\ at < Length /\ ~input.anchored /\ (at \notin input.crlf \/ ~input.skips)
             /\ (Emptied /\ at = E) => at \notin input.crlf)
            => Onward(input.next[at]) /\ input.next[at] \in input.boundaries
<1>1. input \in Inputs /\ E \in Positions /\ Emptied \in BOOLEAN /\ E <= at
  BY LastEndFacts DEF Looking, TypeOK, Searching
<1>2. ASSUME NEW n \in Eligible(E, Emptied)
      PROVE  at < Length /\ input.next[at] <= pattern[n].at
  <2>1. Visits(E, Emptied, pattern[n].at) /\ at < pattern[n].at
    BY MissPasses DEF Looking
  <2> QED BY <1>1, <2>1, NextBoundary
<1>3. at \in Positions /\ Length \in Nat
  BY LengthAssumption DEF Looking, TypeOK
<1>4. at >= Length => Eligible(E, Emptied) = {}
  <2>1. ASSUME at >= Length, NEW n \in Eligible(E, Emptied) PROVE FALSE
    BY <1>2, <1>3, <2>1 DEF Positions
  <2> QED BY <2>1
<1>5. ASSUME at < Length, ~input.anchored, at \notin input.crlf \/ ~input.skips,
             (Emptied /\ at = E) => at \notin input.crlf
      PROVE  Onward(input.next[at]) /\ input.next[at] \in input.boundaries
  <2>1. /\ input.next[at] \in Positions /\ at < input.next[at]
        /\ input.next[at] \in input.boundaries /\ Visits(E, Emptied, input.next[at])
    BY <1>1, <1>5, NextVisits
  <2> QED BY <1>2, <2>1 DEF Onward
<1> QED BY <1>4, <1>5

LEMMA MissByte ==
  ASSUME Looking, lane = "Generic", ~input.anchored, at \notin input.boundaries
  PROVE  Onward(at + 1)
<1>1. input \in Inputs /\ E \in Positions /\ Emptied \in BOOLEAN /\ E <= at
      /\ at \in Positions /\ Visits(E, Emptied, at) /\ Length \in Nat
  BY LastEndFacts, LengthAssumption DEF Looking, TypeOK, Searching
<1>2. /\ input.boundaries \subseteq Positions /\ Length \in input.boundaries
      /\ \A c \in input.crlf : c \in input.boundaries
  BY <1>1, SubjectFacts
<1>3. at + 1 \in Positions
  BY <1>1, <1>2 DEF Positions
<1>4. at + 1 \in Reach(E)
  <2>1. at = E \/ \A b \in input.boundaries : b < E \/ at < b
    BY <1>1 DEF Visits, Reach
  <2>2. ASSUME at + 1 \notin input.boundaries, NEW b \in input.boundaries
        PROVE  b < E \/ at + 1 < b
    BY <1>1, <1>2, <2>1, <2>2 DEF Positions
  <2> QED BY <1>1, <1>3, <2>2 DEF Reach, Positions
<1>5. (Emptied /\ E \in input.crlf) => at + 1 # E + 1
  BY <1>1, <1>2 DEF Positions
<1>6. (input.skips /\ at + 1 > E) => (at + 1) - 1 \notin input.crlf
  BY <1>1, <1>2 DEF Positions
<1>7. Visits(E, Emptied, at + 1)
  BY <1>4, <1>5, <1>6 DEF Visits
<1>8. ASSUME NEW n \in Eligible(E, Emptied) PROVE at + 1 <= pattern[n].at
  BY <1>1, MissPasses DEF Looking, Positions
<1> QED BY <1>1, <1>3, <1>7, <1>8 DEF Onward, Positions

LEMMA MissPair ==
  ASSUME Looking, lane = "Generic", ~input.anchored, at \in input.crlf,
         input.skips \/ (Emptied /\ at = E)
  PROVE  Onward(at + 2)
<1>1. input \in Inputs /\ E \in Positions /\ Emptied \in BOOLEAN /\ E <= at
      /\ at \in Positions /\ Length \in Nat
  BY LastEndFacts, LengthAssumption DEF Looking, TypeOK, Searching
<1>2. /\ input.boundaries \subseteq Positions
      /\ at + 2 \in input.boundaries /\ at + 1 \notin input.crlf
  BY <1>1, SubjectFacts
<1>3. at + 2 \in Positions /\ at + 2 \in Reach(E)
  BY <1>1, <1>2 DEF Reach, Positions
<1>4. Visits(E, Emptied, at + 2)
  <2>1. (at + 2) - 1 = at + 1 /\ at + 2 # E + 1
    BY <1>1 DEF Positions
  <2> QED BY <1>2, <1>3, <2>1 DEF Visits
<1>5. ASSUME NEW n \in Eligible(E, Emptied) PROVE at + 2 <= pattern[n].at
  <2>1. /\ pattern[n].at \in Positions /\ at < pattern[n].at
        /\ Visits(E, Emptied, pattern[n].at)
    BY MissPasses DEF Looking
  <2>2. pattern[n].at # at + 1
    <3> SUFFICES ASSUME pattern[n].at = at + 1 PROVE FALSE
      OBVIOUS
    <3>1. pattern[n].at - 1 = at /\ pattern[n].at > E
      BY <1>1 DEF Positions
    <3> QED BY <2>1, <3>1 DEF Visits
  <2> QED BY <1>1, <2>1, <2>2 DEF Positions
<1> QED BY <1>1, <1>3, <1>4, <1>5 DEF Onward, Positions

(* An anchored request leaves nothing after a miss.                             *)
LEMMA MissAnchored ==
  ASSUME Looking, input.anchored
  PROVE  Eligible(E, Emptied) = {}
<1>1. at \in Positions /\ E \in Positions /\ E <= at
  BY LastEndFacts DEF Looking, TypeOK, Searching
<1>2. ASSUME NEW n \in Eligible(E, Emptied) PROVE FALSE
  <2>1. at < pattern[n].at /\ Visits(E, Emptied, pattern[n].at)
    BY MissPasses DEF Looking
  <2> QED BY <1>1, <2>1 DEF Visits, Positions
<1> QED BY <1>2

--------------------------------------------------------------------------------
(* A step that reports nothing leaves what is expected as it was.               *)
LEMMA SameMatches ==
  ASSUME UNCHANGED <<lane, input, pattern, matches>>
  PROVE  /\ E' = E /\ Emptied' = Emptied
         /\ Eligible(E, Emptied)' = Eligible(E, Emptied)
         /\ \A p : Visits(E, Emptied, p)' <=> Visits(E, Emptied, p)
         /\ MatchesFollow' <=> MatchesFollow
BY DEF E, Emptied, LastEnd, WasEmpty, Eligible, Visits, Reach, MatchesFollow, IsNext, Before, EligibleAfter

(* A step that reports the next match.                                          *)
LEMMA Reported ==
  ASSUME TypeOK, MatchesFollow, NEW n \in 1..Len(pattern), IsNext(n, Len(matches)),
         matches' = Append(matches, pattern[n]), UNCHANGED fixed
  PROVE  /\ MatchesFollow' /\ matches' \in Seq(Alternative) /\ Len(matches') = Len(matches) + 1
         /\ E' = pattern[n].end /\ Emptied' = (pattern[n].at = pattern[n].end)
<1>1. pattern[n] \in Alternative /\ matches \in Seq(Alternative)
  BY PatternFacts DEF TypeOK
<1>2. /\ matches' \in Seq(Alternative) /\ Len(matches') = Len(matches) + 1
      /\ Len(matches) \in Nat /\ matches'[Len(matches) + 1] = pattern[n]
      /\ \A k \in 1..Len(matches) : matches'[k] = matches[k]
  BY <1>1
<1>3. E' = pattern[n].end /\ Emptied' = (pattern[n].at = pattern[n].end)
  BY <1>2 DEF E, Emptied, LastEnd, WasEmpty
<1>4. ASSUME NEW k \in 0..Len(matches)
      PROVE  LastEnd(k)' = LastEnd(k) /\ WasEmpty(k)' = WasEmpty(k)
  BY <1>2 DEF LastEnd, WasEmpty
<1>5. ASSUME NEW k \in 0..Len(matches), NEW m
      PROVE  IsNext(m, k)' <=> IsNext(m, k)
  BY <1>4 DEF IsNext, EligibleAfter, Eligible, Visits, Reach, Before, fixed
<1>6. ASSUME NEW k \in 1..Len(matches')
      PROVE  \E m \in 1..Len(pattern') : IsNext(m, k - 1)' /\ matches'[k] = pattern'[m]
  <2>1. pattern' = pattern
    BY DEF fixed
  <2>2. CASE k = Len(matches) + 1
    <3>1. k - 1 = Len(matches) /\ Len(matches) \in 0..Len(matches)
      BY <1>2, <2>2
    <3>2. IsNext(n, k - 1)'
      BY <1>5, <3>1
    <3> QED BY <1>2, <2>1, <2>2, <3>2
  <2>3. CASE k # Len(matches) + 1
    <3>1. k \in 1..Len(matches) /\ k - 1 \in 0..Len(matches)
      BY <1>2, <2>3
    <3>2. PICK m \in 1..Len(pattern) : IsNext(m, k - 1) /\ matches[k] = pattern[m]
      BY <3>1 DEF MatchesFollow
    <3>3. IsNext(m, k - 1)'
      BY <1>5, <3>1, <3>2
    <3> QED BY <1>2, <2>1, <3>1, <3>2, <3>3
  <2> QED BY <2>2, <2>3
<1>7. MatchesFollow'
  BY <1>6 DEF MatchesFollow
<1> QED BY <1>2, <1>3, <1>7

--------------------------------------------------------------------------------
(* The three ways an attempt leaves the cursor: searching on from q, at the     *)
(* end, or holding a match; each keeps the invariant.                           *)
Cursors == [position : -1..(Length + 1), origin : Positions, retry : BOOLEAN, finished : BOOLEAN]

Lookout == IInv /\ CoreLooksAhead /\ SliceCallersStop /\ phase = "search"

LEMMA SearchGoesOn ==
  ASSUME Lookout, NEW q \in Positions, UNCHANGED <<lane, input, pattern, matches, again>>,
         phase' = "search", at' = q, cursor' \in Cursors, cursor'.origin = cursor.origin,
         at < q, \A n \in Eligible(E, Emptied) : q <= pattern[n].at,
         (lane = "Slice" /\ q \notin input.boundaries) \/ Visits(E, Emptied, q),
         lane \in {"Core", "Count", "Python"} => q \in input.boundaries,
         ~cursor'.finished, lane \in Retries => ~cursor'.retry,
         lane = "Slice" => cursor'.position = q
  PROVE  IInv'
<1>1. /\ E' = E /\ Emptied' = Emptied /\ Eligible(E, Emptied)' = Eligible(E, Emptied)
      /\ Visits(E, Emptied, q)' <=> Visits(E, Emptied, q)
      /\ MatchesFollow'
  BY SameMatches DEF Lookout, IInv
<1>2. lane \in {"Core", "Count", "Python", "Generic", "Slice"}
  BY LanesAssumption DEF Lookout, IInv, TypeOK
<1>3. E \in Positions /\ at \in Positions /\ E <= at /\ E < q
  BY LastEndFacts DEF Lookout, IInv, TypeOK, Searching, Positions
<1>4. TypeOK'
  <2>1. Admissible(lane, input, pattern)'
    BY DEF Lookout, IInv, TypeOK, Admissible
  <2>2. q \in input.boundaries \/ lane \in {"Generic", "Slice"}
    BY <1>2
  <2> QED BY <2>1, <2>2 DEF Lookout, IInv, TypeOK, Cursors
<1>5. Idle' /\ Ended'
  BY DEF Idle, Ended
<1>6. Origin'
  BY <1>1 DEF Lookout, IInv, Origin
<1>7. Searching'
  <2>1. E' <= at' /\ at' # E' /\ \A n \in Eligible(E, Emptied)' : at' <= pattern'[n].at
    BY <1>1, <1>3, LengthAssumption DEF Positions
  <2>2. (lane' = "Slice" /\ at' \notin input'.boundaries) \/ Visits(E, Emptied, at)'
    BY <1>1 DEF Visits, Reach
  <2>3. lane \in Retries => cursor'.retry = FALSE
    BY DEF Cursors
  <2>4. lane \in Retries \/ lane \in {"Core", "Count"}
    BY <1>2 DEF Retries
  <2> QED BY <2>1, <2>2, <2>3, <2>4 DEF Searching, Retries
<1>8. Asked'
  BY DEF Lookout, IInv, Asked
<1> QED BY <1>1, <1>4, <1>5, <1>6, <1>7, <1>8 DEF IInv

LEMMA SearchEnds ==
  ASSUME Lookout, UNCHANGED <<lane, input, pattern, at, matches, again>>,
         phase' = "over", cursor' \in Cursors, cursor'.origin = cursor.origin,
         Eligible(E, Emptied) = {},
         lane \in {"Core", "Python", "Generic"} => cursor'.finished
  PROVE  IInv'
<1>1. /\ E' = E /\ Emptied' = Emptied /\ Eligible(E, Emptied)' = Eligible(E, Emptied)
      /\ MatchesFollow'
  BY SameMatches DEF Lookout, IInv
<1>2. TypeOK'
  BY DEF Lookout, IInv, TypeOK, Cursors, Admissible
<1>3. Idle' /\ Searching' /\ Asked'
  BY DEF Idle, Searching, Asked
<1>4. Origin'
  BY <1>1 DEF Lookout, IInv, Origin
<1>5. Ended'
  BY <1>1 DEF Ended
<1> QED BY <1>1, <1>2, <1>3, <1>4, <1>5 DEF IInv

LEMMA SearchReports ==
  ASSUME Lookout, lane # "Count", NEW n \in 1..Len(pattern), Found(n, at, cursor.origin, NonEmpty),
         UNCHANGED <<lane, input, pattern, at, again>>, matches' = Append(matches, pattern[n]),
         phase' = "idle", cursor' \in Cursors, ~cursor'.finished,
         lane \in Retries => /\ cursor'.position = pattern[n].end
                            /\ cursor'.retry = (pattern[n].at = pattern[n].end),
         lane = "Core" =>
           /\ cursor'.position = IF pattern[n].at = pattern[n].end
                                 THEN AdvancePastScalar(pattern[n].end) ELSE pattern[n].end
           /\ cursor'.origin = IF pattern[n].at = pattern[n].end
                               THEN cursor.origin ELSE pattern[n].end,
         lane = "Generic" => cursor'.origin = pattern[n].end
  PROVE  IInv'
<1>1. IsNext(n, Len(matches)) /\ pattern[n].at = at
  BY FoundIsNext DEF Lookout, IInv
<1>2. /\ MatchesFollow' /\ matches' \in Seq(Alternative) /\ Len(matches') = Len(matches) + 1
      /\ E' = pattern[n].end /\ Emptied' = (pattern[n].at = pattern[n].end)
  BY <1>1, Reported DEF Lookout, IInv, fixed
<1>3. TypeOK'
  BY <1>2 DEF Lookout, IInv, TypeOK, Cursors, Admissible
<1>4. Idle'
  BY <1>2 DEF Idle, Retries, AdvancePastScalar
<1>5. Searching' /\ Ended'
  BY DEF Searching, Ended
<1>6. Origin'
  <2>1. lane = "Core" => cursor.origin <= E /\ E <= at
    BY DEF Lookout, IInv, Origin, Searching
  <2>2. cursor.origin \in Positions /\ E \in Positions /\ at \in Positions /\ pattern[n].end \in Positions
    BY LastEndFacts, PatternFacts DEF Lookout, IInv, TypeOK, Alternative
  <2>3. CASE lane = "Core"
    <3>1. CASE pattern[n].at = pattern[n].end
      <4>1. cursor'.origin = cursor.origin /\ at = pattern[n].end
        BY <1>1, <2>3, <3>1
      <4>2. cursor.origin <= pattern[n].end
        BY <2>1, <2>2, <2>3, <4>1, LengthAssumption DEF Positions
      <4> QED BY <1>2, <2>3, <3>1, <4>1, <4>2 DEF Origin
    <3>2. CASE pattern[n].at # pattern[n].end
      <4>1. cursor'.origin = E' /\ E' <= E'
        BY <1>2, <2>2, <2>3, <3>2, LengthAssumption DEF Positions
      <4> QED BY <2>3, <4>1 DEF Origin
    <3> QED BY <3>1, <3>2
  <2>4. CASE lane # "Core"
    BY <1>2, <2>4 DEF Origin
  <2> QED BY <2>3, <2>4
<1>7. Asked'
  BY DEF Lookout, IInv, Asked
<1> QED BY <1>2, <1>3, <1>4, <1>5, <1>6, <1>7 DEF IInv

--------------------------------------------------------------------------------
(* Where a search starts: at the last end, or past the scalar of an empty match *)
(* whose position Core and Count give up.                                       *)
LEMMA StartsAtEnd ==
  ASSUME TypeOK, NEW e \in Positions, NEW b \in BOOLEAN
  PROVE  /\ Visits(e, b, e)
         /\ \A n \in Eligible(e, b) : pattern[n].at \in Positions /\ e <= pattern[n].at
BY LengthAssumption DEF Visits, Reach, Eligible, Positions

LEMMA StartsPastScalar ==
  ASSUME TypeOK, lane \in {"Core", "Count"}, NEW e \in input.boundaries, NEW b \in BOOLEAN, b
  PROVE  /\ e >= Length => AdvancePastScalar(e) = Exhausted /\ Eligible(e, b) = {}
         /\ e < Length =>
              /\ AdvancePastScalar(e) = input.next[e]
              /\ input.next[e] \in Positions /\ e < input.next[e]
              /\ input.next[e] \in input.boundaries /\ Visits(e, b, input.next[e])
              /\ \A n \in Eligible(e, b) : input.next[e] <= pattern[n].at
<1>1. /\ input \in Inputs /\ e \in Positions /\ Length \in Nat
      /\ input.crlf = {} /\ ~input.skips /\ ~input.anchored
  BY SubjectFacts, PlainSubject, LengthAssumption DEF TypeOK
<1>2. ASSUME NEW n \in Eligible(e, b)
      PROVE  e < Length /\ input.next[e] <= pattern[n].at
  <2>1. Visits(e, b, pattern[n].at) /\ pattern[n].at # e
    BY DEF Eligible
  <2>2. pattern[n].at \in Positions /\ e < pattern[n].at
    <3>1. pattern[n].at \in Positions /\ e <= pattern[n].at
      BY <1>1, StartsAtEnd
    <3> QED BY <1>1, <2>1, <3>1 DEF Positions
  <2>3. e < Length /\ e <= e
    BY <1>1, <2>2 DEF Positions
  <2> QED BY <1>1, <2>1, <2>2, <2>3, NextBoundary
<1>3. e >= Length => Eligible(e, b) = {}
  <2>1. ASSUME e >= Length, NEW n \in Eligible(e, b) PROVE FALSE
    <3>1. e < Length
      BY <1>2, <2>1
    <3> QED BY <1>1, <2>1, <3>1 DEF Positions
  <2> QED BY <2>1
<1>4. e < Length => /\ input.next[e] \in Positions /\ e < input.next[e]
                    /\ input.next[e] \in input.boundaries /\ Visits(e, b, input.next[e])
  <2>1. e <= e
    BY <1>1 DEF Positions
  <2> QED BY <1>1, <2>1, NextVisits
<1>5. /\ e >= Length => AdvancePastScalar(e) = Exhausted
      /\ e < Length => AdvancePastScalar(e) = input.next[e]
  BY <1>1 DEF AdvancePastScalar, Positions
<1> QED BY <1>2, <1>3, <1>4, <1>5

--------------------------------------------------------------------------------
(* The invariant, kept by each step.                                            *)
Steady == IInv /\ CoreLooksAhead /\ SliceCallersStop

LEMMA MoveNextKeeps ==
  ASSUME Steady, MoveNext PROVE IInv'
<1>1. /\ lane \in {"Core", "Count", "Python", "Generic", "Slice"} /\ Length \in Nat
      /\ cursor \in Cursors /\ Again[lane] \in Nat /\ again \in 0..Again[lane]
      /\ E \in Positions /\ Emptied \in BOOLEAN
      /\ lane # "Generic" => E \in input.boundaries
  BY LanesAssumption, AgainAssumption, LengthAssumption, LastEndFacts DEF Steady, IInv, TypeOK, Cursors
<1>2. UNCHANGED <<lane, input, pattern, matches>>
  BY DEF MoveNext, fixed
<1>3. /\ E' = E /\ Emptied' = Emptied /\ Eligible(E, Emptied)' = Eligible(E, Emptied)
      /\ \A p : Visits(E, Emptied, p)' <=> Visits(E, Emptied, p)
      /\ MatchesFollow'
  BY <1>2, SameMatches DEF Steady, IInv
<1>4. Admissible(lane, input, pattern)'
  BY <1>2 DEF Steady, IInv, TypeOK, Admissible
<1>5. CASE phase = "idle"
  <2>1. ~cursor.finished /\ again = 0 /\ again' = 0
    BY <1>1, <1>5 DEF Steady, IInv, Idle, Asked, MoveNext
  <2>2. CASE cursor.position \notin Positions
    <3>1. lane = "Core" /\ Emptied /\ Eligible(E, Emptied) = {}
      <4>1. lane = "Core" /\ Emptied /\ cursor.position = AdvancePastScalar(E)
        BY <1>1, <1>5, <2>2, LengthAssumption DEF Steady, IInv, Idle, Retries, Positions
      <4>2. E >= Length
        <5>1. E < Length => cursor.position \in Positions
          BY <1>1, <4>1, StartsPastScalar DEF Steady, IInv
        <5> QED BY <1>1, <2>2, <5>1 DEF Positions
      <4> QED BY <1>1, <4>1, <4>2, StartsPastScalar DEF Steady, IInv
    <3>2. phase' = "over" /\ at' = at /\ cursor' = Latched
      BY <2>2, <3>1 DEF MoveNext
    <3>3. cursor' \in Cursors /\ cursor'.finished /\ cursor'.origin = cursor.origin
      BY <1>1, <3>2 DEF Latched, Cursors
    <3>4. TypeOK'
      BY <1>1, <1>2, <1>4, <2>1, <3>2, <3>3 DEF Steady, IInv, TypeOK, Cursors
    <3>5. Idle' /\ Searching' /\ Asked'
      BY <3>2 DEF Idle, Searching, Asked
    <3>6. Origin' /\ Ended'
      BY <1>2, <1>3, <3>1, <3>2, <3>3 DEF Steady, IInv, Origin, Ended
    <3> QED BY <1>3, <3>4, <3>5, <3>6 DEF IInv
  <2>3. CASE cursor.position \in Positions
    <3>1. phase' = "search" /\ at' = cursor.position /\ cursor' = Entered
      BY <2>1, <2>3 DEF MoveNext
    <3>2. /\ cursor' \in Cursors /\ ~cursor'.finished
          /\ cursor'.position = cursor.position /\ cursor'.retry = cursor.retry
          /\ lane # "Slice" => cursor'.origin = cursor.origin
          /\ lane = "Slice" => cursor'.origin = cursor.position
      BY <1>1, <2>1, <2>3, <3>1 DEF Entered, Cursors
    <3>3. /\ at' \in Positions /\ Visits(E, Emptied, at')
          /\ \A n \in Eligible(E, Emptied) : at' <= pattern[n].at
          /\ lane # "Generic" => at' \in input.boundaries
          /\ E <= at' /\ (lane \in {"Core", "Count"} /\ Emptied => at' # E)
          /\ lane \in Retries => at' = E /\ cursor'.retry = Emptied
      <4>1. CASE lane = "Core" /\ Emptied
        <5>1. at' = AdvancePastScalar(E)
          BY <1>5, <3>1, <4>1 DEF Steady, IInv, Idle
        <5>2. E < Length
          <6>1. E >= Length => at' = Exhausted
            BY <1>1, <4>1, <5>1, StartsPastScalar DEF Steady, IInv
          <6>2. at' \in Positions /\ Exhausted \notin Positions
            BY <2>3, <3>1 DEF Exhausted, Positions
          <6> QED BY <1>1, <6>1, <6>2 DEF Positions
        <5>3. /\ at' = input.next[E] /\ at' \in Positions /\ E < at'
              /\ at' \in input.boundaries /\ Visits(E, Emptied, at')
              /\ \A n \in Eligible(E, Emptied) : at' <= pattern[n].at
          BY <1>1, <4>1, <5>1, <5>2, StartsPastScalar DEF Steady, IInv
        <5>4. E <= at' /\ at' # E
          BY <1>1, <5>3 DEF Positions
        <5> QED BY <4>1, <5>3, <5>4 DEF Retries
      <4>2. CASE ~(lane = "Core" /\ Emptied)
        <5>1. at' = E /\ (lane = "Count" => ~Emptied) /\ (lane \in Retries => cursor'.retry = Emptied)
          <6>1. lane = "Count" => E = 0 /\ ~Emptied /\ cursor.position = 0
            BY <1>5 DEF Steady, IInv, Idle, E, Emptied, LastEnd, WasEmpty
          <6> QED BY <1>1, <1>5, <3>1, <3>2, <4>2, <6>1 DEF Steady, IInv, Idle, Retries
        <5>2. E <= E
          BY <1>1, LengthAssumption DEF Positions
        <5> QED BY <1>1, <4>2, <5>1, <5>2, StartsAtEnd DEF Steady, IInv
      <4> QED BY <4>1, <4>2
    <3>4. TypeOK'
      BY <1>1, <1>2, <1>4, <2>1, <3>1, <3>2, <3>3 DEF Steady, IInv, TypeOK, Cursors
    <3>5. Idle' /\ Ended' /\ Asked'
      BY <2>1, <3>1 DEF Idle, Ended, Asked
    <3>6. Origin'
      BY <1>1, <1>2, <1>3, <3>1, <3>2, <3>3 DEF Steady, IInv, Origin, Retries
    <3>7. Searching'
      <4>1. Visits(E, Emptied, at)'
        BY <1>2, <1>3, <3>3 DEF Visits, Reach
      <4>2. /\ E' <= at' /\ \A n \in Eligible(E, Emptied)' : at' <= pattern'[n].at
            /\ lane' \in {"Core", "Count"} => at' \in input'.boundaries /\ (Emptied' => at' # E')
            /\ lane' = "Python" => at' \in input'.boundaries
            /\ lane' \in Retries => cursor'.retry = (Emptied' /\ at' = E')
        BY <1>1, <1>2, <1>3, <3>3
      <4>3. cursor'.position = at'
        BY <3>1, <3>2
      <4> QED BY <3>2, <4>1, <4>2, <4>3 DEF Searching
    <3> QED BY <1>3, <3>4, <3>5, <3>6, <3>7 DEF IInv
  <2> QED BY <2>2, <2>3
<1>6. CASE phase = "over"
  <2>1. lane # "Count" /\ again < Again[lane] /\ again' = again + 1
    BY <1>6 DEF MoveNext
  <2>2. lane # "Slice"
    BY <1>1, <2>1 DEF Steady, SliceCallersStop, IInv, TypeOK
  <2>3. cursor.finished
    BY <1>1, <1>6, <2>1, <2>2 DEF Steady, IInv, Ended
  <2>4. phase' = "over" /\ at' = at /\ cursor' = Latched
    BY <2>2, <2>3 DEF MoveNext
  <2>5. cursor' \in Cursors /\ cursor'.finished /\ cursor'.origin = cursor.origin
    BY <1>1, <2>4 DEF Latched, Cursors
  <2>6. TypeOK'
    <3>1. again' \in 0..Again'[lane']
      BY <1>1, <1>2, <2>1
    <3> QED BY <1>2, <1>4, <2>4, <2>5, <3>1 DEF Steady, IInv, TypeOK, Cursors
  <2>7. Idle' /\ Searching' /\ Asked'
    BY <2>4 DEF Idle, Searching, Asked
  <2>8. Origin' /\ Ended'
    BY <1>2, <1>3, <1>6, <2>2, <2>4, <2>5 DEF Steady, IInv, Origin, Ended
  <2> QED BY <1>3, <2>6, <2>7, <2>8 DEF IInv
<1> QED BY <1>5, <1>6 DEF MoveNext

(* The kind of attempt each lane makes.                                         *)
LEMMA AttemptKinds ==
  ASSUME TypeOK
  PROVE  /\ lane \in {"Core", "Count"} => (NonEmpty <=> FALSE)
         /\ lane \in Retries => NonEmpty = cursor.retry
         /\ cursor.retry \in BOOLEAN /\ cursor \in Cursors
         /\ at \in Positions /\ Length \in Nat
BY LengthAssumption DEF TypeOK, NonEmpty, Retries, Cursors

LEMMA CoreMatchKeeps ==
  ASSUME Steady, CoreMatch PROVE IInv'
<1>1. /\ lane = "Core" /\ phase = "search" /\ Lookout
      /\ cursor \in Cursors /\ ~cursor.finished /\ (NonEmpty <=> FALSE)
  BY AttemptKinds DEF CoreMatch, Attempting, Steady, Lookout, IInv, Searching
<1>2. PICK n \in 1..Len(pattern) :
        Found(n, at, cursor.origin, FALSE) /\ Report(n, CoreAdvanced(pattern[n]))
  BY DEF CoreMatch
<1>3. Found(n, at, cursor.origin, NonEmpty)
  BY <1>1, <1>2 DEF Found, Admits
<1>4. /\ pattern[n].at \in Positions /\ pattern[n].end \in Positions
      /\ pattern[n].at <= pattern[n].end
  BY <1>1, PatternFacts DEF Lookout, IInv, Alternative
<1>5. pattern[n].end > pattern[n].at <=> pattern[n].at # pattern[n].end
  BY <1>4, LengthAssumption DEF Positions
<1>6. AdvancePastScalar(pattern[n].end) \in -1..(Length + 1)
  BY <1>1, <1>4, SubjectFacts, LengthAssumption
     DEF AdvancePastScalar, Exhausted, Positions, Lookout, IInv, TypeOK
<1>7. /\ cursor' \in Cursors /\ ~cursor'.finished
      /\ cursor'.position = IF pattern[n].at = pattern[n].end
                            THEN AdvancePastScalar(pattern[n].end) ELSE pattern[n].end
      /\ cursor'.origin = IF pattern[n].at = pattern[n].end
                          THEN cursor.origin ELSE pattern[n].end
  <2>1. cursor' = CoreAdvanced(pattern[n])
    BY <1>2 DEF Report
  <2>2. pattern[n].end \in -1..(Length + 1)
    BY <1>4, LengthAssumption DEF Positions
  <2> QED BY <1>1, <1>4, <1>5, <1>6, <2>1, <2>2 DEF CoreAdvanced, Cursors
<1> QED BY <1>1, <1>2, <1>3, <1>7, SearchReports DEF Report, fixed, Retries

LEMMA CoreMissKeeps ==
  ASSUME Steady, CoreMiss PROVE IInv'
<1>1. /\ lane = "Core" /\ phase = "search" /\ Lookout /\ at \in input.boundaries
      /\ cursor \in Cursors /\ ~cursor.finished /\ (NonEmpty <=> FALSE)
      /\ at \in Positions /\ Length \in Nat
  BY AttemptKinds DEF CoreMiss, Attempting, Steady, Lookout, IInv, Searching
<1>2. Looking
  <2>1. Missed(at, cursor.origin, NonEmpty)
    BY <1>1 DEF CoreMiss, Missed, Admits
  <2> QED BY <1>1, <2>1 DEF Looking, Lookout, IInv
<1>3. input.crlf = {} /\ ~input.skips /\ ~input.anchored
  BY <1>1, PlainSubject DEF Lookout, IInv
<1>4. CASE at >= Length
  <2>1. Over(Latched)
    BY <1>4 DEF CoreMiss, AdvancePastScalar
  <2>2. cursor' \in Cursors /\ cursor'.finished /\ cursor'.origin = cursor.origin
    BY <1>1, <2>1 DEF Over, Latched, Cursors
  <2> QED BY <1>1, <1>2, <1>4, <2>1, <2>2, MissScalar, SearchEnds DEF Over, fixed
<1>5. CASE at < Length
  <2>1. Onward(input.next[at]) /\ input.next[at] \in input.boundaries
    BY <1>1, <1>2, <1>3, <1>5, MissScalar
  <2>2. Search(input.next[at], cursor)
    BY <1>1, <1>5, <2>1 DEF CoreMiss, AdvancePastScalar, Exhausted, Onward, Positions
  <2> QED BY <1>1, <2>1, <2>2, SearchGoesOn DEF Search, Onward, fixed, Retries
<1> QED BY <1>1, <1>4, <1>5 DEF Positions

LEMMA CountMatchKeeps ==
  ASSUME Steady, CountMatch PROVE IInv'
<1>1. /\ lane = "Count" /\ phase = "search" /\ Lookout /\ at \in input.boundaries
      /\ cursor \in Cursors /\ ~cursor.finished /\ (NonEmpty <=> FALSE)
      /\ at \in Positions /\ Length \in Nat
  BY AttemptKinds DEF CountMatch, Attempting, Steady, Lookout, IInv, Searching
<1>2. PICK n \in 1..Len(pattern) :
       /\ Found(n, at, cursor.origin, FALSE)
       /\ matches' = Append(matches, pattern[n])
       /\ cursor' = [cursor EXCEPT !.origin = pattern[n].end]
       /\ CountFrom(IF pattern[n].end # at THEN pattern[n].end ELSE AdvancePastScalar(at))
  BY DEF CountMatch
<1>3. Found(n, at, cursor.origin, NonEmpty)
  BY <1>1, <1>2 DEF Found, Admits
<1>4. IsNext(n, Len(matches)) /\ pattern[n].at = at
  BY <1>1, <1>3, FoundIsNext DEF Lookout, IInv
<1>5. UNCHANGED <<lane, input, pattern, again>>
  BY DEF CountMatch, fixed
<1>6. /\ MatchesFollow' /\ matches' \in Seq(Alternative)
      /\ E' = pattern[n].end /\ Emptied' = (pattern[n].at = pattern[n].end)
  BY <1>1, <1>2, <1>4, <1>5, Reported DEF Lookout, IInv, fixed
<1>7. /\ pattern[n].end \in Positions /\ pattern[n].end \in input.boundaries
  BY <1>1, PatternFacts DEF Lookout, IInv, Alternative
<1>8. cursor' \in Cursors /\ ~cursor'.finished /\ cursor'.origin = E'
  BY <1>1, <1>2, <1>6, <1>7 DEF Cursors
<1> DEFINE e == pattern[n].end
           b == (pattern[n].at = pattern[n].end)
<1>9. Eligible(E, Emptied)' = Eligible(e, b)
  BY <1>5, <1>6 DEF Eligible, Visits, Reach
<1>10. CASE e # at
  <2>1. phase' = "search" /\ at' = e
    BY <1>1, <1>2, <1>7, <1>10 DEF CountFrom, Exhausted, Positions
  <2>2. /\ Visits(e, b, e) /\ e <= e /\ ~b
        /\ \A k \in Eligible(e, b) : e <= pattern[k].at
    <3>1. b \in BOOLEAN /\ TypeOK /\ e <= e /\ ~b
      BY <1>1, <1>4, <1>7, <1>10 DEF Lookout, IInv, Positions
    <3> QED BY <1>7, <3>1, StartsAtEnd
  <2>3. TypeOK'
    BY <1>1, <1>5, <1>6, <1>7, <1>8, <2>1 DEF Lookout, IInv, TypeOK, Cursors, Admissible
  <2>4. Visits(E, Emptied, at)'
    BY <1>5, <1>6, <2>1, <2>2 DEF Visits, Reach
  <2>5. Searching'
    BY <1>1, <1>5, <1>6, <1>7, <1>8, <1>9, <2>1, <2>2, <2>4 DEF Searching, Retries
  <2>6. Idle' /\ Ended' /\ Asked' /\ Origin'
    BY <1>1, <1>5, <1>8, <2>1 DEF Lookout, IInv, Idle, Ended, Asked, Origin
  <2> QED BY <1>6, <2>3, <2>5, <2>6 DEF IInv
<1>11. CASE e = at /\ e >= Length
  <2>1. AdvancePastScalar(at) = Exhausted
    BY <1>11 DEF AdvancePastScalar
  <2>2. phase' = "over" /\ at' = at
    BY <1>2, <1>11, <2>1 DEF CountFrom
  <2>3. Eligible(e, b) = {}
    <3>1. b \in BOOLEAN /\ b /\ TypeOK
      BY <1>1, <1>4, <1>11 DEF Lookout, IInv
    <3> QED BY <1>1, <1>7, <1>11, <3>1, StartsPastScalar
  <2>4. TypeOK'
    BY <1>1, <1>5, <1>6, <1>8, <2>2 DEF Lookout, IInv, TypeOK, Cursors, Admissible
  <2>5. Idle' /\ Searching' /\ Ended' /\ Asked' /\ Origin'
    BY <1>1, <1>5, <1>8, <1>9, <2>2, <2>3 DEF Idle, Searching, Ended, Asked, Origin
  <2> QED BY <1>6, <2>4, <2>5 DEF IInv
<1>12. CASE e = at /\ e < Length
  <2>1. /\ AdvancePastScalar(e) = input.next[e]
        /\ input.next[e] \in Positions /\ e < input.next[e]
        /\ input.next[e] \in input.boundaries /\ Visits(e, b, input.next[e])
        /\ \A k \in Eligible(e, b) : input.next[e] <= pattern[k].at
    <3>1. b \in BOOLEAN /\ b /\ TypeOK
      BY <1>1, <1>4, <1>12 DEF Lookout, IInv
    <3> QED BY <1>1, <1>7, <1>12, <3>1, StartsPastScalar
  <2>2. phase' = "search" /\ at' = input.next[e]
    <3>1. input.next[e] # Exhausted
      BY <1>1, <2>1 DEF Exhausted, Positions
    <3> QED BY <1>1, <1>2, <1>12, <2>1, <3>1 DEF CountFrom
  <2>3. TypeOK'
    BY <1>1, <1>5, <1>6, <1>8, <2>1, <2>2 DEF Lookout, IInv, TypeOK, Cursors, Admissible
  <2>4. Visits(E, Emptied, at)'
    BY <1>5, <1>6, <2>1, <2>2 DEF Visits, Reach
  <2>5. E' <= at' /\ at' # E'
    BY <1>1, <1>6, <1>7, <2>1, <2>2 DEF Positions
  <2>6. Searching'
    BY <1>1, <1>5, <1>6, <1>8, <1>9, <2>1, <2>2, <2>4, <2>5 DEF Searching, Retries
  <2>7. Idle' /\ Ended' /\ Asked' /\ Origin'
    BY <1>1, <1>5, <1>8, <2>2 DEF Lookout, IInv, Idle, Ended, Asked, Origin
  <2> QED BY <1>6, <2>3, <2>6, <2>7 DEF IInv
<1> QED BY <1>1, <1>7, <1>10, <1>11, <1>12 DEF Positions

LEMMA CountMissKeeps ==
  ASSUME Steady, CountMiss PROVE IInv'
<1>1. /\ lane = "Count" /\ phase = "search" /\ Lookout /\ at \in input.boundaries
      /\ cursor \in Cursors /\ ~cursor.finished /\ (NonEmpty <=> FALSE)
      /\ at \in Positions /\ Length \in Nat
  BY AttemptKinds DEF CountMiss, Attempting, Steady, Lookout, IInv, Searching
<1>2. Looking
  <2>1. Missed(at, cursor.origin, NonEmpty)
    BY <1>1 DEF CountMiss, Missed, Admits
  <2> QED BY <1>1, <2>1 DEF Looking, Lookout, IInv
<1>3. input.crlf = {} /\ ~input.skips /\ ~input.anchored
  BY <1>1, PlainSubject DEF Lookout, IInv
<1>4. UNCHANGED <<lane, input, pattern, cursor, matches, again>>
  BY DEF CountMiss, fixed
<1>5. CASE at >= Length
  <2>1. phase' = "over" /\ at' = at
    BY <1>5 DEF CountMiss, CountFrom, AdvancePastScalar
  <2> QED BY <1>1, <1>2, <1>4, <1>5, <2>1, MissScalar, SearchEnds
<1>6. CASE at < Length
  <2>1. Onward(input.next[at]) /\ input.next[at] \in input.boundaries
    BY <1>1, <1>2, <1>3, <1>6, MissScalar
  <2>2. phase' = "search" /\ at' = input.next[at]
    BY <1>1, <1>6, <2>1 DEF CountMiss, CountFrom, AdvancePastScalar, Exhausted, Onward, Positions
  <2> QED BY <1>1, <1>4, <2>1, <2>2, SearchGoesOn DEF Onward, Retries
<1> QED BY <1>1, <1>5, <1>6 DEF Positions

LEMMA PythonMatchKeeps ==
  ASSUME Steady, PythonMatch PROVE IInv'
<1>1. /\ lane = "Python" /\ phase = "search" /\ Lookout
      /\ cursor \in Cursors /\ ~cursor.finished /\ NonEmpty = cursor.retry
  BY AttemptKinds DEF PythonMatch, Attempting, Steady, Lookout, IInv, Searching, Retries
<1>2. PICK n \in 1..Len(pattern) :
       /\ Found(n, at, cursor.origin, cursor.retry)
       /\ Report(n, [cursor EXCEPT !.position = pattern[n].end,
                                   !.retry = pattern[n].end = at])
  BY DEF PythonMatch
<1>3. Found(n, at, cursor.origin, NonEmpty) /\ pattern[n].at = at
  BY <1>1, <1>2 DEF Found, Admits
<1>4. pattern[n].end \in -1..(Length + 1)
  BY <1>1, PatternFacts, LengthAssumption DEF Lookout, IInv, Alternative, Positions
<1>5. /\ cursor' \in Cursors /\ ~cursor'.finished
      /\ cursor'.position = pattern[n].end /\ cursor'.retry = (pattern[n].at = pattern[n].end)
  BY <1>1, <1>2, <1>3, <1>4 DEF Report, Cursors
<1> QED BY <1>1, <1>2, <1>3, <1>5, SearchReports DEF Report, fixed, Retries

LEMMA PythonMissKeeps ==
  ASSUME Steady, PythonMiss PROVE IInv'
<1>1. /\ lane = "Python" /\ phase = "search" /\ Lookout /\ at \in input.boundaries
      /\ cursor \in Cursors /\ ~cursor.finished /\ NonEmpty = cursor.retry
      /\ at \in Positions /\ Length \in Nat
  BY AttemptKinds DEF PythonMiss, Attempting, Steady, Lookout, IInv, Searching, Retries
<1>2. Looking
  <2>1. Missed(at, cursor.origin, NonEmpty)
    BY <1>1 DEF PythonMiss
  <2> QED BY <1>1, <2>1 DEF Looking, Lookout, IInv
<1>3. input.crlf = {} /\ ~input.skips /\ ~input.anchored
  BY <1>1, PlainSubject DEF Lookout, IInv
<1> DEFINE missed == [cursor EXCEPT !.retry = FALSE]
<1>4. missed \in Cursors /\ missed.origin = cursor.origin /\ ~missed.retry /\ ~missed.finished
  BY <1>1 DEF Cursors
<1>5. CASE at = Length
  <2>1. Over([missed EXCEPT !.finished = TRUE])
    BY <1>5 DEF PythonMiss
  <2>2. cursor' \in Cursors /\ cursor'.finished /\ cursor'.origin = cursor.origin
    BY <1>4, <2>1 DEF Over, Cursors
  <2>3. Eligible(E, Emptied) = {}
    BY <1>1, <1>2, <1>5, MissScalar DEF Positions
  <2> QED BY <1>1, <2>1, <2>2, <2>3, SearchEnds DEF Over, fixed
<1>6. CASE at # Length
  <2>1. Onward(input.next[at]) /\ input.next[at] \in input.boundaries
    BY <1>1, <1>2, <1>3, <1>6, MissScalar DEF Positions
  <2>2. Search(input.next[at], [missed EXCEPT !.position = input.next[at]])
    BY <1>6 DEF PythonMiss
  <2>3. input.next[at] \in Positions /\ input.next[at] \in -1..(Length + 1)
    BY <1>1, <2>1 DEF Onward, Positions
  <2>4. cursor' \in Cursors /\ ~cursor'.finished /\ ~cursor'.retry /\ cursor'.origin = cursor.origin
    BY <1>4, <2>2, <2>3 DEF Search, Cursors
  <2> QED BY <1>1, <2>1, <2>2, <2>3, <2>4, SearchGoesOn DEF Search, Onward, fixed
<1> QED BY <1>5, <1>6

LEMMA GenericMatchKeeps ==
  ASSUME Steady, GenericMatch PROVE IInv'
<1>1. /\ lane = "Generic" /\ phase = "search" /\ Lookout
      /\ cursor \in Cursors /\ ~cursor.finished /\ NonEmpty = cursor.retry
  BY AttemptKinds DEF GenericMatch, Attempting, Steady, Lookout, IInv, Searching, Retries
<1>2. PICK n \in 1..Len(pattern) :
        Found(n, at, cursor.origin, cursor.retry) /\ Accept(pattern[n])
  BY DEF GenericMatch
<1>3. Found(n, at, cursor.origin, NonEmpty)
  BY <1>1, <1>2 DEF Found, Admits
<1>4. CASE pattern[n].from > pattern[n].end
  <2>1. phase' = "faulted" /\ UNCHANGED <<lane, input, pattern, cursor, at, matches, again>>
    BY <1>2, <1>4 DEF Accept, fixed
  <2>2. /\ E' = E /\ Emptied' = Emptied /\ MatchesFollow'
    BY <2>1, SameMatches DEF Lookout, IInv, Steady
  <2>3. TypeOK'
    BY <2>1 DEF Steady, IInv, TypeOK, Admissible
  <2>4. Idle' /\ Searching' /\ Ended' /\ Asked' /\ Origin'
    BY <1>1, <2>1, <2>2 DEF Idle, Searching, Ended, Asked, Origin, Lookout, IInv
  <2> QED BY <2>2, <2>3, <2>4 DEF IInv
<1>5. CASE ~(pattern[n].from > pattern[n].end)
  <2>1. /\ phase' = "idle" /\ matches' = Append(matches, pattern[n])
        /\ cursor' = [cursor EXCEPT !.position = pattern[n].end, !.origin = pattern[n].end,
                                    !.retry = pattern[n].at = pattern[n].end]
        /\ UNCHANGED <<lane, input, pattern, at, again>>
    BY <1>2, <1>5 DEF Accept, fixed
  <2>2. pattern[n].end \in Positions /\ pattern[n].end \in -1..(Length + 1)
    BY <1>1, PatternFacts, LengthAssumption DEF Lookout, IInv, Alternative, Positions
  <2>3. /\ cursor' \in Cursors /\ ~cursor'.finished /\ cursor'.origin = pattern[n].end
        /\ cursor'.position = pattern[n].end /\ cursor'.retry = (pattern[n].at = pattern[n].end)
    BY <1>1, <2>1, <2>2 DEF Cursors
  <2> QED BY <1>1, <1>3, <2>1, <2>3, SearchReports
<1> QED BY <1>4, <1>5

(* A generic search, and a failed retry, go on to the same next candidate.      *)
LEMMA CandidateOnward ==
  ASSUME Looking, lane = "Generic", ~input.anchored
  PROVE  /\ (Emptied /\ at = E) =>
              \/ TryAdvanceAfterEmpty(at) = Exhausted /\ Eligible(E, Emptied) = {}
              \/ TryAdvanceAfterEmpty(at) # Exhausted /\ Onward(TryAdvanceAfterEmpty(at))
         /\ ~(Emptied /\ at = E) =>
              \/ TryAdvanceCandidate(at) = Exhausted /\ Eligible(E, Emptied) = {}
              \/ TryAdvanceCandidate(at) # Exhausted /\ Onward(TryAdvanceCandidate(at))
<1>1. at \in Positions /\ Length \in Nat
  BY LengthAssumption DEF Looking, TypeOK
<1>2. ASSUME NEW q, Onward(q) PROVE q # Exhausted
  BY <1>1, <1>2 DEF Onward, Exhausted, Positions
<1>3. CASE at \notin input.boundaries
  BY <1>2, <1>3, MissByte DEF TryAdvanceAfterEmpty, TryAdvanceCandidate
<1>4. CASE at \in input.boundaries /\ at \in input.crlf /\ (input.skips \/ (Emptied /\ at = E))
  BY <1>2, <1>4, MissPair DEF TryAdvanceAfterEmpty, TryAdvanceCandidate
<1>5. CASE at \in input.boundaries /\ ~(at \in input.crlf /\ (input.skips \/ (Emptied /\ at = E)))
  <2>1. /\ (Emptied /\ at = E) => TryAdvanceAfterEmpty(at) = AdvancePastScalar(at)
        /\ ~(Emptied /\ at = E) => TryAdvanceCandidate(at) = AdvancePastScalar(at)
    BY <1>5 DEF TryAdvanceAfterEmpty, TryAdvanceCandidate
  <2>2. CASE at >= Length
    BY <1>5, <2>1, <2>2, MissScalar DEF AdvancePastScalar
  <2>3. CASE at < Length
    <3>1. AdvancePastScalar(at) = input.next[at]
      BY <1>1, <2>3 DEF AdvancePastScalar, Positions
    <3>2. Onward(input.next[at])
      BY <1>5, <2>3, MissScalar
    <3> QED BY <1>2, <2>1, <3>1, <3>2
  <2> QED BY <1>1, <2>2, <2>3 DEF Positions
<1> QED BY <1>3, <1>4, <1>5

LEMMA GenericMissKeeps ==
  ASSUME Steady, GenericMiss PROVE IInv'
<1>1. /\ lane = "Generic" /\ phase = "search" /\ Lookout
      /\ cursor \in Cursors /\ ~cursor.finished /\ NonEmpty = cursor.retry
      /\ at \in Positions /\ Length \in Nat
      /\ cursor.retry = (Emptied /\ at = E) /\ (cursor.retry => cursor.position = at)
  BY AttemptKinds DEF GenericMiss, Attempting, Steady, Lookout, IInv, Searching, Retries
<1>2. Looking
  <2>1. Missed(at, cursor.origin, NonEmpty)
    BY <1>1 DEF GenericMiss
  <2> QED BY <1>1, <2>1 DEF Looking, Lookout, IInv
<1>3. ASSUME Over(Latched), Eligible(E, Emptied) = {} PROVE IInv'
  <2>1. cursor' \in Cursors /\ cursor'.finished /\ cursor'.origin = cursor.origin
    BY <1>1, <1>3 DEF Over, Latched, Cursors
  <2> QED BY <1>1, <1>3, <2>1, SearchEnds DEF Over, fixed
<1>4. CASE input.anchored
  <2>1. Over(Latched)
    BY <1>4 DEF GenericMiss, AfterMiss, TryAdvanceAfterEmpty
  <2> QED BY <1>2, <1>3, <1>4, <2>1, MissAnchored
<1>5. CASE ~input.anchored /\ cursor.retry
  <2> DEFINE next == TryAdvanceAfterEmpty(at)
  <2>1. AfterMiss
    BY <1>5 DEF GenericMiss
  <2>2. CASE next = Exhausted /\ Eligible(E, Emptied) = {}
    <3>1. Over(Latched)
      BY <1>1, <1>5, <2>1, <2>2 DEF AfterMiss
    <3> QED BY <1>3, <2>2, <3>1
  <2>3. CASE next # Exhausted /\ Onward(next)
    <3>1. Search(next, [cursor EXCEPT !.position = next, !.retry = FALSE])
      BY <1>1, <1>5, <2>1, <2>3 DEF AfterMiss
    <3>2. next \in Positions /\ next \in -1..(Length + 1)
      BY <1>1, <2>3 DEF Onward, Positions
    <3>3. cursor' \in Cursors /\ ~cursor'.finished /\ ~cursor'.retry /\ cursor'.origin = cursor.origin
      BY <1>1, <3>1, <3>2 DEF Search, Cursors
    <3> HIDE DEF next
    <3> QED BY <1>1, <2>3, <3>1, <3>2, <3>3, SearchGoesOn DEF Search, Onward, fixed
  <2> QED BY <1>1, <1>2, <1>5, <2>2, <2>3, CandidateOnward
<1>6. CASE ~input.anchored /\ ~cursor.retry
  <2> DEFINE next == TryAdvanceCandidate(at)
  <2>1. CASE next = Exhausted /\ Eligible(E, Emptied) = {}
    <3>1. Over(Latched)
      BY <1>6, <2>1 DEF GenericMiss, AfterMiss
    <3> QED BY <1>3, <2>1, <3>1
  <2>2. CASE next # Exhausted /\ Onward(next)
    <3>1. Search(next, cursor)
      BY <1>6, <2>2 DEF GenericMiss
    <3> HIDE DEF next
    <3> QED BY <1>1, <1>6, <2>2, <3>1, SearchGoesOn DEF Search, Onward, fixed
  <2> QED BY <1>1, <1>2, <1>6, <2>1, <2>2, CandidateOnward
<1> QED BY <1>4, <1>5, <1>6

LEMMA SliceMatchKeeps ==
  ASSUME Steady, SliceMatch PROVE IInv'
<1>1. /\ lane = "Slice" /\ phase = "search" /\ Lookout
      /\ cursor \in Cursors /\ ~cursor.finished /\ NonEmpty = cursor.retry
  BY AttemptKinds DEF SliceMatch, Attempting, Steady, Lookout, IInv, Searching, Retries
<1>2. PICK n \in 1..Len(pattern) :
       /\ Found(n, at, cursor.origin, cursor.retry)
       /\ Report(n, [cursor EXCEPT !.position = pattern[n].end,
                                   !.retry = pattern[n].end = at])
  BY DEF SliceMatch
<1>3. Found(n, at, cursor.origin, NonEmpty) /\ pattern[n].at = at
  BY <1>1, <1>2 DEF Found, Admits
<1>4. pattern[n].end \in -1..(Length + 1)
  BY <1>1, PatternFacts, LengthAssumption DEF Lookout, IInv, Alternative, Positions
<1>5. /\ cursor' \in Cursors /\ ~cursor'.finished
      /\ cursor'.position = pattern[n].end /\ cursor'.retry = (pattern[n].at = pattern[n].end)
  BY <1>1, <1>2, <1>3, <1>4 DEF Report, Cursors
<1> QED BY <1>1, <1>2, <1>3, <1>5, SearchReports DEF Report, fixed, Retries

LEMMA SliceMissKeeps ==
  ASSUME Steady, SliceMiss PROVE IInv'
<1>1. /\ lane = "Slice" /\ phase = "search" /\ Lookout
      /\ cursor \in Cursors /\ ~cursor.finished /\ NonEmpty = cursor.retry
      /\ at \in Positions /\ Length \in Nat /\ input \in Inputs
      /\ E \in Positions /\ E <= at /\ E \in input.boundaries
      /\ cursor.retry = (Emptied /\ at = E) /\ cursor.position = at
  BY AttemptKinds, LastEndFacts DEF SliceMiss, Attempting, Steady, Lookout, IInv, Searching, Retries, TypeOK
<1>2. Looking
  <2>1. Missed(at, cursor.origin, NonEmpty)
    BY <1>1 DEF SliceMiss
  <2> QED BY <1>1, <2>1 DEF Looking, Lookout, IInv
<1>3. input.crlf = {} /\ ~input.skips /\ ~input.anchored /\ Length \in input.boundaries
  BY <1>1, PlainSubject, SubjectFacts DEF Lookout, IInv
<1> DEFINE missed == [cursor EXCEPT !.retry = FALSE]
<1>4. /\ missed \in Cursors /\ missed.origin = cursor.origin
      /\ missed.retry = FALSE /\ missed.finished = cursor.finished
  BY <1>1 DEF Cursors
<1>5. CASE cursor.retry
  <2>1. TryAdvanceAfterEmpty(at) = AdvancePastScalar(at)
    BY <1>1, <1>3, <1>5 DEF TryAdvanceAfterEmpty
  <2>2. CASE at >= Length
    <3>1. Over(missed)
      BY <1>5, <2>1, <2>2 DEF SliceMiss, AdvancePastScalar
    <3>2. cursor' \in Cursors /\ cursor'.origin = cursor.origin
      BY <1>4, <3>1 DEF Over
    <3> QED BY <1>1, <1>2, <1>5, <2>2, <3>1, <3>2, MissScalar, SearchEnds DEF Over, fixed
  <2>3. CASE at < Length
    <3>1. Onward(input.next[at])
      BY <1>1, <1>2, <1>3, <1>5, <2>3, MissScalar
    <3>2. /\ input.next[at] \in Positions /\ input.next[at] \in -1..(Length + 1)
          /\ input.next[at] # Exhausted /\ ~(input.next[at] > Length)
      BY <1>1, <3>1 DEF Onward, Positions, Exhausted
    <3>3. TryAdvanceAfterEmpty(at) = input.next[at]
      BY <1>1, <2>1, <2>3 DEF AdvancePastScalar, Positions
    <3>4. Search(input.next[at], [missed EXCEPT !.position = input.next[at]])
      BY <1>5, <3>2, <3>3 DEF SliceMiss
    <3>5. /\ cursor' \in Cursors /\ ~cursor'.finished /\ ~cursor'.retry
          /\ cursor'.origin = cursor.origin /\ cursor'.position = input.next[at]
      BY <1>1, <1>4, <3>2, <3>4 DEF Search, Cursors
    <3> QED BY <1>1, <3>1, <3>2, <3>4, <3>5, SearchGoesOn DEF Search, Onward, fixed
  <2> QED BY <1>1, <2>2, <2>3 DEF Positions
<1>6. CASE ~cursor.retry
  <2>1. at + 1 # Exhausted /\ at + 1 \in -1..(Length + 1) /\ (at + 1 > Length <=> at = Length)
    BY <1>1 DEF Exhausted, Positions
  <2>2. CASE at = Length
    <3>1. Over([missed EXCEPT !.position = at + 1])
      BY <1>6, <2>1, <2>2 DEF SliceMiss
    <3>2. cursor' \in Cursors /\ cursor'.origin = cursor.origin
      BY <1>4, <2>1, <3>1 DEF Over, Cursors
    <3>3. Eligible(E, Emptied) = {}
      BY <1>1, <1>2, <1>3, <2>2, MissScalar DEF Positions
    <3> QED BY <1>1, <3>1, <3>2, <3>3, SearchEnds DEF Over, fixed
  <2>3. CASE at # Length
    <3>1. Search(at + 1, [missed EXCEPT !.position = at + 1])
      BY <1>6, <2>1, <2>3 DEF SliceMiss
    <3>2. /\ cursor' \in Cursors /\ ~cursor'.finished /\ ~cursor'.retry
          /\ cursor'.origin = cursor.origin /\ cursor'.position = at + 1
      BY <1>1, <1>4, <2>1, <3>1 DEF Search, Cursors
    <3>3. at + 1 \in Positions /\ at < at + 1 /\ E <= at + 1
      BY <1>1, <2>3 DEF Positions
    <3>4. \A n \in Eligible(E, Emptied) : at + 1 <= pattern[n].at
      <4>1. ASSUME NEW n \in Eligible(E, Emptied) PROVE at + 1 <= pattern[n].at
        <5>1. pattern[n].at \in Positions /\ at < pattern[n].at
          BY <1>2, MissPasses DEF Looking
        <5> QED BY <1>1, <5>1 DEF Positions
      <4> QED BY <4>1
    <3>5. at + 1 \in input.boundaries => Visits(E, Emptied, at + 1)
      BY <1>3, <3>3 DEF Visits, Reach
    <3>6. UNCHANGED <<lane, input, pattern, matches, again>> /\ phase' = "search" /\ at' = at + 1
      BY <3>1 DEF Search, fixed
    <3> QED BY <1>1, <3>2, <3>3, <3>4, <3>5, <3>6, SearchGoesOn
  <2> QED BY <2>2, <2>3
<1> QED BY <1>1, <1>5, <1>6

LEMMA StartHolds == Init => IInv
<1> SUFFICES ASSUME Init PROVE IInv
  OBVIOUS
<1>1. /\ Length \in Nat /\ 0 \in Positions /\ Again[lane] \in Nat /\ matches = << >>
      /\ 0 \in -1..(Length + 1)
  BY LengthAssumption, AgainAssumption DEF Init, Positions
<1>2. TypeOK
  BY <1>1 DEF Init, TypeOK
<1>3. MatchesFollow
  BY <1>1 DEF MatchesFollow
<1>4. E = 0 /\ Emptied = FALSE
  BY <1>1 DEF E, Emptied, LastEnd, WasEmpty
<1>5. /\ cursor.position = 0 /\ cursor.origin = 0 /\ cursor.retry = FALSE /\ cursor.finished = FALSE
      /\ phase = "idle" /\ again = 0 /\ Len(matches) = 0
  BY <1>1 DEF Init
<1>6. Idle
  BY <1>4, <1>5 DEF Idle
<1>7. Origin
  <2>1. cursor.origin = E /\ cursor.origin <= E
    BY <1>4, <1>5
  <2> QED BY <2>1 DEF Origin
<1>8. Searching /\ Ended /\ Asked
  BY <1>5 DEF Searching, Ended, Asked
<1> QED BY <1>2, <1>3, <1>6, <1>7, <1>8 DEF IInv

LEMMA RestKeeps ==
  ASSUME Steady, UNCHANGED vars PROVE IInv'
<1>1. UNCHANGED <<lane, input, pattern, cursor, at, phase, matches, again>>
  BY DEF vars
<1>2. /\ E' = E /\ Emptied' = Emptied /\ Eligible(E, Emptied)' = Eligible(E, Emptied)
      /\ MatchesFollow'
  BY <1>1, SameMatches DEF Steady, IInv
<1>3. Visits(E, Emptied, at)' <=> Visits(E, Emptied, at)
  BY <1>1, <1>2 DEF Visits, Reach
<1>4. TypeOK'
  BY <1>1 DEF Steady, IInv, TypeOK, Admissible
<1>5. Idle' /\ Origin' /\ Searching' /\ Ended' /\ Asked'
  BY <1>1, <1>2, <1>3 DEF Steady, IInv, Idle, Origin, Searching, Ended, Asked, AdvancePastScalar
<1> QED BY <1>2, <1>4, <1>5 DEF IInv

LEMMA StepKeeps ==
  ASSUME Steady, [Next]_vars PROVE IInv'
<1>1. CASE MoveNext
  BY <1>1, MoveNextKeeps
<1>2. CASE CoreMatch \/ CoreMiss \/ CountMatch \/ CountMiss
  BY <1>2, CoreMatchKeeps, CoreMissKeeps, CountMatchKeeps, CountMissKeeps
<1>3. CASE PythonMatch \/ PythonMiss
  BY <1>3, PythonMatchKeeps, PythonMissKeeps
<1>4. CASE GenericMatch \/ GenericMiss
  BY <1>4, GenericMatchKeeps, GenericMissKeeps
<1>5. CASE SliceMatch \/ SliceMiss
  BY <1>5, SliceMatchKeeps, SliceMissKeeps
<1>6. CASE Rest \/ UNCHANGED vars
  BY <1>6, RestKeeps DEF Rest
<1> QED BY <1>1, <1>2, <1>3, <1>4, <1>5, <1>6 DEF Next, Attempt

--------------------------------------------------------------------------------
(* The invariant holds throughout, whatever the subject and the alternatives,   *)
(* as long as no \G of Core looks behind and slice cursors are left at the end. *)
THEOREM IterationInvariant ==
  ASSUME CoreLooksAhead, SliceCallersStop
  PROVE  Spec => []IInv
<1>1. IInv /\ [Next]_vars => IInv'
  BY StepKeeps DEF Steady
<1> QED BY StartHolds, <1>1, PTL DEF Spec

(* The cursors of every lane stay in the subject, and those of the scalar lanes *)
(* at scalar boundaries while they search.                                      *)
THEOREM IterationTyped ==
  ASSUME CoreLooksAhead, SliceCallersStop
  PROVE  Spec => []TypeOK
<1>1. IInv => TypeOK
  BY DEF IInv
<1> QED BY IterationInvariant, <1>1, PTL

(* Each match reported is the first that its predecessor leaves, found with \G  *)
(* where that one ended: none is skipped and none is reported twice.            *)
THEOREM ReportsFollow ==
  ASSUME CoreLooksAhead, SliceCallersStop
  PROVE  Spec => []MatchesFollow
<1>1. IInv => MatchesFollow
  BY DEF IInv
<1> QED BY IterationInvariant, <1>1, PTL

(* No lane returns false while the last match leaves another one.               *)
THEOREM EndIsEarned ==
  ASSUME CoreLooksAhead, SliceCallersStop
  PROVE  Spec => []NothingLeft
<1>1. IInv => NothingLeft
  BY DEF IInv, Ended, NothingLeft, EligibleAfter, E, Emptied
<1> QED BY IterationInvariant, <1>1, PTL

(* A cursor that returned false never reports another match.                    *)
THEOREM EndStays ==
  ASSUME CoreLooksAhead, SliceCallersStop
  PROVE  Spec => EndIsFinal
<1>1. ASSUME IInv, [Next]_vars, phase = "over" \/ again > 0 PROVE UNCHANGED matches
  <2>1. phase = "over"
    BY <1>1 DEF IInv, Asked
  <2>2. CASE MoveNext
    BY <2>2 DEF MoveNext
  <2>3. ~Attempt
    BY <2>1 DEF Attempt, Attempting, CoreMatch, CoreMiss, CountMatch, CountMiss, PythonMatch,
       PythonMiss, GenericMatch, GenericMiss, SliceMatch, SliceMiss
  <2>4. CASE UNCHANGED vars
    BY <2>4 DEF vars
  <2> QED BY <1>1, <2>2, <2>3, <2>4 DEF Next, Rest
<1>2. IInv /\ [Next]_vars => [phase = "over" \/ again > 0 => UNCHANGED matches]_vars
  BY <1>1 DEF vars
<1> QED BY IterationInvariant, <1>2, PTL DEF Spec, EndIsFinal

===============================================================================
