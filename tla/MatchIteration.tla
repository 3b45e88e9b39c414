---------------------------- MODULE MatchIteration ----------------------------
(* Global iteration over the matches of one pattern in one subject, as each     *)
(* lane of the three dialects performs it.  One attempt of the matcher is       *)
(* abstracted to a table: a pattern is the sequence of its alternatives in      *)
(* priority order, and an attempt at a position takes the first one it admits.  *)
(*   Core     Utf8RegexMatchCursor, Utf8OperationMatchCursor, scalar replacement*)
(*   Count    Utf8SliceRunner.CountFromBytes                                    *)
(*   Python   PythonReScalarMatchState                                          *)
(*   Generic  the PCRE2 cursors over Pcre2GlobalProgress                        *)
(*   Slice    Pcre2SliceGlobalMatchCursor                                       *)
EXTENDS Integers, Sequences

CONSTANTS Length,    \* bytes of the subject
          Free,      \* the pin of an alternative without \G
          Lanes,
          Inputs,    \* subjects, with what the request says about newlines
          Patterns,  \* per lane, sequences of alternatives
          Again      \* per lane, the bound on the calls a caller makes after the end

Positions == 0..Length
Exhausted == -1

(* An alternative matches at "at", consumes up to "end", reports "from" (which  *)
(* \K may move) as its start, and needs \G to stand at "pin" if it has one.     *)
Alternative == [at : Positions, from : Positions, end : Positions, pin : Positions \cup {Free}]

ASSUME LengthAssumption == Length \in Nat /\ Free \notin Positions
ASSUME LanesAssumption == Lanes \subseteq {"Core", "Count", "Python", "Generic", "Slice"}
ASSUME PatternsAssumption == Patterns \in [Lanes -> SUBSET Seq(Alternative)]
ASSUME AgainAssumption == Again \in [Lanes -> Nat]

(* "next" is where the scalar at a boundary ends; "crlf" holds the carriage     *)
(* returns whose line feed belongs to them under the newline convention.        *)
ASSUME InputsAssumption == \A i \in Inputs :
  /\ i \in [boundaries : SUBSET Positions, next : [0..(Length - 1) -> Positions],
            crlf : SUBSET (0..(Length - 2)), skips : BOOLEAN, anchored : BOOLEAN]
  /\ 0 \in i.boundaries /\ Length \in i.boundaries
  /\ \A p \in i.boundaries \ {Length} :
       /\ i.next[p] \in i.boundaries /\ p < i.next[p]
       /\ \A q \in i.boundaries : q <= p \/ i.next[p] <= q
  /\ \A p \in i.crlf : {p, p + 1, p + 2} \subseteq i.boundaries /\ p + 1 \notin i.crlf

VARIABLES lane, input, pattern,
          cursor,  \* what a cursor keeps between two calls
          at,      \* the candidate of the search under way
          phase,   \* "idle", "search", "over" (false was returned), "faulted"
          matches, \* the alternatives reported, in order
          again    \* calls made after the end

vars == <<lane, input, pattern, cursor, at, phase, matches, again>>
fixed == <<lane, input, pattern>>

(* Subjects and patterns a lane may be given.  Slice programs are prepared only *)
(* for line feeds and without anchoring; \C, \K and scalars split by them are   *)
(* PCRE2's own.  A \K that a lookbehind runs, which puts the reported start      *)
(* before the attempt, is left out: the check before iterating refuses it where *)
(* it sees it, but does not see one behind a subroutine call.                   *)
Admissible(l, i, p) ==
  /\ l # "Generic" => (i.crlf = {} /\ ~i.skips /\ ~i.anchored)
  /\ \A n \in 1..Len(p) :
       /\ p[n].at <= p[n].end /\ p[n].at <= p[n].from
       /\ l # "Generic" => (p[n].from = p[n].at /\ {p[n].at, p[n].end} \subseteq i.boundaries)
       /\ l = "Python" => p[n].pin = Free

Init ==
  /\ lane \in Lanes /\ input \in Inputs /\ pattern \in Patterns[lane]
  /\ Admissible(lane, input, pattern)
  /\ cursor = [position |-> 0, origin |-> 0, retry |-> FALSE, finished |-> FALSE]
  /\ at = 0 /\ phase = "idle" /\ matches = << >> /\ again = 0

--------------------------------------------------------------------------------
\* mutant: scalars are taken to be one byte wide
AdvancePastScalar_Byte(p) == IF p >= Length THEN Exhausted ELSE p + 1

AdvancePastScalar(p) == IF p >= Length THEN Exhausted ELSE input.next[p]

TryAdvanceAfterEmpty(p) ==
  IF input.anchored THEN Exhausted
  ELSE IF p \notin input.boundaries THEN p + 1
  ELSE IF p \in input.crlf THEN p + 2
  ELSE AdvancePastScalar(p)

(* The next candidate of a PCRE2 search; a skipped line feed is stepped over.   *)
TryAdvanceCandidate(p) ==
  IF p \notin input.boundaries THEN p + 1
  ELSE IF input.skips /\ p \in input.crlf THEN p + 2
  ELSE AdvancePastScalar(p)

(* What one attempt at p finds, with \G standing at g.                          *)
Admits(n, p, g, nonEmpty) ==
  /\ pattern[n].at = p
  /\ pattern[n].pin \in {Free, g}
  /\ nonEmpty => pattern[n].from # pattern[n].end

Found(n, p, g, nonEmpty) ==
  Admits(n, p, g, nonEmpty) /\ \A m \in 1..(n - 1) : ~Admits(m, p, g, nonEmpty)

Missed(p, g, nonEmpty) == \A n \in 1..Len(pattern) : ~Admits(n, p, g, nonEmpty)

Report(n, next) ==
  /\ matches' = Append(matches, pattern[n]) /\ cursor' = next
  /\ phase' = "idle" /\ UNCHANGED <<fixed, at, again>>

Search(from, next) ==
  /\ at' = from /\ cursor' = next
  /\ phase' = "search" /\ UNCHANGED <<fixed, matches, again>>

Over(next) ==
  /\ phase' = "over" /\ cursor' = next
  /\ UNCHANGED <<fixed, at, matches, again>>

Latched == [cursor EXCEPT !.finished = TRUE]

--------------------------------------------------------------------------------
\* mutant: the origin of \G is where the search of the first call started
Entered_KeepsOrigin == cursor

(* A slice cursor pins \G to the position a call enters at.                     *)
Entered ==
  IF lane = "Slice" THEN [cursor EXCEPT !.origin = cursor.position] ELSE cursor

(* MoveNext, up to its first attempt; Count is one call.                        *)
MoveNext ==
  /\ phase = "idle" \/ (phase = "over" /\ lane # "Count" /\ again < Again[lane])
  /\ again' = again + (IF phase = "over" THEN 1 ELSE 0)
  /\ UNCHANGED <<fixed, matches>>
  /\ IF cursor.finished \/ cursor.position \notin Positions
     THEN phase' = "over" /\ at' = at /\ cursor' = IF lane = "Slice" THEN cursor ELSE Latched
     ELSE phase' = "search" /\ cursor' = Entered /\ at' = cursor.position

Attempting(l) == phase = "search" /\ lane = l

--------------------------------------------------------------------------------
(* Only a match that consumes moves the origin of \G.                           *)
CoreAdvanced(m) ==
  IF m.end > m.at THEN [cursor EXCEPT !.position = m.end, !.origin = m.end]
  ELSE [cursor EXCEPT !.position = AdvancePastScalar(m.end)]

CoreMatch ==
  /\ Attempting("Core")
  /\ \E n \in 1..Len(pattern) :
       Found(n, at, cursor.origin, FALSE) /\ Report(n, CoreAdvanced(pattern[n]))

CoreMiss ==
  /\ Attempting("Core") /\ Missed(at, cursor.origin, FALSE)
  /\ LET next == AdvancePastScalar(at) IN
     IF next = Exhausted THEN Over(Latched) ELSE Search(next, cursor)

(* CountFromBytes goes on without returning, and pins \G after every match.     *)
CountFrom(next) ==
  IF next = Exhausted THEN phase' = "over" /\ at' = at ELSE phase' = phase /\ at' = next

CountMatch ==
  /\ Attempting("Count")
  /\ \E n \in 1..Len(pattern) :
       /\ Found(n, at, cursor.origin, FALSE)
       /\ matches' = Append(matches, pattern[n])
       /\ cursor' = [cursor EXCEPT !.origin = pattern[n].end]
       /\ CountFrom(IF pattern[n].end # at THEN pattern[n].end ELSE AdvancePastScalar(at))
  /\ UNCHANGED <<fixed, again>>

CountMiss ==
  /\ Attempting("Count") /\ Missed(at, cursor.origin, FALSE)
  /\ CountFrom(AdvancePastScalar(at))
  /\ UNCHANGED <<fixed, cursor, matches, again>>

--------------------------------------------------------------------------------
(* After an empty match Python retries at the same position, nonempty.          *)
PythonMatch ==
  /\ Attempting("Python")
  /\ \E n \in 1..Len(pattern) :
       /\ Found(n, at, cursor.origin, cursor.retry)
       /\ Report(n, [cursor EXCEPT !.position = pattern[n].end,
                                   !.retry = pattern[n].end = at])

\* mutant: the end is not remembered
PythonMiss_NotFinished ==
  /\ Attempting("Python") /\ Missed(at, cursor.origin, cursor.retry)
  /\ LET missed == [cursor EXCEPT !.retry = FALSE] IN
     IF at = Length THEN Over(missed)
     ELSE Search(input.next[at], [missed EXCEPT !.position = input.next[at]])

PythonMiss ==
  /\ Attempting("Python") /\ Missed(at, cursor.origin, cursor.retry)
  /\ LET missed == [cursor EXCEPT !.retry = FALSE] IN
     IF at = Length THEN Over([missed EXCEPT !.finished = TRUE])
     ELSE Search(input.next[at], [missed EXCEPT !.position = input.next[at]])

--------------------------------------------------------------------------------
\* mutant: an empty retry that fails is not given up
AfterMiss_KeepsRetry ==
  LET next == TryAdvanceAfterEmpty(cursor.position) IN
  IF ~cursor.retry \/ next = Exhausted THEN Over(Latched)
  ELSE Search(cursor.position, cursor)

\* mutant: a failed retry ends the iteration
AfterMiss_GivesUp == Over(Latched)

(* Pcre2GlobalProgress: the retry at the position of an empty match is anchored;*)
(* when it misses, the search moves on, and \G stays where the match ended.     *)
AfterMiss ==
  LET next == TryAdvanceAfterEmpty(cursor.position) IN
  IF ~cursor.retry \/ next = Exhausted THEN Over(Latched)
  ELSE Search(next, [cursor EXCEPT !.position = next, !.retry = FALSE])

Accept(m) ==
  IF m.from > m.end
  THEN phase' = "faulted" /\ UNCHANGED <<fixed, cursor, at, matches, again>>
  ELSE /\ phase' = "idle" /\ matches' = Append(matches, m)
       /\ cursor' = [cursor EXCEPT !.position = m.end, !.origin = m.end, !.retry = m.at = m.end]
       /\ UNCHANGED <<fixed, at, again>>

GenericMatch ==
  /\ Attempting("Generic")
  /\ \E n \in 1..Len(pattern) :
       Found(n, at, cursor.origin, cursor.retry) /\ Accept(pattern[n])

GenericMiss ==
  /\ Attempting("Generic") /\ Missed(at, cursor.origin, cursor.retry)
  /\ LET next == IF input.anchored \/ cursor.retry THEN Exhausted ELSE TryAdvanceCandidate(at) IN
     IF next = Exhausted THEN AfterMiss ELSE Search(next, cursor)

--------------------------------------------------------------------------------
SliceMatch ==
  /\ Attempting("Slice")
  /\ \E n \in 1..Len(pattern) :
       /\ Found(n, at, cursor.origin, cursor.retry)
       /\ Report(n, [cursor EXCEPT !.position = pattern[n].end,
                                   !.retry = pattern[n].end = at])

(* The search goes byte by byte.  A failed retry with nowhere to go returns     *)
(* false and leaves the position where it was, without the retry.               *)
SliceMiss ==
  /\ Attempting("Slice") /\ Missed(at, cursor.origin, cursor.retry)
  /\ LET missed == [cursor EXCEPT !.retry = FALSE]
         next == IF cursor.retry THEN TryAdvanceAfterEmpty(at) ELSE at + 1
     IN IF next = Exhausted THEN Over(missed)
        ELSE IF next > Length THEN Over([missed EXCEPT !.position = next])
        ELSE Search(next, [missed EXCEPT !.position = next])

--------------------------------------------------------------------------------
Attempt == \/ CoreMatch \/ CoreMiss \/ CountMatch \/ CountMiss \/ PythonMatch \/ PythonMiss
           \/ GenericMatch \/ GenericMiss \/ SliceMatch \/ SliceMiss

(* A caller is done with a cursor that ended or threw.                          *)
Rest == phase \in {"over", "faulted"} /\ UNCHANGED vars

Next == MoveNext \/ Attempt \/ Rest

Spec == Init /\ [][Next]_vars

(* A call that has begun runs to its return.                                    *)
LiveSpec == Spec /\ WF_vars(Attempt)

--------------------------------------------------------------------------------
(* The cursor stays in the subject, and a scalar search at scalar boundaries.   *)
TypeOK ==
  /\ lane \in Lanes /\ input \in Inputs /\ pattern \in Patterns[lane]
  /\ Admissible(lane, input, pattern)
  /\ cursor \in [position : -1..(Length + 1), origin : Positions,
                 retry : BOOLEAN, finished : BOOLEAN]
  /\ at \in Positions /\ phase \in {"idle", "search", "over", "faulted"}
  /\ matches \in Seq(Alternative) /\ again \in 0..Again[lane]
  /\ phase = "search" => at \in input.boundaries \/ lane \in {"Generic", "Slice"}

(* What an iteration should report, from the k-th match on: the next match      *)
(* starts where that one ended or later, and \G stands there; after an empty    *)
(* match the dialects differ only in what they may still take at its position.  *)
LastEnd(k) == IF k = 0 THEN 0 ELSE matches[k].end
WasEmpty(k) == k > 0 /\ matches[k].at = matches[k].end

(* Where a search from e looks: at e, at the other bytes of a scalar that \C    *)
(* split, and at the boundaries after it.                                       *)
Reach(e) ==
  {p \in Positions : p >= e /\ (p = e \/ p \in input.boundaries
                                \/ \A b \in input.boundaries : b < e \/ p < b)}

Visits(e, empty, p) ==
  /\ p \in Reach(e)
  /\ input.anchored => p = e
  /\ (empty /\ e \in input.crlf) => p # e + 1
  /\ (input.skips /\ p > e) => (p - 1) \notin input.crlf

Eligible(e, empty) ==
  {n \in 1..Len(pattern) :
     LET m == pattern[n] IN
     /\ m.pin \in {Free, e} /\ Visits(e, empty, m.at)
     /\ (empty /\ m.at = e) => (lane \notin {"Core", "Count"} /\ m.from # m.end)}

EligibleAfter(k) == Eligible(LastEnd(k), WasEmpty(k))

Before(n, m) ==
  pattern[n].at < pattern[m].at \/ (pattern[n].at = pattern[m].at /\ n <= m)

IsNext(n, k) == n \in EligibleAfter(k) /\ \A m \in EligibleAfter(k) : Before(n, m)

(* Every reported match is the first one its predecessor leaves: nothing is     *)
(* skipped, reported twice, or found from a stale position or origin.           *)
MatchesFollow ==
  \A k \in 1..Len(matches) :
    \E n \in 1..Len(pattern) : IsNext(n, k - 1) /\ matches[k] = pattern[n]

(* False is returned only when the last match leaves nothing.                   *)
NothingLeft == phase = "over" => EligibleAfter(Len(matches)) = {}

(* Once a call returned false, later ones report no match (callers loop on it,  *)
(* and copies of a cursor are asked again).                                     *)
EndIsFinal == [][phase = "over" \/ again > 0 => UNCHANGED matches]_vars

(* Every call returns: no empty match holds the iteration in place.             *)
EveryCallReturns == phase = "search" ~> phase # "search"

===============================================================================
