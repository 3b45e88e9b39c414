--------------------------- MODULE MCMatchIteration ---------------------------
EXTENDS MatchIteration

(* A subject of one-byte scalars, one with a scalar of two bytes, and the first *)
(* with a CR LF pair in it or a request that anchors.                           *)
Subject(boundaries, next, crlf, skips, anchored) ==
  [boundaries |-> boundaries, next |-> next, crlf |-> crlf, skips |-> skips, anchored |-> anchored]

MCInputs ==
  LET bytes == [p \in 0..2 |-> p + 1]
      wide == [p \in 0..2 |-> IF p = 0 THEN 1 ELSE 3]
  IN {Subject(0..3, bytes, {}, FALSE, FALSE), Subject({0, 1, 3}, wide, {}, FALSE, FALSE),
      Subject(0..3, bytes, {1}, FALSE, FALSE), Subject(0..3, bytes, {1}, TRUE, FALSE),
      Subject(0..3, bytes, {}, FALSE, TRUE)}

Alternatives(pins) ==
  {[at |-> p, from |-> p, end |-> q, pin |-> g] : p \in Positions, q \in Positions, g \in pins}
UpTo(n, set) == UNION {[1..k -> set] : k \in 0..n}

Plain == {a \in Alternatives({Free}) : a.at <= a.end}
Pinned == {a \in Alternatives(Positions \cup {Free}) : a.at <= a.end}
Ahead == {a \in Pinned : a.pin = Free \/ a.pin >= a.at}
Reset == {[a EXCEPT !.from = f] : a \in Plain, f \in Positions}

(* Core keeps to \G that is not looked behind at: see MCMatchIterationOrigin.    *)
MCPatterns ==
  [Core |-> UpTo(2, Ahead), Count |-> UpTo(2, Pinned), Python |-> UpTo(3, Plain),
   Generic |-> UpTo(2, Reset \cup Pinned), Slice |-> UpTo(2, Pinned)]
LookingBehind == [Core |-> UpTo(2, Pinned)]

(* A caller of a slice cursor stops at the first false: see MCMatchIterationEnd. *)
MCAgain == [Core |-> 2, Count |-> 0, Python |-> 2, Generic |-> 2, Slice |-> 0]
Repeated == [Slice |-> 1]
PlainSlice == [Slice |-> UpTo(1, Plain)]
NoRepeat == [Core |-> 0]
===============================================================================
