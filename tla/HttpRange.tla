----------------------------- MODULE HttpRange ------------------------------
(***************************************************************************)
(* The Range header of a stream (internal/http_range/range.go), once it is *)
(* split: each range-spec has a first and a last position, Absent when it  *)
(* is empty or no number.                                                  *)
(***************************************************************************)
EXTENDS Integers, Sequences, Lists

Absent == -1
Specs  == [first : Nat \cup {Absent}, last : Nat \cup {Absent}]
Least(a, b) == IF a <= b THEN a ELSE b

\* Mutant: a suffix of n bytes starts one byte too far.
StartOfLate(spec, size) == IF spec.first = Absent THEN size - spec.last + 1 ELSE spec.first

\* "-nnn" counts from the end.
StartOf(spec, size) == IF spec.first = Absent THEN size - spec.last ELSE spec.first

EndOf(spec, size) ==
  IF spec.first = Absent \/ spec.last = Absent THEN size - 1 ELSE Least(spec.last, size - 1)

\* A spec that gives no range, or one that is not within the file, is passed over.
Valid(spec, size) ==
  /\ ~(spec.first = Absent /\ spec.last = Absent)
  /\ StartOf(spec, size) \in 0..EndOf(spec, size)

\* Parse(header, size); none valid is ErrNoOverlap.
Parse(header, size) ==
  LET kept == Keep(header, {spec \in Specs : Valid(spec, size)})
  IN  [i \in DOMAIN kept |-> [start |-> StartOf(kept[i], size), end |-> EndOf(kept[i], size)]]

\* What a range-spec asks of a file, by the definition of byte ranges.
Asked(spec, size) ==
  {p \in 0..(size - 1) :
     IF spec.first = Absent THEN spec.last # Absent /\ p >= size - spec.last
     ELSE p >= spec.first /\ (spec.last # Absent => p <= spec.last)}
=============================================================================
