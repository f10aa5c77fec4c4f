---------------------------- MODULE OrderedStream ----------------------------
(***************************************************************************)
(* What an io.ReadCloser over the bytes Start..End of a stored part        *)
(* promises its consumer: each call to Read returns the next bytes of the  *)
(* range, io.EOF comes with (or after) the last byte and only then, and a  *)
(* stream that does not end is cut by an error the consumer sees.          *)
(***************************************************************************)
EXTENDS Integers

CONSTANTS
  Start, End,    \* first and last byte position of the requested range
  Failures       \* the errors a Read may report

VARIABLES
  pos,           \* position of the first byte not yet delivered
  ret            \* what the last Read returned: n bytes from position lo, err

vars == <<pos, ret>>

Init ==
  /\ pos = Start
  /\ ret = [lo |-> Start, n |-> 0, err |-> "nil"]

\* Read returns n > 0 bytes, the ones that follow those already delivered.
Deliver ==
  \E n \in 1..(End + 1 - pos) :
    /\ pos' = pos + n
    /\ ret' = [lo |-> pos, n |-> n,
               err |-> IF pos' = End + 1 THEN "EOF" ELSE "nil"]

\* Read returns no byte and one of the errors; the range is not complete.
Fail ==
  /\ pos <= End
  /\ \E e \in Failures : ret' = [lo |-> pos, n |-> 0, err |-> e]
  /\ UNCHANGED pos

\* Read on a range that has been delivered whole.
AtEnd ==
  /\ pos = End + 1
  /\ ret' = [lo |-> pos, n |-> 0, err |-> "EOF"]
  /\ UNCHANGED pos

Next == Deliver \/ Fail \/ AtEnd

Spec == Init /\ [][Next]_vars
==============================================================================
