--------------------------- MODULE MCLocationCache ---------------------------
(***************************************************************************)
(* Two readers with different bots, the first with two concurrent chunk    *)
(* requests.                                                               *)
(***************************************************************************)
EXTENDS LocationCache, TLC

CONSTANTS c1, c2, c3, s1, s2, b1, b2

TwoReaders == c1 :> s1 @@ c2 :> s1 @@ c3 :> s2
TwoBots    == s1 :> b1 @@ s2 :> b2

Names == Permutations(Refs)
==============================================================================
