--------------------------- MODULE MCPartLifecycle ---------------------------
(* Instances of PartLifecycle: the names of messages, uploads and rows are   *)
(* interchangeable.                                                          *)
EXTENDS PartLifecycle, TLC

Names == Permutations(Msgs) \cup Permutations(Uploads) \cup Permutations(Rows)
==============================================================================
