----------------------------- MODULE MCFileCache -----------------------------
(* Instances of FileCache: calls and names are interchangeable.              *)
EXTENDS FileCache, TLC

Interchangeable == Permutations(Streams) \cup Permutations(Writers) \cup Permutations(Names)
==============================================================================
