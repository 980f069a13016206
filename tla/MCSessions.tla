----------------------------- MODULE MCSessions ----------------------------
(* One user, two requests at a time, and a clock of two ticks a second.    *)
EXTENDS Sessions, TLC

Interchangeable == Permutations(Requests) \cup Permutations(Tokens)
=============================================================================
