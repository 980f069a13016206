------------------------------ MODULE MCBilling -----------------------------
(* One organization and up to two checkouts.                               *)
EXTENDS Billing, TLC

Interchangeable == Permutations(Requests) \cup Permutations(Subs)
=============================================================================
