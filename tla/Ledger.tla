------------------------------- MODULE Ledger -------------------------------
(***************************************************************************)
(* What the payment history promises, without deliveries, statements or    *)
(* requests: a charge made by Stripe enters the history at most once, and  *)
(* is confirmed to the owner at most once, after it has been entered.      *)
(***************************************************************************)
EXTENDS Naturals

CONSTANT Charges      \* the charges Stripe may make

VARIABLES
  charged,       \* the charges Stripe has made
  recorded,      \* those in the payment history
  confirmed      \* confirmed[c]: how often charge c was confirmed

Init ==
  /\ charged = {}
  /\ recorded = {}
  /\ confirmed = [c \in Charges |-> 0]

Charge(c) ==
  /\ charged' = charged \cup {c}
  /\ UNCHANGED <<recorded, confirmed>>

Record(c) ==
  /\ c \in charged \ recorded
  /\ recorded' = recorded \cup {c}
  /\ UNCHANGED <<charged, confirmed>>

Confirm(c) ==
  /\ c \in recorded
  /\ confirmed[c] = 0
  /\ confirmed' = [confirmed EXCEPT ![c] = 1]
  /\ UNCHANGED <<charged, recorded>>

Next == \E c \in Charges : Charge(c) \/ Record(c) \/ Confirm(c)

Spec == Init /\ [][Next]_<<charged, recorded, confirmed>>
=============================================================================
