------------------------------ MODULE SeatPool ------------------------------
(***************************************************************************)
(* What the programs and enrollments modules promise together, with no     *)
(* rows, requests or locks: every program offers some number of seats (or  *)
(* none while it is not active), and a seat is taken only in one atomic    *)
(* step that still sees room for it.  An offer may be changed at any time, *)
(* also to less than what is already seated: nobody is evicted by an edit. *)
(***************************************************************************)
EXTENDS Naturals, FiniteSets

CONSTANTS
  Programs,      \* program ids
  Members,       \* the users who may enroll
  Capacities,    \* capacities a program may be given, Null for unlimited
  Null,
  Shut           \* the offer of a program that accepts nobody

VARIABLES
  offer,         \* offer[p]: the capacity enrollments count against, or Shut
  seated         \* seated[p]: the members with an active enrollment in p

Offers == Capacities \cup {Shut}

Init ==
  /\ offer = [p \in Programs |-> Shut]
  /\ seated = [p \in Programs |-> {}]

(* A program that accepts enrollments and has a seat left.                 *)
HasRoom(p) ==
  /\ offer[p] # Shut
  /\ offer[p] = Null \/ Cardinality(seated[p]) < offer[p]

Seat(p, u) ==
  /\ HasRoom(p)
  /\ u \notin seated[p]
  /\ seated' = [seated EXCEPT ![p] = @ \cup {u}]
  /\ UNCHANGED offer

Vacate(p, u) ==
  /\ u \in seated[p]
  /\ seated' = [seated EXCEPT ![p] = @ \ {u}]
  /\ UNCHANGED offer

Repost(p, o) ==
  /\ offer' = [offer EXCEPT ![p] = o]
  /\ UNCHANGED seated

Withdraw(p) ==
  /\ offer' = [offer EXCEPT ![p] = Shut]
  /\ seated' = [seated EXCEPT ![p] = {}]

Next ==
  \E p \in Programs :
    \/ \E u \in Members : Seat(p, u) \/ Vacate(p, u)
    \/ \E o \in Offers : Repost(p, o)
    \/ Withdraw(p)

Spec == Init /\ [][Next]_<<offer, seated>>
=============================================================================
