------------------------------- MODULE Roster -------------------------------
(***************************************************************************)
(* What membership of an organization promises, with no invitations in     *)
(* flight, rows or requests: the creator is its one owner for good, anyone *)
(* else comes in only with a role that was offered to him personally, and  *)
(* then may be given another role or leave.                                *)
(***************************************************************************)
CONSTANTS
  Users,
  Owner,         \* the user who created the organization
  Roles,         \* the roles an invitation or a change of role may give
  OwnerRole,     \* the role of the creator
  Null           \* the role of a user outside the organization

VARIABLES
  role,          \* role[u]: the role of user u
  offered        \* offered[u]: the roles ever offered to u

Init ==
  /\ role = [u \in Users |-> IF u = Owner THEN OwnerRole ELSE Null]
  /\ offered = [u \in Users |-> {}]

Offer(u, x) ==
  /\ offered' = [offered EXCEPT ![u] = @ \cup {x}]
  /\ UNCHANGED role

Join(u, x) ==
  /\ role[u] = Null
  /\ x \in offered[u]
  /\ role' = [role EXCEPT ![u] = x]
  /\ UNCHANGED offered

(* x may be Null: u leaves or is removed.                                  *)
Assign(u, x) ==
  /\ u # Owner
  /\ role[u] # Null
  /\ role' = [role EXCEPT ![u] = x]
  /\ UNCHANGED offered

Next ==
  \E u \in Users :
    \/ \E x \in Roles : Offer(u, x) \/ Join(u, x)
    \/ \E x \in Roles \cup {Null} : Assign(u, x)

Spec == Init /\ [][Next]_<<role, offered>>
=============================================================================
