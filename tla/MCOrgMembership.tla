--------------------------- MODULE MCOrgMembership --------------------------
(* One organization with its owner and users who are invited, join and     *)
(* leave again, in two slices of its state space: one user with two        *)
(* invitations and two roles, and two users with two channels.             *)
EXTENDS OrgMembership, FiniteSets, Naturals, TLC

Interchangeable ==
  Permutations(Requests) \cup Permutations(Invitations)
  \cup Permutations(MemberIds) \cup Permutations(Users \ {Owner})

Sent == {i \in Invitations : invitation[i] # Null}
RolesInUse == {req[r].role : r \in Requests} \cup {invitation[i].role : i \in Sent}
UsersInUse ==
  {req[r].user : r \in Requests} \cup {invitation[i].user : i \in Sent}

OneUser ==
  /\ Cardinality(UsersInUse \ {Owner, Null}) <= 1
  /\ "mentor" \notin RolesInUse
  /\ \A c \in Channels \ {Default} : channel[c] = Null
  /\ \A r \in Requests : req[r].channel \in {Default, Null}
OneInvitation ==
  /\ Cardinality(Sent) <= 1
  /\ RolesInUse \subseteq {"mentor", Null}

Slices == OneUser \/ OneInvitation
=============================================================================
