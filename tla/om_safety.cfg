SPECIFICATION Spec
CONSTANTS
  Requests = {r1, r2}
  Users = {o1, u1, u2}
  Owner = o1
  Roles = {"admin", "mentor", "member"}
  Invitations = {i1, i2}
  MemberIds = {k1, k2, k3}
  Channels = {general, side}
  Default = general
  Null = Null
SYMMETRY Interchangeable
CONSTRAINT Slices
INVARIANTS TypeOK OneOwner ChannelsAdmitted
PROPERTIES DecisionsBind NeverPendingAgain ImplementsRoster
