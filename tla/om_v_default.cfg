SPECIFICATION Spec
CONSTANTS
  Requests = {r1, r2}
  Users = {o1, u1}
  Owner = o1
  Roles = {"admin", "member"}
  Invitations = {i1, i2}
  MemberIds = {k1, k2, k3}
  Channels = {general}
  Default = general
  Null = Null
SYMMETRY Interchangeable
INVARIANT MembersInDefault
