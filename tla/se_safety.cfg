SPECIFICATION MCSpec
CONSTANTS
  Requests = {r1, r2}
  Tokens = {a1, a2}
  Second = 2
  Life = 2
  MaxNow = 7
  Null = Null
  People = {u1, u2}
  Codes = {x1, x2}
  Visits = {v1, v2}
  None = None
  Managers = {m1, m2}
  OrgIds = {o1, o2}
  Slugs = {s1, s2}
  Calls = {c1, c2}
  NoOrg = NoOrg
SYMMETRY Interchangeable
INVARIANTS TypeOK LogoutLasts LoggedOutStaysOut LeftoverOnlyByOverlap SlugsAreOwners
