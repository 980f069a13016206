SPECIFICATION Spec
CONSTANTS
  Requests = {r1, r2}
  Subs = {s1, s2}
  Tagged = {}
  Null = Null
SYMMETRY Interchangeable
INVARIANTS TypeOK RecordedIsActivated
PROPERTIES WithdrawnOnlyIfLapsed
