SPECIFICATION Spec
CONSTANTS
  Requests = {r1, r2}
  Subs = {s1}
  Tagged = {}
  Null = Null
PROPERTIES CancelledStays
