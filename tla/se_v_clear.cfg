SPECIFICATION Spec
CONSTANTS
  Requests = {r1, r2}
  Tokens = {a1, a2}
  Second = 2
  Life = 2
  MaxNow = 7
  Null = Null
INVARIANTS ClearingEndsSessions
