SPECIFICATION Spec
CONSTANTS
  Requests = {r1, r2}
  Programs = {p1}
  Members = {m1, m2}
  Mentors = {t1}
  Managers = {o1}
  Ids = {i1, i2}
  Stamps = {s1}
  Null = Null
  Undefined = Undefined
  Capacities = {1, Null}
PROPERTY LegalTransitions
