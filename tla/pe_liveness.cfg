SPECIFICATION FairSpec
CONSTANTS
  Requests = {r1, r2}
  Programs = {p1}
  Members = {m1}
  Mentors = {}
  Managers = {o1}
  Ids = {i1, i2}
  Stamps = {t1, t2, t3}
  Null = Null
  Undefined = Undefined
  Capacities = {1, Null}
PROPERTIES LockWaitersAnswered
