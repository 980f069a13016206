SPECIFICATION FairSpec
CONSTANTS
  Requests = {r1, r2}
  Subs = {s1}
  Tagged = {s1}
  Null = Null
PROPERTIES PaidIsRecorded CancelReachesRow ImplementsLedger
