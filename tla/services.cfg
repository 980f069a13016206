SPECIFICATION MCSpec
CONSTANTS
  Clients = {a1}
  Messages = {m1, m2, m3}
  Limit = 1
  Millisecond = 2
  MaxClock = 2
  Members = {u1, u2, u3}
  Tokens = {t1, t2}
  Batch = 2
  Listeners = {h1}
  Mails = {c1, c2}
  Tasks = {r1, r2}
  Ttl = 2
  MaxVersion = 3
INVARIANTS FeedTypeOK NoRepeat SkipsShareInstant OffsetSkipsOnlyTies PushTypeOK AskedOnce MailTypeOK OvertakenOnlyIfFailed CacheTypeOK StaleOnlyByOverlap
PROPERTIES WalkEnds OnlyStaleCleared ImplementsOutbox MailSettles ChangesShow
CHECK_DEADLOCK FALSE
