CONSTANTS
  c1 = c1
  Codes = {c1}
  Uploads = {u1, u2}
  Owner <- OwnOne
  Requests = {r1}
  Workers = {w1}
  Cleaner = Cleaner
  Nothing = Nothing
  SweepErrors = FALSE
SPECIFICATION FairSpec
CHECK_DEADLOCK FALSE
PROPERTY ExpiredSessionsReaped
