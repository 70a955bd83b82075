CONSTANTS
  c1 = c1
  Codes = {c1}
  Uploads = {u1, u2}
  Owner <- OwnOne
  Requests = {r1, r2}
  Workers = {w1}
  Cleaner = Cleaner
  Nothing = Nothing
  SweepErrors = TRUE
SPECIFICATION Spec
CHECK_DEADLOCK FALSE
INVARIANTS TypeOK NoOrphanFile NoOrphanTemp
