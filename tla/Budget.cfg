SPECIFICATION MCSpec
CONSTANTS
  p1 = p1
  r1 = r1
  main = main
  over = over
  NoSubject = NoSubject
  Pods = {p1, p2}
  Subjects = {main, over}
  Requests = {r1, r2}
  Estimates = {2}
  Actuals = {1}
  Limit <- MCLimit
  Overflow <- OneOverflow
  AskCapacity = 1
  UrgentShare = 3
  MaxNow = 1
  MaxFailures = 1
INVARIANTS CountersHonest OneSyncPerCounter
PROPERTY SpendShips
CHECK_DEADLOCK FALSE
