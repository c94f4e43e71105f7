CONSTANTS
  Captures = {1, 2, 3}
  Weekly = {s, m}
  Scheduler = s
  Overlap = FALSE
  MaxCommands = 4
  MaxDeaths = 0
  MaxFailures = 1
SPECIFICATION WeeklySpec
INVARIANTS
  AcceptedIsReviewed
CHECK_DEADLOCK FALSE
