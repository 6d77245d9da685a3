SPECIFICATION StreamSpec
CONSTANTS
  Task = {1, 2, 3}
  Runs = {page}
  Pages = {page}
  NoTask = None
  Plans <- ChainAndCycle
INVARIANTS
  ResultReachesPage
CHECK_DEADLOCK FALSE
