SPECIFICATION StreamSpec
CONSTANTS
  Task = {1, 2, 3}
  Runs = {page, plain}
  Pages = {page}
  NoTask = None
  Plans <- ChainAndCycle
INVARIANTS
  SummaryMatchesEvents
  NothingLeftRunning
  PageTellsTheRun
  CompletedRowIsWhole
PROPERTIES
  EventsInOrder
  EveryCallerAnswered
CHECK_DEADLOCK FALSE
