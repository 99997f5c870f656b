CONSTANTS
  Thread = {"loop", "p", "q"}
  Event = {1, 2}
  ManualReset = {2}
  NoThread = "nobody"
  NoEvent = 0
  Loop = "loop"
  PumpEvent = 1
  Task <- Tasks
  Delay <- Delays
  NonNestable <- Apart
  Poster <- Posters
  Does <- TaskDoes
  RunLoop = {"main", "allowing", "default"}
  Main = "main"
  Allowing = {"allowing"}
  UntilIdle = {"allowing", "default"}
  Scenarios <- Groups
  MaxTime = 2
  MaxCalls = 3
  Waits <- Arrays
  NoTime = NoTime
  NoTask = NoTask
SPECIFICATION FairSpec
INVARIANTS SignalConserved WaitReturnsLast SleepsOnlyWhenIdle Ordered
PROPERTIES CallsReturn TasksRun QuitEndsLoop
CHECK_DEADLOCK FALSE
