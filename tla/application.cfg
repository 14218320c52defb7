\* Three runs, each entered when the last one has ended; slices short and long.
CONSTANTS
  Runner = Runner
  Heart = Heart
  Task = {Runner, Heart}
  NoTask = NoTask
  Delays = {0}
  MinDelay = 1
  MaxDelay = 2
  MaxTime = 4
  ProgramDelays = {1, 3}
  WaitMs = 2
  DownMs = 1
  UpMs = 2
  RunsTwice = FALSE
  MaxRuns = 3
SPECIFICATION FairAppSpec
INVARIANTS AppTypeOK RunnerIsScheduled OneCallbackPerRun HeartbeatGoesOn
PROPERTIES StopEnds
