\* Two tasks, none of them repeating, run and removed from any callback.
CONSTANTS
  t1 = t1
  t2 = t2
  Task = {t1, t2}
  NoTask = NoTask
  Delays = {0, 2, 5}
  MinDelay = 1
  MaxDelay = 3
  MaxTime = 5
  Repeaters = {}
  Slop = 1
SPECIFICATION FairEspSpec
INVARIANTS EspTypeOK NeverStranded
PROPERTIES EveryTaskStarts
