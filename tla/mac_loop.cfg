\* Two tasks, one of them repeating; the list is not locked.
CONSTANTS
  t1 = t1
  t2 = t2
  Task = {t1, t2}
  NoTask = NoTask
  Delays = {0, 1, 3}
  MinDelay = 1
  MaxDelay = 2
  MaxTime = 4
  Repeaters = {t2}
  Spurious = FALSE
SPECIFICATION FairMacSpec
INVARIANTS MacTypeOK  NeverStranded 
PROPERTIES NeverEarly 
