\* One run of the program, with the sleeps of the code in units of 50 ms.
SPECIFICATION FairSpec
CONSTANTS
  s1 = s1
  s2 = s2
  Symbol = {s1, s2}
  Input <- MCInput
  StartSleep = 20
  PollInterval = 1
  PollLimit = 15
  StopSleep = 2
  MaxDelay = 1
  None = None
INVARIANTS
  TypeOK
  ClosureAlive
  ReportComplete
  EndedBeforeReport
PROPERTIES
  Terminates
