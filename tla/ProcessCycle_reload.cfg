\* One worker at a time; three reloads or commands and one fault of any kind
SPECIFICATION Spec
CONSTANTS
  MaxProcesses = 3
  WorkerProcesses = 1
  MaxOrders = 3
  MaxFaults = 1
  Commands = {"QUIT", "TERM", "WINCH", "USR1", "USR2"}
  Faults = {"crash", "fatal", "hang", "fork", "binary", "refuse"}
INVARIANTS
  TypeOK
  KeptRunCurrent
  Staffed
  NoOrphans
PROPERTIES
  TermEnds
  QuitEnds
  ReloadServed
CHECK_DEADLOCK FALSE
