SPECIFICATION SpecOOM
CONSTANTS
  Keys = {"k1", "k2", "k3", "k4"}
  Vals = {Running, "u"}
  Running = Running
  Paths = {"k1", "k2", "k3"}
  MaxDepth = 3
  Missing = Missing
  None = None
  HashBits = 4
  HashFunctions <- Hashes
  FirstLevel = 1
  LastLevel = 4
  Pad = 2
  Slack = 0
  MaxGiven = 2
  MaxList = 4
  Lengths = {0, 3}
  Cap = 2
  BufSize = 1
  MaxOut = 3
  MaxErr = 1
  MaxSignals = 1
  IsCat = FALSE
VIEW View
CHECK_DEADLOCK FALSE
INVARIANT PopExact
