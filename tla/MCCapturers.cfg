\* Each capturer in turn, with a host that changes while it is read.
SPECIFICATION Spec
CONSTANTS
  Enabled = {"CPU", "CONN", "DISK", "FILECHANGE", "MEM", "NET", "PERSIST", "PROC"}
  Pids <- SomePids
  Conns = {"c1", "c2"}
  Ifaces = {"eth0", "eth1"}
  Devices = {"sda"}
  WalkOrder <- SomeFiles
  FileRoots = {"root"}
  Accepted = {"a.sh", "c.sh", "root"}
  Sources <- SomeSources
  Unreadable = {"c.sh", "unit2"}
  Suspects = {"a.sh", "c.sh", "c1"}
  Failing = {"CPU", "CONN", "DISK", "FILECHANGE", "MEM", "NET", "PERSIST", "PROC"}
  MaxFiles = 1
  FieldLimit = 2
  AlertLimit = 1
  ProcLimit = 2
  FileLimit = 2
  NetLimit = 2
  Levels = {89, 90}
  MaxChanges <- SomeChanges
  MaxCaptures = 3
  MaxTime = 2
INVARIANTS TypeOK TrafficAccounted AlertsTruthful
PROPERTIES ImplementsFeed ChangesAlerted SuspectsAlerted
