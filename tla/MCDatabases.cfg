SPECIFICATION Spec
CONSTANTS
  Hosts = {"local", "other"}
  Local = "local"
  DBs = {"a", "b"}
  LogDB = "log"
  Ports = {"p", "q"}
  None = None
  Empty = ""
  Builds = {"cgi", "fastcgi", "apache"}
  Pages <- Habits
  MaxResults = 2
  MaxConns = 2
  MaxRes = 3
INVARIANTS
  RanWhereWanted
  DatabasesInv
CHECK_DEADLOCK FALSE
