SPECIFICATION Spec
CONSTANTS
  Admins = {"x", "y"}
  Server = "server"
  None = None
  Page = "cfg-access"
  Texts <- Text
  Words <- Password
  AddSlashes <- Backslashed
  StripSlashes <- Bare
  EditRules <- Edited
  Configs <- Stored
  MaxChanges = 2
  Workloads <- Work
  Disk <- Files
  Htm <- Old
  Start <- Home
  Asked <- Request
  Includes <- Included
  Visitors <- Visitor
  MaxSteps = 2
INVARIANTS
  RulesKept
  RulesApplied
  OneHeader
  OneAnswer
  FileFaithful
PROPERTIES
  Served
CHECK_DEADLOCK FALSE
