SPECIFICATION FilesSpec
CONSTANTS
  Names = {"a", "b"}
  Lines <- Read
  ThisPage = "a"
  NoName = NoName
  Free = Free
  Builds = {"cgi", "fastcgi", "apache"}
  Pages <- Habits
  MaxFd = 2
INVARIANTS
  FilesInv
  NothingLeft
  StatFaithful
  TagsStripped
CHECK_DEADLOCK FALSE
