SPECIFICATION FairSpec
CONSTANTS
  Root = "root"
  Dirs <- MCDirs
  Files <- MCFiles
  Lower <- MCLower
  Cuts <- MCCuts
  MaxDepth = 3
  MaxFailures = 1
INVARIANTS TypeOK IndexComplete DirsClosed
PROPERTIES Terminates
