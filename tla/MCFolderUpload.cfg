CONSTANTS
  Request = {r1, r2}
  Bodies <- MCBodies
  MaxNameBytes = 4
  Bad = {"?", "*"}
  Blank = {"n2"}
  Wide <- MCWide
  Candidates = 3
SPECIFICATION FairFolderSpec
CHECK_DEADLOCK FALSE
INVARIANTS
  FolderTypeOK
  FoldersNotMerged
  FilesWhereAnnounced
  NamesLegal
PROPERTIES
  NothingOverwritten
  SearchEnds
