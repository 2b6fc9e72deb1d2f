\* Three requests of any method, the account may go, one query or write fails;
\* XML documents of up to three elements below their root.
SPECIFICATION MCSpec
CONSTANTS
  root = root  home = home
  d1 = d1  d2 = d2  d3 = d3
  f1 = f1  f2 = f2  f3 = f3
  r1 = r1  r2 = r2  r3 = r3
  Folder <- MCFolder
  File <- MCFile
  Root = root
  Id <- MCId
  Name = {"a", "b", "h", "x"}
  Nowhere = nowhere
  Outside = outside
  Paths <- MCPaths
  AccountRoot <- MCAccountRoot
  Request = {r1, r2, r3}
  Property = {"displayname", "resourcetype", "getetag", "creationdate", "author", "color"}
  Bodies <- MCBodies
  Patches <- MCPatches
  OldName <- MCOldName
  OldParent <- MCOldParent
  MaxFault = 1
  Hint <- MCHint
  PrefixedNames <- MCPrefixed
  Fragments <- MCFragments
  PropfindDocs <- MCPropfindDocs
  ProppatchDocs <- MCProppatchDocs
  LockDocs <- MCLockDocs
  Answers <- MCAnswers
SYMMETRY Symmetry
VIEW Answered
CHECK_DEADLOCK FALSE
INVARIANT TypeOK AnsweredOnce NamesKept BodiesRead
