SPECIFICATION LibrarySpec
CONSTANTS
  Node <- McNode
  Nil = Nil
  Null = Null
  KeyOf <- McKeyOf
  Link = {l1, l2, l3}
  Keys <- McKeys
  HashSizes = {1, 3}
  Procs = {p1, p2, p3}
  Chains <- McChains
  Limits = {0, 2, 3}
  MaxBytes = 6
  DFS_IOVS_MAX = 2
  DFS_MAX_LIMIT = 4
  Letter = "x"
  Directives <- McDirectives
  Layouts <- McLayouts
  Types <- McTypes
  Options <- McOptions
  Word32 = 8
  Units <- McUnits
  HasZeros = {"any", "10.0.0.0"}
  PrefixOf <- McPrefixOf
  MaxPort = 3
  Strings <- McStrings
  Points <- McPoints
  LastDay = 2
  Second = {0, 59, 60, 3599, 3600, 43199, 86399}
  Thread = {t1, t2}
  Reader = {r1}
  CACHE_TIME_SLOT = 4
  Precision = 2
  MaxMsec = 7
INVARIANT DefaultsMade
CHECK_DEADLOCK FALSE
