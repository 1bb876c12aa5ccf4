SPECIFICATION PathSpec
CONSTANTS
  h1 = h1
  h2 = h2
  NoCache = NoCache
  NoChain = NoChain
  Harts = {h1, h2}
  Kickers = {h1, h2}
  Loaders = {}
  Requests <- MCRequests
  Capacity = 2
  Vals = {0, 1}
  Images <- MCImages
  Q = 2
  IdxMod = 4
  Ahead = 2
  MaxPriority = 1
INVARIANTS
  CacheMatchesDisk
