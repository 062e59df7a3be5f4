SPECIFICATION MCSpec
CONSTANTS
  Keys = {k1, f1}
  Favorites = {f1}
  Rows = {r1}
  NoRow = NoRow
  MaxSaveFaults = 1
  MaxReadFaults = 1
  MaxReopens = 1
  h1 = h1
  h2 = h2
  Tokens = {"", "c1", "g2", "t"}
  Puts = {h1, h2}
  Body <- Bodies
  URLs = {u1, u2}
  RepoName <- OneName
  Private = {u1}
  ReqTokens = {"", "t"}
  Sessions = {s1, s2}
  MaxCrashes = 1
  Callers = {c1, c2}
  Owners = {s1, s2}
  BaseVol = 1
  MaxVolume = 5
  MaxStarts = 2
  DMFails = TRUE
INVARIANTS MCTypeOK AckedIsStored TokensKept NoHalfClone
INVARIANTS DisksIsolated NoCollision KnownIsInUse
PROPERTIES StorePromise CheckoutSettles
CHECK_DEADLOCK FALSE
