\* Four keys, contents of size 0 (ignored) to 4 (too large), limit 3.
CONSTANTS
  Keys = {k1, k2, k3, k4}
  Data = {0, 1, 2, 4}
  SizeOf <- Sizes
  MaxSize = 3
  TTL = 2
  NoEntry = noentry
SPECIFICATION Spec
SYMMETRY Symmetry
INVARIANTS CacheTypeOK ListMatchesMap ListIsLruOrder SizeIsExact
PROPERTY EvictsLeastRecentlyUsed
