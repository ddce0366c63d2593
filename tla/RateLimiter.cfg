CONSTANTS
  Ips = {ip1, ip2}
  One = 3
  Rate = 2
  Burst = 6
  TicksPerMs = 2
  CleanupInterval = 3
  BucketExpiry = 8
  MaxTime = 12
  NoBucket = nobucket
SPECIFICATION Spec
SYMMETRY Symmetry
INVARIANTS TypeOK WindowBound RefusedOnlyInHaste
