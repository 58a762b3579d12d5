CONSTANTS
  s1 = s1
  s2 = s2
  w1 = w1
  w2 = w2
  l1 = l1
  l2 = l2
  Handler = Handler
  Cli = Cli
  Metadata = Metadata
  Marker = Marker
  NoDir = NoDir
  Sites = {s1, s2}
  Workers = {w1, w2}
  Lockfiles = {l1, l2}
  SiteMax = 1
  MaxFiles = 2
  MaxBuilds = 3
  MaxFaults = 1
  MaxAges = 1
  MaxEvents = 4
SPECIFICATION Spec
SYMMETRY Symmetry
INVARIANTS CacheTypeOK ContentsMatchLockfile
PROPERTIES PruneEnforcesLimits PruneSparesBuilds
CHECK_DEADLOCK FALSE
