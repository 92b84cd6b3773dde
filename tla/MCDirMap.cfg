CONSTANTS
  a = a
  b = b
  c = c
  both = both
  lower = lower
  outside = outside
  clash = clash
  t1 = t1
  t2 = t2
  p1 = p1
  p2 = p2
  None = None
  Threads = {t1, t2}
  Ptrs = {p1, p2}
  Names = {a, b, c}
  Dirs = {both, lower, outside, clash}
  Inside = {both, lower, clash}
  RealDirs = {both, outside, clash}
  RealList <- MCRealList
  ImageKind <- MCImageKind
  ImageList <- MCImageList
  MaxOpens = 3
SPECIFICATION Spec
SYMMETRY Symmetry
INVARIANTS TypeOK NoStaleDir NoDirLeak MergedListing
