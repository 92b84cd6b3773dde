CONSTANTS
  U64_MAX = 15
  I64_MAX = 7
  OFF_MAX = 3
  U32_MAX = 7
  t1 = t1
  t2 = t2
  i1 = i1
  r1 = r1
  Backing = Backing
  Image = Image
  None = None
  Threads = {t1, t2}
  Fds = {0, 1, 2}
  ImageFd = 0
  Inodes = {i1}
  RealFiles = {r1}
  Size <- MCSize
  Count = 2
  SeekArgs <- MCOneSeek
  MaxOpens = 2
SPECIFICATION FairSpec
PROPERTY LockReleased
