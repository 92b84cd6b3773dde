CONSTANTS
  NULL = NULL
  Chars <- MCChars
  PATH_MAX = 8
  Pathnames <- MCPathnames
  PrefixValues <- MCPrefixes
  ImageFiles <- MCImageFiles
SPECIFICATION Spec
INVARIANTS TypeOK InsideIffUnder BuffersFit
