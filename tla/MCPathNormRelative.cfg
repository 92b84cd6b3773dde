CONSTANTS
  NULL = NULL
  Chars <- MCChars
  PATH_MAX = 6
  Pathnames <- MCPathnames
  PrefixValues <- MCOnePrefix
  ImageFiles <- MCImageFiles
SPECIFICATION Spec
INVARIANT MeaningKept
