\* Values longer than a buffer.
SPECIFICATION Spec
CONSTANTS
  Names <- MCNames
  Files <- MCLong
  DataMax = 60
  Behind <- MCBehind
  CONTENTMAXLEN = 6
  Stride = 8
  Nul = Nul
INVARIANTS ParsedAsConfigured
\* The module ends when it is unloaded.
CHECK_DEADLOCK FALSE
