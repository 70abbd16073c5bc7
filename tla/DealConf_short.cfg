\* Every small configuration file, every layout of the buffers.
SPECIFICATION Spec
CONSTANTS
  Names <- MCNames
  Files <- MCShort
  DataMax = 20
  Behind <- MCBehind
  CONTENTMAXLEN = 6
  Stride = 8
  Nul = Nul
INVARIANTS TypeOK ParsedAsConfigured NoHookLeftBehind
\* The module ends when it is unloaded.
CHECK_DEADLOCK FALSE
