\* One client of each kind.
SPECIFICATION FairSpec
CONSTANTS
  Tools = {t1}
  Scripts = {s1}
  Cpus = {cpu1}
  NoPid = NoPid
  Chars <- MCChars
  Packets <- MCPackets
  RcvBuf <- MCRcvBuf
  NlmsgHdr = 2
  ByteRange = 9
INVARIANTS TypeOK DropFollowsReport QuitterForgotten
PROPERTIES ReportAnswered
