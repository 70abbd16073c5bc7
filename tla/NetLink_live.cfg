\* Every call into netLink.c returns, under packets on two CPUs.
SPECIFICATION FairSpec
CONSTANTS
  k1 = k1
  k2 = k2
  cpu1 = cpu1
  cpu2 = cpu2
  Clients = {k1}
  Cpus = {cpu1, cpu2}
  Loader = Loader
  NoPid = NoPid
  CpuOf <- MCCpuOf
  MaxMsgs <- Two
  RcvBuf = 1
PROPERTIES CallsReturn RmmodReturns
