\* Packets while fini is between the release of the socket and of the hook.
SPECIFICATION Spec
CONSTANTS
  k1 = k1
  k2 = k2
  cpu1 = cpu1
  cpu2 = cpu2
  Clients = {k1}
  Cpus = {cpu1, cpu2}
  Loader = Loader
  NoPid = NoPid
  CpuOf <- MCCpuOf
  MaxMsgs <- Three
  RcvBuf = 1
INVARIANTS SendsOnLiveSocket
