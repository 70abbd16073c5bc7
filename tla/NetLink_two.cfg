\* Two clients on two CPUs, each with its own hook_func.
SPECIFICATION Spec
CONSTANTS
  k1 = k1
  k2 = k2
  cpu1 = cpu1
  cpu2 = cpu2
  Clients = {k1, k2}
  Cpus = {cpu1, cpu2}
  Loader = Loader
  NoPid = NoPid
  CpuOf <- MCCpuOf
  MaxMsgs <- TwoOne
  RcvBuf = 1
INVARIANTS TypeOK UnicastHasTarget NoSelfDeadlock UnloadSafe LeakBound
PROPERTIES PidStableForReaders ImplementsSession
