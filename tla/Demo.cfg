\* The stream through the configured filter, and past it.
SPECIFICATION Spec
CONSTANTS
  Routes <- MCRoutes
  Addresses <- MCAddresses
  Confs <- MCConfs
  WireMax = 1
  QueueMax = 2
INVARIANTS TypeOK ReportNamesConfigured
PROPERTIES OnlyBsMissing BsStop
