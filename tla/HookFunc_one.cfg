\* One CPU: nothing of one packet shows in the next.
SPECIFICATION Spec
CONSTANTS
  cpu1 = cpu1
  cpu2 = cpu2
  Cpus = {cpu1}
  Chars <- MCChars
  Bodies <- MCBodies
  Protos = {"UDP", "TCP", "ICMP"}
  Texts <- MCTexts
INVARIANTS TypeOK
PROPERTIES ImplementsFilter BNotAcceptedUnderDrop
