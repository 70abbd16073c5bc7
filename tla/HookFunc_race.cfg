\* Two CPUs: a B is accepted although the operator said drop, even if
\* only complete texts are ever read.
SPECIFICATION Spec
CONSTANTS
  cpu1 = cpu1
  cpu2 = cpu2
  Cpus = {cpu1, cpu2}
  Chars <- MCChars
  Bodies <- MCTwoBodies
  Protos = {"UDP"}
  Texts = {}
PROPERTIES BNotAcceptedUnderDrop
