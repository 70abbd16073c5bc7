\* Two CPUs, racing for the static buffers.
SPECIFICATION Spec
CONSTANTS
  cpu1 = cpu1
  cpu2 = cpu2
  Cpus = {cpu1, cpu2}
  Chars <- MCChars
  Bodies <- MCOneBody
  Protos = {"UDP", "TCP"}
  Texts <- MCOneText
PROPERTIES DropsOnCommandOnly
SYMMETRY CpuSymmetry
