\* Two CPUs and two GDTs under VRR; one finalizar and one pause.
CONSTANTS
  CPUs = {u, v}
  Scripts <- MCScripts
  Quantum = 1
  Grado = 2
  Algoritmo = "VRR"
  MaxFinalizar = 1
  MaxPausas = 1
  Nadie = Nadie
SPECIFICATION Spec
CHECK_DEADLOCK FALSE
SYMMETRY MCSimetria
INVARIANTS
  UnaColaPorGDT
  GradoRespetado
  UnReportePorTurno
