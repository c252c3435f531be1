\* Three trainers that capture for each other, round robin.
CONSTANTS
  l1 = l1
  l2 = l2
  pikachu = pikachu
  onix = onix
  Entrenadores <- MCEntrenadores
  Especies <- MCEspecies
  Objetivo <- MCObjetivo
  PosInicial <- MCPosInicial
  Mensajes <- MCMensajes
  Tipo <- MCTipo
  Especie <- MCEspecie
  Lugares <- MCLugares
  Algoritmo = "RR"
  Quantum = 1
  Ciclos = 2
  MaxFallas = 1
  Nadie = Nadie
  Colgado = Colgado
SPECIFICATION Spec
CHECK_DEADLOCK FALSE
INVARIANTS
  CuentasDelTeam
  UnaColaPorEntrenador
  TodosTerminan
