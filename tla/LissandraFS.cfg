\* Two tables, three inserts, a SELECT, a DROP and a DESCRIBE on three blocks.
CONSTANTS
  A = A
  B = B
  c1 = c1
  i1 = i1
  i2 = i2
  i3 = i3
  s1 = s1
  d1 = d1
  e1 = e1
  Tablas <- MCTablas
  Particiones = 1
  CantBloques = 3
  Cap = 1
  Pedidos <- MCPedidos
  Tipo <- MCTipo
  Tabla <- MCTabla
  Clave <- MCClave
  TS <- MCTS
  Medio = 2
  Satura = FALSE
  DeConsola = {}
  Previo <- MCPrevio
  Creadas <- MCCreadas
  Nadie = Nadie
SPECIFICATION Spec
CHECK_DEADLOCK FALSE
INVARIANTS
  BloquesConUnDuenio
  NadaSePierde
  LecturaVigente
  NadieEsperaParaSiempre
