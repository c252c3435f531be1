\* A SELECT and an INSERT of one key: the comment in algoritmoLRU.
CONSTANTS
  s1 = s1
  s2 = s2
  i1 = i1
  i2 = i2
  i3 = i3
  i4 = i4
  d1 = d1
  j1 = j1
  ka = ka
  kb = kb
  kc = kc
  ventas = ventas
  compras = compras
  Pedidos = {s1, i1}
  Tipo <- MCTipo
  Clave <- MCClave
  Tabla <- MCTabla
  EnLFS = {ka, kc}
  Largos = {}
  CantidadMarcos = 2
  Nadie = Nadie
SPECIFICATION Spec
CHECK_DEADLOCK FALSE
INVARIANTS
  LimpiaSinActualizar
