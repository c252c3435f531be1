\* Two tables, two frames; kb is inserted twice, kc once and brought by
\* a SELECT, and the table of kc is dropped; the value of i1 is too long.
CONSTANTS
  s1 = s1
  s2 = s2
  i1 = i1
  i2 = i2
  i3 = i3
  i4 = i4
  d1 = d1
  j1 = j1
  ka = ka
  kb = kb
  kc = kc
  ventas = ventas
  compras = compras
  Pedidos = {s2, i1, i2, i3, i4, d1}
  Tipo <- MCTipo
  Clave <- MCClave
  Tabla <- MCTabla
  EnLFS = {ka, kc}
  Largos = {i1}
  CantidadMarcos = 2
  Nadie = Nadie
SPECIFICATION Spec
CHECK_DEADLOCK FALSE
INVARIANTS
  MarcosConUnDuenio
  NadaSePierde
  SinEsperaEterna
