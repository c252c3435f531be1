\* Two pokemon, two positions, two blocks, and a restart.
CONSTANTS
  n1 = n1
  n2 = n2
  n3 = n3
  c1 = c1
  g1 = g1
  cerca = cerca
  lejos = lejos
  pikachu = pikachu
  onix = onix
  Mensajes <- MCMensajes
  Tipo <- MCTipo
  Pokemon <- MCPokemon
  Posicion <- MCPosicion
  Largo <- MCLargo
  Pokemones = {pikachu, onix}
  TamBloque = 2
  CantBloques = 2
  MaxReinicios = 1
  Nadie = Nadie
SPECIFICATION FairSpec
CHECK_DEADLOCK FALSE
INVARIANTS
  AccesoExclusivo
  BloquesConUnDuenio
  CuentasFieles
PROPERTIES
  TodoSeAtiende
