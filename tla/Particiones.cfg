\* TAMANO_MEMORIA 6, best fit, LRU, a compaction after each eviction;
\* a message of 7 cells is too large and ends the Broker.
CONSTANTS
  TamMemoria = 6
  TamMinimo = 2
  Bytes = {1, 3, 4, 7}
  Datos = {d1, d2, d3, d4}
  Reemplazo = "LRU"
  AjusteLibre = "BF"
  Frecuencia = 1
  MaxReloj = 1
  Vacio = Vacio
  Nadie = Nadie
SPECIFICATION FairSpec
CHECK_DEADLOCK FALSE
INVARIANTS
  SinSolapamiento
  SinHuecos
  LibresConsolidadas
  CacheFiel
  SinCaida
PROPERTIES
  DesalojoNecesario
  ImplementaCache
  TodoPedidoSeGuarda
