\* TAMANO_MEMORIA 8, first fit, FIFO, blocks of 2, 4 and 8;
\* a message of 9 cells is too large and ends the Broker.
CONSTANTS
  TamMemoria = 8
  TamMinimo = 1
  Bytes = {1, 3, 5, 9}
  Datos = {d1, d2, d3, d4}
  Reemplazo = "FIFO"
  AjusteLibre = "FF"
  MaxReloj = 1
  Vacio = Vacio
  Nadie = Nadie
SPECIFICATION FairSpec
CHECK_DEADLOCK FALSE
INVARIANTS
  Teselado
  Alineados
  SinCompanierosLibres
  CacheFielAlBuscar
  SinCaida
PROPERTIES
  ImplementaCache
  TodoPedidoSeGuarda
