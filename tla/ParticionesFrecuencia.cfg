\* TAMANO_MEMORIA 6, first fit, FIFO, a compaction every second eviction.
CONSTANTS
  TamMemoria = 6
  TamMinimo = 1
  Bytes = {1, 2, 3}
  Datos = {d1, d2, d3, d4, d5, d6, d7}
  Reemplazo = "FIFO"
  AjusteLibre = "FF"
  Frecuencia = 2
  MaxReloj = 0
  Vacio = Vacio
  Nadie = Nadie
SYMMETRY Simetria
SPECIFICATION Spec
CHECK_DEADLOCK FALSE
PROPERTIES
  CompactarDejaUna
