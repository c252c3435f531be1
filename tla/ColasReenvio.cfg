\* The comment of the subscription's loop: the messages are sent again.
CONSTANTS
  Procesos = {gamecard}
  SinIp = {}
  Colas = {"CATCH_POKEMON"}
  MaxMensajes = 2
  MaxConexiones = 3
  EmisorCae = FALSE
  ReconexionPronta = FALSE
  Nadie = Nadie
SYMMETRY Simetria
SPECIFICATION Spec
CHECK_DEADLOCK FALSE
INVARIANTS
  ReenvioCompleto
