\* Game Boys, LOCALIZED subscribers, senders that vanish and processes that
\* come back early: the Broker may die.
CONSTANTS
  Procesos = {team, gameboy}
  SinIp = {gameboy}
  Colas = {"GET_POKEMON", "LOCALIZED_POKEMON"}
  MaxMensajes = 2
  MaxConexiones = 2
  EmisorCae = TRUE
  ReconexionPronta = TRUE
  Nadie = Nadie
SPECIFICATION Spec
CHECK_DEADLOCK FALSE
INVARIANTS
  EntradaPorSuscriptor
  MarcadoConEnvio
  SinDuplicados
  RespuestaPrimero
