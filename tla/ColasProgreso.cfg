\* One queue, processes with an ip that wait for their old handler, senders
\* that wait for their ids: the Broker lives, and its threads go on.
CONSTANTS
  Procesos = {team, gamecard}
  SinIp = {}
  Colas = {"CATCH_POKEMON"}
  MaxMensajes = 2
  MaxConexiones = 3
  EmisorCae = FALSE
  ReconexionPronta = FALSE
  Nadie = Nadie
SPECIFICATION FairSpec
CHECK_DEADLOCK FALSE
INVARIANTS
  SocketVigente
  SinCaida
PROPERTIES
  LlegaAConectados
  TodoSeGuarda
