---------------------------- MODULE BrokerMemoria ----------------------------
(***************************************************************************)
(* What the two memory algorithms of the Broker's message cache share      *)
(* (Broker/memoria.c): the partitions, the messages, the bytes, the search *)
(* for a free partition, the choice of a victim, and what the cache must   *)
(* keep true.  BrokerParticiones (dynamic partitions) and BrokerBuddy      *)
(* (buddy system) extend it with their own actions.                        *)
(*                                                                         *)
(* Sizes are in cells.  A payload is one value per message, written in     *)
(* each of its cells, so that a cell tells whose byte it holds.            *)
(* PARTICIONES_LIBRES is a set: both sorts that precede a search order it  *)
(* by a key of the partitions, and ties of the size sort are left open.    *)
(***************************************************************************)
EXTENDS Integers, SequencesExt

CONSTANTS
  TamMemoria,   \* TAMANO_MEMORIA
  TamMinimo,    \* TAMANO_MINIMO_PARTICION
  Bytes,        \* sizes of the messages that arrive
  Datos,        \* payloads; messages in the cache at once have different ones
  Reemplazo,    \* ALGORITMO_REEMPLAZO: "FIFO" or "LRU"
  AjusteLibre,  \* ALGORITMO_PARTICION_LIBRE: "FF" or "BF"
  MaxReloj,     \* bound on the millisecond clock
  Vacio,        \* the '_' that memset leaves in free cells
  Nadie         \* no request in progress

ASSUME ConstantesAssumption ==
  /\ TamMemoria \in Nat \ {0}
  /\ TamMinimo \in Nat
  /\ Bytes \subseteq Nat \ {0}
  /\ MaxReloj \in Nat
  /\ Vacio \notin Datos
  /\ Nadie \notin [dato : Datos, bytes : Bytes]

(* A message as its bytes. *)
Contenido(dato, bytes) == [b \in 0..(bytes - 1) |-> dato]
Contenidos == {Contenido(d, n) : d \in Datos, n \in Bytes}

ASSUME ContenidosAssumption == Nadie \notin Contenidos

VARIABLES
  libres,       \* PARTICIONES_LIBRES
  mensajes,     \* MENSAJES, in order of arrival
  cache,        \* the bytes of CACHE
  pedido,       \* the message being stored, or Nadie
  pc,           \* where the owner of mutex_mensajes is
  reloj         \* gettimeofday, in milliseconds

memoria == <<libres, mensajes, cache>>

Celdas == 0..(TamMemoria - 1)

(* The cells of a partition, free (f) or taken by a message (m). *)
CeldasLibre(f) == f.ini .. (f.ini + f.tam - 1)
CeldasMensaje(m) == m.ini .. (m.ini + m.largo - 1)

Pedido == [dato : Datos, bytes : Bytes]
Particion == [ini : Celdas, tam : 1..TamMemoria]
Mensaje == [dato : Datos, bytes : Bytes, ini : Celdas, largo : 1..TamMemoria,
            timestamp : 0..MaxReloj]

InitMemoria ==
  /\ libres = {[ini |-> 0, tam |-> TamMemoria]}
  /\ mensajes = <<>>
  /\ cache = [c \in Celdas |-> Vacio]
  /\ pedido = Nadie
  /\ pc = "inactivo"
  /\ reloj = 0

-----------------------------------------------------------------------------
(* Operators of both algorithms.                                           *)

(* A message that is not in the cache yet. *)
PedidosNuevos ==
  [dato : Datos \ {mensajes[i].dato : i \in DOMAIN mensajes}, bytes : Bytes]

(* A message takes at least TAMANO_MINIMO_PARTICION. *)
ObtenerTamMsg(bytes) == IF bytes > TamMinimo THEN bytes ELSE TamMinimo

(* Mutant: a partition of just the size is refused. *)
CandidatasEstrictas(tam) ==
  LET caben == {f \in libres : tam < f.tam}
  IN  {f \in caben : \A g \in caben :
         IF AjusteLibre = "BF" THEN f.tam <= g.tam ELSE f.ini <= g.ini}

(* The first partition that fits, in the order the list was sorted by. *)
Candidatas(tam) ==
  LET caben == {f \in libres : tam <= f.tam}
  IN  {f \in caben : \A g \in caben :
         IF AjusteLibre = "BF" THEN f.tam <= g.tam ELSE f.ini <= g.ini}

(* The node of the pending message, whose partition starts at ini. *)
NuevoMensaje(ini, largo) ==
  [dato |-> pedido.dato, bytes |-> pedido.bytes, ini |-> ini,
   largo |-> largo, timestamp |-> reloj]

(* Mutant: the most recent leaves first. *)
EsVictimaReciente(i) ==
  \/ Reemplazo = "FIFO" /\ i = Len(mensajes)
  \/ /\ Reemplazo # "FIFO"
     /\ \A j \in DOMAIN mensajes : mensajes[i].timestamp >= mensajes[j].timestamp

(* FIFO takes the head of MENSAJES; LRU the head once sorted by timestamp. *)
EsVictima(i) ==
  \/ Reemplazo = "FIFO" /\ i = 1
  \/ /\ Reemplazo # "FIFO"
     /\ \A j \in DOMAIN mensajes : mensajes[i].timestamp <= mensajes[j].timestamp

(* A subscription, with mutex_mensajes, sends some messages again, which   *)
(* refreshes their timestamp under LRU.                                    *)
RefrescarUsados ==
  /\ pc = "inactivo"
  /\ \E usados \in SUBSET DOMAIN mensajes :
       /\ Reemplazo = "FIFO" => usados = {}
       /\ mensajes' = [i \in DOMAIN mensajes |->
                         IF i \in usados THEN [mensajes[i] EXCEPT !.timestamp = reloj]
                                         ELSE mensajes[i]]
  /\ UNCHANGED <<libres, cache, pedido, pc, reloj>>

AvanzarReloj ==
  /\ reloj < MaxReloj
  /\ reloj' = reloj + 1
  /\ UNCHANGED <<memoria, pedido, pc>>

-----------------------------------------------------------------------------
(* Properties.                                                             *)

(* No two partitions, free or taken, share a cell: a store never lands on  *)
(* a live message, and no cell is handed out twice.                        *)
LibresDisjuntas ==
  \A f, g \in libres : f # g => f.ini + f.tam <= g.ini \/ g.ini + g.tam <= f.ini

MensajesDisjuntos ==
  \A i, j \in DOMAIN mensajes :
    i # j => \/ mensajes[i].ini + mensajes[i].largo <= mensajes[j].ini
             \/ mensajes[j].ini + mensajes[j].largo <= mensajes[i].ini

LibresSinMensajes ==
  \A f \in libres, i \in DOMAIN mensajes :
    \/ f.ini + f.tam <= mensajes[i].ini
    \/ mensajes[i].ini + mensajes[i].largo <= f.ini

SinSolapamiento == LibresDisjuntas /\ MensajesDisjuntos /\ LibresSinMensajes

(* The partitions tile the memory: no cell is ever lost by a split, a      *)
(* consolidation, a merge or a compaction.  mover_particion depends on it: *)
(* its loop steps from message to message and never ends if it meets a     *)
(* hole.                                                                   *)
SinHuecos ==
  \A c \in Celdas :
    \/ \E f \in libres : c \in CeldasLibre(f)
    \/ \E i \in DOMAIN mensajes : c \in CeldasMensaje(mensajes[i])

(* The bytes of each stored message are its own until it is evicted, and   *)
(* what no message has written reads '_', across every split, memset and   *)
(* memmove.                                                                *)
CacheFiel ==
  /\ \A i \in DOMAIN mensajes :
       \A c \in mensajes[i].ini .. (mensajes[i].ini + mensajes[i].bytes - 1) :
         cache[c] = mensajes[i].dato
  /\ \A f \in libres : \A c \in CeldasLibre(f) : cache[c] = Vacio

(* Every search ends with the message stored, if the memory is as large as *)
(* the message: eviction always makes room in the end, and the loop of     *)
(* busquedaParticionLibre never goes round without progress.               *)
TodoPedidoSeGuarda ==
  (pedido # Nadie /\ ObtenerTamMsg(pedido.bytes) <= TamMemoria) ~> (pedido = Nadie)

(* Nothing but a message larger than its memory ends the Broker: a victim  *)
(* is always there when one is needed, and (dynamic partitions,            *)
(* FRECUENCIA_COMPACTACION 1 or -1) compactar never meets more than two    *)
(* free partitions (memoria.c:22-57, 173-204, 404-463).                    *)
SinCaida == pc = "caido" => ObtenerTamMsg(pedido.bytes) > TamMemoria

(* What serializar_mensaje reads for a stored message. *)
Leer(m) == [b \in 0..(m.bytes - 1) |-> cache[m.ini + b]]

Guardados ==
  [i \in DOMAIN mensajes |-> [contenido |-> Leer(mensajes[i]), timestamp |-> mensajes[i].timestamp]]

EnEspera == IF pedido = Nadie THEN Nadie ELSE Contenido(pedido.dato, pedido.bytes)

(* The detailed cache implements the abstract one: moving and merging      *)
(* partitions is invisible, victims leave in the order of the algorithm,   *)
(* and only between a request and its store.                               *)
Abstracta == INSTANCE BrokerCache WITH
  Contenidos <- Contenidos, guardados <- Guardados, pedido <- EnEspera

ImplementaCache == Abstracta!Spec
=============================================================================
