----------------------------- MODULE BrokerColas -----------------------------
(***************************************************************************)
(* The Broker's queues: subscriptions, the nodes of MENSAJES with their    *)
(* subscribers, and the threads that send each message                     *)
(* (Broker/serverBroker.c, Broker/libBroker.c, and the list functions of   *)
(* Broker/memoria.c).                                                      *)
(*                                                                         *)
(* One handler thread serves each connection.  The handler of a message    *)
(* takes an id, answers it to the sender (GET and CATCH), and then, with   *)
(* mutex_mensajes, makes room, builds the node, adds it to MENSAJES and    *)
(* starts one detached thread per subscriber.  The handler of a            *)
(* subscription takes the same mutex, and only then reads the rest of its  *)
(* request from the socket, looks the process up and sends what is in      *)
(* MENSAJES.  mutex_mensajes is taken exactly while a node is under        *)
(* construction or a subscription is being read: a client that has sent    *)
(* the operation code and not the rest keeps every other handler waiting.  *)
(*                                                                         *)
(* The cache is reduced to its message list: making room drops some of the *)
(* oldest messages (BrokerCache says which).  A socket is the number of a  *)
(* connection: the Broker never closes one, so none is used twice.         *)
(***************************************************************************)
EXTENDS Integers, SequencesExt

CONSTANTS
  Procesos,          \* the processes that subscribe
  SinIp,             \* those that send no ip: Game Boys
  Colas,             \* names of queues
  MaxMensajes,       \* bound on the messages published
  MaxConexiones,     \* bound on the subscriptions made
  EmisorCae,         \* a client may be gone in the middle of its request
  ReconexionPronta,  \* a process may come back before its old handler ran
  Nadie              \* no node under construction

ASSUME ColasAssumption ==
  /\ Colas \subseteq {"NEW_POKEMON", "APPEARED_POKEMON", "CATCH_POKEMON",
                      "CAUGHT_POKEMON", "GET_POKEMON", "LOCALIZED_POKEMON"}
  /\ SinIp \subseteq Procesos
  /\ MaxMensajes \in Nat /\ MaxConexiones \in Nat
  /\ EmisorCae \in BOOLEAN /\ ReconexionPronta \in BOOLEAN

VARIABLES
  publicaciones,  \* the messages received, with the step of their handler
  idCorrelativo,  \* ID_CORRELATIVO
  nodo,           \* the t_msg of the handler that has mutex_mensajes
  lector,         \* the subscription whose handler has mutex_mensajes, or 0
  mensajes,       \* MENSAJES
  suscriptores,   \* SUSCRIPTORES_NEWPOK, ..., one list per queue
  conexiones,     \* the connections of subscribers, by socket
  envios,         \* the threads of enviarRecibirConfirmacion
  caido           \* the Broker died on a NULL pointer or on SIGPIPE

vars == <<publicaciones, idCorrelativo, nodo, lector, mensajes, suscriptores,
          conexiones, envios, caido>>

MutexLibre == nodo = Nadie /\ lector = 0

Publicados == DOMAIN publicaciones
Sockets == DOMAIN conexiones

Init ==
  /\ publicaciones = <<>>
  /\ idCorrelativo = 0
  /\ nodo = Nadie
  /\ lector = 0
  /\ mensajes = <<>>
  /\ suscriptores = [c \in Colas |-> <<>>]
  /\ conexiones = <<>>
  /\ envios = {}
  /\ caido = FALSE

-----------------------------------------------------------------------------
(* Queues and subscribers.                                                 *)

(* obtenerCodOp("BROKER", c): the queue whose messages a subscription to c *)
(* is sent again.  LOCALIZED_POKEMON falls into the last branch, GET.      *)
ColaReenviada(c) == IF c = "LOCALIZED_POKEMON" THEN "GET_POKEMON" ELSE c

(* The subscriber number n of the list of queue c. *)
Suscripto(c, n) == [lista |-> c, num |-> n, ack |-> 0]

(* A thread that sends publication p to subscriber u. *)
Envio(p, u, socket) ==
  [pub |-> p, lista |-> u.lista, num |-> u.num, socket |-> socket, estado |-> "creado"]

(* Mutant: always the socket of the first subscriber. *)
SocketDelPrimero(u) == suscriptores[u.lista][1].socket

SocketDe(u) == suscriptores[u.lista][u.num].socket

-----------------------------------------------------------------------------
(* The handler of a message.                                               *)

ConId == {"NEW_POKEMON", "GET_POKEMON", "CATCH_POKEMON"}
ConRespuesta == {"GET_POKEMON", "CATCH_POKEMON"}

(* The message is read; NEW, GET and CATCH take an id (generar_id), the    *)
(* others bring the one they answer.  The id is a uint32_t: it would repeat*)
(* after 2^32 messages, far beyond MaxMensajes.                            *)
Publicar(c) ==
  /\ ~caido
  /\ Len(publicaciones) < MaxMensajes
  /\ publicaciones' = Append(publicaciones,
       [cola |-> c, id |-> IF c \in ConId THEN idCorrelativo ELSE 0,
        respondida |-> FALSE,
        paso |-> IF c \in ConRespuesta THEN "responder" ELSE "guardar"])
  /\ idCorrelativo' = IF c \in ConId THEN idCorrelativo + 1 ELSE idCorrelativo
  /\ UNCHANGED <<nodo, lector, mensajes, suscriptores, conexiones, envios, caido>>

Avanzar(p, paso) == publicaciones' = [publicaciones EXCEPT ![p].paso = paso]

Responder(p) ==
  /\ ~caido
  /\ publicaciones[p].paso = "responder"
  /\ publicaciones' = [publicaciones EXCEPT ![p].paso = "guardar", ![p].respondida = TRUE]
  /\ UNCHANGED <<idCorrelativo, nodo, lector, mensajes, suscriptores, conexiones, envios, caido>>

(* The sender has gone: send fails and the handler exits, or the socket    *)
(* was reset and, without MSG_NOSIGNAL, SIGPIPE ends the process.          *)
ResponderFalla(p) ==
  /\ ~caido
  /\ EmisorCae
  /\ publicaciones[p].paso = "responder"
  /\ Avanzar(p, "abandonada")
  /\ caido' \in BOOLEAN
  /\ UNCHANGED <<idCorrelativo, nodo, lector, mensajes, suscriptores, conexiones, envios>>

(* Mutant: the message is stored before its id is answered. *)
ListaAntesDeResponder(p) == publicaciones[p].paso \in {"responder", "guardar"}

ListaParaGuardar(p) == publicaciones[p].paso = "guardar"

(* The mutex is taken, escribir_en_cache drops old messages, and the node  *)
(* gets one entry per subscriber of its queue.                             *)
ArmarNodo(p) ==
  /\ ~caido
  /\ MutexLibre
  /\ ListaParaGuardar(p)
  /\ \E k \in 0..Len(mensajes) : mensajes' = SubSeq(mensajes, k + 1, Len(mensajes))
  /\ LET c == publicaciones[p].cola IN
     nodo' = [pub |-> p, cola |-> c,
              suscriptos |-> [n \in DOMAIN suscriptores[c] |-> Suscripto(c, n)]]
  /\ Avanzar(p, "enviar")
  /\ UNCHANGED <<idCorrelativo, lector, suscriptores, conexiones, envios, caido>>

(* Mutant: the loop begins at the second entry. *)
SinMarcarSinPrimero == {n \in DOMAIN nodo.suscriptos : nodo.suscriptos[n].ack = 0 /\ n > 1}

(* The entries a thread is started for. *)
SinMarcar == {n \in DOMAIN nodo.suscriptos : nodo.suscriptos[n].ack = 0}

(* Mutant: the handler of a message without subscribers leaves at once. *)
LiberarConSuscriptos == nodo' = IF nodo.suscriptos = <<>> THEN nodo ELSE Nadie

LiberarMutex == nodo' = Nadie

(* The node joins MENSAJES; enviar_mensaje_a_suscriptos marks each entry   *)
(* and starts its thread, with the socket the subscriber has now; the      *)
(* mutex is released.                                                      *)
EnviarASuscriptos(p) ==
  /\ ~caido
  /\ nodo # Nadie
  /\ nodo.pub = p
  /\ publicaciones[p].paso = "enviar"
  /\ LET marcado == [nodo EXCEPT !.suscriptos =
                       [n \in DOMAIN nodo.suscriptos |-> [nodo.suscriptos[n] EXCEPT !.ack = 1]]]
     IN  mensajes' = Append(mensajes, marcado)
  /\ envios' = envios \cup
       {Envio(p, nodo.suscriptos[n], SocketDe(nodo.suscriptos[n])) : n \in SinMarcar}
  /\ LiberarMutex
  /\ Avanzar(p, "guardada")
  /\ UNCHANGED <<idCorrelativo, lector, suscriptores, conexiones, caido>>

-----------------------------------------------------------------------------
(* The thread of one message and one subscriber.                           *)

(* The confirmation it waits for afterwards is read and changes nothing:   *)
(* flag_ACK was already set when the thread was created.                   *)
EnviarYConfirmar(e) ==
  /\ ~caido
  /\ e.estado = "creado"
  /\ LET fin == IF conexiones[e.socket].viva THEN "entregado" ELSE "perdido"
     IN  envios' = (envios \ {e}) \cup {[e EXCEPT !.estado = fin]}
  /\ UNCHANGED <<publicaciones, idCorrelativo, nodo, lector, mensajes, suscriptores,
                 conexiones, caido>>

-----------------------------------------------------------------------------
(* The handler of a subscription.                                          *)

(* A process (re)starts and asks for queue c; it had no live connection    *)
(* for it.  Unless ReconexionPronta, the handlers of its earlier           *)
(* connections have run by then.  The operation code arrives first.        *)
Conectar(proceso, c) ==
  /\ Len(conexiones) < MaxConexiones
  /\ \A s \in Sockets :
       conexiones[s].proceso = proceso /\ conexiones[s].cola = c =>
         ~conexiones[s].viva /\ (ReconexionPronta \/ conexiones[s].suscripta)
  /\ conexiones' = Append(conexiones,
       [proceso |-> proceso, cola |-> c, viva |-> TRUE, completa |-> FALSE, suscripta |-> FALSE])
  /\ UNCHANGED <<publicaciones, idCorrelativo, nodo, lector, mensajes, suscriptores,
                 envios, caido>>

(* The rest of the request arrives: queue, ip and port. *)
LlegaPedido(s) ==
  /\ conexiones[s].viva
  /\ ~conexiones[s].completa
  /\ conexiones' = [conexiones EXCEPT ![s].completa = TRUE]
  /\ UNCHANGED <<publicaciones, idCorrelativo, nodo, lector, mensajes, suscriptores,
                 envios, caido>>

(* Its request, one send, has arrived whole, unless EmisorCae. *)
Desconectar(s) ==
  /\ conexiones[s].viva
  /\ conexiones[s].completa \/ EmisorCae
  /\ conexiones' = [conexiones EXCEPT ![s].viva = FALSE]
  /\ UNCHANGED <<publicaciones, idCorrelativo, nodo, lector, mensajes, suscriptores,
                 envios, caido>>

(* obtenerSuscriptor compares ip by ip, in order.  A Game Boy, without ip, *)
(* is never looked up; but its entry has a NULL ip, and the comparison     *)
(* that reaches it ends the process.                                       *)
Coincide(c, proceso) ==
  {n \in DOMAIN suscriptores[c] : proceso \notin SinIp /\ suscriptores[c][n].proceso = proceso}

ComparaNulo(c, proceso) ==
  /\ proceso \notin SinIp
  /\ \E n \in DOMAIN suscriptores[c] :
       /\ suscriptores[c][n].proceso \in SinIp
       /\ \A m \in Coincide(c, proceso) : n < m

Reenviables(c) == {i \in DOMAIN mensajes : mensajes[i].cola = ColaReenviada(c)}

(* Mutant: mutex_mensajes is not taken. *)
SuscribiendoSinMutex(s) ==
  /\ ~caido
  /\ conexiones[s].completa
  /\ ~conexiones[s].suscripta

(* The mutex is taken before the request is read: pthread_mutex_lock, and  *)
(* then the recv of deserializar_solicitud_suscripcion.                    *)
TomarMutex(s) ==
  /\ ~caido
  /\ MutexLibre
  /\ ~conexiones[s].suscripta
  /\ lector' = s
  /\ UNCHANGED <<publicaciones, idCorrelativo, nodo, mensajes, suscriptores,
                 conexiones, envios, caido>>

Suscribiendo(s) ==
  /\ ~caido
  /\ lector = s
  /\ conexiones[s].completa

(* A first subscription: a new entry in the list and in each message of    *)
(* the queue, and a thread for each of them.                               *)
SuscribirPrimeraVez(s) ==
  LET c == conexiones[s].cola
      proceso == conexiones[s].proceso
      nuevo == [Suscripto(c, Len(suscriptores[c]) + 1) EXCEPT !.ack = 1]
  IN  /\ Suscribiendo(s)
      /\ ~ComparaNulo(c, proceso)
      /\ Coincide(c, proceso) = {}
      /\ suscriptores' = [suscriptores EXCEPT ![c] =
                            Append(@, [proceso |-> proceso, socket |-> s])]
      /\ mensajes' = [i \in DOMAIN mensajes |->
           IF i \in Reenviables(c) THEN [mensajes[i] EXCEPT !.suscriptos = Append(@, nuevo)]
                                   ELSE mensajes[i]]
      /\ envios' = envios \cup {Envio(mensajes[i].pub, nuevo, s) : i \in Reenviables(c)}
      /\ conexiones' = [conexiones EXCEPT ![s].suscripta = TRUE]
      /\ lector' = 0
      /\ UNCHANGED <<publicaciones, idCorrelativo, nodo, caido>>

(* IgualSocket: the entry, in message i, of the subscriber whose socket is *)
(* s once u has been given it.                                             *)
EntradasDe(i, u) ==
  {n \in DOMAIN mensajes[i].suscriptos :
     mensajes[i].suscriptos[n].lista = u.lista /\ mensajes[i].suscriptos[n].num = u.num}

(* Mutant: flag_ACK is not looked at. *)
PendientesTodos(c, u) == Reenviables(c)

(* The messages not marked for u yet. *)
Pendientes(c, u) ==
  {i \in Reenviables(c) : \E n \in EntradasDe(i, u) : mensajes[i].suscriptos[n].ack = 0}

(* Mutant: the known process keeps its old socket. *)
SinSocketNuevo(c, m, s) == UNCHANGED suscriptores

DarSocket(c, m, s) == suscriptores' = [suscriptores EXCEPT ![c][m].socket = s]

(* A known process comes back: its entry gets the new socket, and each     *)
(* message of the queue not marked for it is sent.                         *)
Resuscribir(s) ==
  LET c == conexiones[s].cola
      proceso == conexiones[s].proceso
  IN  /\ Suscribiendo(s)
      /\ ~ComparaNulo(c, proceso)
      /\ \E m \in Coincide(c, proceso) :
           LET u == Suscripto(c, m) IN
           /\ \A i \in Reenviables(c) : EntradasDe(i, u) # {}
           /\ DarSocket(c, m, s)
           /\ mensajes' = [i \in DOMAIN mensajes |->
                IF i \in Pendientes(c, u)
                THEN [mensajes[i] EXCEPT !.suscriptos =
                        [n \in DOMAIN @ |-> IF n \in EntradasDe(i, u)
                                            THEN [@[n] EXCEPT !.ack = 1] ELSE @[n]]]
                ELSE mensajes[i]]
           /\ envios' = envios \cup {Envio(mensajes[i].pub, u, s) : i \in Pendientes(c, u)}
      /\ conexiones' = [conexiones EXCEPT ![s].suscripta = TRUE]
      /\ lector' = 0
      /\ UNCHANGED <<publicaciones, idCorrelativo, nodo, caido>>

(* The process dies on the NULL ip of a Game Boy, or on the NULL list_find *)
(* returns for a message that has no entry for this subscriber.            *)
SuscribirCae(s) ==
  LET c == conexiones[s].cola
      proceso == conexiones[s].proceso
  IN  /\ Suscribiendo(s)
      /\ \/ ComparaNulo(c, proceso)
         \/ \E m \in Coincide(c, proceso), i \in Reenviables(c) :
              EntradasDe(i, Suscripto(c, m)) = {}
      /\ caido' = TRUE
      /\ UNCHANGED <<publicaciones, idCorrelativo, nodo, lector, mensajes, suscriptores,
                     conexiones, envios>>

(* The client has gone before the rest of its request: recv fails, and the *)
(* lengths and the copies that follow are whatever the heap held.  Nothing *)
(* is claimed of the Broker from there on.                                 *)
LeerDeNadie(s) ==
  /\ ~caido
  /\ lector = s
  /\ ~conexiones[s].completa
  /\ ~conexiones[s].viva
  /\ caido' = TRUE
  /\ UNCHANGED <<publicaciones, idCorrelativo, nodo, lector, mensajes, suscriptores,
                 conexiones, envios>>

-----------------------------------------------------------------------------
AtenderMensaje(p) ==
  Responder(p) \/ ResponderFalla(p) \/ ArmarNodo(p) \/ EnviarASuscriptos(p)

AtenderSuscripcion(s) ==
  \/ TomarMutex(s)
  \/ SuscribirPrimeraVez(s) \/ Resuscribir(s) \/ SuscribirCae(s)
  \/ LeerDeNadie(s)

Next ==
  \/ \E c \in Colas : Publicar(c)
  \/ \E p \in Publicados : AtenderMensaje(p)
  \/ \E e \in envios : EnviarYConfirmar(e)
  \/ \E proceso \in Procesos, c \in Colas : Conectar(proceso, c)
  \/ \E s \in Sockets : LlegaPedido(s) \/ Desconectar(s) \/ AtenderSuscripcion(s)

Spec == Init /\ [][Next]_vars

(* Each thread of the Broker runs on; senders, processes and connections   *)
(* promise nothing, not even to send the rest of a request they began.     *)
FairSpec ==
  /\ Spec
  /\ \A p \in 1..MaxMensajes : WF_vars(p \in Publicados /\ AtenderMensaje(p))
  /\ \A s \in 1..MaxConexiones : WF_vars(s \in Sockets /\ AtenderSuscripcion(s))
  /\ WF_vars(\E e \in envios : EnviarYConfirmar(e))

-----------------------------------------------------------------------------
(* Properties.                                                             *)

Pasos == {"responder", "guardar", "enviar", "guardada", "abandonada"}

Entrada == [lista : Colas, num : Nat, ack : 0..1]

Nodo == [pub : Nat, cola : Colas, suscriptos : Seq(Entrada)]

TypeOK ==
  /\ publicaciones \in Seq([cola : Colas, id : Nat, respondida : BOOLEAN, paso : Pasos])
  /\ idCorrelativo \in Nat
  /\ nodo \in Nodo \cup {Nadie}
  /\ lector \in Nat
  /\ mensajes \in Seq(Nodo)
  /\ suscriptores \in [Colas -> Seq([proceso : Procesos, socket : Nat])]
  /\ conexiones \in Seq([proceso : Procesos, cola : Colas, viva : BOOLEAN,
                        completa : BOOLEAN, suscripta : BOOLEAN])
  /\ envios \subseteq [pub : Nat, lista : Colas, num : Nat, socket : Nat,
                      estado : {"creado", "entregado", "perdido"}]
  /\ caido \in BOOLEAN

(* Every message in MENSAJES has exactly one entry for each subscriber of  *)
(* its queue, whatever the order of subscriptions and messages: this is    *)
(* what lets the loop of a subscription use the result of list_find.       *)
(* LOCALIZED_POKEMON, whose messages are never sent again, is left out.    *)
EntradaPorSuscriptor ==
  \A i \in DOMAIN mensajes :
    LET c == mensajes[i].cola IN
    ColaReenviada(c) = c =>
      \A n \in DOMAIN suscriptores[c] : Cardinality(EntradasDe(i, Suscripto(c, n))) = 1

(* An entry is never marked without a thread that sends the message: none  *)
(* is taken for sent that nobody tried to send.                            *)
MarcadoConEnvio ==
  \A i \in DOMAIN mensajes : \A n \in DOMAIN mensajes[i].suscriptos :
    LET u == mensajes[i].suscriptos[n] IN
    u.ack = 1 <=> \E e \in envios :
                    e.pub = mensajes[i].pub /\ e.lista = u.lista /\ e.num = u.num

(* A process with an ip is sent no message twice through one of its        *)
(* subscriptions, however many times it subscribes and whatever socket it  *)
(* has by then; only one that subscribed to GET and to LOCALIZED, which is *)
(* sent the messages of GET, can be sent a GET through each.  A Game Boy   *)
(* is a new subscriber each time it subscribes: nothing is said of it.     *)
SinDuplicados ==
  \A d, e \in envios :
    /\ d.pub = e.pub
    /\ conexiones[d.socket].proceso = conexiones[e.socket].proceso
    /\ conexiones[e.socket].proceso \notin SinIp
    => d = e \/ {d.lista, e.lista} = {"GET_POKEMON", "LOCALIZED_POKEMON"}

(* GET and CATCH: the sender has been answered the id before any           *)
(* subscriber can see the message, so the LOCALIZED or CAUGHT that answers *)
(* it never comes to a sender that does not know its id.                   *)
RespuestaPrimero ==
  \A e \in envios :
    publicaciones[e.pub].cola \in ConRespuesta => publicaciones[e.pub].respondida

(* While no process comes back before its old handler ran, the entry of a  *)
(* process that is connected and subscribed has its live socket.           *)
SocketVigente ==
  \A s \in Sockets :
    conexiones[s].viva /\ conexiones[s].suscripta =>
      \E n \in DOMAIN suscriptores[conexiones[s].cola] :
        suscriptores[conexiones[s].cola][n].socket = s

(* The Broker does not die (without Game Boys nor LOCALIZED subscribers,   *)
(* while the senders wait for their ids).                                  *)
SinCaida == ~caido

Conectado(s, c) ==
  s \in Sockets /\ conexiones[s].viva /\ conexiones[s].suscripta /\ conexiones[s].cola = c

EnPaso(p, pasos) == p \in Publicados /\ publicaciones[p].paso \in pasos

(* A message that is being stored reaches every connected subscriber of    *)
(* its queue, unless that subscriber disconnects.                          *)
LlegaAConectados ==
  \A p \in 1..MaxMensajes, s \in 1..MaxConexiones :
    (EnPaso(p, {"enviar"}) /\ Conectado(s, publicaciones[p].cola))
    ~> (\/ \E e \in envios : e.pub = p /\ e.socket = s /\ e.estado = "entregado"
        \/ s \in Sockets /\ ~conexiones[s].viva
        \/ caido)

(* No client leaves a handler for ever with mutex_mensajes in its hands    *)
(* and the rest of the request unsent.                                     *)
PedidosCompletos ==
  \A s \in 1..MaxConexiones : []<>~(lector = s /\ ~conexiones[s].completa)

(* Every message whose sender waits for its id is stored in the end, if no *)
(* client stalls in the middle of its subscription: that is all that can   *)
(* keep mutex_mensajes from the handlers of messages.                      *)
TodoSeGuarda ==
  PedidosCompletos =>
    \A p \in 1..MaxMensajes :
      p \in Publicados ~> EnPaso(p, {"guardada", "abandonada"}) \/ caido

(* "Reenvio los mensajes al suscriptor": once a process is subscribed,     *)
(* each message of its queue in MENSAJES has reached it or is on its way.  *)
ReenvioCompleto ==
  \A s \in Sockets : conexiones[s].viva /\ conexiones[s].suscripta =>
    \A i \in DOMAIN mensajes : mensajes[i].cola = conexiones[s].cola =>
      \E e \in envios :
        /\ e.pub = mensajes[i].pub
        /\ conexiones[e.socket].proceso = conexiones[s].proceso
        /\ e.estado = "entregado" \/ conexiones[e.socket].viva
=============================================================================
