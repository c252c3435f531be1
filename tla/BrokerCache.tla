----------------------------- MODULE BrokerCache -----------------------------
(***************************************************************************)
(* What the Broker's message cache promises to the threads that use it,    *)
(* whatever the memory algorithm: a list of whole messages, each one       *)
(* readable exactly as it was received until it is chosen as a victim.     *)
(* There are no addresses, partitions, consolidation or compaction here.   *)
(*                                                                         *)
(* A thread asks for room for one message (it holds mutex_mensajes, so     *)
(* there is one request at a time); the cache drops victims, one by one    *)
(* and in the order of ALGORITMO_REEMPLAZO, and then stores the message.   *)
(* BrokerParticiones and BrokerBuddy implement this specification.         *)
(***************************************************************************)
EXTENDS SequencesExt

CONSTANTS
  Contenidos,   \* what a message may hold: a function from its bytes
  Reemplazo,    \* ALGORITMO_REEMPLAZO: "FIFO" or "LRU"
  MaxReloj,     \* bound on the millisecond clock
  Nadie         \* no request in progress

VARIABLES
  guardados,    \* MENSAJES: the stored messages in order of arrival
  pedido,       \* the content waiting for room, or Nadie
  reloj         \* gettimeofday, in milliseconds

vars == <<guardados, pedido, reloj>>

Init ==
  /\ guardados = <<>>
  /\ pedido = Nadie
  /\ reloj = 0

Pedir ==
  /\ pedido = Nadie
  /\ pedido' \in Contenidos
  /\ UNCHANGED <<guardados, reloj>>

Almacenar ==
  /\ pedido # Nadie
  /\ guardados' = Append(guardados, [contenido |-> pedido, timestamp |-> reloj])
  /\ pedido' = Nadie
  /\ UNCHANGED reloj

(* FIFO drops the oldest message, LRU one that was sent least recently. *)
EsVictima(i) ==
  \/ Reemplazo = "FIFO" /\ i = 1
  \/ /\ Reemplazo # "FIFO"
     /\ \A j \in DOMAIN guardados : guardados[i].timestamp <= guardados[j].timestamp

Desalojar ==
  /\ pedido # Nadie
  /\ \E i \in DOMAIN guardados : EsVictima(i) /\ guardados' = RemoveAt(guardados, i)
  /\ UNCHANGED <<pedido, reloj>>

(* Sending messages again to a new subscriber counts as use under LRU. *)
Reenviar ==
  /\ Reemplazo # "FIFO"
  /\ \E usados \in SUBSET DOMAIN guardados :
       guardados' = [i \in DOMAIN guardados |->
                      IF i \in usados THEN [guardados[i] EXCEPT !.timestamp = reloj]
                                      ELSE guardados[i]]
  /\ UNCHANGED <<pedido, reloj>>

Tictac ==
  /\ reloj < MaxReloj
  /\ reloj' = reloj + 1
  /\ UNCHANGED <<guardados, pedido>>

Next == Pedir \/ Almacenar \/ Desalojar \/ Reenviar \/ Tictac

Spec == Init /\ [][Next]_vars
=============================================================================
