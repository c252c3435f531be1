-------------------------- MODULE BrokerParticiones --------------------------
(***************************************************************************)
(* The Broker's message cache with ALGORITMO_MEMORIA = PARTICIONES         *)
(* (dynamic partitions): Broker/memoria.c as the message handlers of       *)
(* serverBroker.c drive it.                                                *)
(*                                                                         *)
(* A handler thread takes mutex_mensajes, looks for a free partition and,  *)
(* while there is none, compacts or evicts (busquedaParticionLibre); then  *)
(* it writes the message and appends it to MENSAJES before it releases the *)
(* mutex.  One action is one call made by that loop; pc says where the     *)
(* thread that owns the mutex is.                                          *)
(***************************************************************************)
EXTENDS BrokerMemoria

CONSTANT
  Frecuencia    \* FRECUENCIA_COMPACTACION; -1: only when no message is left

ASSUME FrecuenciaAssumption == Frecuencia \in Nat \cup {-1}

VARIABLE
  count         \* count of busquedaParticionLibre

vars == <<libres, mensajes, cache, pedido, count, pc, reloj>>

Init == InitMemoria /\ count = 1

-----------------------------------------------------------------------------
(* The request and the search.                                             *)

Pedir ==
  /\ pc = "inactivo"
  /\ pedido' \in PedidosNuevos
  /\ count' = 1
  /\ pc' = "buscar"
  /\ UNCHANGED <<memoria, reloj>>

(* The message takes the start of f; the rest of f stays free. *)
Resto(f, largo) ==
  IF largo < f.tam THEN {[ini |-> f.ini + largo, tam |-> f.tam - largo]} ELSE {}

(* The memcpy calls of escribir_en_cache. *)
Escribir(f) ==
  cache' = [c \in Celdas |->
              IF c \in f.ini .. (f.ini + pedido.bytes - 1) THEN pedido.dato ELSE cache[c]]

Guardar ==
  /\ pc \in {"buscar", "rebuscar"}
  /\ \E f \in Candidatas(ObtenerTamMsg(pedido.bytes)) :
       LET largo == ObtenerTamMsg(pedido.bytes) IN
       /\ libres' = (libres \ {f}) \cup Resto(f, largo)
       /\ Escribir(f)
       /\ mensajes' = Append(mensajes, NuevoMensaje(f.ini, largo))
  /\ pedido' = Nadie
  /\ pc' = "inactivo"
  /\ UNCHANGED <<count, reloj>>

(* obtenerPosicionLibreEnCache returns NULL: the loop goes on. *)
NoEncontrar ==
  /\ pc \in {"buscar", "rebuscar"}
  /\ Candidatas(ObtenerTamMsg(pedido.bytes)) = {}
  /\ pc' = IF pc = "buscar" THEN "ciclo" ELSE "eliminar"
  /\ UNCHANGED <<memoria, pedido, count, reloj>>

-----------------------------------------------------------------------------
(* Compaction.                                                             *)

(* Mutant: the messages keep their addresses. *)
MoverSinMensajes(actual, siguiente) ==
  LET unida == [ini |-> siguiente.ini - actual.tam, tam |-> actual.tam + siguiente.tam]
  IN  /\ libres' = (libres \ {actual, siguiente}) \cup {unida}
      /\ cache' = [c \in Celdas |->
           IF c \in CeldasLibre(unida) THEN Vacio
           ELSE IF actual.ini <= c /\ c < unida.ini THEN cache[c + actual.tam]
           ELSE cache[c]]
      /\ UNCHANGED mensajes

(* mover_particion: the messages between two free partitions slide down to *)
(* the start of the first, which is merged into the second.                *)
MoverParticion(actual, siguiente) ==
  LET unida == [ini |-> siguiente.ini - actual.tam, tam |-> actual.tam + siguiente.tam]
      enMedio(m) == actual.ini < m.ini /\ m.ini < siguiente.ini
  IN  /\ libres' = (libres \ {actual, siguiente}) \cup {unida}
      /\ mensajes' = [i \in DOMAIN mensajes |->
           IF enMedio(mensajes[i]) THEN [mensajes[i] EXCEPT !.ini = @ - actual.tam]
                                   ELSE mensajes[i]]
      /\ cache' = [c \in Celdas |->
           IF c \in CeldasLibre(unida) THEN Vacio
           ELSE IF actual.ini <= c /\ c < unida.ini THEN cache[c + actual.tam]
           ELSE cache[c]]

(* With one free partition there is nothing to do.  The loop of compactar  *)
(* both advances i and removes entry i: with two free partitions it merges *)
(* them, with more it asks the list for an entry past its end, and with    *)
(* none the list has no entry 0: the process dies on the NULL it gets.     *)
Compactar(sigue) ==
  \/ /\ \E f \in libres : libres = {f}
     /\ pc' = sigue
     /\ UNCHANGED memoria
  \/ /\ \E actual, siguiente \in libres :
          /\ libres = {actual, siguiente}
          /\ actual.ini < siguiente.ini
          /\ MoverParticion(actual, siguiente)
     /\ pc' = sigue
  \/ /\ ~ \E f, g \in libres : libres = {f, g}
     /\ pc' = "caido"
     /\ UNCHANGED memoria

(* Mutant: one eviction early. *)
TocaCompactarAntes ==
  IF Frecuencia = -1 THEN mensajes = <<>> ELSE count >= Frecuencia

(* -1: only when MENSAJES is empty. *)
TocaCompactar ==
  IF Frecuencia = -1 THEN mensajes = <<>> ELSE count > Frecuencia

CompactarYRebuscar ==
  /\ pc = "ciclo"
  /\ TocaCompactar
  /\ Compactar("rebuscar")
  /\ count' = 1
  /\ UNCHANGED <<pedido, reloj>>

NoCompactar ==
  /\ pc = "ciclo"
  /\ ~TocaCompactar
  /\ pc' = "eliminar"
  /\ UNCHANGED <<memoria, pedido, count, reloj>>

-----------------------------------------------------------------------------
(* Eviction.                                                               *)

(* Mutant: the right neighbour is looked for one cell off. *)
DerechaCorrida(m) == {f \in libres : f.ini = m.ini + m.largo + 1}

(* IgualDelante and IgualDetras. *)
Derecha(m) == {f \in libres : f.ini = m.ini + m.largo}
Izquierda(m) == {f \in libres : f.ini = m.ini - f.tam}

(* Mutant: the pointer of the left neighbour is not used. *)
InicioSinIzquierda(m) == m.ini

(* consolidar_particiones_dinamicas: the partition of m becomes free and   *)
(* is merged with the free neighbours it has.                              *)
InicioConsolidada(m) ==
  IF Izquierda(m) = {} THEN m.ini ELSE (CHOOSE f \in Izquierda(m) : TRUE).ini

FinConsolidada(m) ==
  m.ini + m.largo + (IF Derecha(m) = {} THEN 0 ELSE (CHOOSE f \in Derecha(m) : TRUE).tam)

Consolidada(m) ==
  [ini |-> InicioConsolidada(m), tam |-> FinConsolidada(m) - InicioConsolidada(m)]

(* Mutant: the cells are not cleared. *)
ConsolidarSinLimpiar(m) ==
  /\ libres' = (libres \ (Izquierda(m) \cup Derecha(m))) \cup {Consolidada(m)}
  /\ UNCHANGED cache

Consolidar(m) ==
  /\ libres' = (libres \ (Izquierda(m) \cup Derecha(m))) \cup {Consolidada(m)}
  /\ cache' = [c \in Celdas |-> IF c \in CeldasMensaje(m) THEN Vacio ELSE cache[c]]

(* With FRECUENCIA_COMPACTACION evictions since the last compaction, the   *)
(* eviction is followed by one.                                            *)
Eliminar ==
  /\ pc = "eliminar"
  /\ \E i \in DOMAIN mensajes :
       /\ EsVictima(i)
       /\ mensajes' = RemoveAt(mensajes, i)
       /\ Consolidar(mensajes[i])
  /\ count' = count + 1
  /\ pc' = IF count = Frecuencia THEN "compactar" ELSE "buscar"
  /\ UNCHANGED <<pedido, reloj>>

CompactarTrasEliminar ==
  /\ pc = "compactar"
  /\ Compactar("buscar")
  /\ UNCHANGED <<pedido, count, reloj>>

(* list_remove on an empty MENSAJES returns NULL and the process dies: the *)
(* message is larger than the memory.                                      *)
EliminarSinMensajes ==
  /\ pc = "eliminar"
  /\ mensajes = <<>>
  /\ pc' = "caido"
  /\ UNCHANGED <<memoria, pedido, count, reloj>>

-----------------------------------------------------------------------------
(* The rest of the Broker.                                                 *)

Reenviar == RefrescarUsados /\ UNCHANGED count

Tictac == AvanzarReloj /\ UNCHANGED count

(* The thread that owns the mutex, between taking it and releasing it. *)
Hilo ==
  \/ Guardar
  \/ NoEncontrar
  \/ CompactarYRebuscar
  \/ NoCompactar
  \/ Eliminar
  \/ CompactarTrasEliminar
  \/ EliminarSinMensajes

Next == Pedir \/ Hilo \/ Reenviar \/ Tictac

Spec == Init /\ [][Next]_vars

(* The owner of the mutex runs on: nothing it does in the loop waits. *)
FairSpec == Spec /\ WF_vars(Hilo)

-----------------------------------------------------------------------------
(* Properties.                                                             *)

TypeOK ==
  /\ libres \subseteq Particion
  /\ mensajes \in Seq(Mensaje)
  /\ cache \in [Celdas -> Datos \cup {Vacio}]
  /\ pedido \in Pedido \cup {Nadie}
  /\ count \in Nat
  /\ pc \in {"inactivo", "buscar", "ciclo", "rebuscar", "eliminar", "compactar", "caido"}
  /\ reloj \in 0..MaxReloj

(* consolidar_particiones_dinamicas leaves no two free partitions side by  *)
(* side, whatever splits and compactions came before.                      *)
LibresConsolidadas == \A f, g \in libres : f.ini + f.tam # g.ini

(* With FRECUENCIA_COMPACTACION = 1 no message is dropped while the free   *)
(* cells would be enough: fragmentation alone never costs a message.       *)
LibreTotal == Cardinality(UNION {CeldasLibre(f) : f \in libres})

DesalojoNecesario ==
  [][Len(mensajes') < Len(mensajes) => LibreTotal < ObtenerTamMsg(pedido.bytes)]_vars

(* The comment in compactar: the loop stops one short "porque cuando ya    *)
(* solo queda una particion es porque es la particion libre"; so whenever  *)
(* the search compacts, one free partition is left.                        *)
CompactarDejaUna ==
  [][CompactarYRebuscar \/ CompactarTrasEliminar => \E f \in libres' : libres' = {f}]_vars
=============================================================================
