----------------------------- MODULE BrokerBuddy -----------------------------
(***************************************************************************)
(* The Broker's message cache with ALGORITMO_MEMORIA = BS (buddy system).  *)
(* A partition is a block of 2^e cells; the search halves the block it     *)
(* finds until it has the size of the message, and an eviction merges the  *)
(* freed block with its companion, step by step, while the companion is    *)
(* free and whole.  There is no compaction.                                *)
(*                                                                         *)
(* obtenerParticionCompaniero divides an address by a size to tell whether *)
(* the companion is on the left or on the right: that is only right while  *)
(* every block starts at a multiple of its size, which no line checks.     *)
(***************************************************************************)
EXTENDS BrokerMemoria

(* With another TAMANO_MEMORIA the halves do not fit the exponents: the    *)
(* halving loop may never end, or the block handed out is cut short.       *)
ASSUME PotenciaAssumption == \E k \in 1..TamMemoria : TamMemoria = 2^k

VARIABLES
  borrado,      \* the message consolidar_buddy_system is freeing, or Nadie
  fusionada     \* nuevaPartLibre: the free block being merged, or Nadie

vars == <<libres, mensajes, cache, pedido, borrado, fusionada, pc, reloj>>

Init == InitMemoria /\ borrado = Nadie /\ fusionada = Nadie

-----------------------------------------------------------------------------
(* Sizes.                                                                  *)

(* exponente_buddy: the least exponent, from 1, whose power is enough. *)
ExponenteBuddy(n) ==
  CHOOSE e \in 1..n + 1 : 2^e >= n /\ \A d \in 1..(e - 1) : 2^d < n

(* obtener_tam_particion *)
TamParticion(bytes) == 2^ExponenteBuddy(ObtenerTamMsg(bytes))

-----------------------------------------------------------------------------
(* The search and the store.                                               *)

Pedir ==
  /\ pc = "inactivo"
  /\ pedido' \in PedidosNuevos
  /\ pc' = "buscar"
  /\ UNCHANGED <<memoria, borrado, fusionada, reloj>>

(* Mutant: one halving too many. *)
MitadesDeMas(f, tam) ==
  LET cortes == {k \in 1..ExponenteBuddy(f.tam) :
                   ExponenteBuddy(f.tam \div 2^(k - 1)) >= ExponenteBuddy(tam)}
  IN  {[ini |-> f.ini + (f.tam \div 2^k), tam |-> f.tam \div 2^k] : k \in cortes}

(* The halves cut off f, each the right half of what was left, until what  *)
(* is left has the exponent of the message.                                *)
Mitades(f, tam) ==
  LET cortes == {k \in 1..ExponenteBuddy(f.tam) :
                   ExponenteBuddy(f.tam \div 2^(k - 1)) > ExponenteBuddy(tam)}
  IN  {[ini |-> f.ini + (f.tam \div 2^k), tam |-> f.tam \div 2^k] : k \in cortes}

(* Each half is cleared when it is cut; then the message is written.  The  *)
(* cells of its block past its bytes are left as they were.                *)
Escribir(f, mitades) ==
  cache' = [c \in Celdas |->
    IF c \in f.ini .. (f.ini + pedido.bytes - 1) THEN pedido.dato
    ELSE IF \E h \in mitades : c \in CeldasLibre(h) THEN Vacio
    ELSE cache[c]]

Guardar ==
  /\ pc = "buscar"
  /\ LET tam == TamParticion(pedido.bytes) IN
     \E f \in Candidatas(tam) :
       /\ libres' = (libres \ {f}) \cup Mitades(f, tam)
       /\ Escribir(f, Mitades(f, tam))
       /\ mensajes' = Append(mensajes, NuevoMensaje(f.ini, tam))
  /\ pedido' = Nadie
  /\ pc' = "inactivo"
  /\ UNCHANGED <<borrado, fusionada, reloj>>

NoEncontrar ==
  /\ pc = "buscar"
  /\ Candidatas(TamParticion(pedido.bytes)) = {}
  /\ pc' = "eliminar"
  /\ UNCHANGED <<memoria, pedido, borrado, fusionada, reloj>>

-----------------------------------------------------------------------------
(* Eviction.                                                               *)

Eliminar ==
  /\ pc = "eliminar"
  /\ \E i \in DOMAIN mensajes :
       /\ EsVictima(i)
       /\ mensajes' = RemoveAt(mensajes, i)
       /\ borrado' = mensajes[i]
       /\ fusionada' = [ini |-> mensajes[i].ini, tam |-> mensajes[i].largo]
       /\ libres' = libres \cup {fusionada'}
  /\ pc' = "fusionar"
  /\ UNCHANGED <<cache, pedido, reloj>>

(* Mutant: left and right are swapped. *)
CompanieroCambiado(p) ==
  LET otro == IF (p.ini \div p.tam) % 2 = 0 THEN p.ini - p.tam ELSE p.ini + p.tam
  IN  {f \in libres : f.ini = otro /\ f.tam = p.tam}

(* The free block of the same size that begins where the companion of p    *)
(* does: on the left when p is at an odd multiple of its size.             *)
Companiero(p) ==
  LET otro == IF (p.ini \div p.tam) % 2 = 1 THEN p.ini - p.tam ELSE p.ini + p.tam
  IN  {f \in libres : f.ini = otro /\ f.tam = p.tam}

(* Mutant: the merged block keeps the larger start. *)
UnificarMayor(p, q) == [ini |-> IF p.ini < q.ini THEN q.ini ELSE p.ini, tam |-> p.tam + q.tam]

(* unificar: the smaller start, both sizes. *)
Unificar(p, q) == [ini |-> IF p.ini > q.ini THEN q.ini ELSE p.ini, tam |-> p.tam + q.tam]

Fusionar ==
  /\ pc = "fusionar"
  /\ \E companiero \in Companiero(fusionada) :
       /\ fusionada' = Unificar(fusionada, companiero)
       /\ libres' = (libres \ {fusionada, companiero}) \cup {fusionada'}
  /\ UNCHANGED <<mensajes, cache, pedido, borrado, pc, reloj>>

(* Mutant: the cells are not cleared. *)
FinSinLimpiar ==
  /\ pc = "fusionar"
  /\ Companiero(fusionada) = {}
  /\ borrado' = Nadie
  /\ fusionada' = Nadie
  /\ pc' = "buscar"
  /\ UNCHANGED <<memoria, pedido, reloj>>

(* No companion is left: the cells of the message, only now, are cleared. *)
FinFusionar ==
  /\ pc = "fusionar"
  /\ Companiero(fusionada) = {}
  /\ cache' = [c \in Celdas |-> IF c \in CeldasMensaje(borrado) THEN Vacio ELSE cache[c]]
  /\ borrado' = Nadie
  /\ fusionada' = Nadie
  /\ pc' = "buscar"
  /\ UNCHANGED <<libres, mensajes, pedido, reloj>>

(* list_remove on an empty MENSAJES returns NULL and the process dies: the *)
(* block of the message is larger than the memory.                         *)
EliminarSinMensajes ==
  /\ pc = "eliminar"
  /\ mensajes = <<>>
  /\ pc' = "caido"
  /\ UNCHANGED <<memoria, pedido, borrado, fusionada, reloj>>

-----------------------------------------------------------------------------
(* The rest of the Broker.                                                 *)

Reenviar == RefrescarUsados /\ UNCHANGED <<borrado, fusionada>>

Tictac == AvanzarReloj /\ UNCHANGED <<borrado, fusionada>>

(* The thread that owns mutex_mensajes. *)
Hilo ==
  \/ Guardar
  \/ NoEncontrar
  \/ Eliminar
  \/ Fusionar
  \/ FinFusionar
  \/ EliminarSinMensajes

Next == Pedir \/ Hilo \/ Reenviar \/ Tictac

Spec == Init /\ [][Next]_vars

(* The owner of the mutex runs on: nothing it does in the loop waits. *)
FairSpec == Spec /\ WF_vars(Hilo)

-----------------------------------------------------------------------------
(* Properties.                                                             *)

Bloques == libres \cup {[ini |-> mensajes[i].ini, tam |-> mensajes[i].largo] :
                        i \in DOMAIN mensajes}

TypeOK ==
  /\ libres \subseteq Particion
  /\ mensajes \in Seq(Mensaje)
  /\ cache \in [Celdas -> Datos \cup {Vacio}]
  /\ pedido \in Pedido \cup {Nadie}
  /\ borrado \in Mensaje \cup {Nadie}
  /\ fusionada \in libres \cup {Nadie}
  /\ pc \in {"inactivo", "buscar", "eliminar", "fusionar", "caido"}
  /\ reloj \in 0..MaxReloj

(* The blocks tile the memory: none overlaps another and no cell is lost,  *)
(* after any history of halvings and merges.                               *)
Teselado == SinSolapamiento /\ SinHuecos

(* Every block, free or taken, has a power of two of cells and starts at a *)
(* multiple of its size, also in the middle of a merge: what               *)
(* obtenerParticionCompaniero takes for granted when it divides.           *)
Alineados ==
  \A b \in Bloques :
    /\ b.ini % b.tam = 0
    /\ \E k \in 0..TamMemoria : b.tam = 2^k

(* Two free companions never stay apart once the merge is over, so a       *)
(* message never waits for, or costs another its place in, memory that is  *)
(* free but split.                                                         *)
SinCompanierosLibres ==
  pc # "fusionar" =>
    ~ \E f, g \in libres :
        f.tam = g.tam /\ g.ini = f.ini + f.tam /\ f.ini % (2 * f.tam) = 0

(* Outside a merge, whose last step clears the evicted message, the bytes  *)
(* of every stored message are its own and the free cells read '_'.        *)
CacheFielAlBuscar == pc # "fusionar" => CacheFiel
=============================================================================
