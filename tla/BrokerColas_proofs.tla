-------------------------- MODULE BrokerColas_proofs --------------------------
(***************************************************************************)
(* Proofs about BrokerColas, for any processes, queues, messages and       *)
(* connections.                                                            *)
(***************************************************************************)
EXTENDS BrokerColas, SequenceTheorems, FiniteSetTheorems, TLAPS

(* A message joins MENSAJES, and its threads are made, once its handler is *)
(* done with it; no message is there twice.                                *)
MensajesGuardados ==
  /\ \A i \in DOMAIN mensajes :
       mensajes[i].pub \in Publicados /\ publicaciones[mensajes[i].pub].paso = "guardada"
  /\ \A i, j \in DOMAIN mensajes : mensajes[i].pub = mensajes[j].pub => i = j
  /\ \A e \in envios : e.pub \in Publicados /\ publicaciones[e.pub].paso = "guardada"

(* mutex_mensajes keeps the subscriptions out, so the node under           *)
(* construction has the subscribers of its queue.                          *)
NodoAlDia ==
  nodo # Nadie =>
    /\ nodo.pub \in Publicados /\ publicaciones[nodo.pub].paso = "enviar"
    /\ nodo.suscriptos = [n \in DOMAIN suscriptores[nodo.cola] |-> Suscripto(nodo.cola, n)]

EntradasDistintas ==
  \A i \in DOMAIN mensajes : \A n, m \in DOMAIN mensajes[i].suscriptos :
    /\ mensajes[i].suscriptos[n].lista = mensajes[i].suscriptos[m].lista
    /\ mensajes[i].suscriptos[n].num = mensajes[i].suscriptos[m].num
    => n = m

(* Entries and threads name subscribers that there are. *)
DeSuscriptores ==
  /\ \A i \in DOMAIN mensajes : \A n \in DOMAIN mensajes[i].suscriptos :
       mensajes[i].suscriptos[n].num \in DOMAIN suscriptores[mensajes[i].suscriptos[n].lista]
  /\ \A e \in envios : e.num \in DOMAIN suscriptores[e.lista]

EntradaPresente ==
  \A i \in DOMAIN mensajes :
    ColaReenviada(mensajes[i].cola) = mensajes[i].cola =>
      \A n \in DOMAIN suscriptores[mensajes[i].cola] :
        EntradasDe(i, Suscripto(mensajes[i].cola, n)) # {}

(* GET and CATCH have answered by the time they are to be stored. *)
Respondidas ==
  \A p \in Publicados :
    /\ publicaciones[p].cola \in ConRespuesta
    /\ publicaciones[p].paso \in {"guardar", "enviar", "guardada"}
    => publicaciones[p].respondida

(* No thread sends a message to an entry for the second time. *)
UnaVezPorEntrada ==
  \A d, e \in envios :
    d.pub = e.pub /\ d.lista = e.lista /\ d.num = e.num => d = e

IInv ==
  /\ TypeOK
  /\ MensajesGuardados
  /\ NodoAlDia
  /\ EntradasDistintas
  /\ DeSuscriptores
  /\ EntradaPresente
  /\ MarcadoConEnvio
  /\ UnaVezPorEntrada
  /\ Respondidas

-----------------------------------------------------------------------------
(* The handler that reads a subscription has the mutex for itself. *)
MutexDeUno ==
  lector # 0 => nodo = Nadie /\ lector \in Sockets /\ ~conexiones[lector].suscripta

LEMMA InicioIInv == Init => IInv
<1> SUFFICES ASSUME Init PROVE IInv
  OBVIOUS
<1>1. DOMAIN mensajes = {} /\ envios = {} /\ Publicados = {}
  BY DEF Init, Publicados
<1>2. TypeOK
  <2>1. suscriptores \in [Colas -> Seq([proceso : Procesos, socket : Nat])]
    BY EmptySeq DEF Init
  <2> QED
    BY <2>1, EmptySeq DEF Init, TypeOK
<1>3. NodoAlDia
  BY DEF Init, NodoAlDia
<1> QED
  BY <1>1, <1>2, <1>3 DEF IInv, MensajesGuardados, EntradasDistintas, DeSuscriptores,
     EntradaPresente, MarcadoConEnvio, UnaVezPorEntrada, Respondidas

(* What the types say of the lists. *)
LEMMA Listas ==
  ASSUME TypeOK
  PROVE  /\ Len(publicaciones) \in Nat /\ Publicados = 1..Len(publicaciones)
         /\ Len(mensajes) \in Nat /\ DOMAIN mensajes = 1..Len(mensajes)
         /\ \A i \in DOMAIN mensajes :
              /\ mensajes[i] \in Nodo
              /\ mensajes[i].suscriptos \in Seq(Entrada)
              /\ Len(mensajes[i].suscriptos) \in Nat
              /\ DOMAIN mensajes[i].suscriptos = 1..Len(mensajes[i].suscriptos)
              /\ \A n \in DOMAIN mensajes[i].suscriptos : mensajes[i].suscriptos[n] \in Entrada
         /\ \A c \in Colas :
              /\ suscriptores[c] \in Seq([proceso : Procesos, socket : Nat])
              /\ Len(suscriptores[c]) \in Nat
              /\ DOMAIN suscriptores[c] = 1..Len(suscriptores[c])
         /\ Len(conexiones) \in Nat /\ Sockets = 1..Len(conexiones)
<1>1. \A i \in DOMAIN mensajes : mensajes[i] \in Nodo
  BY ElementOfSeq, LenProperties DEF TypeOK
<1>2. ASSUME NEW i \in DOMAIN mensajes
      PROVE  /\ mensajes[i].suscriptos \in Seq(Entrada)
             /\ Len(mensajes[i].suscriptos) \in Nat
             /\ DOMAIN mensajes[i].suscriptos = 1..Len(mensajes[i].suscriptos)
             /\ \A n \in DOMAIN mensajes[i].suscriptos : mensajes[i].suscriptos[n] \in Entrada
  <2>1. mensajes[i].suscriptos \in Seq(Entrada)
    BY <1>1 DEF Nodo
  <2> QED
    BY <2>1, ElementOfSeq, LenProperties
<1> QED
  BY <1>1, <1>2, LenProperties DEF TypeOK, Publicados, Sockets

(* A step that only moves a handler or a connection. *)
LEMMA SoloAvanza ==
  ASSUME IInv, TypeOK', Respondidas',
         UNCHANGED <<mensajes, nodo, suscriptores, envios>>,
         Publicados \subseteq Publicados',
         \A p \in Publicados : publicaciones[p].paso \in {"enviar", "guardada"} =>
                                 publicaciones'[p].paso = publicaciones[p].paso
  PROVE  IInv'
<1>1. MensajesGuardados' /\ NodoAlDia'
  BY DEF IInv, MensajesGuardados, NodoAlDia
<1>2. EntradasDistintas' /\ DeSuscriptores' /\ EntradaPresente' /\ MarcadoConEnvio' /\ UnaVezPorEntrada'
  BY DEF IInv, EntradasDistintas, DeSuscriptores, EntradaPresente, EntradasDe, MarcadoConEnvio, UnaVezPorEntrada
<1> QED
  BY <1>1, <1>2 DEF IInv

LEMMA PublicarIInv ==
  ASSUME IInv, NEW c \in Colas, Publicar(c)
  PROVE  IInv'
<1> DEFINE P == [cola : Colas, id : Nat, respondida : BOOLEAN, paso : Pasos]
           x == [cola |-> c, id |-> IF c \in ConId THEN idCorrelativo ELSE 0, respondida |-> FALSE,
                 paso |-> IF c \in ConRespuesta THEN "responder" ELSE "guardar"]
<1>1. x \in P /\ publicaciones \in Seq(P)
  BY DEF IInv, TypeOK, Pasos
<1>2. publicaciones' = Append(publicaciones, x)
  BY DEF Publicar
<1>3. /\ publicaciones' \in Seq(P)
      /\ Len(publicaciones) \in Nat
      /\ Publicados = 1..Len(publicaciones) /\ Publicados' = 1..(Len(publicaciones) + 1)
      /\ \A p \in Publicados : publicaciones'[p] = publicaciones[p]
      /\ publicaciones'[Len(publicaciones) + 1] = x
  <2> HIDE DEF x, P
  <2> QED
    BY <1>1, <1>2, AppendProperties, LenProperties DEF Publicados
<1>4. TypeOK'
  <2>1. idCorrelativo' \in Nat
    BY DEF Publicar, IInv, TypeOK
  <2>2. UNCHANGED <<nodo, lector, mensajes, suscriptores, conexiones, envios, caido>>
    BY DEF Publicar
  <2> QED
    BY <1>3, <2>1, <2>2 DEF IInv, TypeOK
<1>5. Respondidas'
  <2> SUFFICES ASSUME NEW p \in Publicados', publicaciones'[p].cola \in ConRespuesta,
                      publicaciones'[p].paso \in {"guardar", "enviar", "guardada"}
               PROVE  publicaciones'[p].respondida
    BY DEF Respondidas
  <2>1. CASE p \in Publicados
    BY <1>3, <2>1 DEF IInv, Respondidas
  <2>2. CASE p = Len(publicaciones) + 1
    BY <1>3, <2>2
  <2> QED
    BY <1>3, <2>1, <2>2
<1> QED
  BY <1>3, <1>4, <1>5, SoloAvanza DEF Publicar

(* The step of one publication. *)
LEMMA PasoDe ==
  ASSUME IInv, NEW p \in Publicados, NEW paso \in Pasos, Avanzar(p, paso)
  PROVE  /\ publicaciones' \in Seq([cola : Colas, id : Nat, respondida : BOOLEAN, paso : Pasos])
         /\ Publicados' = Publicados
         /\ \A q \in Publicados : /\ publicaciones'[q].cola = publicaciones[q].cola
                                  /\ publicaciones'[q].respondida = publicaciones[q].respondida
                                  /\ q # p => publicaciones'[q] = publicaciones[q]
         /\ publicaciones'[p].paso = paso
<1> DEFINE P == [cola : Colas, id : Nat, respondida : BOOLEAN, paso : Pasos]
<1>1. publicaciones \in Seq(P) /\ p \in 1..Len(publicaciones) /\ publicaciones[p] \in P
  BY LenProperties, ElementOfSeq DEF IInv, TypeOK, Publicados
<1>2. [publicaciones[p] EXCEPT !.paso = paso] \in P
  BY <1>1
<1>3. publicaciones' = [publicaciones EXCEPT ![p] = [publicaciones[p] EXCEPT !.paso = paso]]
  BY DEF Avanzar
<1>4. publicaciones' \in Seq(P)
  BY <1>1, <1>2, <1>3, ExceptSeq
<1> QED
  BY <1>1, <1>3, <1>4 DEF Publicados

LEMMA ResponderIInv ==
  ASSUME IInv, NEW p \in Publicados, Responder(p)
  PROVE  IInv'
<1> DEFINE P == [cola : Colas, id : Nat, respondida : BOOLEAN, paso : Pasos]
           x == [publicaciones[p] EXCEPT !.paso = "guardar", !.respondida = TRUE]
<1>1. publicaciones \in Seq(P) /\ p \in 1..Len(publicaciones) /\ publicaciones[p] \in P
  BY LenProperties, ElementOfSeq DEF IInv, TypeOK, Publicados
<1>2. x \in P
  BY <1>1 DEF Pasos
<1>3. publicaciones' = [publicaciones EXCEPT ![p] = x]
  BY DEF Responder
<1>4. publicaciones' \in Seq(P)
  <2> HIDE DEF x, P
  <2> QED
    BY <1>1, <1>2, <1>3, ExceptSeq
<1>5. /\ Publicados' = Publicados /\ publicaciones'[p] = x
      /\ \A q \in Publicados : q # p => publicaciones'[q] = publicaciones[q]
  BY <1>1, <1>3 DEF Publicados
<1>6. TypeOK'
  BY <1>4 DEF IInv, TypeOK, Responder
<1>7. x.respondida
  BY <1>1
<1>8. Respondidas'
  BY <1>5, <1>7 DEF IInv, Respondidas
<1>9. publicaciones[p].paso = "responder"
  BY DEF Responder
<1> QED
  BY <1>5, <1>6, <1>8, <1>9, SoloAvanza DEF Responder

LEMMA ResponderFallaIInv ==
  ASSUME IInv, NEW p \in Publicados, ResponderFalla(p)
  PROVE  IInv'
<1>1. Avanzar(p, "abandonada") /\ "abandonada" \in Pasos
  BY DEF ResponderFalla, Pasos
<1>2. /\ publicaciones' \in Seq([cola : Colas, id : Nat, respondida : BOOLEAN, paso : Pasos])
      /\ Publicados' = Publicados
      /\ \A q \in Publicados : /\ publicaciones'[q].cola = publicaciones[q].cola
                               /\ publicaciones'[q].respondida = publicaciones[q].respondida
                               /\ q # p => publicaciones'[q] = publicaciones[q]
      /\ publicaciones'[p].paso = "abandonada"
  BY <1>1, PasoDe
<1>3. TypeOK'
  BY <1>2 DEF IInv, TypeOK, ResponderFalla
<1>4. Respondidas'
  BY <1>2 DEF IInv, Respondidas
<1>5. publicaciones[p].paso = "responder"
  BY DEF ResponderFalla
<1> QED
  BY <1>2, <1>3, <1>4, <1>5, SoloAvanza DEF ResponderFalla

(* Making room drops the first messages of the list. *)
SinPrimeros(k) == SubSeq(mensajes, k + 1, Len(mensajes))

LEMMA Recorte ==
  ASSUME IInv, NEW k \in 0..Len(mensajes), mensajes' = SinPrimeros(k)
  PROVE  /\ mensajes' \in Seq(Nodo)
         /\ DOMAIN mensajes' = 1..(Len(mensajes) - k)
         /\ \A i \in DOMAIN mensajes' : i + k \in DOMAIN mensajes /\ mensajes'[i] = mensajes[i + k]
<1>1. Len(mensajes) \in Nat /\ DOMAIN mensajes = 1..Len(mensajes)
      /\ \A i \in 1..Len(mensajes) : mensajes[i] \in Nodo
  BY Listas DEF IInv
<1>2. /\ mensajes' \in Seq(Nodo)
      /\ Len(mensajes') = IF k + 1 <= Len(mensajes) THEN Len(mensajes) - (k + 1) + 1 ELSE 0
      /\ \A i \in 1..(Len(mensajes) - (k + 1) + 1) : mensajes'[i] = mensajes[(k + 1) + i - 1]
  BY <1>1, SubSeqProperties DEF SinPrimeros
<1>3. Len(mensajes') = Len(mensajes) - k /\ DOMAIN mensajes' = 1..Len(mensajes')
  <2>1. Len(mensajes') = Len(mensajes) - k
    BY <1>1, <1>2
  <2> QED
    BY <1>2, <2>1, LenProperties
<1>4. ASSUME NEW i \in DOMAIN mensajes'
      PROVE  i + k \in DOMAIN mensajes /\ mensajes'[i] = mensajes[i + k]
  <2>1. i \in 1..(Len(mensajes) - (k + 1) + 1) /\ (k + 1) + i - 1 = i + k
    BY <1>1, <1>3
  <2>2. mensajes'[i] = mensajes[i + k]
    BY <1>2, <2>1
  <2> QED
    BY <1>1, <1>3, <2>2
<1> QED
  BY <1>2, <1>3, <1>4

LEMMA ArmarNodoIInv ==
  ASSUME IInv, NEW p \in Publicados, ArmarNodo(p)
  PROVE  IInv'
<1> DEFINE c == publicaciones[p].cola
<1>1. Avanzar(p, "enviar") /\ "enviar" \in Pasos /\ publicaciones[p].paso = "guardar" /\ nodo = Nadie
  BY DEF ArmarNodo, MutexLibre, ListaParaGuardar, Pasos
<1>2. /\ publicaciones' \in Seq([cola : Colas, id : Nat, respondida : BOOLEAN, paso : Pasos])
      /\ Publicados' = Publicados
      /\ \A q \in Publicados : /\ publicaciones'[q].cola = publicaciones[q].cola
                               /\ publicaciones'[q].respondida = publicaciones[q].respondida
                               /\ q # p => publicaciones'[q] = publicaciones[q]
      /\ publicaciones'[p].paso = "enviar"
  BY <1>1, PasoDe
<1>3. p \in Nat /\ c \in Colas
  <2>1. publicaciones[p] \in [cola : Colas, id : Nat, respondida : BOOLEAN, paso : Pasos]
    BY LenProperties, ElementOfSeq DEF IInv, TypeOK, Publicados
  <2> QED
    BY <2>1, Listas DEF IInv
<1>4. PICK k \in 0..Len(mensajes) : mensajes' = SubSeq(mensajes, k + 1, Len(mensajes))
  BY DEF ArmarNodo
<1>5. /\ mensajes' \in Seq(Nodo)
      /\ DOMAIN mensajes' = 1..(Len(mensajes) - k)
      /\ \A i \in DOMAIN mensajes' : i + k \in DOMAIN mensajes /\ mensajes'[i] = mensajes[i + k]
  BY <1>4, Recorte DEF SinPrimeros
<1>6. nodo' = [pub |-> p, cola |-> c,
               suscriptos |-> [n \in DOMAIN suscriptores[c] |-> Suscripto(c, n)]]
  BY DEF ArmarNodo
<1>7. [n \in DOMAIN suscriptores[c] |-> Suscripto(c, n)] \in Seq(Entrada)
  <2>1. /\ Len(suscriptores[c]) \in Nat /\ DOMAIN suscriptores[c] = 1..Len(suscriptores[c])
    BY <1>3, Listas DEF IInv
  <2>2. \A n \in 1..Len(suscriptores[c]) : Suscripto(c, n) \in Entrada
    BY <1>3, <2>1 DEF Suscripto, Entrada
  <2> QED
    BY <2>1, <2>2, SeqDef
<1>8. UNCHANGED <<idCorrelativo, lector, suscriptores, conexiones, envios, caido>>
  BY DEF ArmarNodo
<1>9. TypeOK'
  <2>1. nodo' \in Nodo
    BY <1>3, <1>6, <1>7 DEF Nodo
  <2> QED
    BY <1>2, <1>5, <1>8, <2>1 DEF IInv, TypeOK
<1>10. MensajesGuardados'
  <2>1. ASSUME NEW i \in DOMAIN mensajes'
        PROVE  /\ mensajes'[i].pub \in Publicados'
               /\ publicaciones'[mensajes'[i].pub].paso = "guardada"
    <3>1. i + k \in DOMAIN mensajes /\ mensajes'[i] = mensajes[i + k]
      BY <1>5
    <3>2. /\ mensajes[i + k].pub \in Publicados
          /\ publicaciones[mensajes[i + k].pub].paso = "guardada"
      BY <3>1 DEF IInv, MensajesGuardados
    <3>3. mensajes[i + k].pub # p
      BY <1>1, <3>2
    <3> QED
      BY <1>2, <3>1, <3>2, <3>3
  <2>2. ASSUME NEW i \in DOMAIN mensajes', NEW j \in DOMAIN mensajes',
               mensajes'[i].pub = mensajes'[j].pub
        PROVE  i = j
    <3>1. i + k = j + k
      BY <1>5, <2>2 DEF IInv, MensajesGuardados
    <3> QED
      BY <1>5, <3>1
  <2>3. \A e \in envios' : e.pub \in Publicados' /\ publicaciones'[e.pub].paso = "guardada"
    BY <1>1, <1>2, <1>8 DEF IInv, MensajesGuardados
  <2> QED
    BY <2>1, <2>2, <2>3 DEF MensajesGuardados
<1>11. NodoAlDia'
  BY <1>2, <1>6, <1>8 DEF NodoAlDia
<1>12. EntradasDistintas' /\ DeSuscriptores'
  BY <1>5, <1>8 DEF IInv, EntradasDistintas, DeSuscriptores
<1>13. EntradaPresente'
  <2> SUFFICES ASSUME NEW i \in DOMAIN mensajes', NEW n \in DOMAIN suscriptores'[mensajes'[i].cola],
                      ColaReenviada(mensajes'[i].cola) = mensajes'[i].cola
               PROVE  EntradasDe(i, Suscripto(mensajes[i].cola, n))' # {}
    BY DEF EntradaPresente
  <2>1. i + k \in DOMAIN mensajes /\ mensajes'[i] = mensajes[i + k] /\ suscriptores' = suscriptores
    BY <1>5, <1>8
  <2>2. EntradasDe(i + k, Suscripto(mensajes[i + k].cola, n)) # {}
    BY <2>1 DEF IInv, EntradaPresente
  <2> QED
    BY <2>1, <2>2 DEF EntradasDe, Suscripto
<1>14. MarcadoConEnvio' /\ UnaVezPorEntrada'
  <2>1. MarcadoConEnvio'
    <3> SUFFICES ASSUME NEW i \in DOMAIN mensajes', NEW n \in DOMAIN mensajes'[i].suscriptos
                 PROVE  LET u == mensajes'[i].suscriptos[n] IN
                        u.ack = 1 <=> \E e \in envios' :
                                        e.pub = mensajes'[i].pub /\ e.lista = u.lista /\ e.num = u.num
      BY DEF MarcadoConEnvio
    <3>1. i + k \in DOMAIN mensajes /\ mensajes'[i] = mensajes[i + k] /\ envios' = envios
      BY <1>5, <1>8
    <3>2. LET u == mensajes[i + k].suscriptos[n] IN
          u.ack = 1 <=> \E e \in envios :
                          e.pub = mensajes[i + k].pub /\ e.lista = u.lista /\ e.num = u.num
      BY <3>1 DEF IInv, MarcadoConEnvio
    <3> QED
      BY <3>1, <3>2
  <2>2. UnaVezPorEntrada'
    BY <1>8 DEF IInv, UnaVezPorEntrada
  <2> QED
    BY <2>1, <2>2
<1>15. Respondidas'
  BY <1>1, <1>2 DEF IInv, Respondidas
<1> QED
  BY <1>9, <1>10, <1>11, <1>12, <1>13, <1>14, <1>15 DEF IInv

(* The node that is sent has one entry per subscriber, marked, and each    *)
(* gets its thread.                                                        *)
LEMMA EnviarASuscriptosIInv ==
  ASSUME IInv, NEW p \in Publicados, EnviarASuscriptos(p)
  PROVE  IInv'
<1> DEFINE c == nodo.cola
           nuevo == Len(mensajes) + 1
           marcado == mensajes'[nuevo]
<1>1. /\ nodo # Nadie /\ nodo.pub = p /\ publicaciones[p].paso = "enviar"
      /\ Avanzar(p, "guardada") /\ "guardada" \in Pasos
      /\ nodo' = Nadie
      /\ UNCHANGED <<idCorrelativo, lector, suscriptores, conexiones, caido>>
  BY DEF EnviarASuscriptos, LiberarMutex, Pasos
<1>2. /\ publicaciones' \in Seq([cola : Colas, id : Nat, respondida : BOOLEAN, paso : Pasos])
      /\ Publicados' = Publicados
      /\ \A q \in Publicados : /\ publicaciones'[q].cola = publicaciones[q].cola
                               /\ publicaciones'[q].respondida = publicaciones[q].respondida
                               /\ q # p => publicaciones'[q] = publicaciones[q]
      /\ publicaciones'[p].paso = "guardada"
  BY <1>1, PasoDe
<1>3. /\ nodo \in Nodo /\ c \in Colas /\ c = nodo.cola
      /\ DOMAIN nodo.suscriptos = DOMAIN suscriptores[c]
      /\ \A n \in DOMAIN suscriptores[c] :
           /\ nodo.suscriptos[n] \in Entrada
           /\ nodo.suscriptos[n].lista = c /\ nodo.suscriptos[n].num = n /\ nodo.suscriptos[n].ack = 0
  <2>1. nodo \in Nodo /\ nodo.suscriptos \in Seq(Entrada)
    BY <1>1 DEF IInv, TypeOK, Nodo
  <2>2. nodo.suscriptos = [n \in DOMAIN suscriptores[c] |-> Suscripto(c, n)]
    BY <1>1 DEF IInv, NodoAlDia
  <2> QED
    BY <2>1, <2>2, LenProperties, ElementOfSeq DEF Nodo, Suscripto
<1> HIDE DEF c
<1>4. /\ suscriptores[c] \in Seq([proceso : Procesos, socket : Nat])
      /\ Len(suscriptores[c]) \in Nat /\ DOMAIN suscriptores[c] = 1..Len(suscriptores[c])
  BY <1>3, Listas DEF IInv
<1> DEFINE suyos == [n \in DOMAIN suscriptores[c] |-> [lista |-> c, num |-> n, ack |-> 1]]
<1>5. suyos \in Seq(Entrada)
  <2>1. \A n \in 1..Len(suscriptores[c]) : [lista |-> c, num |-> n, ack |-> 1] \in Entrada
    BY <1>3, <1>4 DEF Entrada
  <2> QED
    BY <1>4, <2>1, SeqDef
<1>6. mensajes' = Append(mensajes, [nodo EXCEPT !.suscriptos = suyos])
  <2>1. \A n \in DOMAIN suscriptores[c] :
          [nodo.suscriptos[n] EXCEPT !.ack = 1] = [lista |-> c, num |-> n, ack |-> 1]
    BY <1>3 DEF Entrada
  <2>2. [n \in DOMAIN nodo.suscriptos |-> [nodo.suscriptos[n] EXCEPT !.ack = 1]] = suyos
    BY <1>3, <2>1
  <2> HIDE DEF suyos
  <2> QED
    BY <2>2 DEF EnviarASuscriptos
<1>7. [nodo EXCEPT !.suscriptos = suyos] \in Nodo
  BY <1>3, <1>5 DEF Nodo
<1>8. /\ mensajes' \in Seq(Nodo)
      /\ Len(mensajes) \in Nat /\ DOMAIN mensajes = 1..Len(mensajes) /\ DOMAIN mensajes' = 1..nuevo
      /\ \A i \in DOMAIN mensajes : mensajes'[i] = mensajes[i]
      /\ marcado = [nodo EXCEPT !.suscriptos = suyos]
  <2> HIDE DEF suyos
  <2> QED
    BY <1>6, <1>7, Listas, AppendProperties, LenProperties DEF IInv, TypeOK
<1>9. marcado.pub = p /\ marcado.cola = c /\ marcado.suscriptos = suyos
  BY <1>1, <1>3, <1>8 DEF Nodo
<1>10. \A i \in DOMAIN mensajes' : i \in DOMAIN mensajes \/ i = nuevo
  BY <1>8
<1>11. envios' = envios \cup {[pub |-> p, lista |-> c, num |-> n, socket |-> suscriptores[c][n].socket,
                               estado |-> "creado"] : n \in DOMAIN suscriptores[c]}
  <2>1. \A n \in DOMAIN nodo.suscriptos : nodo.suscriptos[n].ack = 0
    BY <1>3
  <2>2. SinMarcar = DOMAIN suscriptores[c]
    BY <1>3, <2>1 DEF SinMarcar
  <2>3. ASSUME NEW n \in DOMAIN suscriptores[c]
        PROVE  Envio(p, nodo.suscriptos[n], SocketDe(nodo.suscriptos[n])) =
                 [pub |-> p, lista |-> c, num |-> n, socket |-> suscriptores[c][n].socket, estado |-> "creado"]
    BY <1>3 DEF Envio, SocketDe
  <2>4. envios' = envios \cup
          {Envio(p, nodo.suscriptos[n], SocketDe(nodo.suscriptos[n])) : n \in SinMarcar}
    BY DEF EnviarASuscriptos
  <2> QED
    BY <2>2, <2>3, <2>4
<1>12. ASSUME NEW e \in envios' \ envios
       PROVE  \E n \in DOMAIN suscriptores[c] :
                e = [pub |-> p, lista |-> c, num |-> n, socket |-> suscriptores[c][n].socket, estado |-> "creado"]
  BY <1>11
<1>13. \A i \in DOMAIN mensajes : mensajes[i].pub # p
  BY <1>1 DEF IInv, MensajesGuardados
<1>14. \A e \in envios : e.pub # p
  BY <1>1 DEF IInv, MensajesGuardados
<1> HIDE DEF marcado
<1>15. TypeOK'
  <2>1. p \in Nat
    BY Listas DEF IInv
  <2>2. ASSUME NEW n \in DOMAIN suscriptores[c]
        PROVE  n \in Nat /\ suscriptores[c][n].socket \in Nat
    <3>1. suscriptores[c][n] \in [proceso : Procesos, socket : Nat]
      BY <1>4, ElementOfSeq
    <3> QED
      BY <1>4, <3>1
  <2>3. envios' \subseteq [pub : Nat, lista : Colas, num : Nat, socket : Nat,
                          estado : {"creado", "entregado", "perdido"}]
    BY <1>3, <1>11, <2>1, <2>2 DEF IInv, TypeOK
  <2> QED
    BY <1>1, <1>2, <1>8, <2>3 DEF IInv, TypeOK
<1>16. MensajesGuardados'
  <2>1. ASSUME NEW i \in DOMAIN mensajes'
        PROVE  mensajes'[i].pub \in Publicados' /\ publicaciones'[mensajes'[i].pub].paso = "guardada"
    <3>1. CASE i \in DOMAIN mensajes
      BY <1>2, <1>8, <1>13, <3>1 DEF IInv, MensajesGuardados
    <3>2. CASE i = nuevo
      BY <1>2, <1>9, <3>2 DEF marcado
    <3> QED
      BY <1>10, <3>1, <3>2
  <2>2. ASSUME NEW i \in DOMAIN mensajes', NEW j \in DOMAIN mensajes',
               mensajes'[i].pub = mensajes'[j].pub
        PROVE  i = j
    <3>1. \A h \in DOMAIN mensajes : mensajes'[h].pub = mensajes[h].pub /\ mensajes'[h].pub # p
      BY <1>8, <1>13
    <3>2. mensajes'[nuevo].pub = p
      BY <1>9 DEF marcado
    <3> HIDE DEF nuevo
    <3>3. CASE i \in DOMAIN mensajes /\ j \in DOMAIN mensajes
      <4>1. mensajes[i].pub = mensajes[j].pub
        BY <2>2, <3>1, <3>3
      <4> QED
        BY <3>3, <4>1 DEF IInv, MensajesGuardados
    <3>4. CASE i = nuevo \/ j = nuevo
      BY <1>10, <2>2, <3>1, <3>2, <3>4
    <3> QED
      BY <1>10, <3>3, <3>4
  <2>3. ASSUME NEW e \in envios'
        PROVE  e.pub \in Publicados' /\ publicaciones'[e.pub].paso = "guardada"
    BY <1>2, <1>11 DEF IInv, MensajesGuardados
  <2> QED
    BY <2>1, <2>2, <2>3 DEF MensajesGuardados
<1>17. NodoAlDia'
  BY <1>1 DEF NodoAlDia
<1>18. EntradasDistintas'
  <2> SUFFICES ASSUME NEW i \in DOMAIN mensajes', NEW n \in DOMAIN mensajes'[i].suscriptos,
                      NEW m \in DOMAIN mensajes'[i].suscriptos,
                      mensajes'[i].suscriptos[n].lista = mensajes'[i].suscriptos[m].lista,
                      mensajes'[i].suscriptos[n].num = mensajes'[i].suscriptos[m].num
               PROVE  n = m
    BY DEF EntradasDistintas
  <2>1. CASE i \in DOMAIN mensajes
    BY <1>8, <2>1 DEF IInv, EntradasDistintas
  <2>2. CASE i = nuevo
    BY <1>9, <2>2 DEF marcado
  <2> QED
    BY <1>10, <2>1, <2>2
<1>19. DeSuscriptores'
  <2>1. ASSUME NEW i \in DOMAIN mensajes', NEW n \in DOMAIN mensajes'[i].suscriptos
        PROVE  mensajes'[i].suscriptos[n].num \in DOMAIN suscriptores'[mensajes'[i].suscriptos[n].lista]
    <3>1. CASE i \in DOMAIN mensajes
      BY <1>1, <1>8, <3>1 DEF IInv, DeSuscriptores
    <3>2. CASE i = nuevo
      BY <1>1, <1>9, <3>2 DEF marcado
    <3> QED
      BY <1>10, <3>1, <3>2
  <2>2. ASSUME NEW e \in envios'
        PROVE  e.num \in DOMAIN suscriptores'[e.lista]
    BY <1>1, <1>11 DEF IInv, DeSuscriptores
  <2> QED
    BY <2>1, <2>2 DEF DeSuscriptores
<1>20. EntradaPresente'
  <2> SUFFICES ASSUME NEW i \in DOMAIN mensajes', NEW n \in DOMAIN suscriptores'[mensajes'[i].cola],
                      ColaReenviada(mensajes'[i].cola) = mensajes'[i].cola
               PROVE  \E k \in DOMAIN mensajes'[i].suscriptos :
                        /\ mensajes'[i].suscriptos[k].lista = mensajes'[i].cola
                        /\ mensajes'[i].suscriptos[k].num = n
    BY DEF EntradaPresente, EntradasDe, Suscripto
  <2>1. CASE i \in DOMAIN mensajes
    <3>1. mensajes'[i] = mensajes[i] /\ suscriptores' = suscriptores
      BY <1>1, <1>8, <2>1
    <3>2. EntradasDe(i, Suscripto(mensajes[i].cola, n)) # {}
      BY <2>1, <3>1 DEF IInv, EntradaPresente
    <3> QED
      BY <3>1, <3>2 DEF EntradasDe, Suscripto
  <2>2. CASE i = nuevo
    BY <1>1, <1>9, <2>2 DEF marcado
  <2> QED
    BY <1>10, <2>1, <2>2
<1>21. MarcadoConEnvio'
  <2> SUFFICES ASSUME NEW i \in DOMAIN mensajes', NEW n \in DOMAIN mensajes'[i].suscriptos
               PROVE  mensajes'[i].suscriptos[n].ack = 1 <=>
                        \E e \in envios' : /\ e.pub = mensajes'[i].pub
                                          /\ e.lista = mensajes'[i].suscriptos[n].lista
                                          /\ e.num = mensajes'[i].suscriptos[n].num
    BY DEF MarcadoConEnvio
  <2>1. CASE i \in DOMAIN mensajes
    <3>1. mensajes'[i] = mensajes[i] /\ mensajes[i].pub # p
      BY <1>8, <1>13, <2>1
    <3>2. \A e \in envios' : e.pub = mensajes[i].pub => e \in envios
      BY <1>12, <3>1
    <3>3. envios \subseteq envios'
      BY <1>11
    <3> QED
      BY <2>1, <3>1, <3>2, <3>3 DEF IInv, MarcadoConEnvio
  <2>2. CASE i = nuevo
    <3>1. n \in DOMAIN suscriptores[c] /\ mensajes'[i].pub = p
          /\ mensajes'[i].suscriptos[n] = [lista |-> c, num |-> n, ack |-> 1]
      BY <1>9, <2>2 DEF marcado
    <3>2. [pub |-> p, lista |-> c, num |-> n, socket |-> suscriptores[c][n].socket, estado |-> "creado"] \in envios'
      BY <1>11, <3>1
    <3> QED
      BY <3>1, <3>2
  <2> QED
    BY <1>10, <2>1, <2>2
<1>22. UnaVezPorEntrada'
  <2> SUFFICES ASSUME NEW d \in envios', NEW e \in envios',
                      d.pub = e.pub, d.lista = e.lista, d.num = e.num
               PROVE  d = e
    BY DEF UnaVezPorEntrada
  <2>1. CASE d \in envios /\ e \in envios
    BY <2>1 DEF IInv, UnaVezPorEntrada
  <2>2. CASE d \notin envios /\ e \notin envios
    BY <1>12, <2>2
  <2>3. CASE (d \in envios /\ e \notin envios) \/ (d \notin envios /\ e \in envios)
    BY <1>12, <1>14, <2>3
  <2> QED
    BY <2>1, <2>2, <2>3
<1>23. Respondidas'
  BY <1>1, <1>2 DEF IInv, Respondidas
<1> QED
  BY <1>15, <1>16, <1>17, <1>18, <1>19, <1>20, <1>21, <1>22, <1>23 DEF IInv

LEMMA EnviarYConfirmarIInv ==
  ASSUME IInv, NEW e \in envios, EnviarYConfirmar(e)
  PROVE  IInv'
<1> PICK fin \in {"entregado", "perdido"} : envios' = (envios \ {e}) \cup {[e EXCEPT !.estado = fin]}
  BY DEF EnviarYConfirmar
<1> DEFINE f == [e EXCEPT !.estado = fin]
<1>1. e \in [pub : Nat, lista : Colas, num : Nat, socket : Nat, estado : {"creado", "entregado", "perdido"}]
  BY DEF IInv, TypeOK
<1>2. /\ f \in [pub : Nat, lista : Colas, num : Nat, socket : Nat, estado : {"creado", "entregado", "perdido"}]
      /\ f.pub = e.pub /\ f.lista = e.lista /\ f.num = e.num
  BY <1>1
<1> HIDE DEF f
<1>3. envios' = (envios \ {e}) \cup {f}
  BY DEF f
<1>4. UNCHANGED <<publicaciones, idCorrelativo, nodo, lector, mensajes, suscriptores, conexiones, caido>>
  BY DEF EnviarYConfirmar
<1>5. TypeOK'
  BY <1>2, <1>3, <1>4 DEF IInv, TypeOK
<1>6. MensajesGuardados' /\ NodoAlDia'
  BY <1>2, <1>3, <1>4 DEF IInv, MensajesGuardados, NodoAlDia, Publicados
<1>7. EntradasDistintas' /\ DeSuscriptores'
  BY <1>2, <1>3, <1>4 DEF IInv, EntradasDistintas, DeSuscriptores
<1>8. EntradaPresente'
  BY <1>4 DEF IInv, EntradaPresente, EntradasDe
<1>9. MarcadoConEnvio'
  BY <1>2, <1>3, <1>4 DEF IInv, MarcadoConEnvio
<1>10. UnaVezPorEntrada'
  BY <1>2, <1>3 DEF IInv, UnaVezPorEntrada
<1>11. Respondidas'
  BY <1>4 DEF IInv, Respondidas, Publicados
<1> QED
  BY <1>5, <1>6, <1>7, <1>8, <1>9, <1>10, <1>11 DEF IInv

(* What a subscription does to its connection. *)
LEMMA Suscripta ==
  ASSUME IInv, NEW s \in Sockets, conexiones' = [conexiones EXCEPT ![s].suscripta = TRUE]
  PROVE  /\ conexiones' \in Seq([proceso : Procesos, cola : Colas, viva : BOOLEAN, completa : BOOLEAN, suscripta : BOOLEAN])
         /\ Sockets' = Sockets
         /\ conexiones[s].cola \in Colas /\ conexiones[s].proceso \in Procesos
         /\ \A t \in Sockets : /\ conexiones'[t].proceso = conexiones[t].proceso
                               /\ conexiones'[t].cola = conexiones[t].cola
                               /\ conexiones'[t].viva = conexiones[t].viva
                               /\ t # s => conexiones'[t].suscripta = conexiones[t].suscripta
         /\ conexiones'[s].suscripta
<1> DEFINE C == [proceso : Procesos, cola : Colas, viva : BOOLEAN, completa : BOOLEAN, suscripta : BOOLEAN]
           x == [conexiones[s] EXCEPT !.suscripta = TRUE]
<1>1. /\ conexiones \in Seq(C) /\ Sockets = 1..Len(conexiones) /\ s \in 1..Len(conexiones)
      /\ \A t \in Sockets : conexiones[t] \in C
  BY LenProperties, ElementOfSeq DEF IInv, TypeOK, Sockets
<1>2. x \in C /\ x.proceso = conexiones[s].proceso /\ x.cola = conexiones[s].cola
      /\ x.viva = conexiones[s].viva /\ x.suscripta = TRUE
  BY <1>1
<1>3. conexiones' = [conexiones EXCEPT ![s] = x]
  OBVIOUS
<1>4. conexiones' \in Seq(C)
  BY <1>1, <1>2, <1>3, ExceptSeq
<1>5. Sockets' = Sockets /\ conexiones'[s] = x /\ \A t \in Sockets : t # s => conexiones'[t] = conexiones[t]
  BY <1>1, <1>3 DEF Sockets
<1>6. ASSUME NEW t \in Sockets
      PROVE  /\ conexiones'[t].proceso = conexiones[t].proceso
             /\ conexiones'[t].cola = conexiones[t].cola
             /\ conexiones'[t].viva = conexiones[t].viva
             /\ t # s => conexiones'[t].suscripta = conexiones[t].suscripta
  <2>1. CASE t = s
    BY <1>2, <1>5, <2>1
  <2>2. CASE t # s
    BY <1>5, <2>2
  <2> QED
    BY <2>1, <2>2
<1>7. conexiones[s].cola \in Colas /\ conexiones[s].proceso \in Procesos
  BY <1>1
<1>8. conexiones'[s].suscripta
  BY <1>2, <1>5
<1> QED
  BY <1>4, <1>5, <1>6, <1>7, <1>8

(* A new subscriber: its number is of no entry and of no thread yet. *)
LEMMA SuscribirPrimeraVezIInv ==
  ASSUME IInv, MutexDeUno, NEW s \in Sockets, SuscribirPrimeraVez(s)
  PROVE  IInv'
<1> DEFINE c == conexiones[s].cola
           proceso == conexiones[s].proceso
           num == Len(suscriptores[c]) + 1
           nuevo == [Suscripto(c, num) EXCEPT !.ack = 1]
           de(i) == [pub |-> mensajes[i].pub, lista |-> c, num |-> num, socket |-> s, estado |-> "creado"]
<1>1. /\ nodo = Nadie
      /\ suscriptores' = [suscriptores EXCEPT ![c] = Append(@, [proceso |-> proceso, socket |-> s])]
      /\ mensajes' = [i \in DOMAIN mensajes |->
           IF i \in Reenviables(c) THEN [mensajes[i] EXCEPT !.suscriptos = Append(@, nuevo)] ELSE mensajes[i]]
      /\ envios' = envios \cup {Envio(mensajes[i].pub, nuevo, s) : i \in Reenviables(c)}
      /\ conexiones' = [conexiones EXCEPT ![s].suscripta = TRUE]
      /\ lector' = 0
      /\ UNCHANGED <<publicaciones, idCorrelativo, nodo, caido>>
  <2>1. nodo = Nadie
    <3>1. lector = s /\ s # 0
      BY Listas DEF SuscribirPrimeraVez, Suscribiendo, IInv
    <3> QED
      BY <3>1 DEF MutexDeUno
  <2> QED
    BY <2>1 DEF SuscribirPrimeraVez
<1>2. /\ conexiones' \in Seq([proceso : Procesos, cola : Colas, viva : BOOLEAN, completa : BOOLEAN, suscripta : BOOLEAN])
      /\ c \in Colas /\ proceso \in Procesos /\ s \in Nat
  <2>1. s \in Nat
    BY Listas DEF IInv
  <2> QED
    BY <1>1, <2>1, Suscripta
<1> HIDE DEF c, proceso
<1>3. /\ suscriptores[c] \in Seq([proceso : Procesos, socket : Nat])
      /\ Len(suscriptores[c]) \in Nat /\ DOMAIN suscriptores[c] = 1..Len(suscriptores[c])
      /\ num \in Nat /\ num \notin DOMAIN suscriptores[c]
  <2>1. /\ suscriptores[c] \in Seq([proceso : Procesos, socket : Nat])
        /\ Len(suscriptores[c]) \in Nat /\ DOMAIN suscriptores[c] = 1..Len(suscriptores[c])
    BY <1>2, Listas DEF IInv
  <2> QED
    BY <2>1
<1>4. nuevo \in Entrada /\ nuevo.lista = c /\ nuevo.num = num /\ nuevo.ack = 1
  BY <1>2, <1>3 DEF Suscripto, Entrada
<1>5. envios' = envios \cup {de(i) : i \in Reenviables(c)}
  BY <1>1, <1>4 DEF Envio
<1> HIDE DEF nuevo, num
<1>6. /\ suscriptores' \in [Colas -> Seq([proceso : Procesos, socket : Nat])]
      /\ DOMAIN suscriptores'[c] = 1..num
      /\ DOMAIN suscriptores[c] \subseteq DOMAIN suscriptores'[c]
      /\ \A d \in Colas : d # c => suscriptores'[d] = suscriptores[d]
  <2> DEFINE E == [proceso : Procesos, socket : Nat]
             lista == Append(suscriptores[c], [proceso |-> proceso, socket |-> s])
  <2>1. [proceso |-> proceso, socket |-> s] \in E
    BY <1>2
  <2>2. lista \in Seq(E) /\ Len(lista) = num
    BY <1>3, <2>1, AppendProperties DEF num
  <2>3. DOMAIN lista = 1..num
    BY <2>2, LenProperties
  <2>4. suscriptores \in [Colas -> Seq(E)]
    BY DEF IInv, TypeOK
  <2> HIDE DEF lista, E
  <2>5. suscriptores' = [suscriptores EXCEPT ![c] = lista]
    BY <1>1 DEF lista
  <2>6. suscriptores' \in [Colas -> Seq(E)] /\ suscriptores'[c] = lista
        /\ \A d \in Colas : d # c => suscriptores'[d] = suscriptores[d]
    BY <1>2, <2>2, <2>4, <2>5
  <2>7. DOMAIN suscriptores[c] \subseteq 1..num
    BY <1>3 DEF num
  <2> QED
    BY <2>3, <2>6, <2>7 DEF E
<1>7. \A i \in DOMAIN mensajes :
        i \in Reenviables(c) <=> mensajes[i].cola = ColaReenviada(c)
  BY DEF Reenviables
<1>8. DOMAIN mensajes' = DOMAIN mensajes
  BY <1>1
<1>9. ASSUME NEW i \in DOMAIN mensajes
      PROVE  /\ mensajes'[i] \in Nodo
             /\ mensajes'[i].pub = mensajes[i].pub /\ mensajes'[i].cola = mensajes[i].cola
             /\ i \notin Reenviables(c) => mensajes'[i] = mensajes[i]
             /\ LET k == Len(mensajes[i].suscriptos) IN
                /\ DOMAIN mensajes[i].suscriptos = 1..k /\ k \in Nat
                /\ \A n \in 1..k : mensajes'[i].suscriptos[n] = mensajes[i].suscriptos[n]
                /\ i \in Reenviables(c) => DOMAIN mensajes'[i].suscriptos = 1..(k + 1)
                                         /\ mensajes'[i].suscriptos[k + 1] = nuevo
  <2> DEFINE k == Len(mensajes[i].suscriptos)
             lista == Append(mensajes[i].suscriptos, nuevo)
  <2>1. /\ mensajes[i] \in Nodo /\ mensajes[i].suscriptos \in Seq(Entrada)
        /\ DOMAIN mensajes[i].suscriptos = 1..k /\ k \in Nat
    BY Listas DEF IInv
  <2>2. /\ lista \in Seq(Entrada) /\ Len(lista) = k + 1
        /\ \A n \in 1..k : lista[n] = mensajes[i].suscriptos[n]
        /\ lista[k + 1] = nuevo
    BY <1>4, <2>1, AppendProperties
  <2>3. DOMAIN lista = 1..(k + 1)
    BY <2>2, LenProperties
  <2> HIDE DEF lista
  <2>4. CASE i \in Reenviables(c)
    <3>1. mensajes'[i] = [mensajes[i] EXCEPT !.suscriptos = lista]
      BY <1>1, <2>4 DEF lista
    <3>2. mensajes'[i] \in Nodo /\ mensajes'[i].suscriptos = lista
          /\ mensajes'[i].pub = mensajes[i].pub /\ mensajes'[i].cola = mensajes[i].cola
      BY <2>1, <2>2, <3>1 DEF Nodo
    <3> QED
      BY <2>1, <2>2, <2>3, <2>4, <3>2
  <2>5. CASE i \notin Reenviables(c)
    <3>1. mensajes'[i] = mensajes[i]
      BY <1>1, <2>5
    <3> QED
      BY <2>1, <2>5, <3>1
  <2> QED
    BY <2>4, <2>5
<1>10. \A e \in envios' \ envios : \E i \in Reenviables(c) : e = de(i)
  BY <1>5
<1>11. \A i \in Reenviables(c) : i \in DOMAIN mensajes /\ de(i) \in envios'
  BY <1>5 DEF Reenviables
<1>12. TypeOK'
  <2>1. mensajes' \in Seq(Nodo)
    <3>1. Len(mensajes) \in Nat /\ DOMAIN mensajes = 1..Len(mensajes)
      BY Listas DEF IInv
    <3>2. mensajes' \in [1..Len(mensajes) -> Nodo]
      BY <1>1, <1>8, <1>9, <3>1
    <3> QED
      BY <3>1, <3>2, SeqDef
  <2>2. ASSUME NEW i \in Reenviables(c) PROVE mensajes[i].pub \in Nat
    BY <1>11, Listas DEF IInv, Nodo
  <2>3. envios' \subseteq [pub : Nat, lista : Colas, num : Nat, socket : Nat,
                          estado : {"creado", "entregado", "perdido"}]
    BY <1>2, <1>3, <1>5, <2>2 DEF IInv, TypeOK
  <2>4. lector' \in Nat
    BY <1>1
  <2> QED
    BY <1>1, <1>2, <1>6, <2>1, <2>3, <2>4 DEF IInv, TypeOK
<1>13. MensajesGuardados'
  <2>1. /\ DOMAIN mensajes' = DOMAIN mensajes /\ UNCHANGED publicaciones
        /\ \A i \in DOMAIN mensajes : mensajes'[i].pub = mensajes[i].pub
    BY <1>1, <1>8, <1>9
  <2>2. \A e \in envios' : e \in envios \/ \E i \in DOMAIN mensajes : e.pub = mensajes[i].pub
    BY <1>10, <1>11
  <2> QED
    BY <2>1, <2>2 DEF IInv, MensajesGuardados, Publicados
<1>14. NodoAlDia'
  BY <1>1 DEF NodoAlDia
<1>15. ASSUME NEW i \in DOMAIN mensajes, NEW n \in DOMAIN mensajes'[i].suscriptos
       PROVE  \/ n \in DOMAIN mensajes[i].suscriptos /\ mensajes'[i].suscriptos[n] = mensajes[i].suscriptos[n]
              \/ /\ i \in Reenviables(c) /\ n = Len(mensajes[i].suscriptos) + 1
                 /\ n \notin DOMAIN mensajes[i].suscriptos /\ mensajes'[i].suscriptos[n] = nuevo
  BY <1>9
<1>16. ASSUME NEW i \in DOMAIN mensajes, NEW n \in DOMAIN mensajes[i].suscriptos
       PROVE  /\ mensajes[i].suscriptos[n].lista \in Colas
              /\ mensajes[i].suscriptos[n].num \in DOMAIN suscriptores[mensajes[i].suscriptos[n].lista]
              /\ ~(mensajes[i].suscriptos[n].lista = c /\ mensajes[i].suscriptos[n].num = num)
  <2>1. mensajes[i].suscriptos[n].num \in DOMAIN suscriptores[mensajes[i].suscriptos[n].lista]
    BY DEF IInv, DeSuscriptores
  <2>2. mensajes[i].suscriptos[n] \in Entrada
    BY Listas DEF IInv
  <2> QED
    BY <1>3, <2>1, <2>2 DEF Entrada
<1>17. EntradasDistintas'
  <2> SUFFICES ASSUME NEW i \in DOMAIN mensajes, NEW n \in DOMAIN mensajes'[i].suscriptos,
                      NEW m \in DOMAIN mensajes'[i].suscriptos,
                      mensajes'[i].suscriptos[n].lista = mensajes'[i].suscriptos[m].lista,
                      mensajes'[i].suscriptos[n].num = mensajes'[i].suscriptos[m].num
               PROVE  n = m
    BY <1>8 DEF EntradasDistintas
  <2>1. CASE n \in DOMAIN mensajes[i].suscriptos /\ m \in DOMAIN mensajes[i].suscriptos
    BY <1>15, <2>1 DEF IInv, EntradasDistintas
  <2>2. CASE n \notin DOMAIN mensajes[i].suscriptos /\ m \notin DOMAIN mensajes[i].suscriptos
    BY <1>15, <2>2
  <2>3. CASE n \in DOMAIN mensajes[i].suscriptos /\ m \notin DOMAIN mensajes[i].suscriptos
    BY <1>4, <1>15, <1>16, <2>3
  <2>4. CASE n \notin DOMAIN mensajes[i].suscriptos /\ m \in DOMAIN mensajes[i].suscriptos
    BY <1>4, <1>15, <1>16, <2>4
  <2> QED
    BY <2>1, <2>2, <2>3, <2>4
<1>18. \A d \in Colas : DOMAIN suscriptores[d] \subseteq DOMAIN suscriptores'[d]
  BY <1>6
<1>19. num \in DOMAIN suscriptores'[c]
  BY <1>3, <1>6 DEF num
<1>20. DeSuscriptores'
  <2>1. ASSUME NEW i \in DOMAIN mensajes, NEW n \in DOMAIN mensajes'[i].suscriptos
        PROVE  mensajes'[i].suscriptos[n].num \in DOMAIN suscriptores'[mensajes'[i].suscriptos[n].lista]
    BY <1>4, <1>15, <1>16, <1>18, <1>19
  <2>2. ASSUME NEW e \in envios' PROVE e.num \in DOMAIN suscriptores'[e.lista]
    <3>1. CASE e \in envios
      BY <1>18, <3>1 DEF IInv, TypeOK, DeSuscriptores
    <3>2. CASE e \notin envios
      BY <1>10, <1>19, <3>2
    <3> QED
      BY <3>1, <3>2
  <2> QED
    BY <1>8, <2>1, <2>2 DEF DeSuscriptores
<1>21. EntradaPresente'
  <2> SUFFICES ASSUME NEW i \in DOMAIN mensajes, NEW n \in DOMAIN suscriptores'[mensajes'[i].cola],
                      ColaReenviada(mensajes'[i].cola) = mensajes'[i].cola
               PROVE  \E k \in DOMAIN mensajes'[i].suscriptos :
                        /\ mensajes'[i].suscriptos[k].lista = mensajes'[i].cola
                        /\ mensajes'[i].suscriptos[k].num = n
    BY <1>8 DEF EntradaPresente, EntradasDe, Suscripto
  <2>1. mensajes'[i].cola = mensajes[i].cola /\ mensajes[i].cola \in Colas
    BY <1>9, Listas DEF IInv, Nodo
  <2>2. CASE n \in DOMAIN suscriptores[mensajes[i].cola]
    <3>1. EntradasDe(i, Suscripto(mensajes[i].cola, n)) # {}
      BY <2>1, <2>2 DEF IInv, EntradaPresente
    <3>2. PICK k \in DOMAIN mensajes[i].suscriptos :
            mensajes[i].suscriptos[k].lista = mensajes[i].cola /\ mensajes[i].suscriptos[k].num = n
      BY <3>1 DEF EntradasDe, Suscripto
    <3>3. k \in DOMAIN mensajes'[i].suscriptos /\ mensajes'[i].suscriptos[k] = mensajes[i].suscriptos[k]
      BY <1>9
    <3> QED
      BY <2>1, <3>2, <3>3
  <2>3. CASE n \notin DOMAIN suscriptores[mensajes[i].cola]
    <3>1. mensajes[i].cola = c
      BY <1>6, <2>1, <2>3
    <3>2. n \in 1..num /\ n \notin 1..Len(suscriptores[c])
      BY <1>3, <1>6, <2>1, <2>3, <3>1
    <3>3. n = num
      BY <1>3, <3>2 DEF num
    <3>4. i \in Reenviables(c)
      BY <1>7, <2>1, <3>1
    <3>5. /\ Len(mensajes[i].suscriptos) + 1 \in DOMAIN mensajes'[i].suscriptos
          /\ mensajes'[i].suscriptos[Len(mensajes[i].suscriptos) + 1] = nuevo
      BY <1>9, <3>4
    <3> QED
      BY <1>4, <2>1, <3>1, <3>3, <3>5
  <2> QED
    BY <2>2, <2>3
<1>22. \A e \in envios : ~(e.lista = c /\ e.num = num)
  BY <1>3 DEF IInv, DeSuscriptores
<1>23. MarcadoConEnvio'
  <2> SUFFICES ASSUME NEW i \in DOMAIN mensajes, NEW n \in DOMAIN mensajes'[i].suscriptos
               PROVE  mensajes'[i].suscriptos[n].ack = 1 <=>
                        \E e \in envios' : /\ e.pub = mensajes'[i].pub
                                          /\ e.lista = mensajes'[i].suscriptos[n].lista
                                          /\ e.num = mensajes'[i].suscriptos[n].num
    BY <1>8 DEF MarcadoConEnvio
  <2>1. CASE n \in DOMAIN mensajes[i].suscriptos
    <3>1. mensajes'[i].suscriptos[n] = mensajes[i].suscriptos[n] /\ mensajes'[i].pub = mensajes[i].pub
      BY <1>9, <2>1
    <3>2. \A e \in envios' : /\ e.lista = mensajes[i].suscriptos[n].lista
                            /\ e.num = mensajes[i].suscriptos[n].num => e \in envios
      BY <1>10, <1>16, <2>1
    <3>3. envios \subseteq envios'
      BY <1>5
    <3> QED
      BY <2>1, <3>1, <3>2, <3>3 DEF IInv, MarcadoConEnvio
  <2>2. CASE n \notin DOMAIN mensajes[i].suscriptos
    <3>1. i \in Reenviables(c) /\ mensajes'[i].suscriptos[n] = nuevo /\ mensajes'[i].pub = mensajes[i].pub
      BY <1>9, <1>15, <2>2
    <3>2. de(i) \in envios'
      BY <1>11, <3>1
    <3> QED
      BY <1>4, <3>1, <3>2
  <2> QED
    BY <2>1, <2>2
<1>24. UnaVezPorEntrada'
  <2> SUFFICES ASSUME NEW d \in envios', NEW e \in envios',
                      d.pub = e.pub, d.lista = e.lista, d.num = e.num
               PROVE  d = e
    BY DEF UnaVezPorEntrada
  <2>1. CASE d \in envios /\ e \in envios
    BY <2>1 DEF IInv, UnaVezPorEntrada
  <2>2. CASE d \notin envios /\ e \notin envios
    BY <1>10, <2>2
  <2>3. CASE (d \in envios /\ e \notin envios) \/ (d \notin envios /\ e \in envios)
    BY <1>10, <1>22, <2>3
  <2> QED
    BY <2>1, <2>2, <2>3
<1>25. Respondidas'
  BY <1>1 DEF IInv, Respondidas, Publicados
<1> QED
  BY <1>12, <1>13, <1>14, <1>17, <1>20, <1>21, <1>23, <1>24, <1>25 DEF IInv

(* A process that comes back: only a message that is not marked for it,    *)
(* and so has no thread for it, gets one.                                  *)
LEMMA ResuscribirIInv ==
  ASSUME IInv, MutexDeUno, NEW s \in Sockets, Resuscribir(s)
  PROVE  IInv'
<1> DEFINE c == conexiones[s].cola
           proceso == conexiones[s].proceso
<1>1. PICK m \in Coincide(c, proceso) :
        LET u == Suscripto(c, m) IN
        /\ DarSocket(c, m, s)
        /\ mensajes' = [i \in DOMAIN mensajes |->
             IF i \in Pendientes(c, u)
             THEN [mensajes[i] EXCEPT !.suscriptos =
                     [n \in DOMAIN @ |-> IF n \in EntradasDe(i, u) THEN [@[n] EXCEPT !.ack = 1] ELSE @[n]]]
             ELSE mensajes[i]]
        /\ envios' = envios \cup {Envio(mensajes[i].pub, u, s) : i \in Pendientes(c, u)}
  BY DEF Resuscribir
<1> DEFINE u == Suscripto(c, m)
           de(i) == [pub |-> mensajes[i].pub, lista |-> c, num |-> m, socket |-> s, estado |-> "creado"]
<1>2. /\ nodo = Nadie
      /\ conexiones' = [conexiones EXCEPT ![s].suscripta = TRUE]
      /\ lector' = 0
      /\ UNCHANGED <<publicaciones, idCorrelativo, nodo, caido>>
  <2>1. nodo = Nadie
    <3>1. lector = s /\ s # 0
      BY Listas DEF Resuscribir, Suscribiendo, IInv
    <3> QED
      BY <3>1 DEF MutexDeUno
  <2> QED
    BY <2>1 DEF Resuscribir
<1>3. /\ conexiones' \in Seq([proceso : Procesos, cola : Colas, viva : BOOLEAN, completa : BOOLEAN, suscripta : BOOLEAN])
      /\ c \in Colas /\ s \in Nat
  <2>1. s \in Nat
    BY Listas DEF IInv
  <2> QED
    BY <1>2, <2>1, Suscripta
<1>4. u.lista = c /\ u.num = m /\ m \in DOMAIN suscriptores[c]
  BY DEF Suscripto, Coincide
<1> HIDE DEF c, proceso
<1>5. /\ suscriptores[c] \in Seq([proceso : Procesos, socket : Nat])
      /\ Len(suscriptores[c]) \in Nat /\ DOMAIN suscriptores[c] = 1..Len(suscriptores[c])
      /\ m \in Nat
  <2>1. /\ suscriptores[c] \in Seq([proceso : Procesos, socket : Nat])
        /\ Len(suscriptores[c]) \in Nat /\ DOMAIN suscriptores[c] = 1..Len(suscriptores[c])
    BY <1>3, Listas DEF IInv
  <2> QED
    BY <1>4, <2>1
<1>6. envios' = envios \cup {de(i) : i \in Pendientes(c, u)}
  BY <1>1, <1>4 DEF Envio
<1>7. /\ suscriptores' \in [Colas -> Seq([proceso : Procesos, socket : Nat])]
      /\ \A d \in Colas : DOMAIN suscriptores'[d] = DOMAIN suscriptores[d]
  <2> DEFINE E == [proceso : Procesos, socket : Nat]
             e == [suscriptores[c][m] EXCEPT !.socket = s]
             lista == [suscriptores[c] EXCEPT ![m] = e]
  <2>1. suscriptores[c] \in Seq(E) /\ m \in 1..Len(suscriptores[c])
    BY <1>4, <1>5
  <2>2. suscriptores[c][m] \in E
    BY <2>1, ElementOfSeq
  <2>3. e \in E
    BY <1>3, <2>2
  <2>4. lista \in Seq(E)
    BY <2>1, <2>3, ExceptSeq
  <2>5. DOMAIN lista = DOMAIN suscriptores[c]
    OBVIOUS
  <2>6. suscriptores' = [suscriptores EXCEPT ![c] = lista]
    BY <1>1 DEF DarSocket
  <2>7. suscriptores \in [Colas -> Seq(E)]
    BY DEF IInv, TypeOK
  <2> HIDE DEF lista, E
  <2>8. suscriptores' \in [Colas -> Seq(E)] /\ suscriptores'[c] = lista
        /\ \A d \in Colas : d # c => suscriptores'[d] = suscriptores[d]
    BY <1>3, <2>4, <2>6, <2>7
  <2> QED
    BY <2>5, <2>8 DEF E
<1> HIDE DEF u
<1>8. \A i \in DOMAIN mensajes :
        /\ EntradasDe(i, u) = {n \in DOMAIN mensajes[i].suscriptos :
              mensajes[i].suscriptos[n].lista = c /\ mensajes[i].suscriptos[n].num = m}
        /\ i \in Pendientes(c, u) => \E n \in EntradasDe(i, u) : mensajes[i].suscriptos[n].ack = 0
  BY <1>4 DEF EntradasDe, Pendientes
<1>9. DOMAIN mensajes' = DOMAIN mensajes
  BY <1>1
<1>10. ASSUME NEW i \in DOMAIN mensajes
       PROVE  /\ mensajes'[i] \in Nodo
              /\ mensajes'[i].pub = mensajes[i].pub /\ mensajes'[i].cola = mensajes[i].cola
              /\ DOMAIN mensajes'[i].suscriptos = DOMAIN mensajes[i].suscriptos
              /\ i \notin Pendientes(c, u) => mensajes'[i] = mensajes[i]
              /\ \A n \in DOMAIN mensajes[i].suscriptos :
                   /\ mensajes'[i].suscriptos[n].lista = mensajes[i].suscriptos[n].lista
                   /\ mensajes'[i].suscriptos[n].num = mensajes[i].suscriptos[n].num
                   /\ n \notin EntradasDe(i, u) => mensajes'[i].suscriptos[n] = mensajes[i].suscriptos[n]
                   /\ i \in Pendientes(c, u) /\ n \in EntradasDe(i, u) => mensajes'[i].suscriptos[n].ack = 1
  <2> DEFINE vieja == mensajes[i].suscriptos
             nueva == [n \in DOMAIN vieja |->
                         IF n \in EntradasDe(i, u) THEN [vieja[n] EXCEPT !.ack = 1] ELSE vieja[n]]
  <2>1. /\ mensajes[i] \in Nodo /\ vieja \in Seq(Entrada)
        /\ Len(vieja) \in Nat /\ DOMAIN vieja = 1..Len(vieja)
        /\ \A n \in DOMAIN vieja : vieja[n] \in Entrada
    BY Listas DEF IInv
  <2>2. ASSUME NEW n \in DOMAIN vieja
        PROVE  /\ nueva[n] \in Entrada
               /\ nueva[n].lista = vieja[n].lista /\ nueva[n].num = vieja[n].num
               /\ n \notin EntradasDe(i, u) => nueva[n] = vieja[n]
               /\ n \in EntradasDe(i, u) => nueva[n].ack = 1
    <3>1. nueva[n] = IF n \in EntradasDe(i, u) THEN [vieja[n] EXCEPT !.ack = 1] ELSE vieja[n]
      OBVIOUS
    <3>2. vieja[n] \in Entrada
      BY <2>1
    <3> HIDE DEF nueva, vieja
    <3>3. CASE n \in EntradasDe(i, u)
      BY <3>1, <3>2, <3>3 DEF Entrada
    <3>4. CASE n \notin EntradasDe(i, u)
      BY <3>1, <3>2, <3>4 DEF Entrada
    <3> QED
      BY <3>3, <3>4
  <2>3. nueva \in Seq(Entrada) /\ DOMAIN nueva = DOMAIN vieja
    <3>1. nueva \in [1..Len(vieja) -> Entrada]
      BY <2>1, <2>2
    <3> QED
      BY <2>1, <3>1, SeqDef
  <2> HIDE DEF nueva
  <2>4. CASE i \in Pendientes(c, u)
    <3>1. mensajes'[i] = [mensajes[i] EXCEPT !.suscriptos = nueva]
      BY <1>1, <2>4 DEF nueva, u
    <3>2. mensajes'[i] \in Nodo /\ mensajes'[i].suscriptos = nueva
          /\ mensajes'[i].pub = mensajes[i].pub /\ mensajes'[i].cola = mensajes[i].cola
      BY <2>1, <2>3, <3>1 DEF Nodo
    <3> QED
      BY <2>2, <2>3, <2>4, <3>2
  <2>5. CASE i \notin Pendientes(c, u)
    <3>1. mensajes'[i] = mensajes[i]
      BY <1>1, <2>5 DEF u
    <3> QED
      BY <2>1, <2>5, <3>1
  <2> QED
    BY <2>4, <2>5
<1>11. \A e \in envios' \ envios : \E i \in Pendientes(c, u) : e = de(i)
  BY <1>6
<1>12. \A i \in Pendientes(c, u) : i \in DOMAIN mensajes /\ de(i) \in envios'
  BY <1>6 DEF Pendientes, Reenviables
<1>13. TypeOK'
  <2>1. mensajes' \in Seq(Nodo)
    <3>1. Len(mensajes) \in Nat /\ DOMAIN mensajes = 1..Len(mensajes)
      BY Listas DEF IInv
    <3>2. mensajes' \in [1..Len(mensajes) -> Nodo]
      BY <1>1, <1>9, <1>10, <3>1
    <3> QED
      BY <3>1, <3>2, SeqDef
  <2>2. ASSUME NEW i \in Pendientes(c, u) PROVE mensajes[i].pub \in Nat
    BY <1>12, Listas DEF IInv, Nodo
  <2>3. envios' \subseteq [pub : Nat, lista : Colas, num : Nat, socket : Nat,
                          estado : {"creado", "entregado", "perdido"}]
    BY <1>3, <1>5, <1>6, <2>2 DEF IInv, TypeOK
  <2> QED
    BY <1>2, <1>3, <1>7, <2>1, <2>3 DEF IInv, TypeOK
<1>14. MensajesGuardados'
  <2>1. \A i \in DOMAIN mensajes' : /\ mensajes'[i].pub \in Publicados'
                                   /\ publicaciones'[mensajes'[i].pub].paso = "guardada"
    BY <1>2, <1>9, <1>10 DEF IInv, MensajesGuardados, Publicados
  <2>2. \A i, j \in DOMAIN mensajes' : mensajes'[i].pub = mensajes'[j].pub => i = j
    BY <1>9, <1>10 DEF IInv, MensajesGuardados
  <2>3. ASSUME NEW e \in envios'
        PROVE  e.pub \in Publicados' /\ publicaciones'[e.pub].paso = "guardada"
    BY <1>2, <1>11, <1>12 DEF IInv, MensajesGuardados, Publicados
  <2> QED
    BY <2>1, <2>2, <2>3 DEF MensajesGuardados
<1>15. NodoAlDia'
  BY <1>2 DEF NodoAlDia
<1>16. EntradasDistintas'
  BY <1>9, <1>10 DEF IInv, EntradasDistintas
<1>17. DeSuscriptores'
  <2>1. ASSUME NEW i \in DOMAIN mensajes, NEW n \in DOMAIN mensajes[i].suscriptos
        PROVE  mensajes'[i].suscriptos[n].num \in DOMAIN suscriptores'[mensajes'[i].suscriptos[n].lista]
    <3>1. mensajes[i].suscriptos[n] \in Entrada
      BY Listas DEF IInv
    <3> QED
      BY <1>7, <1>10, <3>1 DEF IInv, DeSuscriptores, Entrada
  <2>2. ASSUME NEW e \in envios' PROVE e.num \in DOMAIN suscriptores'[e.lista]
    <3>1. CASE e \in envios
      BY <1>7, <3>1 DEF IInv, TypeOK, DeSuscriptores
    <3>2. CASE e \notin envios
      BY <1>3, <1>4, <1>7, <1>11, <3>2
    <3> QED
      BY <3>1, <3>2
  <2> QED
    BY <1>9, <1>10, <2>1, <2>2 DEF DeSuscriptores
<1>18. EntradaPresente'
  <2> SUFFICES ASSUME NEW i \in DOMAIN mensajes, NEW n \in DOMAIN suscriptores'[mensajes'[i].cola],
                      ColaReenviada(mensajes'[i].cola) = mensajes'[i].cola
               PROVE  \E k \in DOMAIN mensajes'[i].suscriptos :
                        /\ mensajes'[i].suscriptos[k].lista = mensajes'[i].cola
                        /\ mensajes'[i].suscriptos[k].num = n
    BY <1>9 DEF EntradaPresente, EntradasDe, Suscripto
  <2>1. /\ mensajes'[i].cola = mensajes[i].cola /\ mensajes[i].cola \in Colas
        /\ n \in DOMAIN suscriptores[mensajes[i].cola]
    BY <1>7, <1>10, Listas DEF IInv, Nodo
  <2>2. EntradasDe(i, Suscripto(mensajes[i].cola, n)) # {}
    BY <2>1 DEF IInv, EntradaPresente
  <2>3. PICK k \in DOMAIN mensajes[i].suscriptos :
          mensajes[i].suscriptos[k].lista = mensajes[i].cola /\ mensajes[i].suscriptos[k].num = n
    BY <2>2 DEF EntradasDe, Suscripto
  <2> QED
    BY <1>10, <2>1, <2>3
<1>19. ASSUME NEW i \in Pendientes(c, u), NEW e \in envios, e.pub = mensajes[i].pub
       PROVE  ~(e.lista = c /\ e.num = m)
  <2>1. PICK n \in EntradasDe(i, u) : mensajes[i].suscriptos[n].ack = 0
    BY <1>8, <1>12
  <2>2. /\ n \in DOMAIN mensajes[i].suscriptos
        /\ mensajes[i].suscriptos[n].lista = c /\ mensajes[i].suscriptos[n].num = m
    BY <1>8, <1>12, <2>1
  <2>3. i \in DOMAIN mensajes /\ MarcadoConEnvio
    BY <1>12 DEF IInv
  <2>4. mensajes[i].suscriptos[n].ack = 1 <=>
          \E f \in envios : /\ f.pub = mensajes[i].pub
                            /\ f.lista = mensajes[i].suscriptos[n].lista
                            /\ f.num = mensajes[i].suscriptos[n].num
    BY <2>2, <2>3 DEF MarcadoConEnvio
  <2>5. mensajes[i].suscriptos[n].ack # 1
    BY <2>1
  <2>6. ~ \E f \in envios : f.pub = mensajes[i].pub /\ f.lista = c /\ f.num = m
    BY <2>2, <2>4, <2>5
  <2> QED
    BY <1>19, <2>6
<1>20. MarcadoConEnvio'
  <2> SUFFICES ASSUME NEW i \in DOMAIN mensajes, NEW n \in DOMAIN mensajes[i].suscriptos
               PROVE  mensajes'[i].suscriptos[n].ack = 1 <=>
                        \E e \in envios' : /\ e.pub = mensajes[i].pub
                                          /\ e.lista = mensajes[i].suscriptos[n].lista
                                          /\ e.num = mensajes[i].suscriptos[n].num
    BY <1>9, <1>10 DEF MarcadoConEnvio
  <2>1. CASE i \in Pendientes(c, u) /\ n \in EntradasDe(i, u)
    <3>1. de(i) \in envios' /\ mensajes'[i].suscriptos[n].ack = 1
      BY <1>10, <1>12, <2>1
    <3>2. mensajes[i].suscriptos[n].lista = c /\ mensajes[i].suscriptos[n].num = m
      BY <1>8, <2>1
    <3> QED
      BY <3>1, <3>2
  <2>2. CASE ~(i \in Pendientes(c, u) /\ n \in EntradasDe(i, u))
    <3>1. mensajes'[i].suscriptos[n] = mensajes[i].suscriptos[n]
      BY <1>10, <2>2
    <3>2. ASSUME NEW e \in envios', e.pub = mensajes[i].pub,
                 e.lista = mensajes[i].suscriptos[n].lista, e.num = mensajes[i].suscriptos[n].num
          PROVE  e \in envios
      <4>1. SUFFICES ASSUME e \notin envios PROVE FALSE
        OBVIOUS
      <4>2. PICK j \in Pendientes(c, u) : e = de(j)
        BY <1>11, <4>1
      <4>3. i = j
        BY <1>12, <3>2, <4>2 DEF IInv, MensajesGuardados
      <4>4. n \in EntradasDe(i, u)
        BY <1>8, <3>2, <4>2
      <4> QED
        BY <2>2, <4>3, <4>4
    <3>3. envios \subseteq envios'
      BY <1>6
    <3> QED
      BY <3>1, <3>2, <3>3 DEF IInv, MarcadoConEnvio
  <2> QED
    BY <2>1, <2>2
<1>21. UnaVezPorEntrada'
  <2> SUFFICES ASSUME NEW d \in envios', NEW e \in envios',
                      d.pub = e.pub, d.lista = e.lista, d.num = e.num
               PROVE  d = e
    BY DEF UnaVezPorEntrada
  <2>1. CASE d \in envios /\ e \in envios
    BY <2>1 DEF IInv, UnaVezPorEntrada
  <2>2. CASE d \notin envios /\ e \notin envios
    BY <1>11, <2>2
  <2>3. CASE d \in envios /\ e \notin envios
    BY <1>11, <1>19, <2>3
  <2>4. CASE d \notin envios /\ e \in envios
    BY <1>11, <1>19, <2>4
  <2> QED
    BY <2>1, <2>2, <2>3, <2>4
<1>22. Respondidas'
  BY <1>2 DEF IInv, Respondidas, Publicados
<1> QED
  BY <1>13, <1>14, <1>15, <1>16, <1>17, <1>18, <1>20, <1>21, <1>22 DEF IInv

LEMMA ConectarIInv ==
  ASSUME IInv, NEW proceso \in Procesos, NEW c \in Colas, Conectar(proceso, c)
  PROVE  IInv'
<1> DEFINE C == [proceso : Procesos, cola : Colas, viva : BOOLEAN, completa : BOOLEAN, suscripta : BOOLEAN]
           x == [proceso |-> proceso, cola |-> c, viva |-> TRUE, completa |-> FALSE, suscripta |-> FALSE]
<1>1. x \in C /\ conexiones \in Seq(C) /\ conexiones' = Append(conexiones, x)
  BY DEF IInv, TypeOK, Conectar
<1>2. conexiones' \in Seq(C)
  <2> HIDE DEF x, C
  <2> QED
    BY <1>1, AppendProperties
<1>3. UNCHANGED <<publicaciones, idCorrelativo, nodo, lector, mensajes, suscriptores, envios, caido>>
  BY DEF Conectar
<1>4. TypeOK'
  BY <1>2, <1>3 DEF IInv, TypeOK
<1>5. Respondidas'
  BY <1>3 DEF IInv, Respondidas, Publicados
<1> QED
  BY <1>3, <1>4, <1>5, SoloAvanza DEF Publicados

(* A connection that ends keeps everything but its being alive. *)
LEMMA Desconectada ==
  ASSUME TypeOK, NEW s \in Sockets, Desconectar(s)
  PROVE  /\ conexiones' \in Seq([proceso : Procesos, cola : Colas, viva : BOOLEAN, completa : BOOLEAN, suscripta : BOOLEAN])
         /\ Sockets' = Sockets
         /\ \A t \in Sockets : /\ conexiones'[t].proceso = conexiones[t].proceso
                               /\ conexiones'[t].cola = conexiones[t].cola
                               /\ conexiones'[t].suscripta = conexiones[t].suscripta
                               /\ conexiones'[t].viva => conexiones[t].viva
<1> DEFINE C == [proceso : Procesos, cola : Colas, viva : BOOLEAN, completa : BOOLEAN, suscripta : BOOLEAN]
           x == [conexiones[s] EXCEPT !.viva = FALSE]
<1>1. /\ conexiones \in Seq(C) /\ Sockets = 1..Len(conexiones) /\ s \in 1..Len(conexiones)
      /\ conexiones[s] \in C
  BY LenProperties, ElementOfSeq DEF TypeOK, Sockets
<1>2. x \in C /\ x.proceso = conexiones[s].proceso /\ x.cola = conexiones[s].cola
      /\ x.viva = FALSE /\ x.suscripta = conexiones[s].suscripta
  BY <1>1
<1>3. conexiones' = [conexiones EXCEPT ![s] = x]
  BY DEF Desconectar
<1>4. conexiones' \in Seq(C)
  BY <1>1, <1>2, <1>3, ExceptSeq
<1>5. Sockets' = Sockets /\ conexiones'[s] = x /\ \A t \in Sockets : t # s => conexiones'[t] = conexiones[t]
  BY <1>1, <1>3 DEF Sockets
<1>6. ASSUME NEW t \in Sockets
      PROVE  /\ conexiones'[t].proceso = conexiones[t].proceso
             /\ conexiones'[t].cola = conexiones[t].cola
             /\ conexiones'[t].suscripta = conexiones[t].suscripta
             /\ conexiones'[t].viva => conexiones[t].viva
  <2>1. CASE t = s
    BY <1>2, <1>5, <2>1
  <2>2. CASE t # s
    BY <1>5, <2>2
  <2> QED
    BY <2>1, <2>2
<1> HIDE DEF x
<1> QED
  BY <1>4, <1>5, <1>6

LEMMA Llegada ==
  ASSUME TypeOK, NEW s \in Sockets, LlegaPedido(s)
  PROVE  /\ conexiones' \in Seq([proceso : Procesos, cola : Colas, viva : BOOLEAN, completa : BOOLEAN, suscripta : BOOLEAN])
         /\ Sockets' = Sockets
         /\ \A t \in Sockets : /\ conexiones'[t].proceso = conexiones[t].proceso
                               /\ conexiones'[t].cola = conexiones[t].cola
                               /\ conexiones'[t].suscripta = conexiones[t].suscripta
                               /\ conexiones'[t].viva = conexiones[t].viva
<1> DEFINE C == [proceso : Procesos, cola : Colas, viva : BOOLEAN, completa : BOOLEAN, suscripta : BOOLEAN]
           x == [conexiones[s] EXCEPT !.completa = TRUE]
<1>1. /\ conexiones \in Seq(C) /\ Sockets = 1..Len(conexiones) /\ s \in 1..Len(conexiones)
      /\ conexiones[s] \in C
  BY LenProperties, ElementOfSeq DEF TypeOK, Sockets
<1>2. x \in C /\ x.proceso = conexiones[s].proceso /\ x.cola = conexiones[s].cola
      /\ x.viva = conexiones[s].viva /\ x.suscripta = conexiones[s].suscripta
  BY <1>1
<1>3. conexiones' = [conexiones EXCEPT ![s] = x]
  BY DEF LlegaPedido
<1>4. conexiones' \in Seq(C)
  BY <1>1, <1>2, <1>3, ExceptSeq
<1>5. Sockets' = Sockets /\ conexiones'[s] = x /\ \A t \in Sockets : t # s => conexiones'[t] = conexiones[t]
  BY <1>1, <1>3 DEF Sockets
<1> HIDE DEF x
<1> QED
  BY <1>2, <1>4, <1>5

LEMMA DesconectarIInv ==
  ASSUME IInv, NEW s \in Sockets, Desconectar(s)
  PROVE  IInv'
<1>1. UNCHANGED <<publicaciones, idCorrelativo, nodo, lector, mensajes, suscriptores, envios, caido>>
  BY DEF Desconectar
<1>2. TypeOK'
  BY <1>1, Desconectada DEF IInv, TypeOK
<1>3. Respondidas'
  BY <1>1 DEF IInv, Respondidas, Publicados
<1> QED
  BY <1>1, <1>2, <1>3, SoloAvanza DEF Publicados

LEMMA LlegaPedidoIInv ==
  ASSUME IInv, NEW s \in Sockets, LlegaPedido(s)
  PROVE  IInv'
<1>1. UNCHANGED <<publicaciones, idCorrelativo, nodo, lector, mensajes, suscriptores, envios, caido>>
  BY DEF LlegaPedido
<1>2. TypeOK'
  BY <1>1, Llegada DEF IInv, TypeOK
<1>3. Respondidas'
  BY <1>1 DEF IInv, Respondidas, Publicados
<1> QED
  BY <1>1, <1>2, <1>3, SoloAvanza DEF Publicados

LEMMA TomarMutexIInv ==
  ASSUME IInv, NEW s \in Sockets, TomarMutex(s)
  PROVE  IInv'
<1>1. UNCHANGED <<publicaciones, idCorrelativo, nodo, mensajes, suscriptores, conexiones,
                  envios, caido>>
      /\ lector' = s
  BY DEF TomarMutex
<1>2. s \in Nat
  BY Listas DEF IInv
<1>3. TypeOK'
  BY <1>1, <1>2 DEF IInv, TypeOK
<1>4. Respondidas'
  BY <1>1 DEF IInv, Respondidas, Publicados
<1> QED
  BY <1>1, <1>3, <1>4, SoloAvanza DEF Publicados

LEMMA SuscribirCaeIInv ==
  ASSUME IInv, NEW s \in Sockets, SuscribirCae(s) \/ LeerDeNadie(s)
  PROVE  IInv'
<1>1. UNCHANGED <<publicaciones, idCorrelativo, nodo, lector, mensajes, suscriptores, conexiones, envios>>
      /\ caido' = TRUE
  BY DEF SuscribirCae, LeerDeNadie
<1>2. TypeOK'
  BY <1>1 DEF IInv, TypeOK
<1>3. Respondidas'
  BY <1>1 DEF IInv, Respondidas, Publicados
<1> QED
  BY <1>1, <1>2, <1>3, SoloAvanza DEF Publicados

LEMMA PasoIInv == IInv /\ MutexDeUno /\ [Next]_vars => IInv'
<1> SUFFICES ASSUME IInv, MutexDeUno, [Next]_vars PROVE IInv'
  OBVIOUS
<1>1. ASSUME NEW c \in Colas, Publicar(c) PROVE IInv'
  BY <1>1, PublicarIInv
<1>2. ASSUME NEW p \in Publicados, AtenderMensaje(p) PROVE IInv'
  <2>1. CASE Responder(p)
    BY <2>1, ResponderIInv
  <2>2. CASE ResponderFalla(p)
    BY <2>2, ResponderFallaIInv
  <2>3. CASE ArmarNodo(p)
    BY <2>3, ArmarNodoIInv
  <2>4. CASE EnviarASuscriptos(p)
    BY <2>4, EnviarASuscriptosIInv
  <2> QED
    BY <1>2, <2>1, <2>2, <2>3, <2>4 DEF AtenderMensaje
<1>3. ASSUME NEW e \in envios, EnviarYConfirmar(e) PROVE IInv'
  BY <1>3, EnviarYConfirmarIInv
<1>4. ASSUME NEW proceso \in Procesos, NEW c \in Colas, Conectar(proceso, c) PROVE IInv'
  BY <1>4, ConectarIInv
<1>5. ASSUME NEW s \in Sockets, LlegaPedido(s) \/ Desconectar(s) PROVE IInv'
  BY <1>5, LlegaPedidoIInv, DesconectarIInv
<1>6. ASSUME NEW s \in Sockets, AtenderSuscripcion(s) PROVE IInv'
  <2>1. CASE SuscribirPrimeraVez(s)
    BY <2>1, SuscribirPrimeraVezIInv
  <2>2. CASE Resuscribir(s)
    BY <2>2, ResuscribirIInv
  <2>3. CASE SuscribirCae(s) \/ LeerDeNadie(s)
    BY <2>3, SuscribirCaeIInv
  <2>4. CASE TomarMutex(s)
    BY <2>4, TomarMutexIInv
  <2> QED
    BY <1>6, <2>1, <2>2, <2>3, <2>4 DEF AtenderSuscripcion
<1>7. CASE UNCHANGED vars
  <2>1. UNCHANGED <<publicaciones, idCorrelativo, nodo, lector, mensajes, suscriptores, conexiones,
                    envios, caido>>
    BY <1>7 DEF vars
  <2>2. TypeOK' /\ Respondidas'
    BY <2>1 DEF IInv, TypeOK, Respondidas, Publicados
  <2> QED
    BY <2>1, <2>2, SoloAvanza DEF Publicados
<1> QED
  BY <1>1, <1>2, <1>3, <1>4, <1>5, <1>6, <1>7 DEF Next

LEMMA PasoMutexDeUno == IInv /\ MutexDeUno /\ [Next]_vars => MutexDeUno'
<1> SUFFICES ASSUME IInv, MutexDeUno, [Next]_vars PROVE MutexDeUno'
  OBVIOUS
<1>1. ASSUME UNCHANGED <<nodo, lector, conexiones>> PROVE MutexDeUno'
  BY <1>1 DEF MutexDeUno, Sockets
<1>2. ASSUME NEW c \in Colas, Publicar(c) PROVE MutexDeUno'
  BY <1>1, <1>2 DEF Publicar
<1>3. ASSUME NEW p \in Publicados, AtenderMensaje(p) PROVE MutexDeUno'
  <2>1. CASE Responder(p) \/ ResponderFalla(p)
    BY <1>1, <2>1 DEF Responder, ResponderFalla
  <2>2. CASE ArmarNodo(p)
    BY <2>2 DEF ArmarNodo, MutexLibre, MutexDeUno
  <2>3. CASE EnviarASuscriptos(p)
    BY <2>3 DEF EnviarASuscriptos, MutexDeUno
  <2> QED
    BY <1>3, <2>1, <2>2, <2>3 DEF AtenderMensaje
<1>4. ASSUME NEW e \in envios, EnviarYConfirmar(e) PROVE MutexDeUno'
  BY <1>1, <1>4 DEF EnviarYConfirmar
<1>5. ASSUME NEW proceso \in Procesos, NEW c \in Colas, Conectar(proceso, c) PROVE MutexDeUno'
  <2> DEFINE C == [proceso : Procesos, cola : Colas, viva : BOOLEAN, completa : BOOLEAN, suscripta : BOOLEAN]
             x == [proceso |-> proceso, cola |-> c, viva |-> TRUE, completa |-> FALSE, suscripta |-> FALSE]
  <2>1. x \in C /\ conexiones \in Seq(C) /\ conexiones' = Append(conexiones, x)
        /\ UNCHANGED <<nodo, lector>>
    BY <1>5 DEF IInv, TypeOK, Conectar
  <2>2. /\ Sockets \subseteq Sockets'
        /\ \A s \in Sockets : conexiones'[s] = conexiones[s]
    <3> HIDE DEF x, C
    <3> QED
      BY <2>1, AppendProperties, LenProperties DEF Sockets
  <2> QED
    BY <2>1, <2>2 DEF MutexDeUno
<1>6. ASSUME NEW s \in Sockets, LlegaPedido(s) \/ Desconectar(s) PROVE MutexDeUno'
  <2>1. /\ Sockets' = Sockets /\ UNCHANGED <<nodo, lector>>
        /\ \A t \in Sockets : conexiones'[t].suscripta = conexiones[t].suscripta
    BY <1>6, Llegada, Desconectada DEF IInv, LlegaPedido, Desconectar
  <2> QED
    BY <2>1 DEF MutexDeUno
<1>7. ASSUME NEW s \in Sockets, AtenderSuscripcion(s) PROVE MutexDeUno'
  <2>1. CASE TomarMutex(s)
    BY <2>1 DEF TomarMutex, MutexLibre, MutexDeUno, Sockets
  <2>2. CASE SuscribirPrimeraVez(s) \/ Resuscribir(s)
    BY <2>2 DEF SuscribirPrimeraVez, Resuscribir, MutexDeUno
  <2>3. CASE SuscribirCae(s) \/ LeerDeNadie(s)
    BY <1>1, <2>3 DEF SuscribirCae, LeerDeNadie
  <2> QED
    BY <1>7, <2>1, <2>2, <2>3 DEF AtenderSuscripcion
<1>8. CASE UNCHANGED vars
  BY <1>1, <1>8 DEF vars
<1> QED
  BY <1>2, <1>3, <1>4, <1>5, <1>6, <1>7, <1>8 DEF Next

LEMMA SiempreIInv == Spec => [](IInv /\ MutexDeUno)
<1>1. Init => MutexDeUno
  BY DEF Init, MutexDeUno
<1> QED
  BY <1>1, InicioIInv, PasoIInv, PasoMutexDeUno, PTL DEF Spec

(* The state of the Broker's queues keeps its types. *)
THEOREM TiposDeColas == Spec => []TypeOK
<1>1. IInv => TypeOK
  BY DEF IInv
<1> QED
  BY <1>1, SiempreIInv, PTL

(* Whatever the order of subscriptions and messages, a message in MENSAJES *)
(* has exactly one entry for each subscriber of its queue.                 *)
THEOREM UnaEntradaPorSuscriptor == Spec => []EntradaPorSuscriptor
<1>1. ASSUME IInv PROVE EntradaPorSuscriptor
  <2> SUFFICES ASSUME NEW i \in DOMAIN mensajes, ColaReenviada(mensajes[i].cola) = mensajes[i].cola,
                      NEW n \in DOMAIN suscriptores[mensajes[i].cola]
               PROVE  Cardinality(EntradasDe(i, Suscripto(mensajes[i].cola, n))) = 1
    BY DEF EntradaPorSuscriptor
  <2> DEFINE E == EntradasDe(i, Suscripto(mensajes[i].cola, n))
  <2>1. E # {}
    BY <1>1 DEF IInv, EntradaPresente
  <2>2. \A k, m \in E : k = m
    BY <1>1 DEF IInv, EntradasDistintas, EntradasDe
  <2>3. \E k : E = {k}
    <3> HIDE DEF E
    <3>1. PICK k : k \in E
      BY <2>1
    <3> QED
      BY <2>2, <3>1
  <2> QED
    BY <2>3, FS_Singleton
<1> QED
  BY <1>1, SiempreIInv, PTL

(* No entry of MENSAJES is marked for a subscriber without a thread that   *)
(* sends it that message.                                                  *)
THEOREM MarcasConSuEnvio == Spec => []MarcadoConEnvio
<1>1. IInv => MarcadoConEnvio
  BY DEF IInv
<1> QED
  BY <1>1, SiempreIInv, PTL

(* The sender of a GET or a CATCH knows its id before any subscriber is    *)
(* sent the message.                                                       *)
THEOREM RespondeAntesDeEnviar == Spec => []RespuestaPrimero
<1>1. IInv => RespuestaPrimero
  BY DEF IInv, MensajesGuardados, Respondidas, RespuestaPrimero
<1> QED
  BY <1>1, SiempreIInv, PTL

-----------------------------------------------------------------------------
(* Without Game Boys, LOCALIZED subscribers nor clients that vanish, the   *)
(* two NULL pointers, SIGPIPE and the request that ends are out of reach.  *)
PedidosEnteros == \A s \in Sockets : conexiones[s].viva \/ conexiones[s].completa

LEMMA PasoPedidosEnteros ==
  ASSUME EmisorCae = FALSE, IInv, PedidosEnteros, [Next]_vars
  PROVE  PedidosEnteros'
<1> DEFINE C == [proceso : Procesos, cola : Colas, viva : BOOLEAN, completa : BOOLEAN, suscripta : BOOLEAN]
<1>1. conexiones \in Seq(C) /\ Sockets = 1..Len(conexiones) /\ \A s \in Sockets : conexiones[s] \in C
  BY LenProperties, ElementOfSeq DEF IInv, TypeOK, Sockets
<1>2. ASSUME UNCHANGED conexiones PROVE PedidosEnteros'
  BY <1>2 DEF PedidosEnteros, Sockets
<1>3. ASSUME NEW proceso \in Procesos, NEW c \in Colas, Conectar(proceso, c) PROVE PedidosEnteros'
  <2> DEFINE x == [proceso |-> proceso, cola |-> c, viva |-> TRUE, completa |-> FALSE, suscripta |-> FALSE]
  <2>1. x \in C /\ x.viva = TRUE /\ conexiones' = Append(conexiones, x)
    BY <1>3 DEF Conectar
  <2>2. /\ Sockets' = 1..(Len(conexiones) + 1) /\ Len(conexiones) \in Nat
        /\ \A s \in Sockets : conexiones'[s] = conexiones[s]
        /\ conexiones'[Len(conexiones) + 1] = x
    <3> HIDE DEF x, C
    <3> QED
      BY <1>1, <2>1, AppendProperties, LenProperties DEF Sockets
  <2> QED
    BY <1>1, <2>1, <2>2 DEF PedidosEnteros
<1>4. ASSUME NEW s \in Sockets, LlegaPedido(s) PROVE PedidosEnteros'
  <2>1. conexiones' = [conexiones EXCEPT ![s] = [conexiones[s] EXCEPT !.completa = TRUE]]
    BY <1>4 DEF LlegaPedido
  <2> QED
    BY <1>1, <2>1 DEF PedidosEnteros, Sockets
<1>5. ASSUME NEW s \in Sockets, Desconectar(s) PROVE PedidosEnteros'
  <2>1. conexiones' = [conexiones EXCEPT ![s] = [conexiones[s] EXCEPT !.viva = FALSE]]
        /\ conexiones[s].completa
    BY <1>5 DEF Desconectar
  <2> QED
    BY <1>1, <2>1 DEF PedidosEnteros, Sockets
<1>6. ASSUME NEW s \in Sockets, SuscribirPrimeraVez(s) \/ Resuscribir(s) PROVE PedidosEnteros'
  <2>1. conexiones' = [conexiones EXCEPT ![s] = [conexiones[s] EXCEPT !.suscripta = TRUE]]
    BY <1>6 DEF SuscribirPrimeraVez, Resuscribir
  <2> QED
    BY <1>1, <2>1 DEF PedidosEnteros, Sockets
<1> QED
  BY <1>2, <1>3, <1>4, <1>5, <1>6 DEF Next, vars, AtenderMensaje, AtenderSuscripcion, Publicar,
     Responder, ResponderFalla, ArmarNodo, EnviarASuscriptos, EnviarYConfirmar, TomarMutex,
     SuscribirCae, LeerDeNadie

LEMMA PasoSinCaida ==
  ASSUME SinIp = {}, "LOCALIZED_POKEMON" \notin Colas, EmisorCae = FALSE,
         IInv, PedidosEnteros, SinCaida, [Next]_vars
  PROVE  SinCaida'
<1>1. ASSUME NEW p \in Publicados, ResponderFalla(p) PROVE FALSE
  BY <1>1 DEF ResponderFalla
<1>2. ASSUME NEW s \in Sockets, SuscribirCae(s) PROVE FALSE
  <2> DEFINE c == conexiones[s].cola
  <2>1. c \in Colas
    <3>1. conexiones \in Seq([proceso : Procesos, cola : Colas, viva : BOOLEAN, completa : BOOLEAN, suscripta : BOOLEAN])
          /\ s \in 1..Len(conexiones)
      BY LenProperties DEF IInv, TypeOK, Sockets
    <3>2. conexiones[s] \in [proceso : Procesos, cola : Colas, viva : BOOLEAN, completa : BOOLEAN, suscripta : BOOLEAN]
      BY <3>1, ElementOfSeq
    <3> QED
      BY <3>2
  <2>2. ColaReenviada(c) = c
    BY <2>1 DEF ColaReenviada
  <2>3. ~ComparaNulo(c, conexiones[s].proceso)
    BY DEF ComparaNulo
  <2>4. PICK m \in Coincide(c, conexiones[s].proceso), i \in Reenviables(c) :
          EntradasDe(i, Suscripto(c, m)) = {}
    BY <1>2, <2>3 DEF SuscribirCae
  <2>5. i \in DOMAIN mensajes /\ mensajes[i].cola = c /\ m \in DOMAIN suscriptores[c]
    BY <2>2 DEF Reenviables, Coincide
  <2> QED
    BY <2>2, <2>4, <2>5 DEF IInv, EntradaPresente
<1>3. ~caido
  BY DEF SinCaida
<1>4. ASSUME NEW s \in Sockets, LeerDeNadie(s) PROVE FALSE
  BY <1>4 DEF LeerDeNadie, PedidosEnteros
<1> QED
  BY <1>1, <1>2, <1>3, <1>4 DEF SinCaida, Next, vars, AtenderMensaje, AtenderSuscripcion, Publicar,
     Responder, ArmarNodo, EnviarASuscriptos, EnviarYConfirmar, Conectar, LlegaPedido, Desconectar,
     TomarMutex, SuscribirPrimeraVez, Resuscribir

(* The Broker does not die while every subscriber sends its ip, nobody     *)
(* subscribes to LOCALIZED_POKEMON and no client goes away in the middle   *)
(* of its request.                                                         *)
THEOREM NoSeCae ==
  ASSUME SinIp = {}, "LOCALIZED_POKEMON" \notin Colas, EmisorCae = FALSE
  PROVE  Spec => []SinCaida
<1>1. Init => SinCaida /\ PedidosEnteros
  BY DEF Init, SinCaida, PedidosEnteros, Sockets
<1>2. IInv /\ PedidosEnteros /\ SinCaida /\ [Next]_vars => SinCaida'
  BY PasoSinCaida
<1>3. IInv /\ PedidosEnteros /\ [Next]_vars => PedidosEnteros'
  BY PasoPedidosEnteros
<1> QED
  BY <1>1, <1>2, <1>3, SiempreIInv, PTL DEF Spec

-----------------------------------------------------------------------------
(* What the subscription of s leaves: an entry, number m of its queue, with*)
(* its process and its socket, and threads for that entry and socket.      *)
CambioDe(s, m) ==
  LET c == conexiones[s].cola IN
  /\ ~conexiones[s].suscripta
  /\ conexiones' = [conexiones EXCEPT ![s].suscripta = TRUE]
  /\ m \in DOMAIN suscriptores'[c]
  /\ suscriptores'[c][m].socket = s
  /\ suscriptores'[c][m].proceso = conexiones[s].proceso
  /\ IF m \in DOMAIN suscriptores[c]
     THEN suscriptores[c][m].proceso = conexiones[s].proceso
     ELSE \A n \in DOMAIN suscriptores[c] :
            conexiones[s].proceso \notin SinIp =>
              suscriptores[c][n].proceso # conexiones[s].proceso
  /\ \A d \in Colas :
       /\ DOMAIN suscriptores[d] \subseteq DOMAIN suscriptores'[d]
       /\ \A n \in DOMAIN suscriptores'[d] :
            ~(d = c /\ n = m) => /\ n \in DOMAIN suscriptores[d]
                                 /\ suscriptores'[d][n] = suscriptores[d][n]
  /\ \A e \in envios' \ envios :
       /\ e.socket = s /\ e.lista = c /\ e.num = m
       /\ \E i \in Reenviables(c) : e.pub = mensajes[i].pub

LEMMA AltaDe ==
  ASSUME IInv, MutexDeUno, NEW s \in Sockets, SuscribirPrimeraVez(s)
  PROVE  \E m : CambioDe(s, m)
<1> DEFINE c == conexiones[s].cola
           P == [proceso : Procesos, socket : Nat]
           x == [proceso |-> conexiones[s].proceso, socket |-> s]
           m == Len(suscriptores[c]) + 1
<1>1. conexiones' = [conexiones EXCEPT ![s].suscripta = TRUE] /\ ~conexiones[s].suscripta
  <2>1. lector = s /\ s # 0
    BY Listas DEF SuscribirPrimeraVez, Suscribiendo, IInv
  <2> QED
    BY <2>1 DEF SuscribirPrimeraVez, MutexDeUno
<1>2. c \in Colas /\ conexiones[s].proceso \in Procesos
  BY <1>1, Suscripta
<1>3. suscriptores' = [suscriptores EXCEPT ![c] = Append(suscriptores[c], x)]
  BY DEF SuscribirPrimeraVez
<1>4. s \in Nat /\ suscriptores[c] \in Seq(P) /\ x \in P
  <2>1. s \in Nat
    BY Listas DEF IInv
  <2>2. suscriptores[c] \in Seq(P)
    BY <1>2, Listas DEF IInv
  <2> QED
    BY <1>2, <2>1, <2>2
<1>5. /\ suscriptores'[c] = Append(suscriptores[c], x)
      /\ \A d \in Colas : d # c => suscriptores'[d] = suscriptores[d]
  BY <1>2, <1>3 DEF IInv, TypeOK
<1>6. /\ Len(suscriptores[c]) \in Nat /\ DOMAIN suscriptores[c] = 1..Len(suscriptores[c])
      /\ DOMAIN suscriptores'[c] = 1..m
      /\ \A n \in DOMAIN suscriptores[c] : suscriptores'[c][n] = suscriptores[c][n]
      /\ suscriptores'[c][m] = x
  <2> HIDE DEF x, P, c
  <2> QED
    BY <1>4, <1>5, AppendProperties, LenProperties
<1>7. m \in DOMAIN suscriptores'[c] /\ m \notin DOMAIN suscriptores[c]
  BY <1>6
<1>8. suscriptores'[c][m].socket = s /\ suscriptores'[c][m].proceso = conexiones[s].proceso
  BY <1>6
<1>9. ASSUME NEW d \in Colas
      PROVE  /\ DOMAIN suscriptores[d] \subseteq DOMAIN suscriptores'[d]
             /\ \A n \in DOMAIN suscriptores'[d] :
                  ~(d = c /\ n = m) => /\ n \in DOMAIN suscriptores[d]
                                       /\ suscriptores'[d][n] = suscriptores[d][n]
  <2>1. CASE d = c
    BY <1>6, <2>1
  <2>2. CASE d # c
    BY <1>5, <2>2
  <2> QED
    BY <2>1, <2>2
<1>10. ASSUME NEW e \in envios' \ envios
       PROVE  e.socket = s /\ e.lista = c /\ e.num = m /\ \E i \in Reenviables(c) : e.pub = mensajes[i].pub
  <2> DEFINE nuevo == [Suscripto(c, m) EXCEPT !.ack = 1]
  <2>1. nuevo.lista = c /\ nuevo.num = m
    BY DEF Suscripto
  <2>2. envios' = envios \cup {Envio(mensajes[i].pub, nuevo, s) : i \in Reenviables(c)}
    BY DEF SuscribirPrimeraVez
  <2> HIDE DEF nuevo
  <2>3. PICK i \in Reenviables(c) : e = Envio(mensajes[i].pub, nuevo, s)
    BY <2>2
  <2> QED
    BY <2>1, <2>3 DEF Envio
<1>11. \A n \in DOMAIN suscriptores[c] :
         conexiones[s].proceso \notin SinIp => suscriptores[c][n].proceso # conexiones[s].proceso
  BY DEF SuscribirPrimeraVez, Coincide
<1> HIDE DEF m
<1> QED
  BY <1>1, <1>7, <1>8, <1>9, <1>10, <1>11 DEF CambioDe

LEMMA VueltaDe ==
  ASSUME IInv, MutexDeUno, NEW s \in Sockets, Resuscribir(s)
  PROVE  \E m : CambioDe(s, m)
<1> DEFINE c == conexiones[s].cola
           P == [proceso : Procesos, socket : Nat]
<1>1. PICK m \in Coincide(c, conexiones[s].proceso) :
        /\ DarSocket(c, m, s)
        /\ envios' = envios \cup {Envio(mensajes[i].pub, Suscripto(c, m), s) : i \in Pendientes(c, Suscripto(c, m))}
  BY DEF Resuscribir
<1>2. conexiones' = [conexiones EXCEPT ![s].suscripta = TRUE] /\ ~conexiones[s].suscripta
  <2>1. lector = s /\ s # 0
    BY Listas DEF Resuscribir, Suscribiendo, IInv
  <2> QED
    BY <2>1 DEF Resuscribir, MutexDeUno
<1>3. c \in Colas
  BY <1>2, Suscripta
<1>4. m \in DOMAIN suscriptores[c] /\ suscriptores[c][m].proceso = conexiones[s].proceso
  BY <1>1 DEF Coincide
<1>5. suscriptores' = [suscriptores EXCEPT ![c] =
         [suscriptores[c] EXCEPT ![m] = [suscriptores[c][m] EXCEPT !.socket = s]]]
  BY <1>1 DEF DarSocket
<1>6. suscriptores'[c] = [suscriptores[c] EXCEPT ![m] = [suscriptores[c][m] EXCEPT !.socket = s]]
      /\ \A d \in Colas : d # c => suscriptores'[d] = suscriptores[d]
  BY <1>3, <1>5 DEF IInv, TypeOK
<1>7. suscriptores[c][m] \in P
  <2>1. suscriptores[c] \in Seq(P) /\ m \in 1..Len(suscriptores[c])
    BY <1>3, <1>4, Listas DEF IInv
  <2> QED
    BY <2>1, ElementOfSeq
<1>8. /\ DOMAIN suscriptores'[c] = DOMAIN suscriptores[c]
      /\ \A n \in DOMAIN suscriptores[c] : n # m => suscriptores'[c][n] = suscriptores[c][n]
      /\ suscriptores'[c][m] = [suscriptores[c][m] EXCEPT !.socket = s]
  BY <1>4, <1>6
<1>9. suscriptores'[c][m].socket = s /\ suscriptores'[c][m].proceso = conexiones[s].proceso
  BY <1>4, <1>7, <1>8
<1>10. ASSUME NEW d \in Colas
       PROVE  /\ DOMAIN suscriptores[d] \subseteq DOMAIN suscriptores'[d]
              /\ \A n \in DOMAIN suscriptores'[d] :
                   ~(d = c /\ n = m) => /\ n \in DOMAIN suscriptores[d]
                                        /\ suscriptores'[d][n] = suscriptores[d][n]
  <2>1. CASE d = c
    BY <1>8, <2>1
  <2>2. CASE d # c
    BY <1>6, <2>2
  <2> QED
    BY <2>1, <2>2
<1>11. m \in DOMAIN suscriptores'[c]
  BY <1>4, <1>8
<1>12. ASSUME NEW e \in envios' \ envios
       PROVE  e.socket = s /\ e.lista = c /\ e.num = m /\ \E i \in Reenviables(c) : e.pub = mensajes[i].pub
  <2>1. PICK i \in Pendientes(c, Suscripto(c, m)) : e = Envio(mensajes[i].pub, Suscripto(c, m), s)
    BY <1>1
  <2> QED
    BY <2>1 DEF Envio, Suscripto, Pendientes
<1> QED
  BY <1>2, <1>4, <1>9, <1>10, <1>11, <1>12 DEF CambioDe

-----------------------------------------------------------------------------
(* Which socket the entry of a process has.                                *)

(* The socket of an entry is that of a subscription its process made. *)
SocketsDeSuscriptores ==
  \A c \in Colas : \A n \in DOMAIN suscriptores[c] :
    /\ suscriptores[c][n].socket \in Sockets
    /\ conexiones[suscriptores[c][n].socket].cola = c
    /\ conexiones[suscriptores[c][n].socket].proceso = suscriptores[c][n].proceso
    /\ conexiones[suscriptores[c][n].socket].suscripta

(* All but the last connection of a process to a queue are dead, and their *)
(* handlers have run.                                                      *)
SoloUltimaViva ==
  \A s, t \in Sockets :
    /\ s < t
    /\ conexiones[s].proceso = conexiones[t].proceso
    /\ conexiones[s].cola = conexiones[t].cola
    => ~conexiones[s].viva /\ conexiones[s].suscripta

SocketsIInv == SocketsDeSuscriptores /\ SoloUltimaViva /\ SocketVigente

LEMMA ConectarSocketsIInv ==
  ASSUME ReconexionPronta = FALSE, IInv, SocketsIInv,
         NEW proceso \in Procesos, NEW c \in Colas, Conectar(proceso, c)
  PROVE  SocketsIInv'
<1> DEFINE C == [proceso : Procesos, cola : Colas, viva : BOOLEAN, completa : BOOLEAN, suscripta : BOOLEAN]
           x == [proceso |-> proceso, cola |-> c, viva |-> TRUE, completa |-> FALSE, suscripta |-> FALSE]
           nueva == Len(conexiones) + 1
<1>1. x \in C /\ conexiones \in Seq(C) /\ conexiones' = Append(conexiones, x)
  BY DEF IInv, TypeOK, Conectar
<1>2. /\ Len(conexiones) \in Nat
      /\ Sockets = 1..Len(conexiones) /\ Sockets' = 1..nueva
      /\ \A s \in Sockets : conexiones'[s] = conexiones[s]
      /\ conexiones'[nueva] = x
  <2> HIDE DEF x, C
  <2> QED
    BY <1>1, AppendProperties, LenProperties DEF Sockets
<1>3. UNCHANGED suscriptores
  BY DEF Conectar
<1>4. \A s \in Sockets : conexiones[s].proceso = proceso /\ conexiones[s].cola = c =>
        ~conexiones[s].viva /\ conexiones[s].suscripta
  BY DEF Conectar
<1>5. SocketsDeSuscriptores'
  BY <1>2, <1>3 DEF SocketsIInv, SocketsDeSuscriptores
<1>6. SoloUltimaViva'
  <2> SUFFICES ASSUME NEW s \in Sockets', NEW t \in Sockets', s < t,
                      conexiones'[s].proceso = conexiones'[t].proceso,
                      conexiones'[s].cola = conexiones'[t].cola
               PROVE  ~conexiones'[s].viva /\ conexiones'[s].suscripta
    BY DEF SoloUltimaViva
  <2>1. s \in Sockets /\ conexiones'[s] = conexiones[s]
    BY <1>2
  <2>2. CASE t \in Sockets
    BY <1>2, <2>1, <2>2 DEF SocketsIInv, SoloUltimaViva
  <2>3. CASE t = nueva
    BY <1>2, <1>4, <2>1, <2>3
  <2> QED
    BY <1>2, <2>2, <2>3
<1>7. SocketVigente'
  <2> SUFFICES ASSUME NEW s \in Sockets', conexiones'[s].viva, conexiones'[s].suscripta
               PROVE  \E n \in DOMAIN suscriptores'[conexiones'[s].cola] :
                        suscriptores'[conexiones'[s].cola][n].socket = s
    BY DEF SocketVigente
  <2>1. s \in Sockets
    BY <1>2
  <2> QED
    BY <1>2, <1>3, <2>1 DEF SocketsIInv, SocketVigente
<1> QED
  BY <1>5, <1>6, <1>7 DEF SocketsIInv

LEMMA DesconectarSocketsIInv ==
  ASSUME IInv, SocketsIInv, NEW s \in Sockets, LlegaPedido(s) \/ Desconectar(s)
  PROVE  SocketsIInv'
<1>1. UNCHANGED suscriptores
  BY DEF LlegaPedido, Desconectar
<1>2. /\ Sockets' = Sockets
      /\ \A t \in Sockets : /\ conexiones'[t].proceso = conexiones[t].proceso
                            /\ conexiones'[t].cola = conexiones[t].cola
                            /\ conexiones'[t].suscripta = conexiones[t].suscripta
                            /\ conexiones'[t].viva => conexiones[t].viva
  BY Llegada, Desconectada DEF IInv
<1>3. SocketsDeSuscriptores'
  BY <1>1, <1>2 DEF SocketsIInv, SocketsDeSuscriptores
<1>4. SoloUltimaViva'
  BY <1>2 DEF SocketsIInv, SoloUltimaViva
<1>5. SocketVigente'
  BY <1>1, <1>2 DEF SocketsIInv, SocketVigente
<1> QED
  BY <1>3, <1>4, <1>5 DEF SocketsIInv

(* A subscription marks its connection and leaves the entry it made, or    *)
(* found, with its socket.                                                 *)
LEMMA SuscripcionSocketsIInv ==
  ASSUME IInv, SocketsIInv, NEW s \in Sockets, NEW m, CambioDe(s, m)
  PROVE  SocketsIInv'
<1> USE DEF CambioDe
<1>1. /\ Sockets' = Sockets
      /\ conexiones[s].cola \in Colas
      /\ \A t \in Sockets : /\ conexiones'[t].proceso = conexiones[t].proceso
                            /\ conexiones'[t].cola = conexiones[t].cola
                            /\ conexiones'[t].viva = conexiones[t].viva
                            /\ t # s => conexiones'[t].suscripta = conexiones[t].suscripta
      /\ conexiones'[s].suscripta
  BY Suscripta DEF CambioDe
<1>2. \A t \in Sockets : conexiones[t].suscripta => conexiones'[t].suscripta
  BY <1>1
<1>3. SocketsDeSuscriptores'
  <2> SUFFICES ASSUME NEW c \in Colas, NEW n \in DOMAIN suscriptores'[c]
               PROVE  LET t == suscriptores'[c][n].socket IN
                      /\ t \in Sockets /\ conexiones'[t].cola = c
                      /\ conexiones'[t].proceso = suscriptores'[c][n].proceso
                      /\ conexiones'[t].suscripta
    BY <1>1 DEF SocketsDeSuscriptores
  <2>1. CASE c = conexiones[s].cola /\ n = m
    BY <1>1, <2>1
  <2>2. CASE ~(c = conexiones[s].cola /\ n = m)
    <3>1. n \in DOMAIN suscriptores[c] /\ suscriptores'[c][n] = suscriptores[c][n]
      BY <2>2
    <3> QED
      BY <1>1, <1>2, <3>1 DEF SocketsIInv, SocketsDeSuscriptores
  <2> QED
    BY <2>1, <2>2
<1>4. SoloUltimaViva'
  BY <1>1, <1>2 DEF SocketsIInv, SoloUltimaViva
<1>5. SocketVigente'
  <2> HIDE DEF CambioDe
  <2> SUFFICES ASSUME NEW t \in Sockets, conexiones[t].viva, conexiones'[t].suscripta
               PROVE  \E n \in DOMAIN suscriptores'[conexiones[t].cola] :
                        suscriptores'[conexiones[t].cola][n].socket = t
    BY <1>1 DEF SocketVigente
  <2> USE DEF CambioDe
  <2>1. CASE t = s
    <3>1. m \in DOMAIN suscriptores'[conexiones[s].cola]
          /\ suscriptores'[conexiones[s].cola][m].socket = s
      OBVIOUS
    <3> HIDE DEF CambioDe
    <3> QED
      BY <2>1, <3>1
  <2>2. CASE t # s
    <3> DEFINE c == conexiones[t].cola
    <3>1. PICK n \in DOMAIN suscriptores[c] : suscriptores[c][n].socket = t
      BY <1>1, <2>2 DEF SocketsIInv, SocketVigente
    <3>2. c \in Colas /\ conexiones[t].suscripta
      <4>1. conexiones \in Seq([proceso : Procesos, cola : Colas, viva : BOOLEAN, completa : BOOLEAN, suscripta : BOOLEAN])
            /\ t \in 1..Len(conexiones)
        BY LenProperties DEF IInv, TypeOK, Sockets
      <4>2. conexiones[t] \in [proceso : Procesos, cola : Colas, viva : BOOLEAN, completa : BOOLEAN, suscripta : BOOLEAN]
        BY <4>1, ElementOfSeq
      <4> QED
        BY <1>1, <2>2, <4>2
    <3>3. ASSUME c = conexiones[s].cola, n = m PROVE FALSE
      <4>1. conexiones[t].proceso = conexiones[s].proceso
        BY <3>1, <3>2, <3>3 DEF SocketsIInv, SocketsDeSuscriptores
      <4>2. s \in Nat /\ t \in Nat
        BY Listas DEF IInv
      <4>3. CASE t < s
        BY <3>3, <4>1, <4>3 DEF SocketsIInv, SoloUltimaViva
      <4>4. CASE s < t
        BY <3>3, <4>1, <4>4 DEF SocketsIInv, SoloUltimaViva
      <4> QED
        BY <2>2, <4>2, <4>3, <4>4
    <3>4. n \in DOMAIN suscriptores'[c] /\ suscriptores'[c][n] = suscriptores[c][n]
      BY <3>1, <3>2, <3>3
    <3> QED
      BY <3>1, <3>4
  <2> QED
    BY <2>1, <2>2
<1> QED
  BY <1>3, <1>4, <1>5 DEF SocketsIInv

LEMMA PasoSocketsIInv ==
  ASSUME ReconexionPronta = FALSE, IInv, MutexDeUno, SocketsIInv, [Next]_vars
  PROVE  SocketsIInv'
<1>1. ASSUME UNCHANGED <<suscriptores, conexiones>> PROVE SocketsIInv'
  BY <1>1 DEF SocketsIInv, SocketsDeSuscriptores, SoloUltimaViva, SocketVigente, Sockets
<1>2. ASSUME NEW c \in Colas, Publicar(c) PROVE SocketsIInv'
  BY <1>1, <1>2 DEF Publicar
<1>3. ASSUME NEW p \in Publicados, AtenderMensaje(p) PROVE SocketsIInv'
  BY <1>1, <1>3 DEF AtenderMensaje, Responder, ResponderFalla, ArmarNodo, EnviarASuscriptos
<1>4. ASSUME NEW e \in envios, EnviarYConfirmar(e) PROVE SocketsIInv'
  BY <1>1, <1>4 DEF EnviarYConfirmar
<1>5. ASSUME NEW proceso \in Procesos, NEW c \in Colas, Conectar(proceso, c) PROVE SocketsIInv'
  BY <1>5, ConectarSocketsIInv
<1>6. ASSUME NEW s \in Sockets, LlegaPedido(s) \/ Desconectar(s) PROVE SocketsIInv'
  BY <1>6, DesconectarSocketsIInv
<1>7. ASSUME NEW s \in Sockets, SuscribirPrimeraVez(s) PROVE SocketsIInv'
  <2>1. PICK m : CambioDe(s, m)
    BY <1>7, AltaDe
  <2> QED
    BY <2>1, SuscripcionSocketsIInv
<1>8. ASSUME NEW s \in Sockets, Resuscribir(s) PROVE SocketsIInv'
  <2>1. PICK m : CambioDe(s, m)
    BY <1>8, VueltaDe
  <2> QED
    BY <2>1, SuscripcionSocketsIInv
<1>9. ASSUME NEW s \in Sockets, TomarMutex(s) \/ SuscribirCae(s) \/ LeerDeNadie(s) PROVE SocketsIInv'
  BY <1>1, <1>9 DEF TomarMutex, SuscribirCae, LeerDeNadie
<1>10. CASE UNCHANGED vars
  BY <1>1, <1>10 DEF vars
<1> QED
  BY <1>2, <1>3, <1>4, <1>5, <1>6, <1>7, <1>8, <1>9, <1>10 DEF Next, AtenderSuscripcion

(* While no process comes back before its old handler ran, a process that  *)
(* is connected and subscribed is sent the messages on its live socket.    *)
THEOREM SocketSiempreVigente ==
  ASSUME ReconexionPronta = FALSE
  PROVE  Spec => []SocketVigente
<1>1. Init => SocketsIInv
  BY DEF Init, SocketsIInv, SocketsDeSuscriptores, SoloUltimaViva, SocketVigente, Sockets
<1>2. IInv /\ MutexDeUno /\ SocketsIInv /\ [Next]_vars => SocketsIInv'
  BY PasoSocketsIInv
<1>3. SocketsIInv => SocketVigente
  BY DEF SocketsIInv
<1> QED
  BY <1>1, <1>2, <1>3, SiempreIInv, PTL DEF Spec

-----------------------------------------------------------------------------
(* Whose messages a thread sends.                                          *)

(* A node is of the queue its message came to. *)
ColasFieles ==
  /\ nodo # Nadie => nodo.cola = publicaciones[nodo.pub].cola
  /\ \A i \in DOMAIN mensajes : mensajes[i].cola = publicaciones[mensajes[i].pub].cola

(* The socket of an entry, and of a thread, is one of the entry's process; *)
(* a process with an ip has one entry per queue; and a thread sends the    *)
(* messages of the queue, or those the queue is sent again.                *)
Duenos ==
  /\ \A c \in Colas : \A n \in DOMAIN suscriptores[c] :
       /\ suscriptores[c][n].socket \in Sockets
       /\ conexiones[suscriptores[c][n].socket].proceso = suscriptores[c][n].proceso
  /\ \A c \in Colas : \A n, m \in DOMAIN suscriptores[c] :
       /\ suscriptores[c][n].proceso = suscriptores[c][m].proceso
       /\ suscriptores[c][n].proceso \notin SinIp
       => n = m
  /\ \A e \in envios :
       /\ e.socket \in Sockets
       /\ conexiones[e.socket].proceso = suscriptores[e.lista][e.num].proceso
       /\ publicaciones[e.pub].cola \in {e.lista, ColaReenviada(e.lista)}

LEMMA PasoColasFieles ==
  ASSUME IInv, MutexDeUno, ColasFieles, [Next]_vars
  PROVE  ColasFieles'
<1>1. ASSUME UNCHANGED <<nodo, mensajes>>, Publicados \subseteq Publicados',
             \A p \in Publicados : publicaciones'[p].cola = publicaciones[p].cola
      PROVE  ColasFieles'
  BY <1>1 DEF ColasFieles, IInv, MensajesGuardados, NodoAlDia
<1>2. ASSUME NEW p \in Publicados, NEW paso \in Pasos, Avanzar(p, paso)
      PROVE  Publicados' = Publicados /\ \A q \in Publicados : publicaciones'[q].cola = publicaciones[q].cola
  BY <1>2, PasoDe
<1>3. ASSUME NEW c \in Colas, Publicar(c) PROVE ColasFieles'
  <2> DEFINE P == [cola : Colas, id : Nat, respondida : BOOLEAN, paso : Pasos]
             x == [cola |-> c, id |-> IF c \in ConId THEN idCorrelativo ELSE 0, respondida |-> FALSE,
                   paso |-> IF c \in ConRespuesta THEN "responder" ELSE "guardar"]
  <2>1. x \in P /\ publicaciones \in Seq(P)
    BY DEF IInv, TypeOK, Pasos
  <2>2. publicaciones' = Append(publicaciones, x) /\ UNCHANGED <<nodo, mensajes>>
    BY <1>3 DEF Publicar
  <2>3. Publicados \subseteq Publicados' /\ \A p \in Publicados : publicaciones'[p] = publicaciones[p]
    <3> HIDE DEF x, P
    <3> QED
      BY <2>1, <2>2, AppendProperties, LenProperties DEF Publicados
  <2> QED
    BY <1>1, <2>2, <2>3
<1>4. ASSUME NEW p \in Publicados, Responder(p) PROVE ColasFieles'
  <2>1. publicaciones[p] \in [cola : Colas, id : Nat, respondida : BOOLEAN, paso : Pasos]
    BY LenProperties, ElementOfSeq DEF IInv, TypeOK, Publicados
  <2>2. publicaciones' = [publicaciones EXCEPT ![p] =
           [publicaciones[p] EXCEPT !.paso = "guardar", !.respondida = TRUE]]
    BY <1>4 DEF Responder
  <2>3. \A q \in Publicados : publicaciones'[q].cola = publicaciones[q].cola
    BY <2>1, <2>2 DEF Publicados
  <2> QED
    BY <1>1, <1>4, <2>2, <2>3 DEF Responder, Publicados
<1>5. ASSUME NEW p \in Publicados, ResponderFalla(p) PROVE ColasFieles'
  <2>1. Avanzar(p, "abandonada") /\ "abandonada" \in Pasos /\ UNCHANGED <<nodo, mensajes>>
    BY <1>5 DEF ResponderFalla, Pasos
  <2> QED
    BY <1>1, <1>2, <2>1
<1>6. ASSUME NEW p \in Publicados, ArmarNodo(p) PROVE ColasFieles'
  <2>1. Avanzar(p, "enviar") /\ "enviar" \in Pasos
    BY <1>6 DEF ArmarNodo, Pasos
  <2>2. Publicados' = Publicados /\ \A q \in Publicados : publicaciones'[q].cola = publicaciones[q].cola
    BY <1>2, <2>1
  <2>3. nodo'.pub = p /\ nodo'.cola = publicaciones[p].cola
    BY <1>6 DEF ArmarNodo
  <2>4. PICK k \in 0..Len(mensajes) : mensajes' = SubSeq(mensajes, k + 1, Len(mensajes))
    BY <1>6 DEF ArmarNodo
  <2>5. \A i \in DOMAIN mensajes' : i + k \in DOMAIN mensajes /\ mensajes'[i] = mensajes[i + k]
    BY <2>4, Recorte DEF SinPrimeros
  <2>6. \A i \in DOMAIN mensajes : mensajes[i].pub \in Publicados
    BY DEF IInv, MensajesGuardados
  <2>7. ASSUME NEW i \in DOMAIN mensajes'
        PROVE  mensajes'[i].cola = publicaciones'[mensajes'[i].pub].cola
    <3>1. i + k \in DOMAIN mensajes /\ mensajes'[i] = mensajes[i + k]
      BY <2>5
    <3>2. mensajes[i + k].cola = publicaciones[mensajes[i + k].pub].cola
      BY <3>1 DEF ColasFieles
    <3> QED
      BY <2>2, <2>6, <3>1, <3>2
  <2> QED
    BY <2>2, <2>3, <2>7 DEF ColasFieles
<1>7. ASSUME NEW p \in Publicados, EnviarASuscriptos(p) PROVE ColasFieles'
  <2>1. Avanzar(p, "guardada") /\ "guardada" \in Pasos /\ nodo' = Nadie /\ nodo # Nadie /\ nodo.pub = p
    BY <1>7 DEF EnviarASuscriptos, LiberarMutex, Pasos
  <2>2. Publicados' = Publicados /\ \A q \in Publicados : publicaciones'[q].cola = publicaciones[q].cola
    BY <1>2, <2>1
  <2>3. ASSUME NEW i \in DOMAIN mensajes'
        PROVE  \/ i \in DOMAIN mensajes /\ mensajes'[i] = mensajes[i]
               \/ mensajes'[i].pub = p /\ mensajes'[i].cola = nodo.cola
    <3> DEFINE marcado == [nodo EXCEPT !.suscriptos =
                  [n \in DOMAIN nodo.suscriptos |-> [nodo.suscriptos[n] EXCEPT !.ack = 1]]]
    <3>1. nodo \in Nodo /\ nodo.suscriptos \in Seq(Entrada)
      BY <2>1 DEF IInv, TypeOK, Nodo
    <3>2. marcado.pub = p /\ marcado.cola = nodo.cola
      BY <2>1, <3>1 DEF Nodo
    <3>3. mensajes' = Append(mensajes, marcado) /\ mensajes \in Seq(Nodo)
      BY <1>7 DEF EnviarASuscriptos, IInv, TypeOK
    <3>4. marcado \in Nodo
      <4>1. Len(nodo.suscriptos) \in Nat /\ DOMAIN nodo.suscriptos = 1..Len(nodo.suscriptos)
            /\ \A n \in DOMAIN nodo.suscriptos : nodo.suscriptos[n] \in Entrada
        BY <3>1, LenProperties, ElementOfSeq
      <4>2. \A n \in 1..Len(nodo.suscriptos) : [nodo.suscriptos[n] EXCEPT !.ack = 1] \in Entrada
        BY <4>1 DEF Entrada
      <4>3. [n \in DOMAIN nodo.suscriptos |-> [nodo.suscriptos[n] EXCEPT !.ack = 1]] \in Seq(Entrada)
        BY <4>1, <4>2, SeqDef
      <4> QED
        BY <3>1, <4>3 DEF Nodo
    <3> HIDE DEF marcado
    <3>5. /\ Len(mensajes) \in Nat /\ DOMAIN mensajes = 1..Len(mensajes)
          /\ DOMAIN mensajes' = 1..(Len(mensajes) + 1)
          /\ \A j \in 1..Len(mensajes) : mensajes'[j] = mensajes[j]
          /\ mensajes'[Len(mensajes) + 1] = marcado
      BY <3>3, <3>4, AppendProperties, LenProperties
    <3> QED
      BY <3>2, <3>5
  <2>4. \A i \in DOMAIN mensajes : mensajes[i].pub \in Publicados
    BY DEF IInv, MensajesGuardados
  <2> QED
    BY <2>1, <2>2, <2>3, <2>4 DEF ColasFieles
<1>8. ASSUME NEW s \in Sockets, SuscribirPrimeraVez(s) \/ Resuscribir(s) PROVE ColasFieles'
  <2>1. UNCHANGED <<nodo, publicaciones>> /\ DOMAIN mensajes' = DOMAIN mensajes
    BY <1>8 DEF SuscribirPrimeraVez, Resuscribir
  <2>2. \A i \in DOMAIN mensajes : mensajes[i] \in Nodo
    BY Listas DEF IInv
  <2>3. \A i \in DOMAIN mensajes : mensajes'[i].cola = mensajes[i].cola /\ mensajes'[i].pub = mensajes[i].pub
    <3>1. CASE SuscribirPrimeraVez(s)
      BY <2>2, <3>1 DEF SuscribirPrimeraVez, Nodo
    <3>2. CASE Resuscribir(s)
      BY <2>2, <3>2 DEF Resuscribir, Nodo
    <3> QED
      BY <1>8, <3>1, <3>2
  <2> QED
    BY <2>1, <2>3 DEF ColasFieles
<1> QED
  BY <1>1, <1>3, <1>4, <1>5, <1>6, <1>7, <1>8 DEF Next, vars, AtenderMensaje, AtenderSuscripcion,
     EnviarYConfirmar, Conectar, LlegaPedido, Desconectar, TomarMutex, SuscribirCae, LeerDeNadie,
     Publicados

(* A subscription makes or finds the entry of its process. *)
LEMMA SuscripcionDuenos ==
  ASSUME IInv, ColasFieles, Duenos, UNCHANGED publicaciones,
         NEW s \in Sockets, NEW m, CambioDe(s, m)
  PROVE  Duenos'
<1> USE DEF CambioDe
<1> DEFINE c == conexiones[s].cola
           proceso == conexiones[s].proceso
<1>1. /\ Sockets' = Sockets /\ c \in Colas
      /\ \A t \in Sockets : conexiones'[t].proceso = conexiones[t].proceso
  BY Suscripta
<1>2. ASSUME NEW d \in Colas, NEW n \in DOMAIN suscriptores'[d]
      PROVE  \/ d = c /\ n = m
             \/ n \in DOMAIN suscriptores[d] /\ suscriptores'[d][n] = suscriptores[d][n]
  OBVIOUS
<1>3. ASSUME NEW d \in Colas, NEW n \in DOMAIN suscriptores'[d]
      PROVE  /\ suscriptores'[d][n].socket \in Sockets'
             /\ conexiones'[suscriptores'[d][n].socket].proceso = suscriptores'[d][n].proceso
  BY <1>1, <1>2 DEF Duenos
<1>4. ASSUME NEW n \in DOMAIN suscriptores[c], n # m, proceso \notin SinIp
      PROVE  suscriptores[c][n].proceso # proceso
  <2>1. CASE m \in DOMAIN suscriptores[c]
    BY <1>1, <1>4, <2>1 DEF Duenos
  <2>2. CASE m \notin DOMAIN suscriptores[c]
    BY <1>4, <2>2
  <2> QED
    BY <2>1, <2>2
<1>5. ASSUME NEW d \in Colas, NEW n \in DOMAIN suscriptores'[d], NEW k \in DOMAIN suscriptores'[d],
             suscriptores'[d][n].proceso = suscriptores'[d][k].proceso,
             suscriptores'[d][n].proceso \notin SinIp
      PROVE  n = k
  <2>1. CASE d = c /\ (n = m \/ k = m)
    <3>1. suscriptores'[c][m].proceso = proceso /\ proceso \notin SinIp
      BY <1>5, <2>1
    <3> QED
      BY <1>2, <1>4, <1>5, <2>1, <3>1
  <2>2. CASE ~(d = c /\ (n = m \/ k = m))
    <3>1. /\ n \in DOMAIN suscriptores[d] /\ suscriptores'[d][n] = suscriptores[d][n]
          /\ k \in DOMAIN suscriptores[d] /\ suscriptores'[d][k] = suscriptores[d][k]
      BY <1>2, <2>2
    <3> QED
      BY <1>5, <3>1 DEF Duenos
  <2> QED
    BY <2>1, <2>2
<1>6. ASSUME NEW e \in envios'
      PROVE  /\ e.socket \in Sockets'
             /\ conexiones'[e.socket].proceso = suscriptores'[e.lista][e.num].proceso
             /\ publicaciones'[e.pub].cola \in {e.lista, ColaReenviada(e.lista)}
  <2>1. CASE e \in envios
    <3>1. e.lista \in Colas /\ e.num \in DOMAIN suscriptores[e.lista]
      BY <2>1 DEF IInv, TypeOK, DeSuscriptores
    <3>2. e.num \in DOMAIN suscriptores'[e.lista]
      BY <3>1
    <3>3. suscriptores'[e.lista][e.num].proceso = suscriptores[e.lista][e.num].proceso
      BY <1>2, <3>1, <3>2
    <3> QED
      BY <1>1, <2>1, <3>3 DEF Duenos
  <2>2. CASE e \in envios' \ envios
    <3>1. PICK i \in Reenviables(c) : e.pub = mensajes[i].pub
      BY <2>2
    <3>2. e.socket = s /\ e.lista = c /\ e.num = m
      BY <2>2
    <3>3. publicaciones'[e.pub].cola = ColaReenviada(c)
      BY <3>1 DEF Reenviables, ColasFieles
    <3> QED
      BY <1>1, <3>2, <3>3
  <2> QED
    BY <2>1, <2>2
<1> QED
  BY <1>3, <1>5, <1>6 DEF Duenos

LEMMA PasoDuenos ==
  ASSUME IInv, MutexDeUno, ColasFieles, Duenos, [Next]_vars
  PROVE  Duenos'
<1>1. ASSUME UNCHANGED <<suscriptores, envios>>, Sockets \subseteq Sockets',
             \A s \in Sockets : conexiones'[s].proceso = conexiones[s].proceso,
             \A p \in Publicados : publicaciones'[p].cola = publicaciones[p].cola
      PROVE  Duenos'
  <2>1. \A e \in envios : e.pub \in Publicados
    BY DEF IInv, MensajesGuardados
  <2> QED
    BY <1>1, <2>1 DEF Duenos
<1>2. ASSUME NEW p \in Publicados, NEW paso \in Pasos, Avanzar(p, paso)
      PROVE  \A q \in Publicados : publicaciones'[q].cola = publicaciones[q].cola
  BY <1>2, PasoDe
<1>3. ASSUME NEW c \in Colas, Publicar(c) PROVE Duenos'
  <2> DEFINE P == [cola : Colas, id : Nat, respondida : BOOLEAN, paso : Pasos]
             x == [cola |-> c, id |-> IF c \in ConId THEN idCorrelativo ELSE 0, respondida |-> FALSE,
                   paso |-> IF c \in ConRespuesta THEN "responder" ELSE "guardar"]
  <2>1. x \in P /\ publicaciones \in Seq(P)
    BY DEF IInv, TypeOK, Pasos
  <2>2. publicaciones' = Append(publicaciones, x) /\ UNCHANGED <<suscriptores, envios, conexiones>>
    BY <1>3 DEF Publicar
  <2>3. \A p \in Publicados : publicaciones'[p] = publicaciones[p]
    <3> HIDE DEF x, P
    <3> QED
      BY <2>1, <2>2, AppendProperties, LenProperties DEF Publicados
  <2> QED
    BY <1>1, <2>2, <2>3 DEF Sockets
<1>4. ASSUME NEW p \in Publicados, Responder(p) PROVE Duenos'
  <2>1. publicaciones[p] \in [cola : Colas, id : Nat, respondida : BOOLEAN, paso : Pasos]
    BY LenProperties, ElementOfSeq DEF IInv, TypeOK, Publicados
  <2>2. publicaciones' = [publicaciones EXCEPT ![p] =
           [publicaciones[p] EXCEPT !.paso = "guardar", !.respondida = TRUE]]
    BY <1>4 DEF Responder
  <2>3. \A q \in Publicados : publicaciones'[q].cola = publicaciones[q].cola
    BY <2>1, <2>2 DEF Publicados
  <2> QED
    BY <1>1, <1>4, <2>3 DEF Responder, Sockets
<1>5. ASSUME NEW p \in Publicados, ResponderFalla(p) \/ ArmarNodo(p) PROVE Duenos'
  <2>1. \/ Avanzar(p, "abandonada") /\ "abandonada" \in Pasos
        \/ Avanzar(p, "enviar") /\ "enviar" \in Pasos
    BY <1>5 DEF ResponderFalla, ArmarNodo, Pasos
  <2>2. UNCHANGED <<suscriptores, envios, conexiones>>
    BY <1>5 DEF ResponderFalla, ArmarNodo
  <2> QED
    BY <1>1, <1>2, <2>1, <2>2 DEF Sockets
<1>6. ASSUME NEW p \in Publicados, EnviarASuscriptos(p) PROVE Duenos'
  <2> DEFINE c == nodo.cola
  <2>1. /\ Avanzar(p, "guardada") /\ "guardada" \in Pasos /\ nodo # Nadie /\ nodo.pub = p
        /\ UNCHANGED <<suscriptores, conexiones>>
        /\ envios' = envios \cup
             {Envio(p, nodo.suscriptos[n], SocketDe(nodo.suscriptos[n])) : n \in SinMarcar}
    BY <1>6 DEF EnviarASuscriptos, Pasos
  <2>2. \A q \in Publicados : publicaciones'[q].cola = publicaciones[q].cola
    BY <1>2, <2>1
  <2>3. c \in Colas /\ c = publicaciones[p].cola
        /\ \A n \in DOMAIN nodo.suscriptos : /\ n \in DOMAIN suscriptores[c]
                                              /\ nodo.suscriptos[n] = Suscripto(c, n)
    <3>1. c \in Colas /\ c = publicaciones[p].cola
      BY <2>1 DEF IInv, TypeOK, Nodo, ColasFieles
    <3>2. nodo.suscriptos = [n \in DOMAIN suscriptores[c] |-> Suscripto(c, n)]
      BY <2>1 DEF IInv, NodoAlDia
    <3> QED
      BY <3>1, <3>2
  <2> HIDE DEF c
  <2>4. ASSUME NEW e \in envios'
        PROVE  /\ e.socket \in Sockets
               /\ conexiones[e.socket].proceso = suscriptores[e.lista][e.num].proceso
               /\ publicaciones'[e.pub].cola \in {e.lista, ColaReenviada(e.lista)}
    <3>1. CASE e \in envios
      <4>1. e.pub \in Publicados
        BY <3>1 DEF IInv, MensajesGuardados
      <4> QED
        BY <2>2, <3>1, <4>1 DEF Duenos
    <3>2. CASE e \notin envios
      <4>1. PICK n \in SinMarcar : e = Envio(p, nodo.suscriptos[n], SocketDe(nodo.suscriptos[n]))
        BY <2>1, <3>2
      <4>2. n \in DOMAIN suscriptores[c] /\ nodo.suscriptos[n] = Suscripto(c, n)
        BY <2>3, <4>1 DEF SinMarcar
      <4>3. e.pub = p /\ e.lista = c /\ e.num = n /\ e.socket = suscriptores[c][n].socket
        BY <4>1, <4>2 DEF Envio, Suscripto, SocketDe
      <4> QED
        BY <2>2, <2>3, <4>2, <4>3 DEF Duenos
    <3> QED
      BY <3>1, <3>2
  <2> QED
    BY <2>1, <2>4 DEF Duenos, Sockets
<1>7. ASSUME NEW e \in envios, EnviarYConfirmar(e) PROVE Duenos'
  <2>1. PICK fin \in {"entregado", "perdido"} : envios' = (envios \ {e}) \cup {[e EXCEPT !.estado = fin]}
    BY <1>7 DEF EnviarYConfirmar
  <2>2. e \in [pub : Nat, lista : Colas, num : Nat, socket : Nat, estado : {"creado", "entregado", "perdido"}]
    BY DEF IInv, TypeOK
  <2>3. \A f \in envios' : \E g \in envios : /\ f.pub = g.pub /\ f.lista = g.lista
                                              /\ f.num = g.num /\ f.socket = g.socket
    BY <2>1, <2>2
  <2>4. UNCHANGED <<suscriptores, conexiones, publicaciones>>
    BY <1>7 DEF EnviarYConfirmar
  <2> QED
    BY <2>3, <2>4 DEF Duenos, Sockets
<1>8. ASSUME NEW proceso \in Procesos, NEW c \in Colas, Conectar(proceso, c) PROVE Duenos'
  <2> DEFINE C == [proceso : Procesos, cola : Colas, viva : BOOLEAN, completa : BOOLEAN, suscripta : BOOLEAN]
             x == [proceso |-> proceso, cola |-> c, viva |-> TRUE, completa |-> FALSE, suscripta |-> FALSE]
  <2>1. x \in C /\ conexiones \in Seq(C) /\ conexiones' = Append(conexiones, x)
        /\ UNCHANGED <<suscriptores, envios, publicaciones>>
    BY <1>8 DEF IInv, TypeOK, Conectar
  <2>2. /\ Sockets \subseteq Sockets'
        /\ \A s \in Sockets : conexiones'[s] = conexiones[s]
    <3> HIDE DEF x, C
    <3> QED
      BY <2>1, AppendProperties, LenProperties DEF Sockets
  <2> QED
    BY <1>1, <2>1, <2>2
<1>9. ASSUME NEW s \in Sockets, LlegaPedido(s) \/ Desconectar(s) PROVE Duenos'
  <2>1. /\ Sockets' = Sockets /\ UNCHANGED <<suscriptores, envios, publicaciones>>
        /\ \A t \in Sockets : conexiones'[t].proceso = conexiones[t].proceso
    BY <1>9, Llegada, Desconectada DEF IInv, LlegaPedido, Desconectar
  <2> QED
    BY <1>1, <2>1
<1>10. ASSUME NEW s \in Sockets, SuscribirPrimeraVez(s) \/ Resuscribir(s) PROVE Duenos'
  <2>1. UNCHANGED publicaciones
    BY <1>10 DEF SuscribirPrimeraVez, Resuscribir
  <2>2. PICK m : CambioDe(s, m)
    BY <1>10, AltaDe, VueltaDe
  <2> QED
    BY <2>1, <2>2, SuscripcionDuenos
<1>11. ASSUME UNCHANGED <<suscriptores, envios, conexiones, publicaciones>> PROVE Duenos'
  BY <1>1, <1>11 DEF Sockets
<1> QED
  BY <1>3, <1>4, <1>5, <1>6, <1>7, <1>8, <1>9, <1>10, <1>11 DEF Next, vars, AtenderMensaje,
     AtenderSuscripcion, TomarMutex, SuscribirCae, LeerDeNadie

(* However many times a process with an ip subscribes, and whatever socket *)
(* it has by then, it is sent no message twice through one of its queues;  *)
(* only GET and LOCALIZED can bring it the same one.                       *)
THEOREM NuncaDosVeces == Spec => []SinDuplicados
<1>1. Init => ColasFieles /\ Duenos
  BY DEF Init, ColasFieles, Duenos
<1>2. IInv /\ MutexDeUno /\ ColasFieles /\ [Next]_vars => ColasFieles'
  BY PasoColasFieles
<1>3. IInv /\ MutexDeUno /\ ColasFieles /\ Duenos /\ [Next]_vars => Duenos'
  BY PasoDuenos
<1>4. ASSUME IInv, Duenos PROVE SinDuplicados
  <2> SUFFICES ASSUME NEW d \in envios, NEW e \in envios, d.pub = e.pub,
                      conexiones[d.socket].proceso = conexiones[e.socket].proceso,
                      conexiones[e.socket].proceso \notin SinIp
               PROVE  d = e \/ {d.lista, e.lista} = {"GET_POKEMON", "LOCALIZED_POKEMON"}
    BY DEF SinDuplicados
  <2>1. /\ d.lista \in Colas /\ d.num \in DOMAIN suscriptores[d.lista]
        /\ e.lista \in Colas /\ e.num \in DOMAIN suscriptores[e.lista]
    BY <1>4 DEF IInv, TypeOK, DeSuscriptores
  <2>2. /\ conexiones[d.socket].proceso = suscriptores[d.lista][d.num].proceso
        /\ conexiones[e.socket].proceso = suscriptores[e.lista][e.num].proceso
        /\ publicaciones[e.pub].cola \in {e.lista, ColaReenviada(e.lista)}
        /\ publicaciones[e.pub].cola \in {d.lista, ColaReenviada(d.lista)}
    BY <1>4 DEF Duenos
  <2>3. CASE d.lista = e.lista
    <3>1. d.num = e.num
      <4> DEFINE c == e.lista
      <4>1. /\ c \in Colas /\ d.num \in DOMAIN suscriptores[c] /\ e.num \in DOMAIN suscriptores[c]
            /\ suscriptores[c][d.num].proceso = suscriptores[c][e.num].proceso
            /\ suscriptores[c][d.num].proceso \notin SinIp
        BY <2>1, <2>2, <2>3
      <4> HIDE DEF c
      <4> QED
        BY <1>4, <4>1 DEF Duenos
    <3> QED
      BY <1>4, <2>3, <3>1 DEF IInv, UnaVezPorEntrada
  <2>4. CASE d.lista # e.lista
    BY <2>2, <2>4 DEF ColaReenviada
  <2> QED
    BY <2>3, <2>4
<1> QED
  BY <1>1, <1>2, <1>3, <1>4, SiempreIInv, PTL DEF Spec
=============================================================================
