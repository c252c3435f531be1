----------------------- MODULE BrokerParticiones_proofs -----------------------
(***************************************************************************)
(* Proofs about BrokerParticiones, for every memory size, message size,    *)
(* replacement and fit algorithm and compaction frequency.                 *)
(***************************************************************************)
EXTENDS BrokerParticiones, Integers, SequencesExt, SequenceTheorems, FiniteSetTheorems, WellFoundedInduction, TLAPS

-----------------------------------------------------------------------------
(* Facts about sequences and finite sets of numbers.                       *)

(* RemoveAt drops one entry of a sequence and keeps the order of the rest. *)
LEMMA RemoveAtElementos ==
  ASSUME NEW S, NEW s \in Seq(S), NEW k \in DOMAIN s
  PROVE  /\ RemoveAt(s, k) \in Seq(S)
         /\ Len(RemoveAt(s, k)) = Len(s) - 1
         /\ DOMAIN RemoveAt(s, k) = 1..(Len(s) - 1)
         /\ \A j \in 1..(Len(s) - 1) :
              RemoveAt(s, k)[j] = IF j < k THEN s[j] ELSE s[j + 1]
<1> DEFINE izq == SubSeq(s, 1, k - 1)
           der == SubSeq(s, k + 1, Len(s))
<1>1. /\ Len(s) \in Nat /\ DOMAIN s = 1..Len(s) /\ k \in 1..Len(s)
      /\ \A i \in 1..Len(s) : s[i] \in S
  BY LenProperties
<1>2. /\ izq \in Seq(S)
      /\ Len(izq) = k - 1
      /\ \A i \in 1..(k - 1) : izq[i] = s[i]
  BY <1>1, SubSeqProperties
<1>3. /\ der \in Seq(S)
      /\ Len(der) = Len(s) - k
      /\ \A i \in 1..(Len(s) - k) : der[i] = s[k + i]
  <2>1. /\ der \in Seq(S)
        /\ Len(der) = IF k + 1 <= Len(s) THEN Len(s) - (k + 1) + 1 ELSE 0
        /\ \A i \in 1..(Len(s) - (k + 1) + 1) : der[i] = s[(k + 1) + i - 1]
    BY <1>1, SubSeqProperties
  <2> HIDE DEF der
  <2>2. Len(s) - (k + 1) + 1 = Len(s) - k
    BY <1>1
  <2>3. Len(der) = Len(s) - k
    BY <1>1, <2>1
  <2>4. ASSUME NEW i \in 1..(Len(s) - k) PROVE der[i] = s[k + i]
    <3>1. (k + 1) + i - 1 = k + i
      BY <1>1
    <3> QED
      BY <2>1, <2>2, <3>1
  <2> QED
    BY <2>1, <2>3, <2>4
<1> HIDE DEF izq, der
<1>4. /\ izq \o der \in Seq(S)
      /\ Len(izq \o der) = Len(s) - 1
      /\ \A i \in 1..(Len(s) - 1) :
           (izq \o der)[i] = IF i <= k - 1 THEN izq[i] ELSE der[i - (k - 1)]
  <2>1. /\ izq \o der \in Seq(S)
        /\ Len(izq \o der) = Len(izq) + Len(der)
        /\ \A i \in 1..(Len(izq) + Len(der)) :
             (izq \o der)[i] = IF i <= Len(izq) THEN izq[i] ELSE der[i - Len(izq)]
    BY <1>2, <1>3, ConcatProperties
  <2>2. Len(izq) + Len(der) = Len(s) - 1
    BY <1>1, <1>2, <1>3
  <2> QED
    BY <1>2, <2>1, <2>2
<1>5. ASSUME NEW j \in 1..(Len(s) - 1)
      PROVE  (izq \o der)[j] = IF j < k THEN s[j] ELSE s[j + 1]
  <2>1. CASE j < k
    BY <1>1, <1>2, <1>4, <2>1
  <2>2. CASE ~(j < k)
    <3>1. j - (k - 1) \in 1..(Len(s) - k) /\ ~(j <= k - 1) /\ k + (j - (k - 1)) = j + 1
      BY <1>1, <2>2
    <3>2. (izq \o der)[j] = der[j - (k - 1)]
      BY <1>4, <3>1
    <3> QED
      BY <1>3, <2>2, <3>1, <3>2
  <2> QED
    BY <2>1, <2>2
<1>6. DOMAIN (izq \o der) = 1..(Len(s) - 1)
  BY <1>4, LenProperties
<1> QED
  BY <1>4, <1>5, <1>6 DEF RemoveAt, izq, der

(* Replacing every entry of a sequence gives a sequence as long. *)
LEMMA MapaEsSeq ==
  ASSUME NEW S, NEW T, NEW s \in Seq(S), NEW t,
         t \in [DOMAIN s -> T]
  PROVE  t \in Seq(T) /\ Len(t) = Len(s) /\ DOMAIN t = DOMAIN s
<1>1. Len(s) \in Nat /\ DOMAIN s = 1..Len(s)
  BY LenProperties
<1>2. t \in Seq(T)
  BY <1>1, SeqDef
<1> QED
  BY <1>1, <1>2

(* The image of a sequence, element by element. *)
Mapa(f, s) == [i \in DOMAIN s |-> f[s[i]]]

Valores(f, S) == {f[x] : x \in S}

(* It grows with the sequence, *)
LEMMA MapaAgregada ==
  ASSUME NEW S, NEW f, NEW s \in Seq(S), NEW e \in S
  PROVE  Mapa(f, Append(s, e)) = Append(Mapa(f, s), f[e])
<1> DEFINE T == Valores(f, S)
           x == Append(s, e)
           m == Mapa(f, s)
           u == Mapa(f, x)
           v == Append(m, f[e])
<1>0. \A z \in Seq(S) :
        /\ Mapa(f, z) \in Seq(T) /\ Len(Mapa(f, z)) = Len(z)
        /\ DOMAIN Mapa(f, z) = DOMAIN z
        /\ \A i \in DOMAIN z : Mapa(f, z)[i] = f[z[i]]
  <2> HIDE DEF m, u, v, x
  <2> TAKE z \in Seq(S)
  <2>1. \A i \in DOMAIN z : z[i] \in S
    BY ElementOfSeq, LenProperties
  <2>2. Mapa(f, z) \in [DOMAIN z -> T] /\ \A i \in DOMAIN z : Mapa(f, z)[i] = f[z[i]]
    BY <2>1 DEF Mapa, Valores
  <2> HIDE DEF T
  <2>3. Mapa(f, z) \in Seq(T) /\ Len(Mapa(f, z)) = Len(z) /\ DOMAIN Mapa(f, z) = DOMAIN z
    BY <2>2, MapaEsSeq
  <2> QED
    BY <2>2, <2>3
<1>1. /\ x \in Seq(S) /\ Len(s) \in Nat /\ DOMAIN s = 1..Len(s)
      /\ Len(x) = Len(s) + 1 /\ DOMAIN x = 1..(Len(s) + 1)
      /\ \A i \in 1..Len(s) : x[i] = s[i]
      /\ x[Len(s) + 1] = e
  BY AppendProperties, LenProperties
<1> HIDE DEF x
<1>2. m \in Seq(T) /\ Len(m) = Len(s) /\ \A i \in DOMAIN s : m[i] = f[s[i]]
  BY <1>0
<1>3. u \in Seq(T) /\ Len(u) = Len(s) + 1 /\ \A i \in 1..(Len(s) + 1) : u[i] = f[x[i]]
  <2>1. Mapa(f, x) \in Seq(T) /\ Len(Mapa(f, x)) = Len(x) /\ \A i \in DOMAIN x : Mapa(f, x)[i] = f[x[i]]
    BY <1>0, <1>1
  <2> QED
    BY <1>1, <2>1
<1> HIDE DEF m, u
<1>4. /\ v \in Seq(T) /\ Len(v) = Len(s) + 1
      /\ \A i \in 1..Len(s) : v[i] = m[i]
      /\ v[Len(s) + 1] = f[e]
  <2>1. f[e] \in T
    BY DEF Valores
  <2> HIDE DEF T
  <2> QED
    BY <1>1, <1>2, <2>1, AppendProperties
<1> HIDE DEF v
<1>5. ASSUME NEW i \in 1..(Len(s) + 1) PROVE u[i] = v[i]
  <2>1. CASE i = Len(s) + 1
    BY <1>1, <1>3, <1>4, <2>1
  <2>2. CASE i \in 1..Len(s)
    <3>1. i \in DOMAIN s /\ i \in 1..(Len(s) + 1)
      BY <1>1, <2>2
    <3>2. u[i] = f[x[i]] /\ x[i] = s[i] /\ v[i] = m[i] /\ m[i] = f[s[i]]
      BY <1>1, <1>2, <1>3, <1>4, <2>2, <3>1
    <3> QED
      BY <3>2
  <2> QED
    BY <1>1, <2>1, <2>2
<1>6. u = v
  <2> HIDE DEF T
  <2> QED
    BY <1>1, <1>3, <1>4, <1>5, SeqEqual
<1> QED
  BY <1>6 DEF u, v, m, x

(* and loses what the sequence loses. *)
LEMMA MapaQuitada ==
  ASSUME NEW S, NEW f, NEW s \in Seq(S), NEW k \in DOMAIN s
  PROVE  Mapa(f, RemoveAt(s, k)) = RemoveAt(Mapa(f, s), k)
<1> DEFINE T == Valores(f, S)
           x == RemoveAt(s, k)
           m == Mapa(f, s)
           u == Mapa(f, x)
           v == RemoveAt(m, k)
<1>0. \A z \in Seq(S) :
        /\ Mapa(f, z) \in Seq(T) /\ Len(Mapa(f, z)) = Len(z)
        /\ DOMAIN Mapa(f, z) = DOMAIN z
        /\ \A i \in DOMAIN z : Mapa(f, z)[i] = f[z[i]]
  <2> HIDE DEF m, u, v, x
  <2> TAKE z \in Seq(S)
  <2>1. \A i \in DOMAIN z : z[i] \in S
    BY ElementOfSeq, LenProperties
  <2>2. Mapa(f, z) \in [DOMAIN z -> T] /\ \A i \in DOMAIN z : Mapa(f, z)[i] = f[z[i]]
    BY <2>1 DEF Mapa, Valores
  <2> HIDE DEF T
  <2>3. Mapa(f, z) \in Seq(T) /\ Len(Mapa(f, z)) = Len(z) /\ DOMAIN Mapa(f, z) = DOMAIN z
    BY <2>2, MapaEsSeq
  <2> QED
    BY <2>2, <2>3
<1>1. /\ Len(s) \in Nat /\ DOMAIN s = 1..Len(s)
      /\ x \in Seq(S) /\ Len(x) = Len(s) - 1 /\ DOMAIN x = 1..(Len(s) - 1)
      /\ \A j \in 1..(Len(s) - 1) : x[j] = IF j < k THEN s[j] ELSE s[j + 1]
  BY RemoveAtElementos, LenProperties
<1> HIDE DEF x
<1>2. m \in Seq(T) /\ Len(m) = Len(s) /\ DOMAIN m = DOMAIN s /\ \A i \in DOMAIN s : m[i] = f[s[i]]
  BY <1>0
<1>3. u \in Seq(T) /\ Len(u) = Len(s) - 1 /\ \A j \in 1..(Len(s) - 1) : u[j] = f[x[j]]
  <2>1. Mapa(f, x) \in Seq(T) /\ Len(Mapa(f, x)) = Len(x) /\ \A i \in DOMAIN x : Mapa(f, x)[i] = f[x[i]]
    BY <1>0, <1>1
  <2> QED
    BY <1>1, <2>1
<1> HIDE DEF m, u
<1>4. /\ v \in Seq(T) /\ Len(v) = Len(s) - 1
      /\ \A j \in 1..(Len(s) - 1) : v[j] = IF j < k THEN m[j] ELSE m[j + 1]
  <2>1. k \in DOMAIN m /\ m \in Seq(T)
    BY <1>2
  <2> QED
    BY <1>2, <2>1, RemoveAtElementos
<1> HIDE DEF v
<1>5. ASSUME NEW j \in 1..(Len(s) - 1) PROVE u[j] = v[j]
  <2>1. j \in DOMAIN s /\ j + 1 \in DOMAIN s
    BY <1>1
  <2>2. u[j] = f[x[j]] /\ v[j] = IF j < k THEN m[j] ELSE m[j + 1]
    BY <1>3, <1>4
  <2> QED
    BY <1>1, <1>2, <2>1, <2>2
<1>6. u = v
  <2> HIDE DEF T
  <2> QED
    BY <1>1, <1>3, <1>4, <1>5, SeqEqual
<1> QED
  BY <1>6 DEF u, v, m, x

(* The least element of a set of numbers: what lets an induction be made   *)
(* over the least counterexample.                                          *)
LEMMA MinimoNat ==
  ASSUME NEW S \in SUBSET Nat, S # {}
  PROVE  \E x \in S : \A y \in S : x <= y
<1> DEFINE T == {1..n : n \in S}
           R == StrictSubsetOrdering(Nat)
<1>1. T \subseteq FiniteSubsetsOf(Nat)
  <2> SUFFICES ASSUME NEW n \in S PROVE 1..n \in FiniteSubsetsOf(Nat)
    OBVIOUS
  <2> QED
    BY FS_Interval DEF FiniteSubsetsOf
<1>2. T # {}
  OBVIOUS
<1>3. IsWellFoundedOn(R, FiniteSubsetsOf(Nat))
  BY FS_StrictSubsetOrderingWellFounded
<1>4. PICK A \in T : \A B \in T : <<B, A>> \notin R
  <2> HIDE DEF T, R
  <2> QED
    BY <1>1, <1>2, <1>3, WFMin
<1>5. PICK x \in S : A = 1..x
  OBVIOUS
<1>6. ASSUME NEW y \in S, y < x PROVE FALSE
  <2>1. 1..y \subseteq 1..x /\ x \in 1..x /\ x \notin 1..y
    BY <1>6
  <2>2. 1..y \in SUBSET Nat /\ 1..x \in SUBSET Nat
    BY <1>6
  <2>3. <<1..y, 1..x>> \in R
    BY <2>1, <2>2 DEF StrictSubsetOrdering
  <2> QED
    BY <1>4, <1>5, <2>3
<1> QED
  BY <1>6

(* Partitions end inside the memory, and a message inside its partition. *)
Acotadas ==
  /\ \A f \in libres : f.ini + f.tam <= TamMemoria
  /\ \A i \in DOMAIN mensajes :
       /\ mensajes[i].ini + mensajes[i].largo <= TamMemoria
       /\ mensajes[i].bytes <= mensajes[i].largo

PedidoEnCurso == pc \notin {"inactivo", "caido"} => pedido \in Pedido

(* The part of the type invariant that is about the memory. *)
MemoriaTipada ==
  /\ libres \subseteq Particion
  /\ mensajes \in Seq(Mensaje)
  /\ cache \in [Celdas -> Datos \cup {Vacio}]

(* The inductive core: types, bounds and disjointness. *)
IInv ==
  /\ TypeOK
  /\ Acotadas
  /\ PedidoEnCurso
  /\ SinSolapamiento

-----------------------------------------------------------------------------
LEMMA InicioIInv == Init => IInv
<1> SUFFICES ASSUME Init PROVE IInv
  OBVIOUS
<1>1. TypeOK
  BY ConstantesAssumption DEF Init, InitMemoria, TypeOK, Particion, Celdas
<1>2. Acotadas /\ PedidoEnCurso /\ SinSolapamiento
  BY ConstantesAssumption DEF Init, InitMemoria, Acotadas, PedidoEnCurso, SinSolapamiento,
     LibresDisjuntas, MensajesDisjuntos, LibresSinMensajes
<1> QED
  BY <1>1, <1>2 DEF IInv

-----------------------------------------------------------------------------
(* The arithmetic that the types give. *)
LEMMA Tipos ==
  ASSUME TypeOK
  PROVE  /\ TamMemoria \in Nat
         /\ \A f \in libres : f.ini \in Nat /\ f.tam \in Nat /\ f.tam >= 1
         /\ Len(mensajes) \in Nat
         /\ DOMAIN mensajes = 1..Len(mensajes)
         /\ \A i \in DOMAIN mensajes :
              /\ mensajes[i] \in Mensaje
              /\ mensajes[i].ini \in Nat
              /\ mensajes[i].largo \in Nat
              /\ mensajes[i].largo >= 1
              /\ mensajes[i].bytes \in Nat
<1>1. mensajes \in Seq(Mensaje)
  BY DEF TypeOK
<1>2. /\ Len(mensajes) \in Nat
      /\ DOMAIN mensajes = 1..Len(mensajes)
      /\ \A i \in DOMAIN mensajes : mensajes[i] \in Mensaje
  BY <1>1, LenProperties
<1>3. ASSUME NEW m \in Mensaje
      PROVE  m.ini \in Nat /\ m.largo \in Nat /\ m.largo >= 1 /\ m.bytes \in Nat
  <2>1. m.ini \in 0..(TamMemoria - 1) /\ m.largo \in 1..TamMemoria /\ m.bytes \in Bytes
    BY DEF Mensaje, Celdas
  <2>2. TamMemoria \in Nat /\ Bytes \subseteq Nat
    BY ConstantesAssumption
  <2>3. m.ini \in Nat
    BY <2>1, <2>2
  <2>4. m.largo \in Nat /\ m.largo >= 1
    BY <2>1, <2>2
  <2>5. m.bytes \in Nat
    BY <2>1, <2>2
  <2> QED
    BY <2>3, <2>4, <2>5
<1>4. \A f \in libres : f.ini \in Nat /\ f.tam \in Nat /\ f.tam >= 1
  BY ConstantesAssumption DEF TypeOK, Particion, Celdas
<1> QED
  BY <1>2, <1>3, <1>4, ConstantesAssumption

LEMMA TamMsg ==
  ASSUME NEW bytes \in Bytes
  PROVE  /\ ObtenerTamMsg(bytes) \in Nat
         /\ bytes \in Nat /\ bytes >= 1
         /\ bytes <= ObtenerTamMsg(bytes)
BY ConstantesAssumption DEF ObtenerTamMsg

(* A store takes the start of one free partition and touches nothing else. *)
LEMMA GuardarIInv == IInv /\ Guardar => IInv'
<1> SUFFICES ASSUME IInv, Guardar PROVE IInv'
  OBVIOUS
<1> DEFINE largo == ObtenerTamMsg(pedido.bytes)
<1>1. /\ TypeOK /\ Acotadas /\ LibresDisjuntas /\ MensajesDisjuntos /\ LibresSinMensajes
      /\ pedido \in Pedido
  BY DEF IInv, SinSolapamiento, PedidoEnCurso, Guardar
<1>2. /\ pedido.bytes \in Bytes /\ pedido.dato \in Datos
      /\ largo \in Nat /\ largo >= 1 /\ pedido.bytes <= largo
      /\ pedido.bytes \in Nat /\ pedido.bytes >= 1
  BY <1>1, TamMsg DEF Pedido
<1> HIDE DEF largo
<1>3. PICK f \in libres :
        /\ largo <= f.tam
        /\ libres' = (libres \ {f}) \cup Resto(f, largo)
        /\ Escribir(f)
        /\ mensajes' = Append(mensajes,
             [dato |-> pedido.dato, bytes |-> pedido.bytes, ini |-> f.ini,
              largo |-> largo, timestamp |-> reloj])
  BY DEF NuevoMensaje, Guardar, Candidatas, largo
<1>4. f.ini \in Nat /\ f.tam \in Nat /\ f.ini + f.tam <= TamMemoria /\ f \in Particion
  BY <1>1, Tipos DEF Acotadas, TypeOK
<1> DEFINE m == [dato |-> pedido.dato, bytes |-> pedido.bytes, ini |-> f.ini,
                 largo |-> largo, timestamp |-> reloj]
<1>5. m \in Mensaje
  BY <1>1, <1>2, <1>3, <1>4, ConstantesAssumption DEF Mensaje, TypeOK, Particion
<1>6. /\ m.ini = f.ini /\ m.largo = largo /\ m.bytes = pedido.bytes
      /\ mensajes' = Append(mensajes, m)
  BY <1>3
<1> HIDE DEF m
<1>7. /\ mensajes' \in Seq(Mensaje)
      /\ DOMAIN mensajes' = 1..(Len(mensajes) + 1)
      /\ \A i \in DOMAIN mensajes : mensajes'[i] = mensajes[i]
      /\ mensajes'[Len(mensajes) + 1] = m
  BY <1>1, <1>5, <1>6, Tipos DEF TypeOK
<1>8. \A i \in DOMAIN mensajes' : i \in DOMAIN mensajes \/ i = Len(mensajes) + 1
  BY <1>1, <1>7, Tipos
<1>9. ASSUME NEW g \in libres'
      PROVE  \/ g \in libres /\ g # f
             \/ /\ g.ini = f.ini + largo /\ g.tam = f.tam - largo /\ largo < f.tam
                /\ g \in Particion
  BY <1>2, <1>3, <1>4, ConstantesAssumption DEF Resto, Particion, Celdas
<1>10. TypeOK'
  <2>1. libres' \subseteq Particion
    BY <1>1, <1>9 DEF TypeOK
  <2>2. cache' \in [Celdas -> Datos \cup {Vacio}]
    BY <1>1, <1>2, <1>3 DEF TypeOK, Escribir
  <2> QED
    BY <1>1, <1>7, <2>1, <2>2 DEF TypeOK, Guardar
<1>11. Acotadas'
  <2>1. ASSUME NEW g \in libres' PROVE g.ini + g.tam <= TamMemoria
    BY <1>1, <1>2, <1>4, <1>9 DEF Acotadas
  <2>2. ASSUME NEW i \in DOMAIN mensajes'
        PROVE  /\ mensajes'[i].ini + mensajes'[i].largo <= TamMemoria
               /\ mensajes'[i].bytes <= mensajes'[i].largo
    <3>1. CASE i \in DOMAIN mensajes
      BY <1>1, <1>7, <3>1 DEF Acotadas
    <3>2. CASE i = Len(mensajes) + 1
      BY <1>2, <1>3, <1>4, <1>6, <1>7, <3>2, ConstantesAssumption
    <3> QED
      BY <1>8, <3>1, <3>2
  <2> QED
    BY <2>1, <2>2 DEF Acotadas
<1>12. LibresDisjuntas'
  <2> SUFFICES ASSUME NEW g \in libres', NEW h \in libres', g # h
               PROVE  g.ini + g.tam <= h.ini \/ h.ini + h.tam <= g.ini
    BY DEF LibresDisjuntas
  <2>1. \A x \in libres : x # f => \/ x.ini + x.tam <= f.ini
                                  \/ f.ini + f.tam <= x.ini
    BY <1>1 DEF LibresDisjuntas
  <2>2. \A x \in libres : x.ini \in Nat /\ x.tam \in Nat
    BY <1>1, Tipos
  <2>3. CASE g \in libres /\ g # f /\ h \in libres /\ h # f
    BY <1>1, <2>3 DEF LibresDisjuntas
  <2>4. CASE g \in libres /\ g # f /\ h \in Resto(f, largo)
    BY <1>2, <1>4, <2>1, <2>2, <2>4 DEF Resto
  <2>5. CASE h \in libres /\ h # f /\ g \in Resto(f, largo)
    BY <1>2, <1>4, <2>1, <2>2, <2>5 DEF Resto
  <2>6. CASE g \in Resto(f, largo) /\ h \in Resto(f, largo)
    BY <2>6 DEF Resto
  <2> QED
    BY <1>3, <2>3, <2>4, <2>5, <2>6
<1>13. MensajesDisjuntos'
  <2> SUFFICES ASSUME NEW i \in DOMAIN mensajes', NEW j \in DOMAIN mensajes', i # j
               PROVE  \/ mensajes'[i].ini + mensajes'[i].largo <= mensajes'[j].ini
                      \/ mensajes'[j].ini + mensajes'[j].largo <= mensajes'[i].ini
    BY DEF MensajesDisjuntos
  <2>1. \A k \in DOMAIN mensajes :
          /\ \/ f.ini + f.tam <= mensajes[k].ini
             \/ mensajes[k].ini + mensajes[k].largo <= f.ini
          /\ mensajes[k].ini \in Nat /\ mensajes[k].largo \in Nat
    BY <1>1, Tipos DEF LibresSinMensajes
  <2>2. CASE i \in DOMAIN mensajes /\ j \in DOMAIN mensajes
    BY <1>1, <1>7, <2>2 DEF MensajesDisjuntos
  <2>3. CASE i \in DOMAIN mensajes /\ j = Len(mensajes) + 1
    BY <1>2, <1>3, <1>4, <1>6, <1>7, <2>1, <2>3
  <2>4. CASE j \in DOMAIN mensajes /\ i = Len(mensajes) + 1
    BY <1>2, <1>3, <1>4, <1>6, <1>7, <2>1, <2>4
  <2> QED
    BY <1>8, <2>2, <2>3, <2>4
<1>14. LibresSinMensajes'
  <2> SUFFICES ASSUME NEW g \in libres', NEW i \in DOMAIN mensajes'
               PROVE  \/ g.ini + g.tam <= mensajes'[i].ini
                      \/ mensajes'[i].ini + mensajes'[i].largo <= g.ini
    BY DEF LibresSinMensajes
  <2>1. CASE i \in DOMAIN mensajes
    <3>1. /\ mensajes'[i] = mensajes[i]
          /\ mensajes[i].ini \in Nat /\ mensajes[i].largo \in Nat
          /\ \/ f.ini + f.tam <= mensajes[i].ini
             \/ mensajes[i].ini + mensajes[i].largo <= f.ini
      BY <1>1, <1>7, <2>1, Tipos DEF LibresSinMensajes
    <3>2. CASE g \in libres
      BY <1>1, <2>1, <3>1, <3>2 DEF LibresSinMensajes
    <3>3. CASE g \notin libres
      BY <1>2, <1>4, <1>9, <3>1, <3>3
    <3> QED
      BY <3>2, <3>3
  <2>2. CASE i = Len(mensajes) + 1
    <3>1. /\ mensajes'[i].ini = f.ini /\ mensajes'[i].largo = largo
      BY <1>6, <1>7, <2>2
    <3>2. CASE g \in libres /\ g # f
      <4>1. /\ g.ini \in Nat /\ g.tam \in Nat
            /\ g.ini + g.tam <= f.ini \/ f.ini + f.tam <= g.ini
        BY <1>1, <3>2, Tipos DEF LibresDisjuntas
      <4> QED
        BY <1>2, <1>3, <1>4, <3>1, <4>1
    <3>3. CASE g.ini = f.ini + largo
      BY <1>2, <1>4, <3>1, <3>3
    <3> QED
      BY <1>9, <3>2, <3>3
  <2> QED
    BY <1>8, <2>1, <2>2
<1>15. PedidoEnCurso'
  BY DEF PedidoEnCurso, Guardar
<1> QED
  BY <1>10, <1>11, <1>12, <1>13, <1>14, <1>15 DEF IInv, SinSolapamiento

(* The free partition that mover_particion leaves. *)
Unida(a, s) == [ini |-> s.ini - a.tam, tam |-> a.tam + s.tam]

(* Where mover_particion leaves each message: those between the two free   *)
(* partitions slide down by the size of the first, the others stay.        *)
LEMMA MoverPosiciones ==
  ASSUME IInv, NEW a \in libres, NEW s \in libres, a.ini < s.ini, MoverParticion(a, s)
  PROVE  /\ a.ini \in Nat /\ a.tam \in Nat /\ a.tam >= 1
         /\ s.ini \in Nat /\ s.tam \in Nat /\ s.tam >= 1
         /\ TamMemoria \in Nat
         /\ s.ini + s.tam <= TamMemoria
         /\ a.ini + a.tam <= s.ini
         /\ Unida(a, s) \in Particion
         /\ Unida(a, s).ini = s.ini - a.tam
         /\ Unida(a, s).tam = a.tam + s.tam
         /\ DOMAIN mensajes' = DOMAIN mensajes
         /\ \A i \in DOMAIN mensajes :
              /\ mensajes'[i] \in Mensaje
              /\ mensajes'[i].largo = mensajes[i].largo
              /\ mensajes'[i].bytes = mensajes[i].bytes
              /\ mensajes'[i].dato = mensajes[i].dato
              /\ mensajes'[i].timestamp = mensajes[i].timestamp
              /\ \/ /\ mensajes[i].ini + mensajes[i].largo <= a.ini
                    /\ mensajes'[i].ini = mensajes[i].ini
                 \/ /\ a.ini + a.tam <= mensajes[i].ini
                    /\ mensajes[i].ini + mensajes[i].largo <= s.ini
                    /\ mensajes'[i].ini = mensajes[i].ini - a.tam
                 \/ /\ s.ini + s.tam <= mensajes[i].ini
                    /\ mensajes'[i].ini = mensajes[i].ini
<1> DEFINE enMedio(m) == a.ini < m.ini /\ m.ini < s.ini
           movido(m) == [m EXCEPT !.ini = @ - a.tam]
<1>1. /\ TypeOK /\ Acotadas /\ LibresDisjuntas /\ MensajesDisjuntos /\ LibresSinMensajes
  BY DEF IInv, SinSolapamiento
<1>2. /\ a.ini \in Nat /\ a.tam \in Nat /\ a.tam >= 1
      /\ s.ini \in Nat /\ s.tam \in Nat /\ s.tam >= 1
      /\ TamMemoria \in Nat
      /\ s.ini + s.tam <= TamMemoria
      /\ a.ini + a.tam <= s.ini
  <2>0. a # s
    BY <1>1, Tipos
  <2>1. a.ini + a.tam <= s.ini \/ s.ini + s.tam <= a.ini
    BY <1>1, <2>0 DEF LibresDisjuntas
  <2> QED
    BY <1>1, <2>1, Tipos DEF Acotadas
<1>3. /\ Unida(a, s) \in Particion
      /\ Unida(a, s).ini = s.ini - a.tam
      /\ Unida(a, s).tam = a.tam + s.tam
  BY <1>2 DEF Particion, Celdas, Unida
<1>5. /\ DOMAIN mensajes' = DOMAIN mensajes
      /\ \A i \in DOMAIN mensajes :
           mensajes'[i] = IF enMedio(mensajes[i]) THEN movido(mensajes[i]) ELSE mensajes[i]
  BY DEF MoverParticion
<1>6. ASSUME NEW i \in DOMAIN mensajes
      PROVE  /\ mensajes'[i] \in Mensaje
             /\ mensajes'[i].largo = mensajes[i].largo
             /\ mensajes'[i].bytes = mensajes[i].bytes
             /\ mensajes'[i].dato = mensajes[i].dato
             /\ mensajes'[i].timestamp = mensajes[i].timestamp
             /\ \/ /\ mensajes[i].ini + mensajes[i].largo <= a.ini
                   /\ mensajes'[i].ini = mensajes[i].ini
                \/ /\ a.ini + a.tam <= mensajes[i].ini
                   /\ mensajes[i].ini + mensajes[i].largo <= s.ini
                   /\ mensajes'[i].ini = mensajes[i].ini - a.tam
                \/ /\ s.ini + s.tam <= mensajes[i].ini
                   /\ mensajes'[i].ini = mensajes[i].ini
  <2>1. /\ mensajes[i] \in Mensaje
        /\ mensajes[i].ini \in Nat /\ mensajes[i].largo \in Nat /\ mensajes[i].largo >= 1
        /\ a.ini + a.tam <= mensajes[i].ini \/ mensajes[i].ini + mensajes[i].largo <= a.ini
        /\ s.ini + s.tam <= mensajes[i].ini \/ mensajes[i].ini + mensajes[i].largo <= s.ini
    BY <1>1, Tipos DEF LibresSinMensajes
  <2>2. CASE enMedio(mensajes[i])
    <3>1. mensajes'[i] = movido(mensajes[i])
      BY <1>5, <2>2
    <3>2. /\ mensajes'[i].ini = mensajes[i].ini - a.tam
          /\ mensajes'[i].largo = mensajes[i].largo
          /\ mensajes'[i].bytes = mensajes[i].bytes
          /\ mensajes'[i].dato = mensajes[i].dato
          /\ mensajes'[i].timestamp = mensajes[i].timestamp
      BY <2>1, <3>1 DEF Mensaje
    <3>3. /\ a.ini + a.tam <= mensajes[i].ini
          /\ mensajes[i].ini + mensajes[i].largo <= s.ini
      BY <1>2, <2>1, <2>2
    <3>4. mensajes[i].ini - a.tam \in Celdas
      BY <1>2, <2>1, <3>3 DEF Celdas
    <3>5. mensajes'[i] \in Mensaje
      BY <2>1, <3>1, <3>4 DEF Mensaje
    <3> QED
      BY <3>2, <3>3, <3>5
  <2>3. CASE ~enMedio(mensajes[i])
    <3>1. mensajes'[i] = mensajes[i]
      BY <1>5, <2>3
    <3>2. \/ mensajes[i].ini + mensajes[i].largo <= a.ini
          \/ s.ini + s.tam <= mensajes[i].ini
      BY <1>2, <2>1, <2>3
    <3> QED
      BY <2>1, <3>1, <3>2
  <2> QED
    BY <2>2, <2>3
<1> QED
  BY <1>2, <1>3, <1>5, <1>6

(* mover_particion keeps the partitions apart: the messages that slide     *)
(* down stay between the start of the hole and the merged free partition.  *)
LEMMA MoverIInv ==
  ASSUME IInv, NEW a \in libres, NEW s \in libres, libres = {a, s},
         a.ini < s.ini, MoverParticion(a, s)
  PROVE  MemoriaTipada' /\ Acotadas' /\ SinSolapamiento'
<1> DEFINE u == Unida(a, s)
<1>1. /\ TypeOK /\ Acotadas /\ LibresDisjuntas /\ MensajesDisjuntos /\ LibresSinMensajes
  BY DEF IInv, SinSolapamiento
<1>2. /\ a.ini \in Nat /\ a.tam \in Nat /\ a.tam >= 1
      /\ s.ini \in Nat /\ s.tam \in Nat /\ s.tam >= 1
      /\ TamMemoria \in Nat
      /\ s.ini + s.tam <= TamMemoria
      /\ a.ini + a.tam <= s.ini
  BY MoverPosiciones
<1>3. u \in Particion /\ u.ini = s.ini - a.tam /\ u.tam = a.tam + s.tam
  BY MoverPosiciones
<1>4. libres' = {u}
  BY DEF MoverParticion, Unida
<1>5. DOMAIN mensajes' = DOMAIN mensajes
  BY MoverPosiciones
<1>6. ASSUME NEW i \in DOMAIN mensajes
      PROVE  /\ mensajes'[i] \in Mensaje
             /\ mensajes'[i].largo = mensajes[i].largo
             /\ mensajes'[i].bytes = mensajes[i].bytes
             /\ \/ /\ mensajes[i].ini + mensajes[i].largo <= a.ini
                   /\ mensajes'[i].ini = mensajes[i].ini
                \/ /\ a.ini + a.tam <= mensajes[i].ini
                   /\ mensajes[i].ini + mensajes[i].largo <= s.ini
                   /\ mensajes'[i].ini = mensajes[i].ini - a.tam
                \/ /\ s.ini + s.tam <= mensajes[i].ini
                   /\ mensajes'[i].ini = mensajes[i].ini
  BY MoverPosiciones
<1> HIDE DEF u
<1>7. MemoriaTipada'
  <2>1. libres' \subseteq Particion
    BY <1>3, <1>4
  <2>2. mensajes' \in Seq(Mensaje)
    <3>1. mensajes' \in [DOMAIN mensajes -> Mensaje]
      <4>1. mensajes' = [i \in DOMAIN mensajes |-> mensajes'[i]]
        BY DEF MoverParticion
      <4> QED
        BY <1>6, <4>1
    <3>2. mensajes \in Seq(Mensaje)
      BY <1>1 DEF TypeOK
    <3> QED
      BY <3>1, <3>2, MapaEsSeq
  <2>3. cache' \in [Celdas -> Datos \cup {Vacio}]
    <3>1. cache \in [Celdas -> Datos \cup {Vacio}]
      BY <1>1 DEF TypeOK
    <3>2. cache' = [c \in Celdas |->
            IF c \in CeldasLibre(u) THEN Vacio
            ELSE IF a.ini <= c /\ c < u.ini THEN cache[c + a.tam] ELSE cache[c]]
      BY DEF MoverParticion, u, Unida
    <3>3. ASSUME NEW c \in Celdas, a.ini <= c, c < u.ini PROVE c + a.tam \in Celdas
      BY <1>2, <1>3, <3>3 DEF Celdas
    <3> QED
      BY <3>1, <3>2, <3>3
  <2> QED
    BY <2>1, <2>2, <2>3 DEF MemoriaTipada
<1>8. \A i \in DOMAIN mensajes : /\ mensajes[i].ini \in Nat /\ mensajes[i].largo \in Nat
                                /\ mensajes[i].largo >= 1
  BY <1>1, Tipos
<1>9. Acotadas'
  <2>1. ASSUME NEW i \in DOMAIN mensajes
        PROVE  /\ mensajes'[i].ini + mensajes'[i].largo <= TamMemoria
               /\ mensajes'[i].bytes <= mensajes'[i].largo
    <3>1. /\ mensajes[i].ini + mensajes[i].largo <= TamMemoria
          /\ mensajes[i].bytes <= mensajes[i].largo
      BY <1>1 DEF Acotadas
    <3> QED
      BY <1>2, <1>6, <1>8, <3>1
  <2>2. u.ini + u.tam <= TamMemoria
    BY <1>2, <1>3
  <2> QED
    BY <1>4, <1>5, <2>1, <2>2 DEF Acotadas
<1>10. LibresDisjuntas'
  BY <1>4 DEF LibresDisjuntas
<1>11. MensajesDisjuntos'
  <2> SUFFICES ASSUME NEW i \in DOMAIN mensajes, NEW j \in DOMAIN mensajes, i # j
               PROVE  \/ mensajes'[i].ini + mensajes'[i].largo <= mensajes'[j].ini
                      \/ mensajes'[j].ini + mensajes'[j].largo <= mensajes'[i].ini
    BY <1>5 DEF MensajesDisjuntos
  <2>1. \/ mensajes[i].ini + mensajes[i].largo <= mensajes[j].ini
        \/ mensajes[j].ini + mensajes[j].largo <= mensajes[i].ini
    BY <1>1 DEF MensajesDisjuntos
  <2> QED
    BY <1>2, <1>6, <1>8, <2>1
<1>12. LibresSinMensajes'
  <2> SUFFICES ASSUME NEW i \in DOMAIN mensajes
               PROVE  \/ u.ini + u.tam <= mensajes'[i].ini
                      \/ mensajes'[i].ini + mensajes'[i].largo <= u.ini
    BY <1>4, <1>5 DEF LibresSinMensajes
  <2> QED
    BY <1>2, <1>3, <1>6, <1>8
<1> QED
  BY <1>7, <1>9, <1>10, <1>11, <1>12 DEF SinSolapamiento

(* The free partition that an eviction leaves: the cells of the message    *)
(* plus those of its free neighbours, of which there is at most one on     *)
(* each side.                                                              *)
LEMMA ConsolidadaExtremos ==
  ASSUME IInv, NEW i \in DOMAIN mensajes
  PROVE  LET m == mensajes[i]
             n == Consolidada(m)
         IN  /\ n.ini \in Nat /\ n.tam \in Nat
             /\ n.ini <= m.ini /\ m.ini + m.largo <= n.ini + n.tam
             /\ n.ini + n.tam <= TamMemoria
             /\ n \in Particion
             /\ \/ Izquierda(m) = {} /\ n.ini = m.ini
                \/ \E f \in libres : /\ Izquierda(m) = {f} /\ n.ini = f.ini
                                     /\ f.ini + f.tam = m.ini
             /\ \/ Derecha(m) = {} /\ n.ini + n.tam = m.ini + m.largo
                \/ \E f \in libres : /\ Derecha(m) = {f} /\ n.ini + n.tam = f.ini + f.tam
                                     /\ f.ini = m.ini + m.largo
<1> DEFINE m == mensajes[i]
           n == Consolidada(m)
           ini == InicioConsolidada(m)
           cola == IF Derecha(m) = {} THEN 0 ELSE (CHOOSE f \in Derecha(m) : TRUE).tam
<1>1. /\ TypeOK /\ Acotadas /\ LibresDisjuntas /\ LibresSinMensajes
  BY DEF IInv, SinSolapamiento
<1>2. /\ m.ini \in Nat /\ m.largo \in Nat /\ m.largo >= 1 /\ TamMemoria \in Nat
      /\ m.ini + m.largo <= TamMemoria
  BY <1>1, Tipos DEF Acotadas
<1>3. /\ n = [ini |-> ini, tam |-> (m.ini + m.largo + cola) - ini]
      /\ n.ini = ini /\ n.tam = (m.ini + m.largo + cola) - ini
  <2>1. FinConsolidada(m) = m.ini + m.largo + cola
    BY Zenon DEF FinConsolidada
  <2> HIDE DEF m, cola
  <2>2. n = [ini |-> ini, tam |-> (m.ini + m.largo + cola) - ini]
    BY <2>1 DEF Consolidada
  <2> QED
    BY <2>2
<1>4. \A f \in libres : /\ f.ini \in Nat /\ f.tam \in Nat /\ f.tam >= 1
                       /\ f.ini + f.tam <= TamMemoria
  BY <1>1, Tipos DEF Acotadas
<1> HIDE DEF m
<1>5. \/ Izquierda(m) = {} /\ ini = m.ini
      \/ \E f \in libres : Izquierda(m) = {f} /\ ini = f.ini /\ f.ini + f.tam = m.ini
  <2>1. CASE Izquierda(m) = {}
    BY <2>1 DEF InicioConsolidada
  <2>2. CASE Izquierda(m) # {}
    <3>1. PICK f \in libres : f \in Izquierda(m) /\ f = CHOOSE g \in Izquierda(m) : TRUE
      BY <2>2 DEF Izquierda
    <3>2. f.ini + f.tam = m.ini
      BY <1>2, <1>4, <3>1 DEF Izquierda
    <3>3. ASSUME NEW g \in Izquierda(m) PROVE g = f
      <4>1. g \in libres /\ g.ini + g.tam = m.ini
        BY <1>2, <1>4 DEF Izquierda
      <4>2. g # f => g.ini + g.tam <= f.ini \/ f.ini + f.tam <= g.ini
        BY <1>1, <4>1 DEF LibresDisjuntas
      <4> QED
        BY <1>2, <1>4, <3>2, <4>1, <4>2
    <3>4. Izquierda(m) = {f} /\ ini = f.ini
      BY <2>2, <3>1, <3>3 DEF InicioConsolidada
    <3> QED
      BY <3>2, <3>4
  <2> QED
    BY <2>1, <2>2
<1>6. \/ Derecha(m) = {} /\ cola = 0
      \/ \E f \in libres : Derecha(m) = {f} /\ cola = f.tam /\ f.ini = m.ini + m.largo
  <2>1. CASE Derecha(m) = {}
    BY <2>1
  <2>2. CASE Derecha(m) # {}
    <3>1. PICK f \in libres : f \in Derecha(m) /\ f = CHOOSE g \in Derecha(m) : TRUE
      BY <2>2 DEF Derecha
    <3>2. f.ini = m.ini + m.largo
      BY <3>1 DEF Derecha
    <3>3. ASSUME NEW g \in Derecha(m) PROVE g = f
      <4>1. g \in libres /\ g.ini = m.ini + m.largo
        BY DEF Derecha
      <4>2. g # f => g.ini + g.tam <= f.ini \/ f.ini + f.tam <= g.ini
        BY <1>1, <4>1 DEF LibresDisjuntas
      <4> QED
        BY <1>2, <1>4, <3>2, <4>1, <4>2
    <3>4. Derecha(m) = {f} /\ cola = f.tam
      BY <2>2, <3>1, <3>3
    <3> QED
      BY <3>2, <3>4
  <2> QED
    BY <2>1, <2>2
<1> HIDE DEF ini, cola
<1>7. /\ ini \in Nat /\ ini <= m.ini /\ cola \in Nat
      /\ m.ini + m.largo + cola <= TamMemoria
  BY <1>2, <1>4, <1>5, <1>6
<1>8. n \in Particion
  <2>2. ini \in Celdas /\ (m.ini + m.largo + cola) - ini \in 1..TamMemoria
    BY <1>2, <1>7 DEF Celdas
  <2> QED
    BY <1>3, <2>2 DEF Particion
<1> HIDE DEF n
<1>9. /\ n.ini \in Nat /\ n.tam \in Nat
      /\ n.ini <= m.ini /\ m.ini + m.largo <= n.ini + n.tam
      /\ n.ini + n.tam <= TamMemoria
      /\ n.ini + n.tam = m.ini + m.largo + cola
  BY <1>2, <1>3, <1>7
<1>10. \/ Derecha(m) = {} /\ n.ini + n.tam = m.ini + m.largo
       \/ \E f \in libres : /\ Derecha(m) = {f} /\ n.ini + n.tam = f.ini + f.tam
                            /\ f.ini = m.ini + m.largo
  BY <1>2, <1>4, <1>6, <1>9
<1>11. \/ Izquierda(m) = {} /\ n.ini = m.ini
       \/ \E f \in libres : Izquierda(m) = {f} /\ n.ini = f.ini /\ f.ini + f.tam = m.ini
  BY <1>3, <1>5
<1> QED
  BY <1>8, <1>9, <1>10, <1>11 DEF m, n

(* An eviction frees the cells of the victim and of nothing else. *)
LEMMA EliminarIInv == IInv /\ Eliminar => IInv'
<1> SUFFICES ASSUME IInv, Eliminar PROVE IInv'
  OBVIOUS
<1>1. PICK k \in DOMAIN mensajes :
        /\ mensajes' = RemoveAt(mensajes, k)
        /\ Consolidar(mensajes[k])
  BY DEF Eliminar
<1> DEFINE m == mensajes[k]
           n == Consolidada(m)
           quedan == libres \ (Izquierda(m) \cup Derecha(m))
<1>2. /\ TypeOK /\ Acotadas /\ LibresDisjuntas /\ MensajesDisjuntos /\ LibresSinMensajes
  BY DEF IInv, SinSolapamiento
<1>3. /\ m.ini \in Nat /\ m.largo \in Nat /\ m.largo >= 1
  BY <1>2, Tipos
<1>4. \A f \in libres : f.ini \in Nat /\ f.tam \in Nat /\ f.tam >= 1
  BY <1>2, Tipos
<1>5. /\ n.ini \in Nat /\ n.tam \in Nat
      /\ n.ini <= m.ini /\ m.ini + m.largo <= n.ini + n.tam
      /\ n.ini + n.tam <= TamMemoria
      /\ n \in Particion
      /\ \/ Izquierda(m) = {} /\ n.ini = m.ini
         \/ \E f \in libres : Izquierda(m) = {f} /\ n.ini = f.ini /\ f.ini + f.tam = m.ini
      /\ \/ Derecha(m) = {} /\ n.ini + n.tam = m.ini + m.largo
         \/ \E f \in libres : /\ Derecha(m) = {f} /\ n.ini + n.tam = f.ini + f.tam
                              /\ f.ini = m.ini + m.largo
  BY ConsolidadaExtremos
<1>6. libres' = quedan \cup {n}
  BY <1>1 DEF Consolidar
<1>7. /\ mensajes' \in Seq(Mensaje)
      /\ DOMAIN mensajes' = 1..(Len(mensajes) - 1)
      /\ \A j \in 1..(Len(mensajes) - 1) :
           mensajes'[j] = IF j < k THEN mensajes[j] ELSE mensajes[j + 1]
  BY <1>1, <1>2, RemoveAtElementos DEF TypeOK
(* Each remaining message is one of the old ones, and not the victim. *)
<1> DEFINE antes(j) == IF j < k THEN j ELSE j + 1
<1>8. ASSUME NEW j \in DOMAIN mensajes'
      PROVE  /\ antes(j) \in DOMAIN mensajes
             /\ antes(j) # k
             /\ mensajes'[j] = mensajes[antes(j)]
  BY <1>2, <1>7, Tipos
<1>9. ASSUME NEW i \in DOMAIN mensajes', NEW j \in DOMAIN mensajes', i # j
      PROVE  antes(i) # antes(j)
  BY <1>7, <1>9, <1>2, Tipos
<1> HIDE DEF m, n, antes
(* The consolidated partition keeps away from what was not merged. *)
<1>10. ASSUME NEW x, NEW y, x \in Nat, y \in Nat, y >= 1,
              x + y <= m.ini \/ m.ini + m.largo <= x,
              \A f \in libres : f \in Izquierda(m) \cup Derecha(m) =>
                 x + y <= f.ini \/ f.ini + f.tam <= x
       PROVE  x + y <= n.ini \/ n.ini + n.tam <= x
  <2>1. x + y <= m.ini => x + y <= n.ini
    BY <1>3, <1>4, <1>5, <1>10
  <2>2. m.ini + m.largo <= x => n.ini + n.tam <= x
    BY <1>3, <1>4, <1>5, <1>10
  <2> QED
    BY <1>10, <2>1, <2>2
<1>11. ASSUME NEW f \in quedan PROVE f.ini + f.tam <= n.ini \/ n.ini + n.tam <= f.ini
  <2>1. f.ini + f.tam <= m.ini \/ m.ini + m.largo <= f.ini
    BY <1>2 DEF LibresSinMensajes, m
  <2>2. \A g \in Izquierda(m) \cup Derecha(m) :
          g \in libres => f.ini + f.tam <= g.ini \/ g.ini + g.tam <= f.ini
    BY <1>2 DEF LibresDisjuntas
  <2> QED
    BY <1>4, <1>10, <2>1, <2>2
<1>12. ASSUME NEW j \in DOMAIN mensajes, j # k
       PROVE  \/ n.ini + n.tam <= mensajes[j].ini
              \/ mensajes[j].ini + mensajes[j].largo <= n.ini
  <2>1. \/ mensajes[j].ini + mensajes[j].largo <= m.ini
        \/ m.ini + m.largo <= mensajes[j].ini
    BY <1>2, <1>12 DEF MensajesDisjuntos, m
  <2>2. \A f \in libres : \/ f.ini + f.tam <= mensajes[j].ini
                         \/ mensajes[j].ini + mensajes[j].largo <= f.ini
    BY <1>2 DEF LibresSinMensajes
  <2>3. /\ mensajes[j].ini \in Nat /\ mensajes[j].largo \in Nat /\ mensajes[j].largo >= 1
    BY <1>2, Tipos
  <2> QED
    BY <1>10, <2>1, <2>2, <2>3
<1>13. TypeOK'
  <2>1. libres' \subseteq Particion
    BY <1>2, <1>5, <1>6 DEF TypeOK
  <2>2. cache' \in [Celdas -> Datos \cup {Vacio}]
    BY <1>1, <1>2 DEF TypeOK, Consolidar
  <2>3. count' \in Nat /\ pc' \in {"compactar", "buscar"} /\ pedido' = pedido /\ reloj' = reloj
    BY <1>2 DEF TypeOK, Eliminar
  <2> QED
    BY <1>2, <1>7, <2>1, <2>2, <2>3 DEF TypeOK
<1>14. Acotadas'
  BY <1>2, <1>5, <1>6, <1>8 DEF Acotadas
<1>15. LibresDisjuntas'
  BY <1>2, <1>6, <1>11 DEF LibresDisjuntas
<1>16. MensajesDisjuntos'
  BY <1>2, <1>8, <1>9 DEF MensajesDisjuntos
<1>17. LibresSinMensajes'
  BY <1>2, <1>6, <1>8, <1>12 DEF LibresSinMensajes
<1>18. PedidoEnCurso'
  BY DEF IInv, PedidoEnCurso, Eliminar
<1> QED
  BY <1>13, <1>14, <1>15, <1>16, <1>17, <1>18 DEF IInv, SinSolapamiento

(* The three ways a compaction can go. *)
LEMMA CompactarMemoria ==
  ASSUME IInv, NEW sigue, Compactar(sigue)
  PROVE  /\ MemoriaTipada' /\ Acotadas' /\ SinSolapamiento'
         /\ pc' = sigue \/ pc' = "caido"
<1>1. pc' = sigue \/ pc' = "caido"
  BY DEF Compactar
<1>2. CASE UNCHANGED memoria
  BY <1>1, <1>2 DEF memoria, IInv, TypeOK, MemoriaTipada, Acotadas, SinSolapamiento,
     LibresDisjuntas, MensajesDisjuntos, LibresSinMensajes
<1>3. CASE \E a, s \in libres : libres = {a, s} /\ a.ini < s.ini /\ MoverParticion(a, s)
  BY <1>1, <1>3, MoverIInv
<1> QED
  BY <1>2, <1>3, Zenon DEF Compactar

LEMMA CompactarYRebuscarIInv == IInv /\ CompactarYRebuscar => IInv'
<1> SUFFICES ASSUME IInv, CompactarYRebuscar PROVE IInv'
  OBVIOUS
<1>1. /\ MemoriaTipada' /\ Acotadas' /\ SinSolapamiento'
      /\ pc' = "rebuscar" \/ pc' = "caido"
  BY CompactarMemoria DEF CompactarYRebuscar
<1>2. /\ count' = 1 /\ pedido' = pedido /\ reloj' = reloj
      /\ pedido \in Pedido /\ reloj \in 0..MaxReloj
  BY DEF CompactarYRebuscar, IInv, TypeOK, PedidoEnCurso
<1> QED
  BY <1>1, <1>2 DEF IInv, TypeOK, MemoriaTipada, PedidoEnCurso

LEMMA CompactarTrasEliminarIInv == IInv /\ CompactarTrasEliminar => IInv'
<1> SUFFICES ASSUME IInv, CompactarTrasEliminar PROVE IInv'
  OBVIOUS
<1>1. /\ MemoriaTipada' /\ Acotadas' /\ SinSolapamiento'
      /\ pc' = "buscar" \/ pc' = "caido"
  BY CompactarMemoria DEF CompactarTrasEliminar
<1>2. /\ count' = count /\ pedido' = pedido /\ reloj' = reloj
      /\ pedido \in Pedido /\ reloj \in 0..MaxReloj /\ count \in Nat
  BY DEF CompactarTrasEliminar, IInv, TypeOK, PedidoEnCurso
<1> QED
  BY <1>1, <1>2 DEF IInv, TypeOK, MemoriaTipada, PedidoEnCurso

(* Sending again changes timestamps only. *)
LEMMA ReenviarMensajes ==
  ASSUME TypeOK, Reenviar
  PROVE  /\ mensajes' \in Seq(Mensaje)
         /\ DOMAIN mensajes' = DOMAIN mensajes
         /\ \A i \in DOMAIN mensajes :
              /\ mensajes'[i].ini = mensajes[i].ini
              /\ mensajes'[i].largo = mensajes[i].largo
              /\ mensajes'[i].bytes = mensajes[i].bytes
              /\ mensajes'[i].dato = mensajes[i].dato
<1>1. PICK usados \in SUBSET DOMAIN mensajes :
        mensajes' = [i \in DOMAIN mensajes |->
          IF i \in usados THEN [mensajes[i] EXCEPT !.timestamp = reloj] ELSE mensajes[i]]
  BY DEF Reenviar, RefrescarUsados
<1>2. ASSUME NEW i \in DOMAIN mensajes
      PROVE  /\ mensajes'[i] \in Mensaje
             /\ mensajes'[i].ini = mensajes[i].ini
             /\ mensajes'[i].largo = mensajes[i].largo
             /\ mensajes'[i].bytes = mensajes[i].bytes
             /\ mensajes'[i].dato = mensajes[i].dato
  <2>1. mensajes[i] \in Mensaje /\ reloj \in 0..MaxReloj
    BY Tipos DEF TypeOK
  <2> QED
    BY <1>1, <2>1 DEF Mensaje
<1>3. mensajes' \in [DOMAIN mensajes -> Mensaje]
  BY <1>1, <1>2
<1> QED
  BY <1>2, <1>3, MapaEsSeq DEF TypeOK

LEMMA ReenviarIInv == IInv /\ Reenviar => IInv'
<1> SUFFICES ASSUME IInv, Reenviar PROVE IInv'
  OBVIOUS
<1>1. TypeOK /\ Acotadas /\ PedidoEnCurso /\ SinSolapamiento
  BY DEF IInv
<1>2. UNCHANGED <<libres, cache, pedido, count, pc, reloj>>
  BY DEF Reenviar, RefrescarUsados
<1>3. TypeOK' /\ PedidoEnCurso'
  BY <1>1, <1>2, ReenviarMensajes DEF TypeOK, PedidoEnCurso
<1>4. Acotadas' /\ SinSolapamiento'
  BY <1>1, <1>2, ReenviarMensajes DEF Acotadas, SinSolapamiento, LibresDisjuntas,
     MensajesDisjuntos, LibresSinMensajes
<1> QED
  BY <1>3, <1>4 DEF IInv

(* The steps that leave the memory alone. *)
QuietoEnMemoria ==
  \/ Pedir \/ NoEncontrar \/ NoCompactar \/ EliminarSinMensajes \/ Tictac

LEMMA QuietoIInv == IInv /\ QuietoEnMemoria => IInv' /\ UNCHANGED memoria
<1> SUFFICES ASSUME IInv, QuietoEnMemoria PROVE IInv' /\ UNCHANGED memoria
  OBVIOUS
<1> USE DEF memoria
<1>1. UNCHANGED memoria
  BY DEF QuietoEnMemoria, Pedir, NoEncontrar, NoCompactar, EliminarSinMensajes, Tictac, AvanzarReloj
<1>2. Acotadas' /\ SinSolapamiento'
  BY <1>1 DEF IInv, Acotadas, SinSolapamiento, LibresDisjuntas, MensajesDisjuntos,
     LibresSinMensajes
<1>3. TypeOK' /\ PedidoEnCurso'
  <2>1. TypeOK /\ PedidoEnCurso
    BY DEF IInv
  <2>2. CASE Pedir
    BY <1>1, <2>1, <2>2 DEF Pedir, PedidosNuevos, TypeOK, PedidoEnCurso, Pedido
  <2>3. CASE NoEncontrar \/ NoCompactar \/ EliminarSinMensajes
    BY <1>1, <2>1, <2>3 DEF NoEncontrar, NoCompactar, EliminarSinMensajes, TypeOK, PedidoEnCurso
  <2>4. CASE Tictac
    BY <1>1, <2>1, <2>4, ConstantesAssumption DEF Tictac, AvanzarReloj, TypeOK, PedidoEnCurso
  <2> QED
    BY <2>2, <2>3, <2>4 DEF QuietoEnMemoria
<1> QED
  BY <1>1, <1>2, <1>3 DEF IInv

LEMMA PasoIInv == IInv /\ [Next]_vars => IInv'
<1> SUFFICES ASSUME IInv, [Next]_vars PROVE IInv'
  OBVIOUS
<1>1. CASE QuietoEnMemoria
  BY <1>1, QuietoIInv
<1>2. CASE Guardar
  BY <1>2, GuardarIInv
<1>3. CASE CompactarYRebuscar
  BY <1>3, CompactarYRebuscarIInv
<1>4. CASE Eliminar
  BY <1>4, EliminarIInv
<1>5. CASE CompactarTrasEliminar
  BY <1>5, CompactarTrasEliminarIInv
<1>6. CASE Reenviar
  BY <1>6, ReenviarIInv
<1>7. CASE UNCHANGED vars
  BY <1>7 DEF vars, IInv, TypeOK, Acotadas, PedidoEnCurso, SinSolapamiento,
     LibresDisjuntas, MensajesDisjuntos, LibresSinMensajes
<1> QED
  BY <1>1, <1>2, <1>3, <1>4, <1>5, <1>6, <1>7 DEF Next, Hilo, QuietoEnMemoria

LEMMA SiempreIInv == Spec => []IInv
BY InicioIInv, PasoIInv, PTL DEF Spec

(* Every state is well typed: partitions stay inside CACHE and have a      *)
(* positive size, whatever the messages and the configuration.             *)
THEOREM TipoCorrecto == Spec => []TypeOK
<1>1. IInv => TypeOK
  BY DEF IInv
<1> QED
  BY <1>1, SiempreIInv, PTL

(* No two partitions ever share a cell. *)
THEOREM NuncaSolapan == Spec => []SinSolapamiento
<1>1. IInv => SinSolapamiento
  BY DEF IInv
<1> QED
  BY <1>1, SiempreIInv, PTL

-----------------------------------------------------------------------------
(* The invariants that rest on the inductive core: tiling, consolidation   *)
(* and the contents of CACHE.                                              *)

LEMMA GuardarEfecto ==
  ASSUME IInv, Guardar
  PROVE  \E f \in libres, largo \in Nat :
           /\ pedido.bytes \in Nat /\ pedido.bytes >= 1
           /\ pedido.bytes <= largo /\ largo <= f.tam
           /\ libres' = (libres \ {f}) \cup Resto(f, largo)
           /\ Escribir(f)
           /\ DOMAIN mensajes' = 1..(Len(mensajes) + 1)
           /\ \A i \in DOMAIN mensajes : mensajes'[i] = mensajes[i]
           /\ mensajes'[Len(mensajes) + 1].ini = f.ini
           /\ mensajes'[Len(mensajes) + 1].largo = largo
           /\ mensajes'[Len(mensajes) + 1].bytes = pedido.bytes
           /\ mensajes'[Len(mensajes) + 1].dato = pedido.dato
<1> DEFINE largo == ObtenerTamMsg(pedido.bytes)
<1>1. TypeOK /\ pedido \in Pedido
  BY DEF IInv, PedidoEnCurso, Guardar
<1>2. /\ largo \in Nat /\ pedido.bytes <= largo
      /\ pedido.bytes \in Nat /\ pedido.bytes >= 1
  BY <1>1, TamMsg DEF Pedido
<1> HIDE DEF largo
<1>3. PICK f \in libres :
        /\ largo <= f.tam
        /\ libres' = (libres \ {f}) \cup Resto(f, largo)
        /\ Escribir(f)
        /\ mensajes' = Append(mensajes,
             [dato |-> pedido.dato, bytes |-> pedido.bytes, ini |-> f.ini,
              largo |-> largo, timestamp |-> reloj])
  BY DEF NuevoMensaje, Guardar, Candidatas, largo
<1> DEFINE m == [dato |-> pedido.dato, bytes |-> pedido.bytes, ini |-> f.ini,
                 largo |-> largo, timestamp |-> reloj]
<1>4. /\ m.ini = f.ini /\ m.largo = largo /\ m.bytes = pedido.bytes /\ m.dato = pedido.dato
      /\ mensajes' = Append(mensajes, m)
  BY <1>3
<1> HIDE DEF m
<1>5. /\ DOMAIN mensajes' = 1..(Len(mensajes) + 1)
      /\ \A i \in DOMAIN mensajes : mensajes'[i] = mensajes[i]
      /\ mensajes'[Len(mensajes) + 1] = m
  BY <1>1, <1>4, Tipos DEF TypeOK
<1> QED
  BY <1>2, <1>3, <1>4, <1>5

LEMMA EliminarEfecto ==
  ASSUME IInv, Eliminar
  PROVE  \E k \in DOMAIN mensajes :
           /\ Consolidar(mensajes[k])
           /\ \A j \in DOMAIN mensajes' :
                \E i \in DOMAIN mensajes : i # k /\ mensajes'[j] = mensajes[i]
           /\ \A i \in DOMAIN mensajes :
                i # k => \E j \in DOMAIN mensajes' : mensajes'[j] = mensajes[i]
<1>1. PICK k \in DOMAIN mensajes :
        /\ mensajes' = RemoveAt(mensajes, k)
        /\ Consolidar(mensajes[k])
  BY DEF Eliminar
<1>2. TypeOK /\ Len(mensajes) \in Nat /\ DOMAIN mensajes = 1..Len(mensajes)
  BY Tipos DEF IInv
<1>3. /\ DOMAIN mensajes' = 1..(Len(mensajes) - 1)
      /\ \A j \in 1..(Len(mensajes) - 1) :
           mensajes'[j] = IF j < k THEN mensajes[j] ELSE mensajes[j + 1]
  BY <1>1, <1>2, RemoveAtElementos DEF TypeOK
<1>4. ASSUME NEW j \in DOMAIN mensajes'
      PROVE  \E i \in DOMAIN mensajes : i # k /\ mensajes'[j] = mensajes[i]
  <2>1. CASE j < k
    BY <1>2, <1>3, <2>1
  <2>2. CASE ~(j < k)
    <3>1. j + 1 \in DOMAIN mensajes /\ j + 1 # k /\ mensajes'[j] = mensajes[j + 1]
      BY <1>2, <1>3, <2>2
    <3> QED
      BY <3>1
  <2> QED
    BY <2>1, <2>2
<1>5. ASSUME NEW i \in DOMAIN mensajes, i # k
      PROVE  \E j \in DOMAIN mensajes' : mensajes'[j] = mensajes[i]
  <2>1. CASE i < k
    BY <1>2, <1>3, <2>1
  <2>2. CASE ~(i < k)
    <3>1. /\ i - 1 \in DOMAIN mensajes' /\ ~(i - 1 < k) /\ (i - 1) + 1 = i
      BY <1>2, <1>3, <1>5, <2>2
    <3>2. mensajes'[i - 1] = mensajes[i]
      BY <1>3, <3>1
    <3> QED
      BY <3>1, <3>2
  <2> QED
    BY <2>1, <2>2
<1> QED
  BY <1>1, <1>4, <1>5

(* SinHuecos: what one action takes from a partition it gives to another. *)
LEMMA GuardarHuecos == IInv /\ SinHuecos /\ Guardar => SinHuecos'
<1> SUFFICES ASSUME IInv, SinHuecos, Guardar, NEW c \in Celdas
             PROVE  \/ \E g \in libres' : c \in CeldasLibre(g)
                    \/ \E i \in DOMAIN mensajes' : c \in CeldasMensaje(mensajes'[i])
  BY DEF SinHuecos, CeldasLibre, CeldasMensaje
<1>1. PICK f \in libres, largo \in Nat :
        /\ largo <= f.tam
        /\ libres' = (libres \ {f}) \cup Resto(f, largo)
        /\ DOMAIN mensajes' = 1..(Len(mensajes) + 1)
        /\ \A i \in DOMAIN mensajes : mensajes'[i] = mensajes[i]
        /\ mensajes'[Len(mensajes) + 1].ini = f.ini
        /\ mensajes'[Len(mensajes) + 1].largo = largo
  BY GuardarEfecto
<1>2. /\ f.ini \in Nat /\ f.tam \in Nat /\ c \in Nat
      /\ Len(mensajes) \in Nat /\ DOMAIN mensajes = 1..Len(mensajes)
  BY Tipos DEF IInv, Celdas
<1>3. CASE \E i \in DOMAIN mensajes : c \in CeldasMensaje(mensajes[i])
  BY <1>1, <1>2, <1>3
<1>4. CASE \E g \in libres \ {f} : c \in CeldasLibre(g)
  BY <1>1, <1>4
<1>5. CASE c \in CeldasLibre(f)
  <2>1. CASE c < f.ini + largo
    <3>1. c \in CeldasMensaje(mensajes'[Len(mensajes) + 1])
      BY <1>1, <1>2, <1>5, <2>1 DEF CeldasLibre, CeldasMensaje
    <3> QED
      BY <1>1, <1>2, <3>1
  <2>2. CASE ~(c < f.ini + largo)
    <3> DEFINE r == [ini |-> f.ini + largo, tam |-> f.tam - largo]
    <3>1. r \in libres' /\ r.ini = f.ini + largo /\ r.tam = f.tam - largo
      BY <1>1, <1>2, <1>5, <2>2 DEF Resto, CeldasLibre
    <3> HIDE DEF r
    <3>2. c \in CeldasLibre(r)
      BY <1>1, <1>2, <1>5, <2>2, <3>1 DEF CeldasLibre
    <3> QED
      BY <3>1, <3>2
  <2> QED
    BY <2>1, <2>2
<1> QED
  BY <1>3, <1>4, <1>5 DEF SinHuecos

LEMMA MoverHuecos ==
  ASSUME IInv, SinHuecos, NEW a \in libres, NEW s \in libres, libres = {a, s},
         a.ini < s.ini, MoverParticion(a, s)
  PROVE  SinHuecos'
<1> SUFFICES ASSUME NEW c \in Celdas
             PROVE  \/ \E g \in libres' : c \in CeldasLibre(g)
                    \/ \E i \in DOMAIN mensajes' : c \in CeldasMensaje(mensajes'[i])
  BY DEF SinHuecos, CeldasLibre, CeldasMensaje
<1> DEFINE u == Unida(a, s)
<1>1. /\ a.ini \in Nat /\ a.tam \in Nat /\ a.tam >= 1
      /\ s.ini \in Nat /\ s.tam \in Nat /\ s.tam >= 1
      /\ TamMemoria \in Nat /\ c \in Nat /\ c < TamMemoria
      /\ s.ini + s.tam <= TamMemoria
      /\ a.ini + a.tam <= s.ini
      /\ u.ini = s.ini - a.tam /\ u.tam = a.tam + s.tam
      /\ DOMAIN mensajes' = DOMAIN mensajes
  BY MoverPosiciones DEF Celdas
<1>2. libres' = {u}
  BY DEF MoverParticion, Unida
<1> HIDE DEF u
<1>3. \A i \in DOMAIN mensajes :
        /\ mensajes[i].ini \in Nat /\ mensajes[i].largo \in Nat
        /\ mensajes'[i].largo = mensajes[i].largo
        /\ \/ /\ mensajes[i].ini + mensajes[i].largo <= a.ini
              /\ mensajes'[i].ini = mensajes[i].ini
           \/ /\ a.ini + a.tam <= mensajes[i].ini
              /\ mensajes[i].ini + mensajes[i].largo <= s.ini
              /\ mensajes'[i].ini = mensajes[i].ini - a.tam
           \/ /\ s.ini + s.tam <= mensajes[i].ini
              /\ mensajes'[i].ini = mensajes[i].ini
  BY MoverPosiciones, Tipos DEF IInv
(* A cell outside both free partitions belongs to a message. *)
<1>4. ASSUME NEW d \in Celdas, d \notin CeldasLibre(a), d \notin CeldasLibre(s)
      PROVE  \E i \in DOMAIN mensajes : d \in CeldasMensaje(mensajes[i])
  BY <1>4 DEF SinHuecos
<1>5. CASE u.ini <= c /\ c < u.ini + u.tam
  BY <1>1, <1>2, <1>5 DEF CeldasLibre
<1>6. CASE c < a.ini \/ s.ini + s.tam <= c
  <2>1. c \notin CeldasLibre(a) /\ c \notin CeldasLibre(s)
    BY <1>1, <1>6 DEF CeldasLibre
  <2>2. PICK i \in DOMAIN mensajes : c \in CeldasMensaje(mensajes[i])
    BY <1>4, <2>1
  <2>3. c \in CeldasMensaje(mensajes'[i])
    BY <1>1, <1>3, <1>6, <2>2 DEF CeldasMensaje
  <2> QED
    BY <1>1, <2>3
<1>7. CASE a.ini <= c /\ c < u.ini
  <2> DEFINE d == c + a.tam
  <2>1. d \in Celdas /\ d \in Nat /\ a.ini + a.tam <= d /\ d < s.ini
    BY <1>1, <1>7 DEF Celdas
  <2>2. d \notin CeldasLibre(a) /\ d \notin CeldasLibre(s)
    BY <1>1, <2>1 DEF CeldasLibre
  <2>3. PICK i \in DOMAIN mensajes : d \in CeldasMensaje(mensajes[i])
    BY <1>4, <2>1, <2>2
  <2>4. c \in CeldasMensaje(mensajes'[i])
    BY <1>1, <1>3, <2>1, <2>3 DEF CeldasMensaje
  <2> QED
    BY <1>1, <2>4
<1> QED
  BY <1>1, <1>5, <1>6, <1>7

LEMMA EliminarHuecos == IInv /\ SinHuecos /\ Eliminar => SinHuecos'
<1> SUFFICES ASSUME IInv, SinHuecos, Eliminar, NEW c \in Celdas
             PROVE  \/ \E g \in libres' : c \in CeldasLibre(g)
                    \/ \E j \in DOMAIN mensajes' : c \in CeldasMensaje(mensajes'[j])
  BY DEF SinHuecos, CeldasLibre, CeldasMensaje
<1>1. PICK k \in DOMAIN mensajes :
        /\ Consolidar(mensajes[k])
        /\ \A i \in DOMAIN mensajes :
             i # k => \E j \in DOMAIN mensajes' : mensajes'[j] = mensajes[i]
  BY EliminarEfecto
<1> DEFINE m == mensajes[k]
           n == Consolidada(m)
<1>2. /\ m.ini \in Nat /\ m.largo \in Nat /\ c \in Nat
      /\ \A f \in libres : f.ini \in Nat /\ f.tam \in Nat
  BY Tipos DEF IInv, Celdas
<1>3. /\ n.ini \in Nat /\ n.tam \in Nat
      /\ n.ini <= m.ini /\ m.ini + m.largo <= n.ini + n.tam
      /\ \/ Izquierda(m) = {} /\ n.ini = m.ini
         \/ \E f \in libres : Izquierda(m) = {f} /\ n.ini = f.ini /\ f.ini + f.tam = m.ini
      /\ \/ Derecha(m) = {} /\ n.ini + n.tam = m.ini + m.largo
         \/ \E f \in libres : /\ Derecha(m) = {f} /\ n.ini + n.tam = f.ini + f.tam
                              /\ f.ini = m.ini + m.largo
  BY ConsolidadaExtremos
<1>4. libres' = (libres \ (Izquierda(m) \cup Derecha(m))) \cup {n}
  BY <1>1 DEF Consolidar
<1> HIDE DEF m, n
<1>5. CASE \E f \in libres : c \in CeldasLibre(f)
  <2>1. PICK f \in libres : c \in CeldasLibre(f)
    BY <1>5
  <2>2. CASE f \in Izquierda(m) \cup Derecha(m)
    <3>1. c \in CeldasLibre(n)
      BY <1>2, <1>3, <2>1, <2>2 DEF CeldasLibre
    <3> QED
      BY <1>4, <3>1
  <2>3. CASE f \notin Izquierda(m) \cup Derecha(m)
    BY <1>4, <2>1, <2>3
  <2> QED
    BY <2>2, <2>3
<1>6. CASE c \in CeldasMensaje(m)
  <2>1. c \in CeldasLibre(n)
    BY <1>2, <1>3, <1>6 DEF CeldasLibre, CeldasMensaje
  <2> QED
    BY <1>4, <2>1
<1>7. CASE \E i \in DOMAIN mensajes : i # k /\ c \in CeldasMensaje(mensajes[i])
  BY <1>1, <1>7
<1> QED
  BY <1>5, <1>6, <1>7 DEF SinHuecos, m

(* LibresConsolidadas: splits take the start of a partition, evictions     *)
(* merge with the neighbours, and a compaction leaves one partition.       *)
LEMMA GuardarConsolidadas == IInv /\ LibresConsolidadas /\ Guardar => LibresConsolidadas'
<1> SUFFICES ASSUME IInv, LibresConsolidadas, Guardar,
                    NEW g \in libres', NEW h \in libres'
             PROVE  g.ini + g.tam # h.ini
  BY DEF LibresConsolidadas
<1>1. PICK f \in libres, largo \in Nat :
        /\ 1 <= largo /\ largo <= f.tam
        /\ libres' = (libres \ {f}) \cup Resto(f, largo)
  <2>1. PICK f \in libres, largo \in Nat :
          /\ pedido.bytes \in Nat /\ pedido.bytes >= 1
          /\ pedido.bytes <= largo /\ largo <= f.tam
          /\ libres' = (libres \ {f}) \cup Resto(f, largo)
    BY GuardarEfecto
  <2> QED
    BY <2>1
<1>2. /\ f.ini \in Nat /\ f.tam \in Nat
      /\ \A x \in libres : /\ x.ini \in Nat /\ x.tam \in Nat /\ x.tam >= 1
                           /\ x # f => x.ini + x.tam <= f.ini \/ f.ini + f.tam <= x.ini
                           /\ x.ini + x.tam # f.ini /\ f.ini + f.tam # x.ini
  BY Tipos DEF IInv, SinSolapamiento, LibresDisjuntas, LibresConsolidadas
<1>3. CASE g \in libres \ {f} /\ h \in libres \ {f}
  BY <1>3 DEF LibresConsolidadas
<1>4. CASE g \in libres \ {f} /\ h \in Resto(f, largo)
  BY <1>1, <1>2, <1>4 DEF Resto
<1>5. CASE h \in libres \ {f} /\ g \in Resto(f, largo)
  BY <1>1, <1>2, <1>5 DEF Resto
<1>6. CASE g \in Resto(f, largo) /\ h \in Resto(f, largo)
  BY <1>1, <1>2, <1>6 DEF Resto
<1> QED
  BY <1>1, <1>3, <1>4, <1>5, <1>6

LEMMA EliminarConsolidadas == IInv /\ LibresConsolidadas /\ Eliminar => LibresConsolidadas'
<1> SUFFICES ASSUME IInv, LibresConsolidadas, Eliminar,
                    NEW g \in libres', NEW h \in libres'
             PROVE  g.ini + g.tam # h.ini
  BY DEF LibresConsolidadas
<1>1. PICK k \in DOMAIN mensajes : Consolidar(mensajes[k])
  BY DEF Eliminar
<1> DEFINE m == mensajes[k]
           n == Consolidada(m)
           quedan == libres \ (Izquierda(m) \cup Derecha(m))
<1>2. /\ m.ini \in Nat /\ m.largo \in Nat /\ m.largo >= 1
      /\ \A f \in libres : f.ini \in Nat /\ f.tam \in Nat /\ f.tam >= 1
      /\ \A f, x \in libres : f.ini + f.tam # x.ini
  BY Tipos DEF IInv, LibresConsolidadas
<1>3. /\ n.ini \in Nat /\ n.tam \in Nat
      /\ n.ini <= m.ini /\ m.ini + m.largo <= n.ini + n.tam
      /\ \/ Izquierda(m) = {} /\ n.ini = m.ini
         \/ \E f \in libres : Izquierda(m) = {f} /\ n.ini = f.ini /\ f.ini + f.tam = m.ini
      /\ \/ Derecha(m) = {} /\ n.ini + n.tam = m.ini + m.largo
         \/ \E f \in libres : /\ Derecha(m) = {f} /\ n.ini + n.tam = f.ini + f.tam
                              /\ f.ini = m.ini + m.largo
  BY ConsolidadaExtremos
<1>4. libres' = quedan \cup {n}
  BY <1>1 DEF Consolidar
<1> HIDE DEF m, n
<1>5. \A x \in quedan : /\ x \in libres
                       /\ x.ini + x.tam # m.ini
                       /\ m.ini + m.largo # x.ini
  BY <1>2 DEF Izquierda, Derecha
<1>6. CASE g \in quedan /\ h \in quedan
  BY <1>2, <1>6
<1>7. CASE g \in quedan /\ h = n
  BY <1>2, <1>3, <1>5, <1>7
<1>8. CASE g = n /\ h \in quedan
  BY <1>2, <1>3, <1>5, <1>8
<1>9. CASE g = n /\ h = n
  BY <1>2, <1>3, <1>9
<1> QED
  BY <1>4, <1>6, <1>7, <1>8, <1>9

LEMMA MoverConsolidadas ==
  ASSUME IInv, NEW a \in libres, NEW s \in libres, libres = {a, s},
         a.ini < s.ini, MoverParticion(a, s)
  PROVE  LibresConsolidadas'
<1>1. libres' = {Unida(a, s)}
  BY DEF MoverParticion, Unida
<1>2. Unida(a, s).ini \in Nat /\ Unida(a, s).tam \in Nat /\ Unida(a, s).tam >= 1
  BY MoverPosiciones
<1> QED
  BY <1>1, <1>2 DEF LibresConsolidadas

(* CacheFiel: what is written or cleared lies in one partition, and the    *)
(* memmove of a compaction carries each message to its new address.        *)
LEMMA GuardarCache == IInv /\ CacheFiel /\ Guardar => CacheFiel'
<1> SUFFICES ASSUME IInv, CacheFiel, Guardar PROVE CacheFiel'
  OBVIOUS
<1>1. PICK f \in libres, largo \in Nat :
        /\ pedido.bytes \in Nat /\ pedido.bytes >= 1
        /\ pedido.bytes <= largo /\ largo <= f.tam
        /\ libres' = (libres \ {f}) \cup Resto(f, largo)
        /\ Escribir(f)
        /\ DOMAIN mensajes' = 1..(Len(mensajes) + 1)
        /\ \A i \in DOMAIN mensajes : mensajes'[i] = mensajes[i]
        /\ mensajes'[Len(mensajes) + 1].ini = f.ini
        /\ mensajes'[Len(mensajes) + 1].largo = largo
        /\ mensajes'[Len(mensajes) + 1].bytes = pedido.bytes
        /\ mensajes'[Len(mensajes) + 1].dato = pedido.dato
  BY GuardarEfecto
<1>2. /\ f.ini \in Nat /\ f.tam \in Nat /\ f.ini + f.tam <= TamMemoria /\ TamMemoria \in Nat
      /\ Len(mensajes) \in Nat /\ DOMAIN mensajes = 1..Len(mensajes)
  BY Tipos DEF IInv, Acotadas
<1>3. \A c \in Celdas :
        cache'[c] = IF f.ini <= c /\ c < f.ini + pedido.bytes THEN pedido.dato ELSE cache[c]
  BY <1>1, <1>2 DEF Escribir, Celdas
<1>4. ASSUME NEW i \in DOMAIN mensajes',
             NEW c \in mensajes'[i].ini .. (mensajes'[i].ini + mensajes'[i].bytes - 1)
      PROVE  cache'[c] = mensajes'[i].dato
  <2>1. CASE i \in DOMAIN mensajes
    <3>1. /\ mensajes'[i] = mensajes[i]
          /\ mensajes[i].ini \in Nat /\ mensajes[i].largo \in Nat /\ mensajes[i].bytes \in Nat
          /\ mensajes[i].bytes <= mensajes[i].largo
          /\ mensajes[i].ini + mensajes[i].largo <= TamMemoria
          /\ \/ f.ini + f.tam <= mensajes[i].ini
             \/ mensajes[i].ini + mensajes[i].largo <= f.ini
      BY <1>1, <2>1, Tipos DEF IInv, Acotadas, SinSolapamiento, LibresSinMensajes
    <3>2. c \in Int /\ mensajes[i].ini <= c /\ c < mensajes[i].ini + mensajes[i].bytes
      BY <1>4, <3>1
    <3>3. c \in Celdas
      <4>1. 0 <= c /\ c < TamMemoria /\ TamMemoria \in Nat
        BY <1>2, <3>1, <3>2, SMTT(30)
      <4> QED
        BY <3>2, <4>1 DEF Celdas
    <3>4. pedido.bytes \in Nat /\ pedido.bytes <= f.tam
      BY <1>1, <1>2
    <3>5. ~(f.ini <= c /\ c < f.ini + pedido.bytes)
      <4>1. CASE f.ini + f.tam <= mensajes[i].ini
        <5>1. f.ini + f.tam <= c
          BY <1>2, <3>1, <3>2, <4>1
        <5>2. f.ini + pedido.bytes <= f.ini + f.tam
          BY <1>2, <3>4
        <5> QED
          BY <1>2, <3>2, <3>4, <5>1, <5>2
      <4>2. CASE mensajes[i].ini + mensajes[i].largo <= f.ini
        <5>1. mensajes[i].ini + mensajes[i].bytes <= f.ini
          BY <1>2, <3>1, <4>2
        <5>2. c < f.ini
          BY <1>2, <3>1, <3>2, <5>1
        <5> QED
          BY <1>2, <3>2, <5>2
      <4> QED
        BY <3>1, <4>1, <4>2
    <3>6. cache[c] = mensajes[i].dato
      BY <1>4, <2>1, <3>1 DEF CacheFiel
    <3> QED
      BY <1>3, <3>1, <3>3, <3>5, <3>6
  <2>2. CASE i = Len(mensajes) + 1
    <3>1. /\ mensajes'[i].ini = f.ini
          /\ mensajes'[i].bytes = pedido.bytes
          /\ mensajes'[i].dato = pedido.dato
          /\ pedido.bytes \in Nat /\ pedido.bytes <= f.tam
      BY <1>1, <1>2, <2>2
    <3>2. c \in Int /\ f.ini <= c /\ c < f.ini + pedido.bytes
      BY <1>2, <1>4, <3>1
    <3>3. c \in Celdas
      <4>1. 0 <= c /\ c < TamMemoria /\ TamMemoria \in Nat
        BY <1>2, <3>1, <3>2
      <4> QED
        BY <3>2, <4>1 DEF Celdas
    <3> QED
      BY <1>3, <3>1, <3>2, <3>3
  <2> QED
    BY <1>1, <1>2, <2>1, <2>2
<1>5. ASSUME NEW g \in libres', NEW c \in CeldasLibre(g)
      PROVE  cache'[c] = Vacio
  <2>1. CASE g \in libres /\ g # f
    <3>1. /\ g.ini \in Nat /\ g.tam \in Nat /\ g.ini + g.tam <= TamMemoria
          /\ g.ini + g.tam <= f.ini \/ f.ini + f.tam <= g.ini
      BY <2>1, Tipos DEF IInv, Acotadas, SinSolapamiento, LibresDisjuntas
    <3>2. c \in Int /\ g.ini <= c /\ c < g.ini + g.tam
      BY <1>5, <3>1 DEF CeldasLibre
    <3>3. c \in Celdas
      <4>1. 0 <= c /\ c < TamMemoria /\ TamMemoria \in Nat
        BY <1>2, <3>1, <3>2
      <4> QED
        BY <3>2, <4>1 DEF Celdas
    <3>4. pedido.bytes \in Nat /\ pedido.bytes <= f.tam
      BY <1>1, <1>2
    <3>5. ~(f.ini <= c /\ c < f.ini + pedido.bytes)
      BY <1>2, <3>1, <3>2, <3>4
    <3>6. cache[c] = Vacio
      BY <1>5, <2>1 DEF CacheFiel
    <3> QED
      BY <1>3, <3>3, <3>5, <3>6
  <2>2. CASE g \in Resto(f, largo)
    <3>1. g.ini = f.ini + largo /\ g.tam = f.tam - largo /\ largo < f.tam
      BY <2>2 DEF Resto
    <3>2. c \in Celdas /\ c \in CeldasLibre(f) /\ ~(f.ini <= c /\ c < f.ini + pedido.bytes)
      <4>1. c \in Int /\ f.ini + largo <= c /\ c < f.ini + f.tam
        BY <1>2, <1>5, <3>1 DEF CeldasLibre
      <4>2. /\ f.ini \in Nat /\ f.tam \in Nat /\ f.ini + f.tam <= TamMemoria
            /\ pedido.bytes \in Nat /\ pedido.bytes <= largo /\ largo \in Nat
        BY <1>1, <1>2
      <4>3. c \in Celdas
        BY <1>2, <4>1, <4>2 DEF Celdas
      <4>4. c \in CeldasLibre(f)
        BY <4>1, <4>2 DEF CeldasLibre
      <4> QED
        BY <4>1, <4>2, <4>3, <4>4
    <3>3. cache[c] = Vacio
      BY <3>2 DEF CacheFiel
    <3> QED
      BY <1>3, <3>2, <3>3
  <2> QED
    BY <1>1, <2>1, <2>2
<1> QED
  BY <1>4, <1>5 DEF CacheFiel, CeldasLibre

LEMMA MoverCache ==
  ASSUME IInv, CacheFiel, NEW a \in libres, NEW s \in libres, libres = {a, s},
         a.ini < s.ini, MoverParticion(a, s)
  PROVE  CacheFiel'
<1> DEFINE u == Unida(a, s)
<1>1. /\ a.ini \in Nat /\ a.tam \in Nat /\ a.tam >= 1
      /\ s.ini \in Nat /\ s.tam \in Nat /\ s.tam >= 1
      /\ TamMemoria \in Nat
      /\ s.ini + s.tam <= TamMemoria
      /\ a.ini + a.tam <= s.ini
      /\ u.ini = s.ini - a.tam /\ u.tam = a.tam + s.tam
      /\ DOMAIN mensajes' = DOMAIN mensajes
  BY MoverPosiciones
<1>2. libres' = {u}
  BY DEF MoverParticion, Unida
<1>3. cache' = [c \in Celdas |->
        IF c \in CeldasLibre(u) THEN Vacio
        ELSE IF a.ini <= c /\ c < u.ini THEN cache[c + a.tam] ELSE cache[c]]
  BY DEF MoverParticion, Unida
<1> HIDE DEF u
<1>4. ASSUME NEW c \in CeldasLibre(u) PROVE cache'[c] = Vacio
  <2>1. c \in Celdas
    BY <1>1, <1>4 DEF CeldasLibre, Celdas
  <2> QED
    BY <1>3, <1>4, <2>1
<1>5. ASSUME NEW i \in DOMAIN mensajes,
             NEW c \in mensajes'[i].ini .. (mensajes'[i].ini + mensajes'[i].bytes - 1)
      PROVE  cache'[c] = mensajes'[i].dato
  <2>1. /\ mensajes[i].ini \in Nat /\ mensajes[i].largo \in Nat /\ mensajes[i].bytes \in Nat
        /\ mensajes[i].bytes <= mensajes[i].largo
        /\ mensajes[i].ini + mensajes[i].largo <= TamMemoria
    BY Tipos DEF IInv, Acotadas
  <2>2. /\ mensajes'[i].bytes = mensajes[i].bytes
        /\ mensajes'[i].dato = mensajes[i].dato
        /\ \/ /\ mensajes[i].ini + mensajes[i].largo <= a.ini
              /\ mensajes'[i].ini = mensajes[i].ini
           \/ /\ a.ini + a.tam <= mensajes[i].ini
              /\ mensajes[i].ini + mensajes[i].largo <= s.ini
              /\ mensajes'[i].ini = mensajes[i].ini - a.tam
           \/ /\ s.ini + s.tam <= mensajes[i].ini
              /\ mensajes'[i].ini = mensajes[i].ini
    BY MoverPosiciones
  <2>3. \A d \in mensajes[i].ini .. (mensajes[i].ini + mensajes[i].bytes - 1) :
          cache[d] = mensajes[i].dato
    BY DEF CacheFiel
  <2>4. CASE mensajes'[i].ini = mensajes[i].ini
    <3>1. c \in Celdas /\ c \notin CeldasLibre(u) /\ ~(a.ini <= c /\ c < u.ini)
      BY <1>1, <1>5, <2>1, <2>2, <2>4 DEF Celdas, CeldasLibre
    <3>2. cache[c] = mensajes[i].dato
      BY <1>5, <2>2, <2>3, <2>4
    <3> QED
      BY <1>3, <2>2, <3>1, <3>2
  <2>5. CASE /\ a.ini + a.tam <= mensajes[i].ini
             /\ mensajes[i].ini + mensajes[i].largo <= s.ini
             /\ mensajes'[i].ini = mensajes[i].ini - a.tam
    <3>1. c \in Celdas /\ c \notin CeldasLibre(u) /\ a.ini <= c /\ c < u.ini
      BY <1>1, <1>5, <2>1, <2>2, <2>5 DEF Celdas, CeldasLibre
    <3>2. c + a.tam \in mensajes[i].ini .. (mensajes[i].ini + mensajes[i].bytes - 1)
      BY <1>1, <1>5, <2>1, <2>2, <2>5
    <3>3. cache'[c] = cache[c + a.tam]
      BY <1>3, <3>1
    <3> QED
      BY <2>2, <2>3, <3>2, <3>3
  <2> QED
    BY <2>2, <2>4, <2>5
<1> QED
  BY <1>1, <1>2, <1>4, <1>5 DEF CacheFiel

LEMMA EliminarCache == IInv /\ CacheFiel /\ Eliminar => CacheFiel'
<1> SUFFICES ASSUME IInv, CacheFiel, Eliminar PROVE CacheFiel'
  OBVIOUS
<1>1. PICK k \in DOMAIN mensajes :
        /\ Consolidar(mensajes[k])
        /\ \A j \in DOMAIN mensajes' :
             \E i \in DOMAIN mensajes : i # k /\ mensajes'[j] = mensajes[i]
  BY EliminarEfecto
<1> DEFINE m == mensajes[k]
           n == Consolidada(m)
<1>2. /\ m.ini \in Nat /\ m.largo \in Nat /\ m.largo >= 1
      /\ m.ini + m.largo <= TamMemoria /\ TamMemoria \in Nat
      /\ \A f \in libres : /\ f.ini \in Nat /\ f.tam \in Nat /\ f.ini + f.tam <= TamMemoria
                           /\ f.ini + f.tam <= m.ini \/ m.ini + m.largo <= f.ini
  BY Tipos DEF IInv, Acotadas, SinSolapamiento, LibresSinMensajes
<1>3. /\ n.ini \in Nat /\ n.tam \in Nat
      /\ n.ini <= m.ini /\ m.ini + m.largo <= n.ini + n.tam
      /\ n.ini + n.tam <= TamMemoria
      /\ \/ Izquierda(m) = {} /\ n.ini = m.ini
         \/ \E f \in libres : Izquierda(m) = {f} /\ n.ini = f.ini /\ f.ini + f.tam = m.ini
      /\ \/ Derecha(m) = {} /\ n.ini + n.tam = m.ini + m.largo
         \/ \E f \in libres : /\ Derecha(m) = {f} /\ n.ini + n.tam = f.ini + f.tam
                              /\ f.ini = m.ini + m.largo
  BY ConsolidadaExtremos
<1>4. /\ libres' = (libres \ (Izquierda(m) \cup Derecha(m))) \cup {n}
      /\ cache' = [c \in Celdas |-> IF c \in CeldasMensaje(m) THEN Vacio ELSE cache[c]]
  BY <1>1 DEF Consolidar
<1>5. \A i \in DOMAIN mensajes :
        /\ mensajes[i].ini \in Nat /\ mensajes[i].largo \in Nat /\ mensajes[i].bytes \in Nat
        /\ mensajes[i].bytes <= mensajes[i].largo
        /\ mensajes[i].ini + mensajes[i].largo <= TamMemoria
        /\ i # k => \/ mensajes[i].ini + mensajes[i].largo <= m.ini
                    \/ m.ini + m.largo <= mensajes[i].ini
  BY Tipos DEF IInv, Acotadas, SinSolapamiento, MensajesDisjuntos
<1> HIDE DEF m, n
<1>6. ASSUME NEW j \in DOMAIN mensajes',
             NEW c \in mensajes'[j].ini .. (mensajes'[j].ini + mensajes'[j].bytes - 1)
      PROVE  cache'[c] = mensajes'[j].dato
  <2>1. PICK i \in DOMAIN mensajes : i # k /\ mensajes'[j] = mensajes[i]
    BY <1>1
  <2>2. c \in Celdas /\ c \notin CeldasMensaje(m)
    BY <1>2, <1>5, <1>6, <2>1 DEF Celdas, CeldasMensaje
  <2>3. cache[c] = mensajes[i].dato
    BY <1>6, <2>1 DEF CacheFiel
  <2> QED
    BY <1>4, <2>1, <2>2, <2>3
<1>7. ASSUME NEW g \in libres', NEW c \in CeldasLibre(g)
      PROVE  cache'[c] = Vacio
  <2>1. ASSUME NEW f \in libres, c \in CeldasLibre(f) PROVE cache'[c] = Vacio
    <3>1. c \in Celdas /\ cache[c] = Vacio
      BY <1>2, <2>1 DEF Celdas, CeldasLibre, CacheFiel
    <3> QED
      BY <1>4, <3>1
  <2>2. CASE c \in CeldasMensaje(m)
    <3>1. c \in Celdas
      BY <1>2, <2>2 DEF Celdas, CeldasMensaje
    <3> QED
      BY <1>4, <2>2, <3>1
  <2>3. CASE g = n /\ c \notin CeldasMensaje(m)
    <3>1. c \in Nat /\ n.ini <= c /\ c < n.ini + n.tam
      BY <1>3, <1>7, <2>3 DEF CeldasLibre
    <3>2. c < m.ini \/ m.ini + m.largo <= c
      BY <1>2, <2>3, <3>1 DEF CeldasMensaje
    <3>3. \E f \in libres : c \in CeldasLibre(f)
      BY <1>2, <1>3, <3>1, <3>2 DEF CeldasLibre
    <3> QED
      BY <2>1, <3>3
  <2> QED
    BY <1>4, <1>7, <2>1, <2>2, <2>3
<1> QED
  BY <1>6, <1>7 DEF CacheFiel

-----------------------------------------------------------------------------
(* The three invariants together, from their preservation by each action.  *)
Ordenada == SinHuecos /\ LibresConsolidadas /\ CacheFiel

LEMMA InicioOrdenada == Init => Ordenada
<1> SUFFICES ASSUME Init PROVE Ordenada
  OBVIOUS
<1>1. TamMemoria \in Nat \ {0}
  BY ConstantesAssumption
<1>2. /\ libres = {[ini |-> 0, tam |-> TamMemoria]}
      /\ DOMAIN mensajes = {}
      /\ cache = [c \in Celdas |-> Vacio]
  BY DEF Init, InitMemoria
<1>3. CeldasLibre([ini |-> 0, tam |-> TamMemoria]) = Celdas
  BY <1>1 DEF CeldasLibre, Celdas
<1>4. SinHuecos
  BY <1>2, <1>3 DEF SinHuecos
<1>5. LibresConsolidadas
  BY <1>1, <1>2 DEF LibresConsolidadas
<1>6. CacheFiel
  BY <1>2, <1>3 DEF CacheFiel
<1> QED
  BY <1>4, <1>5, <1>6 DEF Ordenada

LEMMA QuietaOrdenada ==
  ASSUME Ordenada, UNCHANGED memoria
  PROVE  Ordenada'
BY DEF memoria, Ordenada, SinHuecos, LibresConsolidadas, CacheFiel, CeldasLibre, CeldasMensaje

LEMMA CompactarOrdenada ==
  ASSUME IInv, Ordenada, NEW sigue, Compactar(sigue)
  PROVE  Ordenada'
<1>1. CASE UNCHANGED memoria
  BY <1>1, QuietaOrdenada
<1>2. CASE \E a, s \in libres : libres = {a, s} /\ a.ini < s.ini /\ MoverParticion(a, s)
  BY <1>2, MoverHuecos, MoverConsolidadas, MoverCache DEF Ordenada
<1> QED
  BY <1>1, <1>2, Zenon DEF Compactar

(* Sending again leaves every partition and every byte where it was. *)
LEMMA ReenviarOrdenada ==
  ASSUME IInv, Ordenada, Reenviar
  PROVE  Ordenada'
<1>1. libres' = libres /\ cache' = cache
  BY DEF Reenviar, RefrescarUsados
<1>2. /\ DOMAIN mensajes' = DOMAIN mensajes
      /\ \A i \in DOMAIN mensajes :
           /\ mensajes'[i].ini = mensajes[i].ini
           /\ mensajes'[i].largo = mensajes[i].largo
           /\ mensajes'[i].bytes = mensajes[i].bytes
           /\ mensajes'[i].dato = mensajes[i].dato
  BY ReenviarMensajes DEF IInv
<1>3. SinHuecos'
  BY <1>1, <1>2 DEF Ordenada, SinHuecos, CeldasLibre, CeldasMensaje
<1>4. LibresConsolidadas'
  BY <1>1 DEF Ordenada, LibresConsolidadas
<1>5. CacheFiel'
  BY <1>1, <1>2 DEF Ordenada, CacheFiel, CeldasLibre
<1> QED
  BY <1>3, <1>4, <1>5 DEF Ordenada

LEMMA PasoOrdenada == IInv /\ Ordenada /\ [Next]_vars => Ordenada'
<1> SUFFICES ASSUME IInv, Ordenada, [Next]_vars PROVE Ordenada'
  OBVIOUS
<1>1. CASE QuietoEnMemoria
  BY <1>1, QuietoIInv, QuietaOrdenada
<1>2. CASE Guardar
  BY <1>2, GuardarHuecos, GuardarConsolidadas, GuardarCache DEF Ordenada
<1>3. CASE CompactarYRebuscar
  BY <1>3, CompactarOrdenada DEF CompactarYRebuscar
<1>4. CASE Eliminar
  BY <1>4, EliminarHuecos, EliminarConsolidadas, EliminarCache DEF Ordenada
<1>5. CASE CompactarTrasEliminar
  BY <1>5, CompactarOrdenada DEF CompactarTrasEliminar
<1>6. CASE Reenviar
  BY <1>6, ReenviarOrdenada
<1>7. CASE UNCHANGED vars
  BY <1>7, QuietaOrdenada DEF vars, memoria
<1> QED
  BY <1>1, <1>2, <1>3, <1>4, <1>5, <1>6, <1>7 DEF Next, Hilo, QuietoEnMemoria

LEMMA SiempreOrdenada == Spec => []Ordenada
BY InicioIInv, PasoIInv, InicioOrdenada, PasoOrdenada, PTL DEF Spec

(* The partitions always tile the memory, so mover_particion never steps   *)
(* on a hole, whatever the order of stores, evictions and compactions.     *)
THEOREM SinCeldasPerdidas == Spec => []SinHuecos
<1>1. Ordenada => SinHuecos
  BY DEF Ordenada
<1> QED
  BY <1>1, SiempreOrdenada, PTL

(* consolidar_particiones_dinamicas never misses a pair of free            *)
(* neighbours.                                                             *)
THEOREM SiempreConsolidadas == Spec => []LibresConsolidadas
<1>1. Ordenada => LibresConsolidadas
  BY DEF Ordenada
<1> QED
  BY <1>1, SiempreOrdenada, PTL

(* No store, eviction or compaction ever damages a stored message. *)
THEOREM ContenidoIntacto == Spec => []CacheFiel
<1>1. Ordenada => CacheFiel
  BY DEF Ordenada
<1> QED
  BY <1>1, SiempreOrdenada, PTL

-----------------------------------------------------------------------------
(* The cache implements BrokerCache: every step is one of its steps, or    *)
(* none, on the list of the messages as they are read.                     *)

Ocioso == pc = "inactivo" => pedido = Nadie

LEMMA PasoOcioso == Ocioso /\ [Next]_vars => Ocioso'
<1> SUFFICES ASSUME Ocioso, [Next]_vars PROVE Ocioso'
  OBVIOUS
<1>1. CASE Pedir \/ NoEncontrar \/ NoCompactar \/ EliminarSinMensajes \/ Guardar \/ Eliminar
  BY <1>1 DEF Ocioso, Pedir, NoEncontrar, NoCompactar, EliminarSinMensajes, Guardar, Eliminar
<1>2. CASE CompactarYRebuscar \/ CompactarTrasEliminar
  <2>1. pc' \in {"rebuscar", "buscar", "caido"}
    BY <1>2 DEF CompactarYRebuscar, CompactarTrasEliminar, Compactar
  <2> QED
    BY <2>1 DEF Ocioso
<1>3. CASE Reenviar \/ Tictac \/ UNCHANGED vars
  BY <1>3 DEF Ocioso, Reenviar, RefrescarUsados, Tictac, AvanzarReloj, vars
<1> QED
  BY <1>1, <1>2, <1>3 DEF Next, Hilo

(* A message as BrokerCache keeps it: no partition, no size but its own. *)
Ficha(m) == [contenido |-> Contenido(m.dato, m.bytes), timestamp |-> m.timestamp]
Fichas(ms) == [i \in DOMAIN ms |-> Ficha(ms[i])]

LEMMA MensajeTipado ==
  ASSUME NEW m \in Mensaje
  PROVE  m.ini \in Nat /\ m.bytes \in Nat
<1>1. m.ini \in Celdas /\ m.bytes \in Bytes
  BY DEF Mensaje
<1>2. TamMemoria \in Nat /\ Bytes \subseteq Nat
  BY ConstantesAssumption
<1>3. \A c \in Celdas : c \in Nat
  BY <1>2 DEF Celdas
<1>4. m.ini \in Nat
  BY <1>1, <1>3
<1>5. m.bytes \in Nat
  BY <1>1, <1>2
<1> QED
  BY <1>4, <1>5

(* Where the bytes of each message are its own, what is read is what was   *)
(* received.                                                               *)
LEMMA LoLeido ==
  ASSUME NEW ms \in Seq(Mensaje), NEW bs,
         \A i \in DOMAIN ms : \A c \in ms[i].ini .. (ms[i].ini + ms[i].bytes - 1) : bs[c] = ms[i].dato
  PROVE  [i \in DOMAIN ms |-> [contenido |-> [b \in 0..(ms[i].bytes - 1) |-> bs[ms[i].ini + b]],
                               timestamp |-> ms[i].timestamp]] = Fichas(ms)
<1> SUFFICES ASSUME NEW i \in DOMAIN ms
             PROVE  [b \in 0..(ms[i].bytes - 1) |-> bs[ms[i].ini + b]] = Contenido(ms[i].dato, ms[i].bytes)
  BY DEF Fichas, Ficha
<1>1. ms[i] \in Mensaje
  BY LenProperties
<1>2. ms[i].ini \in Nat /\ ms[i].bytes \in Nat
  BY <1>1, MensajeTipado
<1>3. ASSUME NEW b \in 0..(ms[i].bytes - 1)
      PROVE  bs[ms[i].ini + b] = ms[i].dato
  <2>1. ms[i].ini + b \in ms[i].ini .. (ms[i].ini + ms[i].bytes - 1)
    BY <1>2
  <2> QED
    BY <2>1
<1> QED
  BY <1>3 DEF Contenido

FichaDe == [m \in Mensaje |-> Ficha(m)]

LEMMA FichasSonMapa ==
  ASSUME NEW ms \in Seq(Mensaje)
  PROVE  /\ Fichas(ms) = Mapa(FichaDe, ms)
         /\ DOMAIN Fichas(ms) = DOMAIN ms
         /\ \A i \in DOMAIN ms : Fichas(ms)[i] = Ficha(ms[i])
<1>1. \A i \in DOMAIN ms : ms[i] \in Mensaje
  BY LenProperties
<1>2. \A m \in Mensaje : FichaDe[m] = Ficha(m)
  BY DEF FichaDe
<1>3. Fichas(ms) = [i \in DOMAIN ms |-> Ficha(ms[i])]
  BY DEF Fichas
<1>4. Mapa(FichaDe, ms) = [i \in DOMAIN ms |-> FichaDe[ms[i]]]
  BY DEF Mapa
<1> QED
  BY <1>1, <1>2, <1>3, <1>4

LEMMA FichasAgregada ==
  ASSUME NEW ms \in Seq(Mensaje), NEW m \in Mensaje
  PROVE  Fichas(Append(ms, m)) = Append(Fichas(ms), Ficha(m))
<1>1. Append(ms, m) \in Seq(Mensaje)
  BY AppendProperties
<1>2. Fichas(Append(ms, m)) = Mapa(FichaDe, Append(ms, m)) /\ Fichas(ms) = Mapa(FichaDe, ms)
  BY <1>1, FichasSonMapa
<1>3. FichaDe[m] = Ficha(m)
  BY DEF FichaDe
<1> QED
  BY <1>2, <1>3, MapaAgregada

LEMMA FichasQuitada ==
  ASSUME NEW ms \in Seq(Mensaje), NEW k \in DOMAIN ms
  PROVE  Fichas(RemoveAt(ms, k)) = RemoveAt(Fichas(ms), k)
<1>1. RemoveAt(ms, k) \in Seq(Mensaje)
  BY RemoveAtElementos
<1>2. Fichas(RemoveAt(ms, k)) = Mapa(FichaDe, RemoveAt(ms, k)) /\ Fichas(ms) = Mapa(FichaDe, ms)
  BY <1>1, FichasSonMapa
<1> QED
  BY <1>2, MapaQuitada

(* What the list of BrokerCache is, before and after a step. *)
LEMMA GuardadosSonFichas ==
  ASSUME TypeOK, CacheFiel
  PROVE  Guardados = Fichas(mensajes)
BY LoLeido DEF TypeOK, CacheFiel, Guardados, Leer

LEMMA GuardadosSonFichasDespues ==
  ASSUME TypeOK', CacheFiel'
  PROVE  Guardados' = Fichas(mensajes')
BY LoLeido DEF TypeOK, CacheFiel, Guardados, Leer

(* The message that waits for room. *)
LEMMA EnEsperaEs ==
  ASSUME pedido \in Pedido
  PROVE  EnEspera = Contenido(pedido.dato, pedido.bytes) /\ EnEspera \in Contenidos /\ EnEspera # Nadie
<1>1. pedido # Nadie /\ pedido.dato \in Datos /\ pedido.bytes \in Bytes
  BY ConstantesAssumption DEF Pedido
<1>2. Contenido(pedido.dato, pedido.bytes) \in Contenidos
  BY <1>1 DEF Contenidos
<1> QED
  BY <1>1, <1>2, ContenidosAssumption DEF EnEspera

LEMMA PedirImplementa ==
  ASSUME Ocioso, Pedir
  PROVE  EnEspera = Nadie /\ EnEspera' \in Contenidos
<1>1. pedido = Nadie /\ pedido' \in Pedido
  BY DEF Ocioso, Pedir, PedidosNuevos, Pedido
<1>2. pedido' # Nadie /\ pedido'.dato \in Datos /\ pedido'.bytes \in Bytes
  BY <1>1, ConstantesAssumption DEF Pedido
<1>3. Contenido(pedido'.dato, pedido'.bytes) \in Contenidos
  BY <1>2 DEF Contenidos
<1> QED
  BY <1>1, <1>2, <1>3 DEF EnEspera

LEMMA GuardarImplementa ==
  ASSUME IInv, IInv', Guardar
  PROVE  /\ EnEspera # Nadie /\ EnEspera' = Nadie /\ reloj' = reloj
         /\ Fichas(mensajes') = Append(Fichas(mensajes), [contenido |-> EnEspera, timestamp |-> reloj])
<1>1. pedido \in Pedido /\ mensajes \in Seq(Mensaje) /\ mensajes' \in Seq(Mensaje)
  BY DEF IInv, TypeOK, PedidoEnCurso, Guardar
<1>2. PICK f \in libres : mensajes' = Append(mensajes, NuevoMensaje(f.ini, ObtenerTamMsg(pedido.bytes)))
  BY DEF Guardar, Candidatas
<1> DEFINE m == NuevoMensaje(f.ini, ObtenerTamMsg(pedido.bytes))
<1>3. m \in Mensaje
  <2>1. /\ Len(mensajes) \in Nat /\ Len(mensajes') = Len(mensajes) + 1 /\ mensajes'[Len(mensajes) + 1] = m
        /\ DOMAIN mensajes' = 1..(Len(mensajes) + 1)
    <3> HIDE DEF m
    <3>1. mensajes' = Append(mensajes, m)
      BY <1>2 DEF m
    <3>2. Len(mensajes) \in Nat /\ Len(mensajes') = Len(mensajes) + 1 /\ mensajes'[Len(mensajes) + 1] = m
      BY <1>1, <3>1
    <3> QED
      BY <1>1, <3>2, LenProperties
  <2> HIDE DEF m
  <2>2. Len(mensajes) + 1 \in DOMAIN mensajes'
    BY <2>1
  <2> QED
    BY <1>1, <2>1, <2>2, LenProperties
<1>4. Ficha(m) = [contenido |-> EnEspera, timestamp |-> reloj]
  BY <1>1, EnEsperaEs DEF Ficha, NuevoMensaje
<1>5. mensajes' = Append(mensajes, m)
  BY <1>2
<1> HIDE DEF m
<1>6. Fichas(mensajes') = Append(Fichas(mensajes), Ficha(m))
  BY <1>1, <1>3, <1>5, FichasAgregada
<1>7. EnEspera' = Nadie /\ reloj' = reloj
  BY DEF Guardar, EnEspera
<1> QED
  BY <1>1, <1>4, <1>6, <1>7, EnEsperaEs

(* The victim is the same, and it is the only one that leaves. *)
LEMMA EliminarImplementa ==
  ASSUME IInv, Eliminar
  PROVE  /\ EnEspera # Nadie /\ EnEspera' = EnEspera /\ reloj' = reloj
         /\ \E k \in DOMAIN Fichas(mensajes) :
              /\ \/ Reemplazo = "FIFO" /\ k = 1
                 \/ /\ Reemplazo # "FIFO"
                    /\ \A j \in DOMAIN Fichas(mensajes) :
                         Fichas(mensajes)[k].timestamp <= Fichas(mensajes)[j].timestamp
              /\ Fichas(mensajes') = RemoveAt(Fichas(mensajes), k)
<1>1. pedido \in Pedido /\ mensajes \in Seq(Mensaje)
  BY DEF IInv, TypeOK, PedidoEnCurso, Eliminar
<1>2. PICK k \in DOMAIN mensajes : EsVictima(k) /\ mensajes' = RemoveAt(mensajes, k)
  BY DEF Eliminar
<1>3. /\ DOMAIN Fichas(mensajes) = DOMAIN mensajes
      /\ \A i \in DOMAIN mensajes : Fichas(mensajes)[i].timestamp = mensajes[i].timestamp
  <2>1. DOMAIN Fichas(mensajes) = DOMAIN mensajes
        /\ \A i \in DOMAIN mensajes : Fichas(mensajes)[i] = Ficha(mensajes[i])
    BY <1>1, FichasSonMapa
  <2> QED
    BY <2>1 DEF Ficha
<1>4. Fichas(mensajes') = RemoveAt(Fichas(mensajes), k)
  BY <1>1, <1>2, FichasQuitada
<1>5. \/ Reemplazo = "FIFO" /\ k = 1
      \/ /\ Reemplazo # "FIFO"
         /\ \A j \in DOMAIN Fichas(mensajes) :
              Fichas(mensajes)[k].timestamp <= Fichas(mensajes)[j].timestamp
  BY <1>2, <1>3 DEF EsVictima
<1>6. EnEspera' = EnEspera /\ reloj' = reloj
  BY DEF Eliminar, EnEspera
<1> QED
  BY <1>1, <1>3, <1>4, <1>5, <1>6, EnEsperaEs

(* A compaction moves partitions, and no message changes. *)
LEMMA CompactarImplementa ==
  ASSUME IInv, NEW sigue, Compactar(sigue), UNCHANGED <<pedido, reloj>>
  PROVE  Fichas(mensajes') = Fichas(mensajes) /\ EnEspera' = EnEspera
<1>1. mensajes \in Seq(Mensaje)
  BY DEF IInv, TypeOK
<1>2. CASE UNCHANGED memoria
  BY <1>2 DEF memoria, EnEspera
<1>3. ASSUME NEW a \in libres, NEW s \in libres, MoverParticion(a, s)
      PROVE  Fichas(mensajes') = Fichas(mensajes)
  <2>1. /\ DOMAIN mensajes' = DOMAIN mensajes
        /\ \A i \in DOMAIN mensajes :
             \/ mensajes'[i] = mensajes[i]
             \/ mensajes'[i] = [mensajes[i] EXCEPT !.ini = @ - a.tam]
    BY <1>3 DEF MoverParticion
  <2>2. ASSUME NEW i \in DOMAIN mensajes PROVE Ficha(mensajes'[i]) = Ficha(mensajes[i])
    <3>1. mensajes[i] \in Mensaje
      BY <1>1, LenProperties
    <3>2. /\ mensajes'[i].dato = mensajes[i].dato /\ mensajes'[i].bytes = mensajes[i].bytes
          /\ mensajes'[i].timestamp = mensajes[i].timestamp
      BY <2>1, <3>1 DEF Mensaje
    <3> QED
      BY <3>2 DEF Ficha
  <2> QED
    BY <2>1, <2>2 DEF Fichas
<1>4. CASE \E a, s \in libres : libres = {a, s} /\ a.ini < s.ini /\ MoverParticion(a, s)
  BY <1>3, <1>4 DEF EnEspera
<1> QED
  BY <1>2, <1>4, Zenon DEF Compactar

LEMMA ReenviarImplementa ==
  ASSUME IInv, Reenviar
  PROVE  /\ EnEspera' = EnEspera /\ reloj' = reloj
         /\ \/ Fichas(mensajes') = Fichas(mensajes)
            \/ /\ Reemplazo # "FIFO"
               /\ \E usados \in SUBSET DOMAIN Fichas(mensajes) :
                    Fichas(mensajes') = [i \in DOMAIN Fichas(mensajes) |->
                      IF i \in usados THEN [Fichas(mensajes)[i] EXCEPT !.timestamp = reloj]
                                      ELSE Fichas(mensajes)[i]]
<1>1. mensajes \in Seq(Mensaje)
  BY DEF IInv, TypeOK
<1>2. PICK usados \in SUBSET DOMAIN mensajes :
        /\ Reemplazo = "FIFO" => usados = {}
        /\ mensajes' = [i \in DOMAIN mensajes |->
             IF i \in usados THEN [mensajes[i] EXCEPT !.timestamp = reloj] ELSE mensajes[i]]
  BY DEF Reenviar, RefrescarUsados
<1>3. DOMAIN Fichas(mensajes) = DOMAIN mensajes
      /\ \A i \in DOMAIN mensajes : Fichas(mensajes)[i] = Ficha(mensajes[i])
  BY <1>1, FichasSonMapa
<1>4. ASSUME NEW i \in DOMAIN mensajes
      PROVE  Ficha(mensajes'[i]) = IF i \in usados THEN [Fichas(mensajes)[i] EXCEPT !.timestamp = reloj]
                                                   ELSE Fichas(mensajes)[i]
  <2>1. mensajes[i] \in Mensaje
    BY <1>1, LenProperties
  <2>2. Fichas(mensajes)[i] = Ficha(mensajes[i])
    BY <1>3
  <2>3. CASE i \in usados
    <3>1. mensajes'[i] = [mensajes[i] EXCEPT !.timestamp = reloj]
      BY <1>2, <2>3
    <3>2. /\ mensajes'[i].dato = mensajes[i].dato /\ mensajes'[i].bytes = mensajes[i].bytes
          /\ mensajes'[i].timestamp = reloj
      BY <2>1, <3>1 DEF Mensaje
    <3> QED
      BY <2>2, <2>3, <3>2 DEF Ficha
  <2>4. CASE i \notin usados
    BY <1>2, <2>2, <2>4
  <2> QED
    BY <2>3, <2>4
<1>5. Fichas(mensajes') = [i \in DOMAIN Fichas(mensajes) |->
        IF i \in usados THEN [Fichas(mensajes)[i] EXCEPT !.timestamp = reloj] ELSE Fichas(mensajes)[i]]
  <2>1. DOMAIN mensajes' = DOMAIN mensajes
    BY <1>2
  <2>2. Fichas(mensajes') = [i \in DOMAIN mensajes |-> Ficha(mensajes'[i])]
    BY <2>1 DEF Fichas
  <2> QED
    BY <1>3, <1>4, <2>2
<1>6. CASE Reemplazo = "FIFO"
  <2>1. mensajes' = mensajes
    BY <1>1, <1>2, <1>6
  <2> QED
    BY <2>1 DEF Reenviar, RefrescarUsados, EnEspera
<1>7. CASE Reemplazo # "FIFO"
  BY <1>3, <1>5, <1>7 DEF Reenviar, RefrescarUsados, EnEspera
<1> QED
  BY <1>6, <1>7

(* The mapping: every step is a step of the abstract cache, or a stutter. *)
LEMMA PasoImplementa ==
  ASSUME IInv, IInv', CacheFiel, CacheFiel', Ocioso, [Next]_vars
  PROVE  Abstracta!Next \/ UNCHANGED Abstracta!vars
<1>1. Guardados = Fichas(mensajes) /\ Guardados' = Fichas(mensajes')
  BY GuardadosSonFichas, GuardadosSonFichasDespues DEF IInv
<1>2. CASE Pedir
  <2>1. Guardados' = Guardados /\ reloj' = reloj
    BY <1>1, <1>2 DEF Pedir, memoria
  <2>2. Abstracta!Pedir
    BY <1>2, <2>1, PedirImplementa DEF Abstracta!Pedir
  <2> QED
    BY <2>2 DEF Abstracta!Next
<1>3. CASE Guardar
  <2>1. Abstracta!Almacenar
    BY <1>1, <1>3, GuardarImplementa DEF Abstracta!Almacenar
  <2> QED
    BY <2>1 DEF Abstracta!Next
<1>4. CASE Eliminar
  <2> DEFINE fs == Fichas(mensajes)
  <2>1. /\ EnEspera # Nadie /\ EnEspera' = EnEspera /\ reloj' = reloj
        /\ \E k \in DOMAIN fs :
             /\ \/ Reemplazo = "FIFO" /\ k = 1
                \/ /\ Reemplazo # "FIFO"
                   /\ \A j \in DOMAIN fs : fs[k].timestamp <= fs[j].timestamp
             /\ Guardados' = RemoveAt(fs, k)
    BY <1>1, <1>4, EliminarImplementa
  <2>2. \A k : Abstracta!RemoveAt(fs, k) = RemoveAt(fs, k)
    BY DEF Abstracta!RemoveAt, RemoveAt
  <2>3. Guardados = fs
    BY <1>1
  <2> HIDE DEF fs
  <2>4. Abstracta!Desalojar
    BY <2>1, <2>2, <2>3 DEF Abstracta!Desalojar, Abstracta!EsVictima
  <2> QED
    BY <2>4 DEF Abstracta!Next
<1>5. CASE CompactarYRebuscar \/ CompactarTrasEliminar
  <2>1. (Compactar("rebuscar") \/ Compactar("buscar")) /\ UNCHANGED <<pedido, reloj>>
    BY <1>5 DEF CompactarYRebuscar, CompactarTrasEliminar
  <2>2. Guardados' = Guardados /\ EnEspera' = EnEspera /\ reloj' = reloj
    BY <1>1, <2>1, CompactarImplementa
  <2> QED
    BY <2>2 DEF Abstracta!vars
<1>6. CASE Reenviar
  <2>1. CASE Fichas(mensajes') = Fichas(mensajes)
    BY <1>1, <1>6, <2>1, ReenviarImplementa DEF Abstracta!vars
  <2>2. CASE Fichas(mensajes') # Fichas(mensajes)
    <3>1. Abstracta!Reenviar
      BY <1>1, <1>6, <2>2, ReenviarImplementa DEF Abstracta!Reenviar
    <3> QED
      BY <3>1 DEF Abstracta!Next
  <2> QED
    BY <2>1, <2>2
<1>7. CASE Tictac
  <2>1. Guardados' = Guardados /\ EnEspera' = EnEspera
    BY <1>1, <1>7 DEF Tictac, AvanzarReloj, memoria, EnEspera
  <2>2. Abstracta!Tictac
    BY <1>7, <2>1 DEF Abstracta!Tictac, Tictac, AvanzarReloj
  <2> QED
    BY <2>2 DEF Abstracta!Next
<1>8. CASE NoEncontrar \/ NoCompactar \/ EliminarSinMensajes \/ UNCHANGED vars
  <2>1. UNCHANGED <<mensajes, pedido, reloj>>
    BY <1>8 DEF NoEncontrar, NoCompactar, EliminarSinMensajes, vars, memoria
  <2> QED
    BY <1>1, <2>1 DEF Abstracta!vars, EnEspera
<1> QED
  BY <1>2, <1>3, <1>4, <1>5, <1>6, <1>7, <1>8 DEF Next, Hilo

(* Partitions, splits, consolidations and compactions are invisible to the *)
(* threads that use the cache: to them it is a list of whole messages from *)
(* which the victims of ALGORITMO_REEMPLAZO leave, and only to make room.  *)
THEOREM CacheImplementada == Spec => ImplementaCache
<1>1. Init => Ocioso
  BY DEF Init, InitMemoria, Ocioso
<1>2. Spec => []Ocioso
  BY <1>1, PasoOcioso, PTL DEF Spec
<1>3. Init => Abstracta!Init
  <2> SUFFICES ASSUME Init PROVE Abstracta!Init
    OBVIOUS
  <2>1. mensajes = <<>> /\ pedido = Nadie /\ reloj = 0
    BY DEF Init, InitMemoria
  <2>2. Guardados = <<>> /\ EnEspera = Nadie
    BY <2>1 DEF Guardados, EnEspera
  <2> QED
    BY <2>1, <2>2 DEF Abstracta!Init
<1>4. Ordenada => CacheFiel
  BY DEF Ordenada
<1>5. IInv /\ IInv' /\ CacheFiel /\ CacheFiel' /\ Ocioso /\ [Next]_vars => [Abstracta!Next]_(Abstracta!vars)
  BY PasoImplementa
<1> QED
  BY <1>2, <1>3, <1>4, <1>5, SiempreIInv, SiempreOrdenada, PTL DEF Spec, ImplementaCache, Abstracta!Spec

-----------------------------------------------------------------------------
(* The search ends: with FRECUENCIA_COMPACTACION 1 or -1 nothing but a     *)
(* message larger than the memory ends the Broker.                         *)

(* No free partition takes the message once a search has failed. *)
NingunaCabe == pc \in {"ciclo", "eliminar"} => \A f \in libres : f.tam < ObtenerTamMsg(pedido.bytes)

(* FRECUENCIA_COMPACTACION 1: every eviction is followed by a compaction,  *)
(* so there is one free partition at most, and two between the two steps;  *)
(* and a compaction comes after an eviction, so there is one.              *)
PocasLibres ==
  /\ \/ \E f : libres \subseteq {f}
     \/ pc = "compactar" /\ \E f, g : libres = {f, g}
  /\ pc \in {"rebuscar", "eliminar"} => count = 1
  /\ pc \in {"buscar", "ciclo", "compactar"} => count >= 1
  /\ (pc = "compactar" \/ (pc \in {"buscar", "ciclo"} /\ count > 1)) => libres # {}

(* -1: a compaction never follows an eviction. *)
SinCompactarTrasEliminar == Frecuencia = -1 => pc # "compactar"

(* A search fails only if no partition is large enough. *)
LEMMA BusquedaCompleta ==
  ASSUME IInv, pedido \in Pedido, Candidatas(ObtenerTamMsg(pedido.bytes)) = {}
  PROVE  \A f \in libres : f.tam < ObtenerTamMsg(pedido.bytes)
<1> DEFINE tam == ObtenerTamMsg(pedido.bytes)
           caben == {f \in libres : tam <= f.tam}
<1>1. TypeOK
  BY DEF IInv
<1>2. /\ tam \in Nat
      /\ \A f \in libres : f.ini \in Nat /\ f.tam \in Nat
  <2>1. pedido.bytes \in Bytes
    BY DEF Pedido
  <2>2. tam \in Nat
    BY <2>1, ConstantesAssumption DEF ObtenerTamMsg
  <2> HIDE DEF tam
  <2> QED
    BY <1>1, <2>2, Tipos
<1> HIDE DEF tam
<1>3. SUFFICES ASSUME NEW f \in caben PROVE FALSE
  BY <1>2 DEF tam
<1> DEFINE T == {g.tam : g \in caben}
           I == {g.ini : g \in caben}
<1>4. T \in SUBSET Nat /\ T # {} /\ I \in SUBSET Nat /\ I # {}
  BY <1>2
<1>5. PICK g \in caben : \A h \in caben : g.tam <= h.tam
  <2>1. \E x \in T : \A y \in T : x <= y
    BY <1>4, MinimoNat
  <2> QED
    BY <2>1
<1>6. PICK k \in caben : \A h \in caben : k.ini <= h.ini
  <2>1. \E x \in I : \A y \in I : x <= y
    BY <1>4, MinimoNat
  <2> QED
    BY <2>1
<1>7. g \in Candidatas(tam) \/ k \in Candidatas(tam)
  BY <1>5, <1>6 DEF Candidatas
<1> QED
  BY <1>7 DEF tam

(* Without messages the whole memory is one free partition. *)
LEMMA TodoLibre ==
  ASSUME IInv, Ordenada, mensajes = <<>>
  PROVE  libres = {[ini |-> 0, tam |-> TamMemoria]}
<1>1. /\ TamMemoria \in Nat \ {0}
      /\ \A f \in libres : /\ f \in Particion /\ f.ini \in Nat /\ f.tam \in Nat /\ f.tam >= 1
                           /\ f.ini + f.tam <= TamMemoria
  BY ConstantesAssumption, Tipos DEF IInv, TypeOK, Acotadas
<1>2. ASSUME NEW c \in Celdas PROVE \E f \in libres : f.ini <= c /\ c < f.ini + f.tam
  <2>1. PICK f \in libres : c \in CeldasLibre(f)
    BY DEF Ordenada, SinHuecos
  <2>2. f.ini \in Nat /\ f.tam \in Nat /\ c \in Int
    BY <1>1 DEF Celdas
  <2> QED
    BY <2>1, <2>2 DEF CeldasLibre
<1>3. PICK f \in libres : f.ini = 0
  <2>1. 0 \in Celdas
    BY <1>1 DEF Celdas
  <2> QED
    BY <1>1, <1>2, <2>1
<1>4. f.tam = TamMemoria
  <2> SUFFICES ASSUME f.tam < TamMemoria PROVE FALSE
    BY <1>1, <1>3
  <2>1. f.tam \in Celdas
    BY <1>1 DEF Celdas
  <2>2. PICK g \in libres : g.ini <= f.tam /\ f.tam < g.ini + g.tam
    BY <1>2, <2>1
  <2>3. g # f
    BY <1>1, <1>3, <2>2
  <2>4. f.ini + f.tam <= g.ini \/ g.ini + g.tam <= f.ini
    BY <2>3 DEF IInv, SinSolapamiento, LibresDisjuntas
  <2>5. g.ini = f.ini + f.tam
    BY <1>1, <1>3, <2>2, <2>4
  <2> QED
    BY <2>5 DEF Ordenada, LibresConsolidadas
<1>5. ASSUME NEW g \in libres PROVE g = f
  <2> SUFFICES ASSUME g # f PROVE FALSE
    OBVIOUS
  <2>1. f.ini + f.tam <= g.ini \/ g.ini + g.tam <= f.ini
    BY DEF IInv, SinSolapamiento, LibresDisjuntas
  <2> QED
    BY <1>1, <1>3, <1>4, <2>1
<1>6. f = [ini |-> 0, tam |-> TamMemoria]
  BY <1>1, <1>3, <1>4 DEF Particion
<1> QED
  BY <1>5, <1>6

LEMMA PasoNingunaCabe == IInv /\ NingunaCabe /\ [Next]_vars => NingunaCabe'
<1> SUFFICES ASSUME IInv, NingunaCabe, [Next]_vars PROVE NingunaCabe'
  OBVIOUS
<1>1. CASE NoEncontrar
  <2>1. pedido \in Pedido /\ Candidatas(ObtenerTamMsg(pedido.bytes)) = {}
    BY <1>1 DEF NoEncontrar, IInv, PedidoEnCurso
  <2>2. \A f \in libres : f.tam < ObtenerTamMsg(pedido.bytes)
    BY <2>1, BusquedaCompleta
  <2>3. libres' = libres /\ pedido' = pedido
    BY <1>1 DEF NoEncontrar, memoria
  <2> QED
    BY <2>2, <2>3 DEF NingunaCabe
<1>2. CASE NoCompactar \/ Tictac \/ Reenviar \/ UNCHANGED vars
  <2>1. /\ libres' = libres /\ pedido' = pedido
        /\ pc \in {"ciclo", "eliminar"} \/ pc' \notin {"ciclo", "eliminar"}
    BY <1>2 DEF NoCompactar, Tictac, AvanzarReloj, Reenviar, RefrescarUsados, vars, memoria
  <2> QED
    BY <2>1 DEF NingunaCabe
<1>3. CASE Pedir \/ Guardar \/ Eliminar \/ CompactarYRebuscar \/ CompactarTrasEliminar \/ EliminarSinMensajes
  <2>1. pc' \notin {"ciclo", "eliminar"}
    BY <1>3 DEF Pedir, Guardar, Eliminar, CompactarYRebuscar, CompactarTrasEliminar, EliminarSinMensajes,
       Compactar
  <2> QED
    BY <2>1 DEF NingunaCabe
<1> QED
  BY <1>1, <1>2, <1>3 DEF Next, Hilo

LEMMA PocasHay ==
  ASSUME PocasLibres, libres # {}
  PROVE  \E f, g \in libres : libres = {f, g}
<1>1. CASE \E f, g : libres = {f, g}
  <2>1. PICK f, g : libres = {f, g}
    BY <1>1
  <2>2. f \in libres /\ g \in libres
    BY <2>1
  <2> QED
    BY <2>1, <2>2
<1>2. CASE \E f : libres \subseteq {f}
  <2>1. PICK f : libres \subseteq {f}
    BY <1>2
  <2>2. f \in libres /\ libres = {f, f}
    BY <2>1
  <2> QED
    BY <2>2
<1> QED
  BY <1>1, <1>2 DEF PocasLibres

(* What a compaction does to at most two free partitions. *)
LEMMA CompactarPocas ==
  ASSUME IInv, NEW sigue, Compactar(sigue), NEW f \in libres, NEW g \in libres, libres = {f, g}
  PROVE  pc' = sigue /\ \E h : libres' = {h}
<1>1. CASE \E h \in libres : libres = {h}
  <2>1. CASE UNCHANGED memoria /\ pc' = sigue
    BY <1>1, <2>1 DEF memoria
  <2>2. CASE \E a, s \in libres : libres = {a, s} /\ a.ini < s.ini /\ MoverParticion(a, s)
    <3>1. \A a \in libres : ~(a.ini < a.ini)
      BY Tipos DEF IInv
    <3> QED
      BY <1>1, <2>2, <3>1
  <2> QED
    BY <1>1, <2>1, <2>2, Zenon DEF Compactar
<1>2. CASE ~ \E h \in libres : libres = {h}
  <2>1. /\ pc' = sigue
        /\ \E a, s \in libres : libres = {a, s} /\ a.ini < s.ini /\ MoverParticion(a, s)
    BY <1>2, Zenon DEF Compactar
  <2>2. PICK a, s \in libres : libres = {a, s} /\ MoverParticion(a, s)
    BY <2>1
  <2>3. libres' = (libres \ {a, s}) \cup {[ini |-> s.ini - a.tam, tam |-> a.tam + s.tam]}
    BY <2>2 DEF MoverParticion
  <2> QED
    BY <2>1, <2>2, <2>3
<1> QED
  BY <1>1, <1>2

LEMMA PasoPocasLibres ==
  ASSUME Frecuencia = 1, IInv, PocasLibres, [Next]_vars
  PROVE  PocasLibres'
<1>1. CASE Pedir
  <2>1. pc = "inactivo" /\ pc' = "buscar" /\ count' = 1 /\ libres' = libres
    BY <1>1 DEF Pedir, memoria
  <2> QED
    BY <2>1 DEF PocasLibres
<1>2. CASE Guardar
  <2>1. /\ pc \in {"buscar", "rebuscar"} /\ pc' = "inactivo"
        /\ \E f \in libres : libres' = (libres \ {f}) \cup Resto(f, ObtenerTamMsg(pedido.bytes))
    BY <1>2 DEF Guardar, Candidatas
  <2>2. PICK f \in libres : libres' = (libres \ {f}) \cup Resto(f, ObtenerTamMsg(pedido.bytes))
    BY <2>1
  <2>3. libres \subseteq {f}
    BY <2>1 DEF PocasLibres
  <2>4. \E h : Resto(f, ObtenerTamMsg(pedido.bytes)) \subseteq {h}
    BY DEF Resto
  <2>5. \E h : libres' \subseteq {h}
    BY <2>2, <2>3, <2>4
  <2> QED
    BY <2>1, <2>5 DEF PocasLibres
<1>3. CASE NoEncontrar
  <2>1. /\ libres' = libres /\ count' = count
        /\ \/ pc = "buscar" /\ pc' = "ciclo"
           \/ pc = "rebuscar" /\ pc' = "eliminar"
    BY <1>3 DEF NoEncontrar, memoria
  <2> QED
    BY <2>1 DEF PocasLibres
<1>4. CASE NoCompactar
  <2>1. /\ libres' = libres /\ count' = count /\ pc = "ciclo" /\ pc' = "eliminar"
        /\ ~(count > 1)
    BY <1>4 DEF NoCompactar, TocaCompactar, memoria
  <2>2. count' = 1
    BY <2>1 DEF PocasLibres, IInv, TypeOK
  <2> QED
    BY <2>1, <2>2 DEF PocasLibres
<1>5. CASE CompactarYRebuscar
  <2>1. pc = "ciclo" /\ count > 1 /\ Compactar("rebuscar") /\ count' = 1
    BY <1>5 DEF CompactarYRebuscar, TocaCompactar
  <2>2. libres # {}
    BY <2>1 DEF PocasLibres
  <2>3. PICK f, g \in libres : libres = {f, g}
    BY <2>2, PocasHay
  <2>4. pc' = "rebuscar" /\ \E h : libres' = {h}
    BY <2>1, <2>3, CompactarPocas
  <2> QED
    BY <2>1, <2>4 DEF PocasLibres
<1>6. CASE CompactarTrasEliminar
  <2>1. pc = "compactar" /\ Compactar("buscar") /\ count' = count
    BY <1>6 DEF CompactarTrasEliminar
  <2>2. libres # {}
    BY <2>1 DEF PocasLibres
  <2>3. PICK f, g \in libres : libres = {f, g}
    BY <2>2, PocasHay
  <2>4. pc' = "buscar" /\ \E h : libres' = {h}
    BY <2>1, <2>3, CompactarPocas
  <2> QED
    BY <2>1, <2>4 DEF PocasLibres
<1>7. CASE Eliminar
  <2>1. /\ pc = "eliminar" /\ count = 1 /\ count' = 2 /\ pc' = "compactar"
        /\ \E i \in DOMAIN mensajes : Consolidar(mensajes[i])
    <3>1. pc = "eliminar" /\ count' = count + 1 /\ (count = 1 => pc' = "compactar")
          /\ \E i \in DOMAIN mensajes : Consolidar(mensajes[i])
      BY <1>7 DEF Eliminar
    <3>2. count = 1
      BY <3>1 DEF PocasLibres
    <3> QED
      BY <3>1, <3>2
  <2>2. PICK m : libres' = (libres \ (Izquierda(m) \cup Derecha(m))) \cup {Consolidada(m)}
    BY <2>1 DEF Consolidar
  <2>3. PICK f : libres \subseteq {f}
    BY <2>1 DEF PocasLibres
  <2> DEFINE c == Consolidada(m)
             Q == Izquierda(m) \cup Derecha(m)
  <2>4. libres' = (libres \ Q) \cup {c}
    BY <2>2
  <2> HIDE DEF c, Q
  <2>5. libres' = {c, c} \/ libres' = {f, c}
    BY <2>3, <2>4
  <2>6. libres' # {} /\ \E x, y : libres' = {x, y}
    BY <2>5
  <2> QED
    BY <2>1, <2>6 DEF PocasLibres
<1>8. CASE EliminarSinMensajes
  <2>1. pc = "eliminar" /\ pc' = "caido" /\ libres' = libres
    BY <1>8 DEF EliminarSinMensajes, memoria
  <2> QED
    BY <2>1 DEF PocasLibres
<1>9. CASE Reenviar \/ Tictac \/ UNCHANGED vars
  <2>1. UNCHANGED <<libres, count, pc>>
    BY <1>9 DEF Reenviar, RefrescarUsados, Tictac, AvanzarReloj, vars, memoria
  <2> QED
    BY <2>1 DEF PocasLibres
<1> QED
  BY <1>1, <1>2, <1>3, <1>4, <1>5, <1>6, <1>7, <1>8, <1>9 DEF Next, Hilo

(* The invariant of the search for those two frequencies. *)
Busqueda ==
  /\ IInv /\ Ordenada
  /\ NingunaCabe
  /\ Frecuencia = 1 => PocasLibres
  /\ SinCompactarTrasEliminar
  /\ SinCaida

LEMMA PasoBusqueda ==
  ASSUME Frecuencia \in {1, -1}, Busqueda, [Next]_vars
  PROVE  Busqueda'
<1>1. IInv' /\ Ordenada' /\ NingunaCabe'
  BY PasoIInv, PasoOrdenada, PasoNingunaCabe DEF Busqueda
<1>2. Frecuencia = 1 => PocasLibres'
  BY PasoPocasLibres DEF Busqueda
<1>3. ASSUME NEW sigue, Compactar(sigue), sigue \in {"buscar", "rebuscar"},
             CompactarYRebuscar \/ (Frecuencia = 1 /\ CompactarTrasEliminar)
      PROVE  pc' = sigue
  <2>1. CASE Frecuencia = 1
    <3>1. PocasLibres
      BY <2>1 DEF Busqueda
    <3>2. pc = "compactar" \/ (pc = "ciclo" /\ count > 1)
      BY <1>3, <2>1 DEF CompactarYRebuscar, CompactarTrasEliminar, TocaCompactar
    <3>3. libres # {}
      BY <3>1, <3>2 DEF PocasLibres
    <3>4. PICK f, g \in libres : libres = {f, g}
      BY <3>1, <3>3, PocasHay
    <3> QED
      BY <1>3, <3>4, CompactarPocas DEF Busqueda
  <2>2. CASE Frecuencia = -1
    <3>1. mensajes = <<>>
      BY <1>3, <2>2 DEF CompactarYRebuscar, TocaCompactar
    <3>2. PICK f, g \in libres : libres = {f, g}
      BY <3>1, TodoLibre DEF Busqueda
    <3> QED
      BY <1>3, <3>2, CompactarPocas DEF Busqueda
  <2> QED
    BY <2>1, <2>2
<1>4. SinCaida' /\ SinCompactarTrasEliminar'
  <2>1. CASE EliminarSinMensajes
    <3>1. /\ pc = "eliminar" /\ mensajes = <<>> /\ pedido' = pedido /\ pc' = "caido"
          /\ pedido \in Pedido
      BY <2>1 DEF EliminarSinMensajes, Busqueda, IInv, PedidoEnCurso
    <3>2. [ini |-> 0, tam |-> TamMemoria] \in libres
      BY <3>1, TodoLibre DEF Busqueda
    <3>3. TamMemoria < ObtenerTamMsg(pedido.bytes)
      BY <3>1, <3>2 DEF Busqueda, NingunaCabe
    <3>4. TamMemoria \in Nat /\ ObtenerTamMsg(pedido.bytes) \in Nat
      <4>1. pedido.bytes \in Bytes
        BY <3>1 DEF Pedido
      <4> QED
        BY <4>1, ConstantesAssumption, TamMsg
    <3> QED
      BY <3>1, <3>3, <3>4 DEF SinCaida, SinCompactarTrasEliminar, ObtenerTamMsg
  <2>2. CASE CompactarYRebuscar
    <3>1. pc' = "rebuscar"
      BY <1>3, <2>2 DEF CompactarYRebuscar
    <3> QED
      BY <3>1 DEF SinCaida, SinCompactarTrasEliminar
  <2>3. CASE CompactarTrasEliminar
    <3>1. pc = "compactar"
      BY <2>3 DEF CompactarTrasEliminar
    <3>2. Frecuencia = 1
      BY <3>1 DEF Busqueda, SinCompactarTrasEliminar
    <3>3. pc' = "buscar"
      BY <1>3, <2>3, <3>2 DEF CompactarTrasEliminar
    <3> QED
      BY <3>3 DEF SinCaida, SinCompactarTrasEliminar
  <2>4. CASE Eliminar
    <3>1. pc' = IF count = Frecuencia THEN "compactar" ELSE "buscar"
      BY <2>4 DEF Eliminar
    <3>2. count \in Nat
      BY DEF Busqueda, IInv, TypeOK
    <3> QED
      BY <3>1, <3>2 DEF SinCaida, SinCompactarTrasEliminar
  <2>5. CASE Pedir \/ Guardar \/ NoEncontrar \/ NoCompactar
    <3>1. pc' \in {"buscar", "inactivo", "ciclo", "eliminar"}
      BY <2>5 DEF Pedir, Guardar, NoEncontrar, NoCompactar
    <3> QED
      BY <3>1 DEF SinCaida, SinCompactarTrasEliminar
  <2>6. CASE Reenviar \/ Tictac \/ UNCHANGED vars
    <3>1. UNCHANGED <<pc, pedido>>
      BY <2>6 DEF Reenviar, RefrescarUsados, Tictac, AvanzarReloj, vars, memoria
    <3> QED
      BY <3>1 DEF Busqueda, SinCaida, SinCompactarTrasEliminar, ObtenerTamMsg
  <2> QED
    BY <2>1, <2>2, <2>3, <2>4, <2>5, <2>6 DEF Next, Hilo
<1> QED
  BY <1>1, <1>2, <1>4 DEF Busqueda

LEMMA InicioBusqueda == Init => Busqueda
<1> SUFFICES ASSUME Init PROVE Busqueda
  OBVIOUS
<1>1. IInv /\ Ordenada
  BY InicioIInv, InicioOrdenada
<1>2. pc = "inactivo" /\ libres = {[ini |-> 0, tam |-> TamMemoria]}
  BY DEF Init, InitMemoria
<1>3. PocasLibres
  BY <1>2 DEF PocasLibres
<1> QED
  BY <1>1, <1>2, <1>3 DEF Busqueda, NingunaCabe, SinCompactarTrasEliminar, SinCaida

(* While FRECUENCIA_COMPACTACION is 1 or -1 only a message larger than the *)
(* memory ends the Broker: compactar never meets a list it cannot walk     *)
(* (memoria.c:22-57, 404-463).                                             *)
THEOREM SoloCaePorTamanio ==
  ASSUME Frecuencia \in {1, -1}
  PROVE  Spec => []SinCaida
<1>1. Init => Busqueda
  BY InicioBusqueda
<1>2. Busqueda /\ [Next]_vars => Busqueda'
  BY PasoBusqueda
<1>3. Busqueda => SinCaida
  BY DEF Busqueda
<1> QED
  BY <1>1, <1>2, <1>3, PTL DEF Spec

(* Only an eviction shortens MENSAJES. *)
LEMMA SoloEliminarAcorta ==
  ASSUME IInv, [Next]_vars, Len(mensajes') < Len(mensajes)
  PROVE  Eliminar
<1>1. mensajes \in Seq(Mensaje) /\ mensajes' \in Seq(Mensaje)
  BY PasoIInv DEF IInv, TypeOK
<1>2. DOMAIN mensajes' # DOMAIN mensajes
  <2>1. DOMAIN mensajes = 1..Len(mensajes) /\ DOMAIN mensajes' = 1..Len(mensajes')
        /\ Len(mensajes) \in Nat /\ Len(mensajes') \in Nat
    BY <1>1, LenProperties
  <2>2. Len(mensajes) \in 1..Len(mensajes) /\ Len(mensajes) \notin 1..Len(mensajes')
    BY <2>1
  <2> QED
    BY <2>1, <2>2
<1>3. ASSUME Pedir \/ NoEncontrar \/ NoCompactar \/ EliminarSinMensajes \/ Tictac \/ UNCHANGED vars
      PROVE  FALSE
  <2>1. mensajes' = mensajes
    BY <1>3 DEF Pedir, NoEncontrar, NoCompactar, EliminarSinMensajes, Tictac, AvanzarReloj, vars, memoria
  <2> QED
    BY <1>2, <2>1
<1>4. ASSUME Reenviar PROVE FALSE
  BY <1>2, <1>4 DEF Reenviar, RefrescarUsados
<1>5. ASSUME CompactarYRebuscar \/ CompactarTrasEliminar PROVE FALSE
  <2>1. mensajes' = mensajes \/ \E a, s \in libres : MoverParticion(a, s)
    BY <1>5 DEF CompactarYRebuscar, CompactarTrasEliminar, Compactar, memoria
  <2>2. DOMAIN mensajes' = DOMAIN mensajes
    BY <2>1 DEF MoverParticion
  <2> QED
    BY <1>2, <2>2
<1>6. ASSUME Guardar PROVE FALSE
  <2>1. PICK m : mensajes' = Append(mensajes, m)
    BY <1>6 DEF Guardar
  <2>2. Len(mensajes') = Len(mensajes) + 1
    BY <1>1, <2>1
  <2>3. Len(mensajes) \in Nat
    BY <1>1, LenProperties
  <2> QED
    BY <2>2, <2>3
<1> QED
  BY <1>3, <1>4, <1>5, <1>6 DEF Next, Hilo

(* When a message is dropped the free cells are those of one partition.    *)
LEMMA PocoLibre ==
  ASSUME Busqueda, Frecuencia = 1, Eliminar
  PROVE  LibreTotal < ObtenerTamMsg(pedido.bytes)
<1>1. /\ pc = "eliminar"
      /\ pedido \in Pedido
      /\ \A f \in libres : f.ini \in Nat /\ f.tam \in Nat /\ f.tam >= 1
                           /\ f.tam < ObtenerTamMsg(pedido.bytes)
  <2>1. pc = "eliminar"
    BY DEF Eliminar
  <2> QED
    BY <2>1, Tipos DEF Busqueda, IInv, PedidoEnCurso, NingunaCabe
<1>2. PICK f : libres \subseteq {f}
  BY <1>1 DEF Busqueda, PocasLibres
<1>3. ObtenerTamMsg(pedido.bytes) \in Nat /\ 0 < ObtenerTamMsg(pedido.bytes)
  <2>1. pedido.bytes \in Bytes
    BY <1>1 DEF Pedido
  <2> DEFINE n == pedido.bytes
             t == ObtenerTamMsg(pedido.bytes)
  <2>2. t \in Nat /\ n \in Nat /\ n >= 1 /\ n <= t
    BY <2>1, TamMsg
  <2> HIDE DEF n, t
  <2>3. t \in Nat /\ 0 < t
    BY <2>2
  <2> QED
    BY <2>3 DEF t
<1>4. CASE libres = {}
  <2>1. UNION {CeldasLibre(g) : g \in libres} = {}
    BY <1>4
  <2> QED
    BY <1>3, <2>1, FS_EmptySet DEF LibreTotal
<1>5. CASE libres # {}
  <2>1. f \in libres /\ libres = {f}
    BY <1>2, <1>5
  <2>2. UNION {CeldasLibre(g) : g \in libres} = f.ini .. (f.ini + f.tam - 1)
    BY <2>1 DEF CeldasLibre
  <2>3. f.ini \in Nat /\ f.tam \in Nat /\ f.tam >= 1 /\ f.tam < ObtenerTamMsg(pedido.bytes)
    BY <1>1, <2>1
  <2> DEFINE a == f.ini
             b == f.ini + f.tam - 1
  <2>4. a \in Int /\ b \in Int /\ a <= b
    BY <2>3
  <2>5. Cardinality(a..b) = b - a + 1
    <3> HIDE DEF a, b
    <3>1. Cardinality(a..b) = IF a > b THEN 0 ELSE b - a + 1
      BY <2>4, FS_Interval
    <3> QED
      BY <2>4, <3>1
  <2>6. LibreTotal = f.tam
    <3>1. LibreTotal = Cardinality(a..b)
      BY <2>2 DEF LibreTotal
    <3> QED
      BY <2>3, <2>5, <3>1
  <2> QED
    BY <2>3, <2>6
<1> QED
  BY <1>4, <1>5

(* With FRECUENCIA_COMPACTACION 1 no message is dropped while the free     *)
(* cells would be enough (memoria.c:34-55).                                *)
THEOREM FragmentarNoDesaloja ==
  ASSUME Frecuencia = 1
  PROVE  Spec => DesalojoNecesario
<1>1. Init => Busqueda
  BY InicioBusqueda
<1>2. Busqueda /\ [Next]_vars => Busqueda'
  BY PasoBusqueda
<1>3. Busqueda /\ [Next]_vars
        => [Len(mensajes') < Len(mensajes) => LibreTotal < ObtenerTamMsg(pedido.bytes)]_vars
  BY SoloEliminarAcorta, PocoLibre DEF Busqueda
<1> QED
  BY <1>1, <1>2, <1>3, PTL DEF Spec, DesalojoNecesario

(* For FRECUENCIA_COMPACTACION 1 and -1 the comment in compactar is true:  *)
(* the search never compacts without leaving exactly one free partition    *)
(* (memoria.c:186).                                                        *)
THEOREM CompactarDejaUnaLibre ==
  ASSUME Frecuencia \in {1, -1}
  PROVE  Spec => CompactarDejaUna
<1>1. Init => Busqueda
  BY InicioBusqueda
<1>2. Busqueda /\ [Next]_vars => Busqueda'
  BY PasoBusqueda
<1>3. ASSUME Busqueda, CompactarYRebuscar \/ CompactarTrasEliminar
      PROVE  \E f \in libres' : libres' = {f}
  <2>1. PICK sigue : Compactar(sigue)
    BY <1>3 DEF CompactarYRebuscar, CompactarTrasEliminar
  <2>2. \E f, g \in libres : libres = {f, g}
    <3>1. CASE Frecuencia = 1
      <4>1. PocasLibres
        BY <1>3, <3>1 DEF Busqueda
      <4>2. pc = "compactar" \/ (pc = "ciclo" /\ count > 1)
        BY <1>3, <3>1 DEF CompactarYRebuscar, CompactarTrasEliminar, TocaCompactar
      <4>3. libres # {}
        BY <4>1, <4>2 DEF PocasLibres
      <4> QED
        BY <4>1, <4>3, PocasHay
    <3>2. CASE Frecuencia = -1
      <4>1. mensajes = <<>>
        BY <1>3, <3>2 DEF CompactarYRebuscar, CompactarTrasEliminar, TocaCompactar, Busqueda,
           SinCompactarTrasEliminar
      <4>2. libres = {[ini |-> 0, tam |-> TamMemoria]}
        BY <1>3, <4>1, TodoLibre DEF Busqueda
      <4> QED
        BY <4>2
    <3> QED
      BY <3>1, <3>2
  <2>3. PICK f, g \in libres : libres = {f, g}
    BY <2>2
  <2>4. \E h : libres' = {h}
    BY <1>3, <2>1, <2>3, CompactarPocas DEF Busqueda
  <2> QED
    BY <2>4
<1>4. Busqueda /\ [Next]_vars
        => [CompactarYRebuscar \/ CompactarTrasEliminar => \E f \in libres' : libres' = {f}]_vars
  BY <1>3
<1> QED
  BY <1>1, <1>2, <1>4, PTL DEF Spec, CompactarDejaUna
=============================================================================
