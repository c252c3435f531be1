-------------------------- MODULE GameCard_proofs --------------------------
(***************************************************************************)
(* Proofs about GameCard: OPEN is a lock, a block has one owner, and what  *)
(* the files hold is what the messages add up to, for any messages, sizes  *)
(* of lines, of blocks and of the disk, and any number of restarts.        *)
(***************************************************************************)
EXTENDS GameCard, SequenceTheorems, FiniteSetTheorems, TLAPS

-----------------------------------------------------------------------------
(* The inductive invariant.                                                *)

(* The threads that make a file, and those with the new lines of one: in   *)
(* the first steps its list is still that of the file.                     *)
Creando == {"primerBloque", "crear"}
ConMano == {"crear", "agregar"}
AntesDeLaLista == {"otroBloque", "agregar", "liberar"}
ConDatos == {"otroBloque", "agregar", "liberar", "vaciar", "escribir", "caer"}
Rehaciendo == {"vaciar", "escribir"}

(* m_crearPokemon and OPEN exclude; before the bitmap nobody is inside.  *)
Candados ==
  /\ \A m \in Mensajes : hilos[m].paso \in Creando =>
       Tipo[m] = "NEW" /\ mCrear = m /\ Pokemon[m] \notin conMutex
  /\ \A m \in Mensajes : hilos[m].paso \in ConArchivo =>
       Pokemon[m] \in conMutex /\ archivos[Pokemon[m]].open
  /\ \A m, n \in Mensajes :
       /\ hilos[m].paso \in ConArchivo /\ hilos[n].paso \in ConArchivo
       /\ Pokemon[m] = Pokemon[n]
       => m = n
  /\ \A p \in conMutex : archivos[p].open =>
       \E m \in Mensajes : Pokemon[m] = p /\ hilos[m].paso \in ConArchivo
  /\ ~HayBitmap => conMutex = {} /\ \A m \in Mensajes : hilos[m].paso # "crear"

(* What a thread knows at each step. *)
Sabe(m) ==
  /\ hilos[m].paso \in {"primerBloque", "otroBloque"} => hilos[m].i \in Bloques
  /\ hilos[m].paso \in ConMano => hilos[m].i \in Bloques \cup {SinBloque}
  /\ hilos[m].paso \in ConDatos \cup {"guardar"} =>
       SinBloque \notin ToSet(hilos[m].lista) /\ Len(hilos[m].lista) >= 1
  /\ hilos[m].paso \in AntesDeLaLista => hilos[m].lista = archivos[Pokemon[m]].bloques
  /\ hilos[m].paso = "liberar" => Len(hilos[m].lista) >= 2
  /\ hilos[m].paso \in {"porLlegar", "directorio"} => ~hilos[m].resultado

(* A list of blocks has no block twice. *)
SinRepetidos(s) == \A j, k \in DOMAIN s : s[j] = s[k] /\ s[j] \in Bloques => j = k

Duenios ==
  /\ \A p \in conMutex : Len(ListaVigente(p)) >= 1 /\ SinRepetidos(ListaVigente(p))
  /\ \A p, q \in conMutex : p # q => DeArchivo(p) \cap DeArchivo(q) = {}
  /\ \A m \in Mensajes : hilos[m].paso \in ConMano =>
       \A p \in conMutex : hilos[m].i \notin DeArchivo(p)
  /\ \A m, n \in Mensajes :
       /\ hilos[m].paso \in ConMano /\ hilos[n].paso \in ConMano
       /\ hilos[m].i = hilos[n].i /\ hilos[m].i # SinBloque
       => m = n
  /\ HayBitmap => ocupados = EnMano \cup UNION {DeArchivo(p) : p \in conMutex}

Cuenta(p) == [x \in Posiciones |-> Contados(p, x)]

(* What m makes of the lines it read. *)
Cambio(m, datos) ==
  IF Tipo[m] = "NEW" THEN Agregar(datos, Posicion[m]) ELSE Reducir(datos, Posicion[m])

(* What a thread h of the message m, inside a file that holds c, is about  *)
(* to write in its n blocks, and that those it has or will have are just   *)
(* enough.                                                                 *)
Escribira(m, h, c) ==
  LET n == Len(h.lista)
  IN  /\ Tipo[m] # "GET"
      /\ h.datos = Cambio(m, c)
      /\ h.resultado <=> Tipo[m] = "CATCH" /\ c[Posicion[m]] > 0
      /\ h.paso \in {"otroBloque", "agregar"} =>
           TamBloque * n < Tam(h.datos) /\ Tam(h.datos) < TamBloque * (n + 1)
      /\ h.paso = "liberar" =>
           /\ Tipo[m] = "CATCH"
           /\ TamBloque * (n - 2) <= Tam(h.datos) /\ Tam(h.datos) < TamBloque * (n - 1)
      /\ h.paso = "vaciar" => h.i \notin ToSet(h.lista)
      /\ h.paso \in Rehaciendo =>
           TamBloque * (n - 1) <= Tam(h.datos) /\ Tam(h.datos) # TamBloque * n

Sano(p) ==
  LET lista == ListaVigente(p)
      n == Len(lista)
  IN  /\ Cuenta(p) \in Datos
      /\ Nulo \notin ToSet(lista)
      /\ (~ \E m \in Dentro(p) : hilos[m].paso \in Rehaciendo) => Entero(lista, Cuenta(p))
      /\ (~ \E m \in Dentro(p) : hilos[m].paso \in ConDatos) =>
           TamBloque * (n - 1) <= Tam(Cuenta(p)) /\ Tam(Cuenta(p)) < TamBloque * n
      /\ \A m \in Dentro(p) : hilos[m].paso \in ConDatos => Escribira(m, hilos[m], Cuenta(p))

(* The messages that count have a file with a mutex. *)
Suma(m) == Escrito(m) /\ (Tipo[m] = "NEW" \/ (Tipo[m] = "CATCH" /\ hilos[m].resultado))

Sumas == \A m \in Mensajes : Suma(m) => Pokemon[m] \in conMutex

IInv ==
  /\ TypeOK
  /\ Candados
  /\ \A m \in Mensajes : Sabe(m)
  /\ Duenios
  /\ Sumas
  /\ \A p \in conMutex \ pisados : Sano(p)

-----------------------------------------------------------------------------
(* Sizes.                                                                  *)

Bytes(datos) == {b \in Posiciones \X (1..TamBloque) : datos[b[1]] > 0 /\ b[2] <= Largo[b[1]]}

(* The bytes of some lines are finitely many; only no lines have none. *)
LEMMA TamTipo ==
  ASSUME NEW datos \in Datos
  PROVE  /\ IsFiniteSet(Bytes(datos)) /\ Tam(datos) = Cardinality(Bytes(datos))
         /\ Tam(datos) \in Nat
         /\ Tam(datos) = 0 <=> datos = SinDatos
<1> DEFINE B == Bytes(datos)
<1>1. IsFiniteSet(Posiciones \X (1..TamBloque))
  <2>1. IsFiniteSet(Posiciones) /\ TamBloque \in Int
    BY GameCardAssumption
  <2>2. IsFiniteSet(1..TamBloque)
    BY <2>1, FS_Interval
  <2> QED
    BY <2>1, <2>2, FS_Product
<1>2. B \subseteq Posiciones \X (1..TamBloque)
  BY DEF Bytes
<1>3. Tam(datos) = Cardinality(B)
  BY DEF Tam, Bytes
<1> HIDE DEF B
<1>4. IsFiniteSet(B) /\ Cardinality(B) \in Nat
  BY <1>1, <1>2, FS_Subset, FS_CardinalityType
<1>5. Cardinality(B) = 0 <=> B = {}
  BY <1>4, FS_EmptySet
<1>6. B = {} <=> \A x \in Posiciones : datos[x] = 0
  <2>1. \A x \in Posiciones : datos[x] \in Nat /\ Largo[x] \in 1..TamBloque
    BY GameCardAssumption DEF Datos
  <2>2. ASSUME NEW x \in Posiciones, datos[x] # 0 PROVE <<x, 1>> \in B
    BY <2>1, <2>2, GameCardAssumption DEF B, Bytes
  <2>3. ASSUME \A x \in Posiciones : datos[x] = 0 PROVE B = {}
    BY <2>3 DEF B, Bytes
  <2> QED
    BY <2>2, <2>3
<1>7. (\A x \in Posiciones : datos[x] = 0) <=> datos = SinDatos
  BY DEF Datos, SinDatos
<1> QED
  BY <1>3, <1>4, <1>5, <1>6, <1>7 DEF B

(* Lines that differ at x alone differ by one line, which fits in a block. *)
LEMMA TamCambia ==
  ASSUME NEW d \in Datos, NEW e \in Datos, NEW x \in Posiciones,
         \A y \in Posiciones : y # x => d[y] = e[y]
  PROVE  Tam(e) <= Tam(d) + TamBloque /\ (e[x] > 0 => Tam(d) <= Tam(e))
<1> DEFINE D == Bytes(d)
           E == Bytes(e)
           U == {x} \X (1..TamBloque)
<1>1. IsFiniteSet(D) /\ IsFiniteSet(E) /\ Tam(d) = Cardinality(D) /\ Tam(e) = Cardinality(E)
  BY TamTipo
<1>2. IsFiniteSet(U) /\ Cardinality(U) = TamBloque
  <2>1. TamBloque \in Nat \ {0} /\ TamBloque \in Int
    BY GameCardAssumption
  <2>2. IsFiniteSet(1..TamBloque) /\ Cardinality(1..TamBloque) = TamBloque
    BY <2>1, FS_Interval
  <2>3. IsFiniteSet({x}) /\ Cardinality({x}) = 1
    BY FS_Singleton
  <2>4. IsFiniteSet(U) /\ Cardinality(U) = Cardinality({x}) * Cardinality(1..TamBloque)
    BY <2>2, <2>3, FS_Product
  <2> QED
    BY <2>1, <2>2, <2>3, <2>4
<1>3. E \subseteq D \cup U
  BY DEF Bytes
<1>4. e[x] > 0 => D \subseteq E
  BY DEF Bytes
<1> HIDE DEF D, E, U
<1>5. IsFiniteSet(D \cup U) /\ Cardinality(D \cup U) = Cardinality(D) + Cardinality(U) - Cardinality(D \cap U)
  BY <1>1, <1>2, FS_Union
<1>6. Cardinality(D \cap U) \in Nat /\ Cardinality(D) \in Nat /\ Cardinality(E) \in Nat
  BY <1>1, FS_Intersection, FS_CardinalityType
<1>7. Cardinality(E) <= Cardinality(D \cup U)
  BY <1>3, <1>5, FS_Subset
<1>8. e[x] > 0 => Cardinality(D) <= Cardinality(E)
  BY <1>1, <1>4, FS_Subset
<1> QED
  BY <1>1, <1>2, <1>5, <1>6, <1>7, <1>8, GameCardAssumption

(* A message changes the lines by less than a block. *)
LEMMA CambioTipo ==
  ASSUME NEW m \in Mensajes, NEW d \in Datos
  PROVE  /\ Cambio(m, d) \in Datos
         /\ Tam(Cambio(m, d)) \in Nat /\ Tam(d) \in Nat
         /\ Tam(Cambio(m, d)) <= Tam(d) + TamBloque
         /\ Tam(d) <= Tam(Cambio(m, d)) + TamBloque
         /\ Tipo[m] = "NEW" => Tam(d) <= Tam(Cambio(m, d))
<1> DEFINE x == Posicion[m]
           e == Cambio(m, d)
<1>1. x \in Posiciones
  BY GameCardAssumption
<1>2. e \in Datos /\ (\A y \in Posiciones : y # x => d[y] = e[y]) /\ (Tipo[m] = "NEW" => e[x] > 0)
  <2>1. CASE Tipo[m] = "NEW"
    <3>1. e = [d EXCEPT ![x] = d[x] + 1]
      BY <2>1 DEF Cambio, Agregar
    <3> HIDE DEF e, x
    <3> QED
      BY <1>1, <3>1 DEF Datos
  <2>2. CASE Tipo[m] # "NEW"
    <3>1. e = IF d[x] > 0 THEN [d EXCEPT ![x] = d[x] - 1] ELSE d
      BY <2>2 DEF Cambio, Reducir
    <3> HIDE DEF e, x
    <3> QED
      BY <1>1, <2>2, <3>1 DEF Datos
  <2> QED
    BY <2>1, <2>2
<1> HIDE DEF e, x
<1>3. Tam(e) <= Tam(d) + TamBloque /\ (e[x] > 0 => Tam(d) <= Tam(e))
  BY <1>1, <1>2, TamCambia
<1>4. Tam(d) <= Tam(e) + TamBloque
  BY <1>1, <1>2, TamCambia
<1>5. Tam(e) \in Nat /\ Tam(d) \in Nat
  BY <1>2, TamTipo
<1> QED
  BY <1>2, <1>3, <1>4, <1>5 DEF e

-----------------------------------------------------------------------------
(* Threads, lists of blocks and counts in a state and in the next.         *)

Hilos == [paso : Pasos, i : Numeros, lista : Seq(Numeros), datos : Datos, resultado : BOOLEAN]

(* Ir changes the step of one thread. *)
LEMMA IrHilo ==
  ASSUME TypeOK, NEW m \in Mensajes, NEW paso \in Pasos, Ir(m, paso)
  PROVE  \E x \in Hilos : /\ hilos' = [hilos EXCEPT ![m] = x]
                          /\ x.paso = paso /\ x.i = hilos[m].i /\ x.lista = hilos[m].lista
                          /\ x.datos = hilos[m].datos /\ x.resultado = hilos[m].resultado
<1> DEFINE x == [hilos[m] EXCEPT !.paso = paso]
<1>1. hilos \in [Mensajes -> Hilos]
  BY DEF TypeOK, Hilos
<1>2. hilos' = [hilos EXCEPT ![m] = x]
  BY DEF Ir
<1>3. hilos[m] \in Hilos
  BY <1>1
<1>4. /\ x \in Hilos /\ x.paso = paso /\ x.i = hilos[m].i /\ x.lista = hilos[m].lista
      /\ x.datos = hilos[m].datos /\ x.resultado = hilos[m].resultado
  BY <1>3 DEF Hilos
<1> QED
  BY <1>2, <1>4

(* Soltar forgets what the thread read. *)
LEMMA SoltarHilo ==
  ASSUME TypeOK, NEW m \in Mensajes, NEW paso \in Pasos, Soltar(m, paso)
  PROVE  \E x \in Hilos : /\ hilos' = [hilos EXCEPT ![m] = x]
                          /\ x.paso = paso /\ x.resultado = hilos[m].resultado
<1> DEFINE x == [Hilo0 EXCEPT !.paso = paso, !.resultado = hilos[m].resultado]
<1>1. hilos[m].resultado \in BOOLEAN
  BY DEF TypeOK
<1>2. SinDatos \in Datos /\ <<>> \in Seq(Numeros) /\ 0 \in Numeros
  BY DEF SinDatos, Datos, Numeros, Nulo
<1>3. Hilo0 \in Hilos
  BY <1>2 DEF Hilo0, Hilos, Pasos
<1>4. hilos' = [hilos EXCEPT ![m] = x]
  BY DEF Soltar
<1>5. x \in Hilos /\ x.paso = paso /\ x.resultado = hilos[m].resultado
  BY <1>1, <1>3 DEF Hilos
<1> QED
  BY <1>4, <1>5

(* One thread changes; the others do not. *)
LEMMA UnHilo ==
  ASSUME TypeOK, NEW m \in Mensajes, NEW x, hilos' = [hilos EXCEPT ![m] = x]
  PROVE  /\ DOMAIN hilos' = Mensajes /\ hilos'[m] = x
         /\ \A n \in Mensajes : n # m => hilos'[n] = hilos[n]
         /\ x \in Hilos => hilos' \in [Mensajes -> Hilos]
<1>1. hilos \in [Mensajes -> Hilos]
  BY DEF TypeOK, Hilos
<1> QED
  BY <1>1

(* The list of blocks of p, given the threads and the files. *)
ListaDe(h, a, p) ==
  LET escritores == {m \in Mensajes : Pokemon[m] = p /\ h[m].paso \in ConListaNueva}
  IN  IF escritores # {} THEN h[CHOOSE m \in escritores : TRUE].lista ELSE a[p].bloques

(* The one thread with a new list has the list of p. *)
LEMMA ListaDelEscritor ==
  ASSUME NEW h, NEW a, NEW p, NEW m \in Mensajes, Pokemon[m] = p, h[m].paso \in ConListaNueva,
         \A n \in Mensajes : Pokemon[n] = p /\ h[n].paso \in ConListaNueva => n = m
  PROVE  ListaDe(h, a, p) = h[m].lista
<1> DEFINE E == {n \in Mensajes : Pokemon[n] = p /\ h[n].paso \in ConListaNueva}
<1>1. E = {m}
  OBVIOUS
<1>2. (CHOOSE n \in E : TRUE) = m
  BY <1>1
<1>3. ListaDe(h, a, p) = IF E # {} THEN h[CHOOSE n \in E : TRUE].lista ELSE a[p].bloques
  BY DEF ListaDe
<1> QED
  BY <1>1, <1>2, <1>3

LEMMA ListaSinEscritor ==
  ASSUME NEW h, NEW a, NEW p,
         \A n \in Mensajes : Pokemon[n] = p => h[n].paso \notin ConListaNueva
  PROVE  ListaDe(h, a, p) = a[p].bloques
<1> DEFINE E == {n \in Mensajes : Pokemon[n] = p /\ h[n].paso \in ConListaNueva}
<1>1. E = {}
  OBVIOUS
<1>2. ListaDe(h, a, p) = IF E # {} THEN h[CHOOSE n \in E : TRUE].lista ELSE a[p].bloques
  BY DEF ListaDe
<1> QED
  BY <1>1, <1>2

LEMMA ListaVigenteEs ==
  ASSUME NEW p
  PROVE  /\ ListaVigente(p) = ListaDe(hilos, archivos, p)
         /\ ListaVigente(p)' = ListaDe(hilos', archivos', p)
  BY DEF ListaVigente, ListaDe

(* The list of p is the same when its writers and its file are. *)
LEMMA ListaSigue ==
  ASSUME NEW p, archivos'[p].bloques = archivos[p].bloques,
         \A n \in Mensajes : Pokemon[n] = p =>
           /\ hilos'[n].paso \in ConListaNueva <=> hilos[n].paso \in ConListaNueva
           /\ hilos[n].paso \in ConListaNueva => hilos'[n].lista = hilos[n].lista
  PROVE  ListaVigente(p)' = ListaVigente(p)
<1> DEFINE E(h) == {n \in Mensajes : Pokemon[n] = p /\ h[n].paso \in ConListaNueva}
<1>1. E(hilos') = E(hilos)
  OBVIOUS
<1>2. \A h, a : ListaDe(h, a, p) = IF E(h) # {} THEN h[CHOOSE n \in E(h) : TRUE].lista ELSE a[p].bloques
  BY DEF ListaDe
<1>3. E(hilos) # {} => (CHOOSE n \in E(hilos) : TRUE) \in E(hilos)
  OBVIOUS
<1>4. \A n \in E(hilos) : hilos'[n].lista = hilos[n].lista
  OBVIOUS
<1> HIDE DEF E
<1>5. ListaDe(hilos', archivos', p) = ListaDe(hilos, archivos, p)
  BY <1>1, <1>2, <1>3, <1>4
<1> QED
  BY <1>5, ListaVigenteEs

(* The counts of p, given the messages that count. *)
Suman(E, p, x) ==
  Cardinality({m \in E : Tipo[m] = "NEW" /\ Pokemon[m] = p /\ Posicion[m] = x})
  - Cardinality({m \in E : Tipo[m] = "CATCH" /\ Pokemon[m] = p /\ Posicion[m] = x})

Sumados == {m \in Mensajes : Suma(m)}

LEMMA ContadosEs ==
  ASSUME NEW p, NEW x
  PROVE  /\ Contados(p, x) = Suman(Sumados, p, x)
         /\ Contados(p, x)' = Suman(Sumados', p, x)
<1>1. {m \in Mensajes : Escrito(m) /\ Tipo[m] = "NEW" /\ Pokemon[m] = p /\ Posicion[m] = x}
        = {m \in Sumados : Tipo[m] = "NEW" /\ Pokemon[m] = p /\ Posicion[m] = x}
  BY DEF Sumados, Suma
<1>2. {m \in Mensajes : /\ Escrito(m) /\ Tipo[m] = "CATCH" /\ hilos[m].resultado
                        /\ Pokemon[m] = p /\ Posicion[m] = x}
        = {m \in Sumados : Tipo[m] = "CATCH" /\ Pokemon[m] = p /\ Posicion[m] = x}
  BY DEF Sumados, Suma
<1>3. {m \in Mensajes : Escrito(m)' /\ Tipo[m] = "NEW" /\ Pokemon[m] = p /\ Posicion[m] = x}
        = {m \in Sumados' : Tipo[m] = "NEW" /\ Pokemon[m] = p /\ Posicion[m] = x}
  BY DEF Sumados, Suma
<1>4. {m \in Mensajes : /\ Escrito(m)' /\ Tipo[m] = "CATCH" /\ hilos'[m].resultado
                        /\ Pokemon[m] = p /\ Posicion[m] = x}
        = {m \in Sumados' : Tipo[m] = "CATCH" /\ Pokemon[m] = p /\ Posicion[m] = x}
  BY DEF Sumados, Suma
<1> QED
  BY <1>1, <1>2, <1>3, <1>4 DEF Contados, Suman

LEMMA CuentaSigue ==
  ASSUME NEW p, \A n \in Mensajes : Pokemon[n] = p => (Suma(n)' <=> Suma(n))
  PROVE  Cuenta(p)' = Cuenta(p)
<1> SUFFICES ASSUME NEW x \in Posiciones PROVE Contados(p, x)' = Contados(p, x)
  BY DEF Cuenta
<1>1. {m \in Sumados' : Tipo[m] = "NEW" /\ Pokemon[m] = p /\ Posicion[m] = x}
        = {m \in Sumados : Tipo[m] = "NEW" /\ Pokemon[m] = p /\ Posicion[m] = x}
  BY DEF Sumados
<1>2. {m \in Sumados' : Tipo[m] = "CATCH" /\ Pokemon[m] = p /\ Posicion[m] = x}
        = {m \in Sumados : Tipo[m] = "CATCH" /\ Pokemon[m] = p /\ Posicion[m] = x}
  BY DEF Sumados
<1>3. Suman(Sumados', p, x) = Suman(Sumados, p, x)
  BY <1>1, <1>2 DEF Suman
<1>4. Contados(p, x) = Suman(Sumados, p, x) /\ Contados(p, x)' = Suman(Sumados', p, x)
  BY ContadosEs
<1> QED
  BY <1>3, <1>4

(* A step that leaves the list, the counts and the blocks of p, and what   *)
(* its writers are about to do, leaves p sound.                            *)
LEMMA SanoSigue ==
  ASSUME NEW p, Sano(p), ListaVigente(p) \in Seq(Numeros),
         ListaVigente(p)' = ListaVigente(p), Cuenta(p)' = Cuenta(p),
         \A b \in ToSet(ListaVigente(p)) : disco'[b] = disco[b],
         \A n \in Mensajes : Pokemon[n] = p =>
           /\ hilos'[n].paso \in ConDatos <=> hilos[n].paso \in ConDatos
           /\ hilos[n].paso \in ConDatos => hilos'[n] = hilos[n]
  PROVE  Sano(p)'
<1> PICK l : l = ListaVigente(p)
  OBVIOUS
<1> PICK c : c = Cuenta(p)
  OBVIOUS
<1>1. l = ListaVigente(p)' /\ c = Cuenta(p)' /\ l \in Seq(Numeros)
  OBVIOUS
<1>2. /\ c \in Datos /\ Nulo \notin ToSet(l)
      /\ (~ \E m \in Dentro(p) : hilos[m].paso \in Rehaciendo) => Entero(l, c)
      /\ (~ \E m \in Dentro(p) : hilos[m].paso \in ConDatos) =>
           TamBloque * (Len(l) - 1) <= Tam(c) /\ Tam(c) < TamBloque * Len(l)
      /\ \A m \in Dentro(p) : hilos[m].paso \in ConDatos => Escribira(m, hilos[m], c)
  BY DEF Sano
<1>3. \A k \in DOMAIN l : disco'[l[k]] = disco[l[k]]
  BY DEF ToSet
<1>4. Entero(l, c) => Entero(l, c)'
  BY <1>3 DEF Entero
<1>5. \A m \in Mensajes : Pokemon[m] = p =>
        /\ m \in Dentro(p) /\ hilos[m].paso \in ConDatos
             <=> m \in Dentro(p)' /\ hilos'[m].paso \in ConDatos
        /\ m \in Dentro(p) /\ hilos[m].paso \in Rehaciendo
             <=> m \in Dentro(p)' /\ hilos'[m].paso \in Rehaciendo
  BY DEF Dentro, ConDatos, ConArchivo, Rehaciendo
<1>6. \A m : m \in Dentro(p) \/ m \in Dentro(p)' => m \in Mensajes /\ Pokemon[m] = p
  BY DEF Dentro
<1>7. /\ c \in Datos /\ Nulo \notin ToSet(l)
      /\ (~ \E m \in Dentro(p)' : hilos'[m].paso \in Rehaciendo) => Entero(l, c)'
      /\ (~ \E m \in Dentro(p)' : hilos'[m].paso \in ConDatos) =>
           TamBloque * (Len(l) - 1) <= Tam(c) /\ Tam(c) < TamBloque * Len(l)
  BY <1>2, <1>4, <1>5, <1>6
<1>8. \A m \in Dentro(p)' : hilos'[m].paso \in ConDatos => Escribira(m, hilos'[m], c)
  BY <1>2, <1>5, <1>6
<1>9. Entero(l, c)' => Entero(ListaVigente(p), Cuenta(p))'
  BY <1>1 DEF Entero
<1> QED
  BY <1>1, <1>7, <1>8, <1>9 DEF Sano

(* The list of a file with a mutex is a list of numbers of blocks. *)
LEMMA ListaTipo ==
  ASSUME TypeOK, NEW p \in conMutex
  PROVE  /\ ListaVigente(p) \in Seq(Numeros)
         /\ archivos[p] \in Archivos /\ p \in Pokemones
<1> DEFINE E == {m \in Mensajes : Pokemon[m] = p /\ hilos[m].paso \in ConListaNueva}
<1>1. archivos[p] \in Archivos /\ p \in Pokemones
  BY DEF TypeOK
<1>2. E # {} => (CHOOSE m \in E : TRUE) \in Mensajes
  OBVIOUS
<1>3. \A m \in Mensajes : hilos[m].lista \in Seq(Numeros)
  BY DEF TypeOK
<1>4. ListaVigente(p) = IF E # {} THEN hilos[CHOOSE m \in E : TRUE].lista ELSE archivos[p].bloques
  BY DEF ListaVigente
<1>5. archivos[p].bloques \in Seq(Numeros)
  BY <1>1 DEF Archivos
<1> HIDE DEF E
<1> QED
  BY <1>1, <1>2, <1>3, <1>4, <1>5

(* What owns the blocks, in terms of lists, hands and bits. *)
LEMMA DueniosSiguen ==
  ASSUME Duenios, conMutex' = conMutex, ocupados' = ocupados, HayBitmap' = HayBitmap,
         \A p \in conMutex : ListaVigente(p)' = ListaVigente(p),
         \A n \in Mensajes :
           /\ hilos'[n].paso \in ConMano <=> hilos[n].paso \in ConMano
           /\ hilos[n].paso \in ConMano => hilos'[n].i = hilos[n].i
  PROVE  Duenios'
<1>1. \A p \in conMutex : DeArchivo(p)' = DeArchivo(p)
  BY DEF DeArchivo
<1>2. EnMano' = EnMano
  BY DEF EnMano, ConMano
<1>3. UNION {DeArchivo(p)' : p \in conMutex} = UNION {DeArchivo(p) : p \in conMutex}
  BY <1>1
<1>4. (HayBitmap => ocupados = EnMano \cup UNION {DeArchivo(p) : p \in conMutex})'
  BY <1>2, <1>3 DEF Duenios
<1>5. \A p \in conMutex : (Len(ListaVigente(p)) >= 1 /\ SinRepetidos(ListaVigente(p)))'
  BY DEF Duenios, SinRepetidos
<1>6. \A p, q \in conMutex : p # q => DeArchivo(p)' \cap DeArchivo(q)' = {}
  BY <1>1 DEF Duenios
<1>7. \A m \in Mensajes : hilos'[m].paso \in ConMano =>
        \A p \in conMutex : hilos'[m].i \notin DeArchivo(p)'
  BY <1>1 DEF Duenios
<1>8. \A m, n \in Mensajes :
        /\ hilos'[m].paso \in ConMano /\ hilos'[n].paso \in ConMano
        /\ hilos'[m].i = hilos'[n].i /\ hilos'[m].i # SinBloque
        => m = n
  BY DEF Duenios
<1> QED
  BY <1>4, <1>5, <1>6, <1>7, <1>8 DEF Duenios

(* The locks, after a step that takes none and releases none. *)
LEMMA CandadosSiguen ==
  ASSUME TypeOK, Candados, NEW m \in Mensajes, NEW x, hilos' = [hilos EXCEPT ![m] = x],
         x.paso \in ConArchivo <=> hilos[m].paso \in ConArchivo,
         x.paso \in Creando => hilos[m].paso \in Creando,
         x.paso = "crear" => HayBitmap,
         conMutex' = conMutex, mCrear' = mCrear, HayBitmap' = HayBitmap,
         \A p \in conMutex : archivos'[p].open = archivos[p].open
  PROVE  Candados'
<1>1. /\ hilos'[m] = x /\ \A n \in Mensajes : n # m => hilos'[n] = hilos[n]
  BY UnHilo
<1>3. \A n \in Mensajes :
        /\ hilos'[n].paso \in ConArchivo <=> hilos[n].paso \in ConArchivo
        /\ hilos'[n].paso \in Creando => hilos[n].paso \in Creando
        /\ hilos'[n].paso = "crear" => hilos[n].paso = "crear" \/ HayBitmap
  BY <1>1
<1>4. /\ \A n \in Mensajes : hilos'[n].paso \in Creando =>
           Tipo[n] = "NEW" /\ mCrear' = n /\ Pokemon[n] \notin conMutex'
      /\ \A n \in Mensajes : hilos'[n].paso \in ConArchivo =>
           Pokemon[n] \in conMutex' /\ archivos'[Pokemon[n]].open
  BY <1>3 DEF Candados
<1>5. /\ \A n, k \in Mensajes :
           /\ hilos'[n].paso \in ConArchivo /\ hilos'[k].paso \in ConArchivo
           /\ Pokemon[n] = Pokemon[k]
           => n = k
      /\ \A p \in conMutex' : archivos'[p].open =>
           \E n \in Mensajes : Pokemon[n] = p /\ hilos'[n].paso \in ConArchivo
      /\ ~HayBitmap' => conMutex' = {} /\ \A n \in Mensajes : hilos'[n].paso # "crear"
  BY <1>3 DEF Candados
<1> QED
  BY <1>4, <1>5 DEF Candados

(* What the other threads know does not depend on the one that moves, but  *)
(* for the list of blocks of its file.                                     *)
LEMMA SabenLosOtros ==
  ASSUME TypeOK, Candados, \A n \in Mensajes : Sabe(n), NEW m \in Mensajes, NEW x,
         hilos' = [hilos EXCEPT ![m] = x],
         \A p \in conMutex : archivos'[p].bloques = archivos[p].bloques \/ (hilos[m].paso \in ConArchivo /\ p = Pokemon[m])
  PROVE  \A n \in Mensajes : n # m => Sabe(n)'
<1> SUFFICES ASSUME NEW n \in Mensajes, n # m PROVE Sabe(n)'
  OBVIOUS
<1>1. hilos'[n] = hilos[n]
  BY UnHilo
<1>2. hilos[n].paso \in AntesDeLaLista => archivos'[Pokemon[n]].bloques = archivos[Pokemon[n]].bloques
  <2> SUFFICES ASSUME hilos[n].paso \in AntesDeLaLista
               PROVE  archivos'[Pokemon[n]].bloques = archivos[Pokemon[n]].bloques
    OBVIOUS
  <2>1. hilos[n].paso \in ConArchivo
    BY DEF AntesDeLaLista, ConArchivo
  <2> QED
    BY <2>1 DEF Candados
<1> QED
  BY <1>1, <1>2 DEF Sabe

-----------------------------------------------------------------------------
(* What each action does to its thread.                                    *)

(* One round of buscarBloqueLibre takes a free bit, goes on, or gives up. *)
LEMMA ProbarHilo ==
  ASSUME TypeOK, NEW m \in Mensajes, NEW sigue \in Pasos, hilos[m].i \in Bloques, ProbarBloque(m, sigue)
  PROVE  \E x \in Hilos :
           /\ hilos' = [hilos EXCEPT ![m] = x]
           /\ x.lista = hilos[m].lista /\ x.datos = hilos[m].datos /\ x.resultado = hilos[m].resultado
           /\ \/ x.paso = sigue /\ x.i = hilos[m].i /\ x.i \notin ocupados /\ ocupados' = ocupados \cup {x.i}
              \/ x.paso = hilos[m].paso /\ x.i \in Bloques /\ ocupados' = ocupados
              \/ x.paso = sigue /\ x.i = SinBloque /\ ocupados' = ocupados
<1> DEFINE i == hilos[m].i
<1>0. hilos[m] \in Hilos
  BY DEF TypeOK, Hilos
<1>1. CASE i \notin ocupados
  <2>1. Ir(m, sigue) /\ ocupados' = ocupados \cup {i}
    BY <1>1 DEF ProbarBloque
  <2>2. PICK x \in Hilos : /\ hilos' = [hilos EXCEPT ![m] = x]
                           /\ x.paso = sigue /\ x.i = hilos[m].i /\ x.lista = hilos[m].lista
                           /\ x.datos = hilos[m].datos /\ x.resultado = hilos[m].resultado
    BY <2>1, IrHilo
  <2> QED
    BY <1>1, <2>1, <2>2
<1>2. CASE i \in ocupados /\ i < CantBloques
  <2> DEFINE x == [hilos[m] EXCEPT !.i = i + 1]
  <2>1. hilos' = [hilos EXCEPT ![m] = x] /\ ocupados' = ocupados
    BY <1>2 DEF ProbarBloque
  <2>2. i + 1 \in Bloques /\ i + 1 \in Numeros
    BY <1>2, GameCardAssumption DEF Bloques, Numeros
  <2>3. /\ x \in Hilos /\ x.paso = hilos[m].paso /\ x.i = i + 1 /\ x.lista = hilos[m].lista
        /\ x.datos = hilos[m].datos /\ x.resultado = hilos[m].resultado
    BY <1>0, <2>2 DEF Hilos
  <2> HIDE DEF x
  <2> QED
    BY <2>1, <2>2, <2>3
<1>3. CASE i \in ocupados /\ ~(i < CantBloques)
  <2> DEFINE x == [[hilos[m] EXCEPT !.i = SinBloque] EXCEPT !.paso = sigue]
  <2>1. hilos' = [hilos EXCEPT ![m] = x] /\ ocupados' = ocupados
    BY <1>3 DEF ProbarBloque
  <2>2. SinBloque \in Numeros
    BY DEF Numeros
  <2>3. /\ x \in Hilos /\ x.paso = sigue /\ x.i = SinBloque /\ x.lista = hilos[m].lista
        /\ x.datos = hilos[m].datos /\ x.resultado = hilos[m].resultado
    BY <1>0, <2>2 DEF Hilos
  <2> HIDE DEF x
  <2> QED
    BY <2>1, <2>3
<1> QED
  BY <1>1, <1>2, <1>3

LEMMA NoHallarHilo ==
  ASSUME TypeOK, NEW m \in Mensajes, NoHallarDirectorio(m)
  PROVE  \E x \in Hilos :
           /\ hilos' = [hilos EXCEPT ![m] = x]
           /\ x.paso = (IF Tipo[m] = "NEW" THEN "primerBloque" ELSE "fin")
           /\ x.i \in Bloques /\ x.resultado = hilos[m].resultado
<1> DEFINE p == IF Tipo[m] = "NEW" THEN "primerBloque" ELSE "fin"
           x == [[hilos[m] EXCEPT !.paso = p] EXCEPT !.i = 1]
<1>0. hilos[m] \in Hilos
  BY DEF TypeOK, Hilos
<1>1. hilos' = [hilos EXCEPT ![m] = x]
  BY DEF NoHallarDirectorio
<1>2. 1 \in Bloques /\ 1 \in Numeros /\ p \in Pasos
  BY GameCardAssumption DEF Bloques, Numeros, Pasos
<1> HIDE DEF p
<1>3. x \in Hilos /\ x.paso = p /\ x.i = 1 /\ x.resultado = hilos[m].resultado
  BY <1>0, <1>2 DEF Hilos
<1> HIDE DEF x
<1> QED
  BY <1>1, <1>2, <1>3 DEF p

LEMMA AgregarHilo ==
  ASSUME TypeOK, NEW m \in Mensajes, AgregarBloque(m)
  PROVE  \E x \in Hilos :
           /\ hilos' = [hilos EXCEPT ![m] = x]
           /\ x.paso = "escribir" /\ x.datos = hilos[m].datos /\ x.resultado = hilos[m].resultado
           /\ x.lista = (IF hilos[m].i = SinBloque THEN hilos[m].lista ELSE Append(hilos[m].lista, hilos[m].i))
<1> DEFINE l == IF hilos[m].i = SinBloque THEN hilos[m].lista ELSE Append(hilos[m].lista, hilos[m].i)
           x == [[hilos[m] EXCEPT !.paso = "escribir"] EXCEPT !.lista = l]
<1>0. hilos[m] \in Hilos
  BY DEF TypeOK, Hilos
<1>1. hilos' = [hilos EXCEPT ![m] = x]
  BY DEF AgregarBloque
<1>2. l \in Seq(Numeros)
  BY <1>0, AppendProperties DEF Hilos
<1> HIDE DEF l
<1>3. "escribir" \in Pasos
  BY DEF Pasos
<1>4. x \in Hilos /\ x.paso = "escribir" /\ x.datos = hilos[m].datos /\ x.resultado = hilos[m].resultado /\ x.lista = l
  BY <1>0, <1>2, <1>3 DEF Hilos
<1> HIDE DEF x
<1> QED
  BY <1>1, <1>4 DEF l

(* Front drops the last entry of a list. *)
LEMMA FrontTipo ==
  ASSUME NEW S, NEW s \in Seq(S), Len(s) >= 1
  PROVE  /\ Front(s) \in Seq(S) /\ Len(Front(s)) = Len(s) - 1
         /\ \A k \in 1..(Len(s) - 1) : Front(s)[k] = s[k]
         /\ Last(s) = s[Len(s)] /\ Last(s) \in S
<1> DEFINE n == Len(s)
<1>1. n \in Nat /\ DOMAIN s = 1..n /\ \A k \in 1..n : s[k] \in S
  BY LenProperties, ElementOfSeq
<1>2. /\ SubSeq(s, 1, n - 1) \in Seq(S)
      /\ Len(SubSeq(s, 1, n - 1)) = IF 1 <= n - 1 THEN (n - 1) - 1 + 1 ELSE 0
      /\ \A k \in 1..((n - 1) - 1 + 1) : SubSeq(s, 1, n - 1)[k] = s[1 + k - 1]
  BY <1>1, SubSeqProperties
<1>3. (n - 1) - 1 + 1 = n - 1 /\ \A k \in 1..(n - 1) : 1 + k - 1 = k
  BY <1>1
<1>4. Front(s) = SubSeq(s, 1, n - 1)
  BY DEF Front
<1>5. Last(s) = s[n] /\ Last(s) \in S
  BY <1>1 DEF Last
<1> HIDE DEF n
<1>6. Len(Front(s)) = n - 1
  BY <1>1, <1>2, <1>4 DEF n
<1>7. \A k \in 1..(n - 1) : Front(s)[k] = s[k]
  BY <1>2, <1>3, <1>4
<1> QED
  BY <1>2, <1>4, <1>5, <1>6, <1>7 DEF n

LEMMA LiberarHilo ==
  ASSUME TypeOK, NEW m \in Mensajes, Len(hilos[m].lista) >= 1, LiberarBloque(m)
  PROVE  \E x \in Hilos :
           /\ hilos' = [hilos EXCEPT ![m] = x]
           /\ x.paso = "vaciar" /\ x.datos = hilos[m].datos /\ x.resultado = hilos[m].resultado
           /\ x.i = Last(hilos[m].lista)
           /\ x.lista = (IF Tipo[m] = "CATCH" THEN Front(hilos[m].lista) ELSE Append(Front(hilos[m].lista), Nulo))
<1> DEFINE l == hilos[m].lista
           i == Last(l)
           r == IF Tipo[m] = "CATCH" THEN Front(l) ELSE Append(Front(l), Nulo)
           x == [[[hilos[m] EXCEPT !.paso = "vaciar"] EXCEPT !.i = i] EXCEPT !.lista = r]
<1>0. hilos[m] \in Hilos /\ l \in Seq(Numeros)
  BY DEF TypeOK, Hilos
<1>1. hilos' = [hilos EXCEPT ![m] = x]
  BY DEF LiberarBloque
<1>2. Front(l) \in Seq(Numeros) /\ i \in Numeros /\ Nulo \in Numeros
  BY <1>0, FrontTipo DEF Numeros
<1>3. r \in Seq(Numeros)
  BY <1>2, AppendProperties
<1> HIDE DEF i, r
<1>4. "vaciar" \in Pasos
  BY DEF Pasos
<1>5. x \in Hilos /\ x.paso = "vaciar" /\ x.datos = hilos[m].datos /\ x.resultado = hilos[m].resultado /\ x.i = i /\ x.lista = r
  BY <1>0, <1>2, <1>3, <1>4 DEF Hilos
<1> HIDE DEF x
<1> QED
  BY <1>1, <1>5 DEF i, r

(* What the blocks say is lines. *)
LEMMA LeidosTipo ==
  ASSUME TypeOK, NEW lista \in Seq(Numeros)
  PROVE  Leidos(lista) \subseteq Datos
<1> DEFINE escritos == {disco[b].datos : b \in {c \in ToSet(lista) : disco[c] # Nadie}} \cup {SinDatos}
           enteros == {f \in escritos : Entero(lista, f)}
<1>1. ToSet(lista) \subseteq Numeros
  BY ElementOfSeq, LenProperties DEF ToSet
<1>2. escritos \subseteq Datos
  BY <1>1 DEF TypeOK, Partes, SinDatos, Datos
<1>3. ASSUME NEW f \in escritos, NEW s \in SUBSET Posiciones
      PROVE  [x \in Posiciones |-> IF x \in s THEN f[x] ELSE 0] \in Datos
  <2>1. f \in Datos
    BY <1>2
  <2> QED
    BY <2>1 DEF Datos
<1>4. Leidos(lista) = IF enteros # {} THEN enteros
                      ELSE UNION {{[x \in Posiciones |-> IF x \in s THEN f[x] ELSE 0] : s \in SUBSET Posiciones}
                                  : f \in escritos}
  BY DEF Leidos
<1>5. enteros \subseteq Datos
  BY <1>2
<1> DEFINE rotos == UNION {{[x \in Posiciones |-> IF x \in s THEN f[x] ELSE 0] : s \in SUBSET Posiciones}
                           : f \in escritos}
<1>6. rotos \subseteq Datos
  <2> HIDE DEF escritos
  <2> SUFFICES ASSUME NEW g \in rotos PROVE g \in Datos
    OBVIOUS
  <2>1. PICK f \in escritos : g \in {[x \in Posiciones |-> IF x \in s THEN f[x] ELSE 0] : s \in SUBSET Posiciones}
    OBVIOUS
  <2>2. PICK s \in SUBSET Posiciones : g = [x \in Posiciones |-> IF x \in s THEN f[x] ELSE 0]
    BY <2>1
  <2> QED
    BY <1>3, <2>2
<1>7. Leidos(lista) = enteros \/ Leidos(lista) = rotos
  BY <1>4
<1> QED
  BY <1>5, <1>6, <1>7

LEMMA LeerHilo ==
  ASSUME TypeOK, NEW m \in Mensajes, Pokemon[m] \in conMutex, Leer(m)
  PROVE  \E datos \in Leidos(archivos[Pokemon[m]].bloques) : \E x \in Hilos :
           /\ datos \in Datos /\ hilos' = [hilos EXCEPT ![m] = x]
           /\ Tipo[m] = "GET" => x.paso = "cerrar"
           /\ Tipo[m] # "GET" =>
                /\ x.i \in Bloques /\ x.lista = archivos[Pokemon[m]].bloques
                /\ x.datos = Cambio(m, datos)
                /\ x.paso = Decidir(Tam(x.datos), Len(x.lista))
                /\ x.resultado <=> Tipo[m] = "CATCH" /\ datos[Posicion[m]] > 0
<1> DEFINE l == archivos[Pokemon[m]].bloques
           X(datos) == IF Tipo[m] = "GET" THEN [Hilo0 EXCEPT !.paso = "cerrar"]
                       ELSE [paso |-> Decidir(Tam(Cambio(m, datos)), Len(l)), i |-> 1, lista |-> l,
                             datos |-> Cambio(m, datos), resultado |-> Tipo[m] = "CATCH" /\ datos[Posicion[m]] > 0]
<1>1. PICK datos \in Leidos(l) : hilos' = [hilos EXCEPT ![m] = X(datos)]
  BY DEF Leer, Cambio
<1>2. l \in Seq(Numeros)
  BY DEF TypeOK, Archivos
<1>3. datos \in Datos /\ Cambio(m, datos) \in Datos
  BY <1>1, <1>2, LeidosTipo, CambioTipo
<1>4. CASE Tipo[m] = "GET"
  <2> DEFINE x == [Hilo0 EXCEPT !.paso = "cerrar"]
  <2>1. SinDatos \in Datos /\ <<>> \in Seq(Numeros) /\ 0 \in Numeros
    BY DEF SinDatos, Datos, Numeros, Nulo
  <2>2. Hilo0 \in Hilos /\ "cerrar" \in Pasos
    BY <2>1 DEF Hilo0, Hilos, Pasos
  <2>3. x \in Hilos /\ x.paso = "cerrar"
    BY <2>2 DEF Hilos
  <2>4. hilos' = [hilos EXCEPT ![m] = x]
    BY <1>1, <1>4
  <2> HIDE DEF x
  <2> QED
    BY <1>3, <1>4, <2>3, <2>4
<1>5. CASE Tipo[m] # "GET"
  <2> DEFINE e == Cambio(m, datos)
             d == Decidir(Tam(e), Len(l))
             b == Tipo[m] = "CATCH" /\ datos[Posicion[m]] > 0
             x == [paso |-> d, i |-> 1, lista |-> l, datos |-> e, resultado |-> b]
  <2>1. d \in Pasos /\ 1 \in Numeros /\ 1 \in Bloques /\ b \in BOOLEAN
    BY GameCardAssumption DEF Decidir, Pasos, Numeros, Bloques
  <2>2. hilos' = [hilos EXCEPT ![m] = x]
    BY <1>1, <1>5
  <2> HIDE DEF e, d, b, l
  <2>3. x \in Hilos /\ x.paso = d /\ x.i = 1 /\ x.lista = l /\ x.datos = e /\ x.resultado = b
    BY <1>2, <1>3, <2>1 DEF Hilos, e
  <2> HIDE DEF x
  <2>4. x.paso = Decidir(Tam(x.datos), Len(x.lista))
    BY <2>3 DEF d
  <2>5. x.resultado <=> Tipo[m] = "CATCH" /\ datos[Posicion[m]] > 0
    BY <2>3 DEF b
  <2> QED
    BY <1>1, <1>3, <1>5, <2>1, <2>2, <2>3, <2>4, <2>5 DEF l, e
<1> QED
  BY <1>4, <1>5

-----------------------------------------------------------------------------
(* Types.                                                                  *)

LEMMA MensajeTipo ==
  ASSUME NEW m \in Mensajes
  PROVE  Pokemon[m] \in Pokemones /\ Tipo[m] \in {"NEW", "CATCH", "GET"} /\ Posicion[m] \in Posiciones
  BY GameCardAssumption

(* A thread that moves keeps the types; what it does to the rest is given. *)
LEMMA TipoDelPaso ==
  ASSUME TypeOK, NEW m \in Mensajes, NEW x \in Hilos, hilos' = [hilos EXCEPT ![m] = x],
         archivos' = archivos \/ (\E a \in Archivos : archivos' = [archivos EXCEPT ![Pokemon[m]] = a]),
         disco' \in [Numeros -> Partes \cup {Nadie}],
         ocupados' \subseteq Bloques,
         conMutex' = conMutex \/ (conMutex' = conMutex \cup {Pokemon[m]} /\ archivos'[Pokemon[m]] # Nadie),
         mCrear' \in Mensajes \cup {Nadie},
         UNCHANGED <<puesta, carpetas>>, existen' \subseteq Bloques \cup {Nulo},
         caido' \in BOOLEAN, reinicios' = reinicios,
         pisados' \subseteq Pokemones
  PROVE  TypeOK'
<1>1. Pokemon[m] \in Pokemones
  BY MensajeTipo
<1>2. hilos' \in [Mensajes -> Hilos]
  BY UnHilo
<1>3. /\ archivos' \in [Pokemones -> Archivos \cup {Nadie}]
      /\ \A p \in Pokemones : archivos[p] # Nadie => archivos'[p] # Nadie
  <2>1. CASE archivos' = archivos
    BY <2>1 DEF TypeOK
  <2>2. CASE \E a \in Archivos : archivos' = [archivos EXCEPT ![Pokemon[m]] = a]
    <3>1. PICK a \in Archivos : archivos' = [archivos EXCEPT ![Pokemon[m]] = a]
      BY <2>2
    <3>2. a # Nadie
      BY NadieAssumption
    <3>3. archivos \in [Pokemones -> Archivos \cup {Nadie}]
      BY DEF TypeOK
    <3> QED
      BY <1>1, <3>1, <3>2, <3>3
  <2> QED
    BY <2>1, <2>2
<1>4. conMutex' \subseteq {p \in Pokemones : archivos'[p] # Nadie}
  BY <1>1, <1>3 DEF TypeOK
<1> QED
  BY <1>2, <1>3, <1>4 DEF TypeOK, Hilos

LEMMA TipoPreparar ==
  ASSUME TypeOK, PrepararBitmap \/ PrepararFiles \/ PrepararPokemon \/ PrepararBloque
  PROVE  TypeOK'
<1>0. CantBloques \in Nat \ {0}
  BY GameCardAssumption
<1>1. CASE PrepararBitmap
  BY <1>0, <1>1 DEF PrepararBitmap, TypeOK, ConBitmap, ConCarpetas
<1>2. CASE PrepararFiles
  BY <1>0, <1>2 DEF PrepararFiles, TypeOK, ConFiles, ConCarpetas
<1>3. CASE PrepararPokemon
  BY <1>0, <1>3 DEF PrepararPokemon, TypeOK, ConCarpetas
<1>4. CASE PrepararBloque
  <2> DEFINE b == puesta - ConCarpetas + 1
  <2>1. b \in Bloques /\ b \in Numeros /\ puesta + 1 \in 0..(ConCarpetas + CantBloques)
    BY <1>0, <1>4 DEF PrepararBloque, TypeOK, ConCarpetas, Bloques, Numeros
  <2>2. /\ puesta' = puesta + 1 /\ disco' = [disco EXCEPT ![b] = Nadie] /\ existen' = existen \cup {b}
        /\ pisados' = pisados \cup PisadosPor(b)
        /\ UNCHANGED <<archivos, ocupados, conMutex, mCrear, hilos, carpetas, caido, reinicios>>
    BY <1>4 DEF PrepararBloque
  <2> HIDE DEF b
  <2>3. pisados' \subseteq Pokemones
    BY <2>2 DEF PisadosPor, TypeOK
  <2>4. disco' \in [Numeros -> Partes \cup {Nadie}]
    BY <2>2 DEF TypeOK
  <2> QED
    BY <2>1, <2>2, <2>3, <2>4 DEF TypeOK
<1> QED
  BY <1>1, <1>2, <1>3, <1>4

LEMMA TipoReiniciar ==
  ASSUME TypeOK, Reiniciar
  PROVE  /\ TypeOK'
         /\ \A m \in Mensajes : hilos'[m].paso \in {"porLlegar", "perdido"} /\ (hilos'[m].paso = "porLlegar" => hilos'[m] = hilos[m])
<1> DEFINE perdido == [Hilo0 EXCEPT !.paso = "perdido"]
<1>1. hilos \in [Mensajes -> Hilos]
  BY DEF TypeOK, Hilos
<1>2. perdido \in Hilos /\ perdido.paso = "perdido"
  <2>1. SinDatos \in Datos /\ <<>> \in Seq(Numeros) /\ 0 \in Numeros
    BY DEF SinDatos, Datos, Numeros, Nulo
  <2>2. Hilo0 \in Hilos /\ "perdido" \in Pasos
    BY <2>1 DEF Hilo0, Hilos, Pasos
  <2> QED
    BY <2>2 DEF Hilos
<1>3. hilos' = [m \in Mensajes |-> IF hilos[m].paso = "porLlegar" THEN hilos[m] ELSE perdido]
  BY DEF Reiniciar
<1> HIDE DEF perdido
<1>4. hilos' \in [Mensajes -> Hilos]
  BY <1>1, <1>2, <1>3
<1>5. \A m \in Mensajes : hilos'[m].paso \in {"porLlegar", "perdido"} /\ (hilos'[m].paso = "porLlegar" => hilos'[m] = hilos[m])
  BY <1>2, <1>3
<1>6. /\ UNCHANGED <<archivos, disco, ocupados, carpetas, existen, pisados>> /\ conMutex' = {} /\ mCrear' = Nadie
      /\ puesta' \in 0..(ConCarpetas + CantBloques) /\ caido' = FALSE /\ reinicios' \in 0..MaxReinicios
  BY GameCardAssumption DEF Reiniciar, TypeOK, ConCarpetas
<1>7. TypeOK'
  BY <1>4, <1>6 DEF TypeOK, Hilos
<1> QED
  BY <1>5, <1>7

LEMMA TipoDeAtender ==
  ASSUME TypeOK, Candados, NEW m \in Mensajes, Sabe(m), Recibir(m) \/ Atender(m)
  PROVE  TypeOK'
<1>0. /\ Pokemon[m] \in Pokemones
      /\ archivos \in [Pokemones -> Archivos \cup {Nadie}]
      /\ disco \in [Numeros -> Partes \cup {Nadie}] /\ ocupados \subseteq Bloques
      /\ mCrear \in Mensajes \cup {Nadie} /\ existen \subseteq Bloques \cup {Nulo} /\ caido \in BOOLEAN /\ pisados \subseteq Pokemones
      /\ hilos \in [Mensajes -> Hilos] /\ hilos[m] \in Hilos
      /\ conMutex \subseteq Pokemones
  BY MensajeTipo DEF TypeOK, Hilos
<1>1. CASE Recibir(m)
  <2>1. PICK x \in Hilos : hilos' = [hilos EXCEPT ![m] = x]
    BY <1>1, IrHilo DEF Recibir, Pasos
  <2> QED
    BY <1>0, <1>1, <2>1, TipoDelPaso DEF Recibir
<1>2. CASE HallarDirectorio(m)
  <2>1. PICK x \in Hilos : hilos' = [hilos EXCEPT ![m] = x]
    BY <1>2, IrHilo DEF HallarDirectorio, Pasos
  <2> QED
    BY <1>0, <1>2, <2>1, TipoDelPaso DEF HallarDirectorio
<1>3. CASE NoHallarDirectorio(m)
  <2>1. PICK x \in Hilos : hilos' = [hilos EXCEPT ![m] = x]
    BY <1>3, NoHallarHilo
  <2>2. Vacio \in Archivos
    BY DEF Vacio, Archivos
  <2>3. archivos' = archivos \/ archivos' = [archivos EXCEPT ![Pokemon[m]] = Vacio]
    BY <1>3 DEF NoHallarDirectorio
  <2>4. /\ UNCHANGED <<disco, ocupados, conMutex, puesta, carpetas, existen, caido, reinicios, pisados>>
        /\ mCrear' \in Mensajes \cup {Nadie}
    BY <1>3 DEF NoHallarDirectorio
  <2> QED
    BY <1>0, <2>1, <2>2, <2>3, <2>4, TipoDelPaso
<1>4. CASE BuscarPrimero(m) \/ BuscarOtro(m)
  <2>1. CASE BuscarPrimero(m) /\ ~HayBitmap
    BY <1>0, <2>1 DEF BuscarPrimero, TypeOK
  <2>2. CASE (BuscarPrimero(m) /\ HayBitmap) \/ BuscarOtro(m)
    <3>1. hilos[m].i \in Bloques
      BY <2>2 DEF Sabe, BuscarPrimero, BuscarOtro, En
    <3>2. ProbarBloque(m, "crear") \/ ProbarBloque(m, "agregar")
      BY <2>2 DEF BuscarPrimero, BuscarOtro
    <3>3. "crear" \in Pasos /\ "agregar" \in Pasos
      BY DEF Pasos
    <3>4. \E x \in Hilos : hilos' = [hilos EXCEPT ![m] = x] /\ (ocupados' = ocupados \/ ocupados' = ocupados \cup {hilos[m].i})
      BY <3>1, <3>2, <3>3, ProbarHilo
    <3>5. UNCHANGED <<archivos, disco, conMutex, mCrear, puesta, carpetas, existen, reinicios, pisados, caido>>
      BY <2>2 DEF BuscarPrimero, BuscarOtro
    <3> QED
      BY <1>0, <3>1, <3>4, <3>5, TipoDelPaso
  <2> QED
    BY <1>4, <2>1, <2>2
<1>5. CASE CrearArchivo(m)
  <2>1. PICK x \in Hilos : hilos' = [hilos EXCEPT ![m] = x]
    BY <1>5, SoltarHilo DEF CrearArchivo, Pasos
  <2> DEFINE a == [bloques |-> <<hilos[m].i>>, size |-> 0, open |-> FALSE]
  <2>2. a \in Archivos
    BY <1>0 DEF Archivos, Hilos
  <2>3. archivos' = [archivos EXCEPT ![Pokemon[m]] = a]
    BY <1>5 DEF CrearArchivo
  <2> HIDE DEF a
  <2>5. archivos'[Pokemon[m]] # Nadie
    BY <1>0, <2>2, <2>3, NadieAssumption
  <2>6. /\ UNCHANGED <<disco, ocupados, puesta, carpetas, existen, caido, reinicios>> /\ mCrear' = Nadie
        /\ conMutex' = conMutex \cup {Pokemon[m]} /\ pisados' \subseteq pisados \cup {Pokemon[m]}
    BY <1>5 DEF CrearArchivo
  <2> QED
    BY <1>0, <2>1, <2>2, <2>3, <2>5, <2>6, TipoDelPaso
<1>6. CASE Acceder(m) \/ Cerrar(m)
  <2>1. PICK x \in Hilos : hilos' = [hilos EXCEPT ![m] = x]
    BY <1>6, IrHilo DEF Acceder, Cerrar, Pasos
  <2>2. Pokemon[m] \in conMutex
    BY <1>6 DEF Acceder, Cerrar, En, Candados, ConArchivo
  <2>3. archivos[Pokemon[m]] \in Archivos
    BY <2>2, ListaTipo
  <2>4. PICK b \in BOOLEAN : archivos' = [archivos EXCEPT ![Pokemon[m]] = [archivos[Pokemon[m]] EXCEPT !.open = b]]
    BY <1>6 DEF Acceder, Cerrar
  <2>5. [archivos[Pokemon[m]] EXCEPT !.open = b] \in Archivos
    BY <2>3 DEF Archivos
  <2>6. UNCHANGED <<disco, ocupados, conMutex, mCrear, puesta, carpetas, existen, caido, reinicios, pisados>>
    BY <1>6 DEF Acceder, Cerrar
  <2> QED
    BY <1>0, <2>1, <2>4, <2>5, <2>6, TipoDelPaso
<1>7. CASE CrearSinCarpetas(m) \/ AccederSinMutex(m) \/ LeerSinBloque(m) \/ TamanioExacto(m)
  BY <1>7 DEF CrearSinCarpetas, AccederSinMutex, LeerSinBloque, TamanioExacto, TypeOK
<1>8. CASE Leer(m)
  <2>1. Pokemon[m] \in conMutex
    BY <1>8 DEF Leer, En, HayBitmap, Candados, ConArchivo
  <2>2. PICK x \in Hilos : hilos' = [hilos EXCEPT ![m] = x]
    BY <1>8, <2>1, LeerHilo
  <2> QED
    BY <1>0, <1>8, <2>2, TipoDelPaso DEF Leer
<1>9. CASE AgregarBloque(m)
  <2>1. PICK x \in Hilos : hilos' = [hilos EXCEPT ![m] = x]
    BY <1>9, AgregarHilo
  <2> QED
    BY <1>0, <1>9, <2>1, TipoDelPaso DEF AgregarBloque
<1>10. CASE LiberarBloque(m)
  <2>1. Len(hilos[m].lista) >= 1
    BY <1>10 DEF LiberarBloque, En, HayBitmap, Sabe, ConDatos
  <2>2. PICK x \in Hilos : hilos' = [hilos EXCEPT ![m] = x]
    BY <1>10, <2>1, LiberarHilo
  <2>3. ocupados' \subseteq Bloques
    BY <1>0, <1>10 DEF LiberarBloque, LimpiarBit
  <2> QED
    BY <1>0, <1>10, <2>2, <2>3, TipoDelPaso DEF LiberarBloque
<1>11. CASE VaciarBloque(m)
  <2>1. PICK x \in Hilos : hilos' = [hilos EXCEPT ![m] = x]
    BY <1>11, IrHilo DEF VaciarBloque, Pasos
  <2>2. disco' \in [Numeros -> Partes \cup {Nadie}]
    BY <1>0, <1>11 DEF VaciarBloque
  <2>3. pisados' \subseteq Pokemones
    BY <1>0, <1>11 DEF VaciarBloque, PisadosPor
  <2> QED
    BY <1>0, <1>11, <2>1, <2>2, <2>3, TipoDelPaso DEF VaciarBloque
<1>12. CASE Reescribir(m)
  <2>1. PICK x \in Hilos : hilos' = [hilos EXCEPT ![m] = x]
    BY <1>12, IrHilo DEF Reescribir, Pasos
  <2> DEFINE h == hilos[m]
             kDe(b) == CHOOSE k \in DOMAIN h.lista : h.lista[k] = b
  <2>2. h.lista \in Seq(Numeros) /\ h.datos \in Datos /\ DOMAIN disco = Numeros
    BY <1>0 DEF Hilos
  <2>3. ASSUME NEW b \in ToSet(h.lista) PROVE [datos |-> h.datos, parte |-> kDe(b)] \in Partes
    <3>1. kDe(b) \in DOMAIN h.lista
      BY DEF ToSet
    <3>2. DOMAIN h.lista \subseteq Nat
      BY <2>2
    <3> HIDE DEF kDe, h
    <3> QED
      BY <2>2, <3>1, <3>2 DEF Partes
  <2>4. disco' = [b \in Numeros |-> IF b \notin ToSet(h.lista) THEN disco[b]
                                   ELSE IF Tam(h.datos) > TamBloque * (kDe(b) - 1)
                                        THEN [datos |-> h.datos, parte |-> kDe(b)] ELSE Nadie]
    BY <1>12, <2>2 DEF Reescribir
  <2> HIDE DEF kDe, h
  <2>5. disco' \in [Numeros -> Partes \cup {Nadie}]
    BY <1>0, <2>3, <2>4
  <2>6. pisados' \subseteq Pokemones
    BY <1>0, <1>12 DEF Reescribir
  <2>7. existen' \subseteq Bloques \cup {Nulo}
    <3>1. SinBloque \notin ToSet(h.lista)
      BY <1>12 DEF Reescribir, En, HayBitmap, Sabe, ConDatos, h
    <3>2. ToSet(h.lista) \subseteq Numeros
      BY <2>2, ElementOfSeq, LenProperties DEF ToSet
    <3>3. existen' = existen \cup ToSet(h.lista)
      BY <1>12 DEF Reescribir, h
    <3> QED
      BY <1>0, <3>1, <3>2, <3>3 DEF Numeros
  <2> QED
    BY <1>0, <1>12, <2>1, <2>5, <2>6, <2>7, TipoDelPaso DEF Reescribir
<1>13. CASE Guardar(m)
  <2>1. PICK x \in Hilos : hilos' = [hilos EXCEPT ![m] = x]
    BY <1>13, SoltarHilo DEF Guardar, Pasos
  <2>2. Metadata(m) \in Archivos
    BY <1>0, TamTipo DEF Metadata, Archivos, Hilos
  <2>3. archivos' = [archivos EXCEPT ![Pokemon[m]] = Metadata(m)]
    BY <1>13 DEF Guardar
  <2> QED
    BY <1>0, <1>13, <2>1, <2>2, <2>3, TipoDelPaso DEF Guardar
<1> QED
  BY <1>1, <1>2, <1>3, <1>4, <1>5, <1>6, <1>7, <1>8, <1>9, <1>10, <1>11, <1>12, <1>13 DEF Atender

-----------------------------------------------------------------------------
(* The steps that touch no list, no hand and no count.                     *)

LEMMA LlanoPreserva ==
  ASSUME IInv, NEW m \in Mensajes, NEW x \in Hilos, hilos' = [hilos EXCEPT ![m] = x],
         TypeOK', Candados', Sabe(m)', Suma(m)' <=> Suma(m),
         UNCHANGED <<disco, ocupados, conMutex, HayBitmap, pisados>>,
         \A p \in conMutex : archivos'[p].bloques = archivos[p].bloques,
         x.paso \notin ConListaNueva \cup ConMano \cup ConDatos,
         hilos[m].paso \notin ConListaNueva \cup ConMano \cup ConDatos
  PROVE  IInv'
<1>1. TypeOK /\ Candados /\ (\A n \in Mensajes : Sabe(n)) /\ Duenios /\ Sumas /\ \A p \in conMutex \ pisados : Sano(p)
  BY DEF IInv
<1>2. hilos'[m] = x /\ \A n \in Mensajes : n # m => hilos'[n] = hilos[n]
  BY <1>1, UnHilo
<1>3. ASSUME NEW p \in conMutex PROVE ListaVigente(p)' = ListaVigente(p)
  <2>1. \A n \in Mensajes : Pokemon[n] = p =>
          /\ hilos'[n].paso \in ConListaNueva <=> hilos[n].paso \in ConListaNueva
          /\ hilos[n].paso \in ConListaNueva => hilos'[n].lista = hilos[n].lista
    BY <1>2
  <2> QED
    BY <2>1, ListaSigue
<1>4. \A n \in Mensajes : Sabe(n)'
  BY <1>1, SabenLosOtros
<1>5. Duenios'
  <2>1. \A n \in Mensajes :
           /\ hilos'[n].paso \in ConMano <=> hilos[n].paso \in ConMano
           /\ hilos[n].paso \in ConMano => hilos'[n].i = hilos[n].i
    BY <1>2
  <2>2. \A p \in conMutex : ListaVigente(p)' = ListaVigente(p)
    BY <1>3
  <2> QED
    BY <1>1, <2>1, <2>2, DueniosSiguen
<1>6. \A n \in Mensajes : Suma(n)' <=> Suma(n)
  BY <1>2 DEF Suma, Escrito
<1>7. Sumas'
  BY <1>1, <1>6 DEF Sumas
<1>8. ASSUME NEW p \in conMutex \ pisados PROVE Sano(p)'
  <2>1. Cuenta(p)' = Cuenta(p)
    BY <1>6, CuentaSigue
  <2>2. ListaVigente(p)' = ListaVigente(p) /\ ListaVigente(p) \in Seq(Numeros) /\ Sano(p)
    BY <1>1, <1>3, ListaTipo
  <2>3. \A n \in Mensajes : Pokemon[n] = p =>
           /\ hilos'[n].paso \in ConDatos <=> hilos[n].paso \in ConDatos
           /\ hilos[n].paso \in ConDatos => hilos'[n] = hilos[n]
    BY <1>2
  <2>4. \A b \in ToSet(ListaVigente(p)) : disco'[b] = disco[b]
    OBVIOUS
  <2> QED
    BY <2>1, <2>2, <2>3, <2>4, SanoSigue
<1> QED
  BY <1>4, <1>5, <1>7, <1>8 DEF IInv

(* The death of the process changes nothing else. *)
LEMMA CaePreserva ==
  ASSUME IInv, TypeOK',
         UNCHANGED <<archivos, disco, ocupados, conMutex, mCrear, hilos, HayBitmap, pisados>>
  PROVE  IInv'
<1>1. TypeOK /\ Candados /\ (\A n \in Mensajes : Sabe(n)) /\ Duenios /\ Sumas /\ \A p \in conMutex \ pisados : Sano(p)
  BY DEF IInv
<1>2. \A p : ListaVigente(p)' = ListaVigente(p) /\ Cuenta(p)' = Cuenta(p)
  <2> SUFFICES ASSUME NEW p PROVE ListaVigente(p)' = ListaVigente(p) /\ Cuenta(p)' = Cuenta(p)
    OBVIOUS
  <2>1. \A n \in Mensajes : Suma(n)' <=> Suma(n)
    BY DEF Suma, Escrito
  <2> QED
    BY <2>1, ListaSigue, CuentaSigue
<1>3. Candados'
  BY <1>1 DEF Candados
<1>4. \A n \in Mensajes : Sabe(n)'
  BY <1>1 DEF Sabe
<1>5. Duenios'
  BY <1>1, <1>2, DueniosSiguen
<1>6. Sumas'
  BY <1>1 DEF Sumas, Suma, Escrito
<1>7. ASSUME NEW p \in conMutex \ pisados PROVE Sano(p)'
  <2>1. ListaVigente(p) \in Seq(Numeros) /\ Sano(p)
    BY <1>1, ListaTipo
  <2> QED
    BY <1>2, <2>1, SanoSigue
<1> QED
  BY <1>3, <1>4, <1>5, <1>6, <1>7 DEF IInv

-----------------------------------------------------------------------------
(* The thread that has a file open.                                        *)

(* It is the only one, and the list of the file is its own once it has one.*)
LEMMA Adentro ==
  ASSUME Candados, NEW m \in Mensajes, hilos[m].paso \in ConArchivo
  PROVE  /\ Pokemon[m] \in conMutex /\ Dentro(Pokemon[m]) = {m}
         /\ hilos[m].paso \in ConListaNueva => ListaVigente(Pokemon[m]) = hilos[m].lista
         /\ hilos[m].paso \notin ConListaNueva => ListaVigente(Pokemon[m]) = archivos[Pokemon[m]].bloques
<1> DEFINE p == Pokemon[m]
<1>1. \A n \in Mensajes : Pokemon[n] = p /\ hilos[n].paso \in ConArchivo => n = m
  BY DEF Candados
<1>2. \A n \in Mensajes : hilos[n].paso \in ConListaNueva => hilos[n].paso \in ConArchivo
  BY DEF ConListaNueva, ConArchivo
<1>3. Dentro(p) = {m}
  BY <1>1 DEF Dentro
<1>4. hilos[m].paso \in ConListaNueva => ListaDe(hilos, archivos, p) = hilos[m].lista
  BY <1>1, <1>2, ListaDelEscritor
<1>5. hilos[m].paso \notin ConListaNueva => ListaDe(hilos, archivos, p) = archivos[p].bloques
  BY <1>1, <1>2, ListaSinEscritor
<1>6. p \in conMutex
  BY DEF Candados
<1> QED
  BY <1>3, <1>4, <1>5, <1>6, ListaVigenteEs

LEMMA AdentroDespues ==
  ASSUME Candados', NEW m \in Mensajes, hilos'[m].paso \in ConArchivo
  PROVE  /\ Dentro(Pokemon[m])' = {m}
         /\ hilos'[m].paso \in ConListaNueva => ListaVigente(Pokemon[m])' = hilos'[m].lista
         /\ hilos'[m].paso \notin ConListaNueva => ListaVigente(Pokemon[m])' = archivos'[Pokemon[m]].bloques
<1> DEFINE p == Pokemon[m]
<1>1. \A n \in Mensajes : Pokemon[n] = p /\ hilos'[n].paso \in ConArchivo => n = m
  BY DEF Candados
<1>2. \A n \in Mensajes : hilos'[n].paso \in ConListaNueva => hilos'[n].paso \in ConArchivo
  BY DEF ConListaNueva, ConArchivo
<1>3. Dentro(p)' = {m}
  BY <1>1 DEF Dentro
<1>4. hilos'[m].paso \in ConListaNueva => ListaDe(hilos', archivos', p) = hilos'[m].lista
  BY <1>1, <1>2, ListaDelEscritor
<1>5. hilos'[m].paso \notin ConListaNueva => ListaDe(hilos', archivos', p) = archivos'[p].bloques
  BY <1>1, <1>2, ListaSinEscritor
<1> QED
  BY <1>3, <1>4, <1>5, ListaVigenteEs

EnteroEn(dis, lista, datos) ==
  /\ Tam(datos) <= TamBloque * Len(lista)
  /\ \A k \in DOMAIN lista :
       dis[lista[k]] = IF Tam(datos) > TamBloque * (k - 1)
                          THEN [datos |-> datos, parte |-> k] ELSE Nadie

(* Sano for the file that the thread h of m has open. *)
SanoCon(m, h, lista, c, dis) ==
  /\ c \in Datos
  /\ Nulo \notin ToSet(lista)
  /\ h.paso \notin Rehaciendo => EnteroEn(dis, lista, c)
  /\ h.paso \notin ConDatos =>
       TamBloque * (Len(lista) - 1) <= Tam(c) /\ Tam(c) < TamBloque * Len(lista)
  /\ h.paso \in ConDatos => Escribira(m, h, c)

LEMMA SanoDeUno ==
  ASSUME NEW p, NEW m, Dentro(p) = {m}
  PROVE  Sano(p) <=> SanoCon(m, hilos[m], ListaVigente(p), Cuenta(p), disco)
<1>1. Entero(ListaVigente(p), Cuenta(p)) <=> EnteroEn(disco, ListaVigente(p), Cuenta(p))
  BY DEF Entero, EnteroEn
<1> QED
  BY <1>1 DEF Sano, SanoCon

LEMMA SanoDeUnoDespues ==
  ASSUME NEW p, NEW m, Dentro(p)' = {m}
  PROVE  Sano(p)' <=> SanoCon(m, hilos'[m], ListaVigente(p)', Cuenta(p)', disco')
<1>1. Entero(ListaVigente(p), Cuenta(p))' <=> EnteroEn(disco', ListaVigente(p)', Cuenta(p)')
  BY DEF Entero, EnteroEn
<1> QED
  BY <1>1 DEF Sano, SanoCon

(* What it does to its own file, its blocks and the counts is left to each *)
(* action; the other files are as they were where they are sound.          *)
LEMMA PropioPreserva ==
  ASSUME IInv, NEW m \in Mensajes, NEW x \in Hilos, hilos' = [hilos EXCEPT ![m] = x], TypeOK',
         hilos[m].paso \in ConArchivo, x.paso \in ConArchivo,
         UNCHANGED <<conMutex, mCrear, HayBitmap>>,
         archivos' = archivos \/ (archivos' = [archivos EXCEPT ![Pokemon[m]] = Metadata(m)]),
         Sabe(m)', Duenios', pisados \subseteq pisados',
         \A q \in conMutex \ pisados' : q # Pokemon[m] =>
           \A b \in ToSet(ListaVigente(q)) : disco'[b] = disco[b],
         Pokemon[m] \notin pisados' => Sano(Pokemon[m])'
  PROVE  IInv'
<1> DEFINE p == Pokemon[m]
<1>1. TypeOK /\ Candados /\ (\A n \in Mensajes : Sabe(n)) /\ Duenios /\ Sumas /\ \A q \in conMutex \ pisados : Sano(q)
  BY DEF IInv
<1>2. hilos'[m] = x /\ \A n \in Mensajes : n # m => hilos'[n] = hilos[n]
  BY <1>1, UnHilo
<1>3. p \in conMutex /\ archivos[p].open /\ archivos[p] \in Archivos /\ p \in Pokemones /\ archivos[p] # Nadie
  BY <1>1, ListaTipo, NadieAssumption DEF Candados
<1>4. /\ \A q \in Pokemones : q # p => archivos'[q] = archivos[q]
      /\ archivos'[p] # Nadie /\ archivos'[p].open
  <2>1. Metadata(m).open = TRUE
    BY DEF Metadata
  <2>2. archivos'[p] \in {archivos[p], Metadata(m)} /\ \A q \in Pokemones : q # p => archivos'[q] = archivos[q]
    BY <1>1, <1>3 DEF TypeOK
  <2>3. p \in conMutex'
    BY <1>3
  <2> QED
    BY <1>3, <2>1, <2>2, <2>3 DEF TypeOK
<1>5. Candados'
  <2>1. x.paso \notin Creando
    BY DEF ConArchivo, Creando
  <2>3. \A q \in conMutex : archivos'[q].open = archivos[q].open
    <3>1. archivos[p].open = TRUE /\ archivos'[p].open = TRUE
      <4>1. archivos[p].open \in BOOLEAN
        BY <1>3 DEF Archivos
      <4>2. archivos'[p] \in Archivos
        BY <1>3, <1>4 DEF TypeOK
      <4>3. archivos'[p].open \in BOOLEAN
        BY <4>2 DEF Archivos
      <4> QED
        BY <1>3, <1>4, <4>1, <4>3
    <3> QED
      BY <1>1, <1>4, <3>1 DEF TypeOK
  <2>4. x.paso # "crear"
    BY <2>1 DEF Creando
  <2> QED
    BY <1>1, <2>1, <2>3, <2>4, CandadosSiguen
<1>6. \A n \in Mensajes : Sabe(n)'
  <2>1. \A q \in conMutex : archivos'[q].bloques = archivos[q].bloques \/ (hilos[m].paso \in ConArchivo /\ q = Pokemon[m])
    BY <1>1, <1>4 DEF TypeOK
  <2> QED
    BY <1>1, <2>1, SabenLosOtros
<1>7. Sumas'
  <2>1. \A n \in Mensajes : n # m => (Suma(n)' <=> Suma(n))
    BY <1>2 DEF Suma, Escrito
  <2> QED
    BY <1>1, <1>3, <2>1 DEF Sumas
<1>8. ASSUME NEW q \in conMutex \ pisados', q # p PROVE Sano(q)'
  <2>1. Sano(q) /\ q \in Pokemones
    BY <1>1, <1>8 DEF TypeOK
  <2>2. \A n \in Mensajes : Pokemon[n] = q => hilos'[n] = hilos[n]
    BY <1>2, <1>8
  <2>3. Cuenta(q)' = Cuenta(q)
    <3>1. \A n \in Mensajes : Pokemon[n] = q => (Suma(n)' <=> Suma(n))
      BY <2>2 DEF Suma, Escrito
    <3> QED
      BY <3>1, CuentaSigue
  <2>4. ListaVigente(q)' = ListaVigente(q)
    <3>1. archivos'[q].bloques = archivos[q].bloques
      BY <1>4, <1>8, <2>1
    <3> QED
      BY <2>2, <3>1, ListaSigue
  <2>5. ListaVigente(q) \in Seq(Numeros)
    BY <1>1, ListaTipo
  <2>6. \A b \in ToSet(ListaVigente(q)) : disco'[b] = disco[b]
    BY <1>8
  <2> QED
    BY <2>1, <2>2, <2>3, <2>4, <2>5, <2>6, SanoSigue
<1>9. \A q \in (conMutex \ pisados)' : Sano(q)'
  BY <1>8
<1> QED
  BY <1>5, <1>6, <1>7, <1>9 DEF IInv

-----------------------------------------------------------------------------
(* Messages that arrive, look for their file, open it and close it.        *)

LEMMA RecibirPreserva ==
  ASSUME IInv, NEW m \in Mensajes, Recibir(m)
  PROVE  IInv'
<1>1. TypeOK /\ Candados /\ Sabe(m)
  BY DEF IInv
<1>2. PICK x \in Hilos : hilos' = [hilos EXCEPT ![m] = x] /\ x.paso = "directorio" /\ x.resultado = hilos[m].resultado
  BY <1>1, IrHilo DEF Recibir, Pasos
<1>3. hilos[m].paso = "porLlegar" /\ hilos'[m] = x /\ UNCHANGED <<archivos, disco, ocupados, conMutex, mCrear, HayBitmap, pisados>>
  BY <1>1, <1>2, UnHilo DEF Recibir, En, HayBitmap
<1>4. TypeOK'
  BY <1>1, TipoDeAtender
<1>5. Candados'
  BY <1>1, <1>2, <1>3, CandadosSiguen DEF ConArchivo, Creando
<1>6. Sabe(m)'
  BY <1>1, <1>2, <1>3 DEF Sabe, ConMano, ConDatos, AntesDeLaLista
<1>7. Suma(m)' <=> Suma(m)
  BY <1>2, <1>3 DEF Suma, Escrito
<1> QED
  BY <1>2, <1>3, <1>4, <1>5, <1>6, <1>7, LlanoPreserva DEF ConListaNueva, ConMano, ConDatos

LEMMA HallarPreserva ==
  ASSUME IInv, NEW m \in Mensajes, HallarDirectorio(m)
  PROVE  IInv'
<1>1. TypeOK /\ Candados /\ Sabe(m)
  BY DEF IInv
<1>2. PICK x \in Hilos : hilos' = [hilos EXCEPT ![m] = x] /\ x.paso = "acceder"
  BY <1>1, IrHilo DEF HallarDirectorio, Pasos
<1>3. hilos[m].paso = "directorio" /\ hilos'[m] = x /\ UNCHANGED <<archivos, disco, ocupados, conMutex, mCrear, HayBitmap, pisados>>
  BY <1>1, <1>2, UnHilo DEF HallarDirectorio, En, HayBitmap
<1>4. TypeOK'
  BY <1>1, TipoDeAtender DEF Atender
<1>5. Candados'
  BY <1>1, <1>2, <1>3, CandadosSiguen DEF ConArchivo, Creando
<1>6. Sabe(m)'
  BY <1>1, <1>2, <1>3 DEF Sabe, ConMano, ConDatos, AntesDeLaLista
<1>7. Suma(m)' <=> Suma(m)
  BY <1>2, <1>3 DEF Suma, Escrito
<1> QED
  BY <1>2, <1>3, <1>4, <1>5, <1>6, <1>7, LlanoPreserva DEF ConListaNueva, ConMano, ConDatos

LEMMA NoHallarPreserva ==
  ASSUME IInv, NEW m \in Mensajes, NoHallarDirectorio(m)
  PROVE  IInv'
<1>1. TypeOK /\ Candados /\ Sabe(m)
  BY DEF IInv
<1>2. PICK x \in Hilos :
        /\ hilos' = [hilos EXCEPT ![m] = x]
        /\ x.paso = (IF Tipo[m] = "NEW" THEN "primerBloque" ELSE "fin")
        /\ x.i \in Bloques /\ x.resultado = hilos[m].resultado
  BY <1>1, NoHallarHilo
<1>3. /\ hilos[m].paso = "directorio" /\ hilos'[m] = x /\ UNCHANGED <<disco, ocupados, conMutex, HayBitmap, pisados>>
      /\ mCrear = Nadie /\ archivos[Pokemon[m]] = Nadie /\ mCrear' = IF Tipo[m] = "GET" THEN Nadie ELSE m
      /\ archivos' = archivos \/ archivos' = [archivos EXCEPT ![Pokemon[m]] = Vacio]
      /\ \A n \in Mensajes : n # m => hilos'[n] = hilos[n]
  BY <1>1, <1>2, UnHilo DEF NoHallarDirectorio, En, Existe, HayBitmap
<1>8. Pokemon[m] \notin conMutex /\ \A p \in conMutex : archivos'[p] = archivos[p]
  <2>1. Pokemon[m] \notin conMutex /\ conMutex \subseteq Pokemones /\ DOMAIN archivos = Pokemones
    BY <1>1, <1>3 DEF TypeOK
  <2> QED
    BY <1>3, <2>1
<1>4. TypeOK'
  BY <1>1, TipoDeAtender DEF Atender
<1>5. Candados'
  <2>1. \A n \in Mensajes : hilos[n].paso \notin Creando
    BY <1>1, <1>3, GameCardAssumption DEF Candados
  <2>2. \A n \in Mensajes : hilos'[n].paso \in Creando => Tipo[n] = "NEW" /\ mCrear' = n /\ Pokemon[n] \notin conMutex'
    BY <1>2, <1>3, <1>8, <2>1 DEF Creando
  <2>3. \A n \in Mensajes : /\ (hilos'[n].paso \in ConArchivo <=> hilos[n].paso \in ConArchivo)
                           /\ (hilos'[n].paso = "crear" <=> hilos[n].paso = "crear")
    BY <1>2, <1>3 DEF ConArchivo
  <2> QED
    BY <1>1, <1>3, <1>8, <2>2, <2>3 DEF Candados
<1>6. Sabe(m)'
  BY <1>1, <1>2, <1>3 DEF Sabe, ConMano, ConDatos, AntesDeLaLista
<1>7. Suma(m)' <=> Suma(m)
  BY <1>1, <1>2, <1>3 DEF Suma, Escrito, Sabe
<1> QED
  BY <1>2, <1>3, <1>4, <1>5, <1>6, <1>7, <1>8, LlanoPreserva DEF ConListaNueva, ConMano, ConDatos

LEMMA AccederPreserva ==
  ASSUME IInv, NEW m \in Mensajes, Acceder(m)
  PROVE  IInv'
<1>1. TypeOK /\ Candados /\ Sabe(m)
  BY DEF IInv
<1>2. PICK x \in Hilos : hilos' = [hilos EXCEPT ![m] = x] /\ x.paso = "leer"
  BY <1>1, IrHilo DEF Acceder, Pasos
<1> DEFINE p == Pokemon[m]
<1>3. /\ hilos[m].paso = "acceder" /\ hilos'[m] = x /\ UNCHANGED <<disco, ocupados, conMutex, mCrear, HayBitmap, pisados>>
      /\ p \in conMutex /\ ~archivos[p].open /\ archivos' = [archivos EXCEPT ![p] = [archivos[p] EXCEPT !.open = TRUE]]
      /\ \A n \in Mensajes : n # m => hilos'[n] = hilos[n]
  BY <1>1, <1>2, UnHilo DEF Acceder, En, HayBitmap, Cerrado
<1>4. TypeOK'
  BY <1>1, TipoDeAtender DEF Atender
<1>5. archivos[p] \in Archivos /\ p \in Pokemones /\ archivos \in [Pokemones -> Archivos \cup {Nadie}]
  BY <1>1, <1>3, ListaTipo DEF TypeOK
<1>6. /\ archivos'[p].open = TRUE /\ archivos'[p].bloques = archivos[p].bloques
      /\ \A q \in Pokemones : q # p => archivos'[q] = archivos[q]
  <2>1. archivos'[p] = [archivos[p] EXCEPT !.open = TRUE] /\ \A q \in Pokemones : q # p => archivos'[q] = archivos[q]
    BY <1>3, <1>5
  <2> QED
    BY <1>5, <2>1 DEF Archivos
<1>7. Candados'
  <2>1. \A n \in Mensajes : hilos[n].paso \in ConArchivo => Pokemon[n] # p
    BY <1>1, <1>3 DEF Candados
  <2>2. \A n \in Mensajes : hilos'[n].paso \in Creando => hilos[n].paso \in Creando
    BY <1>2, <1>3 DEF Creando
  <2>3. \A n \in Mensajes : hilos'[n].paso \in ConArchivo <=> (n = m \/ hilos[n].paso \in ConArchivo)
    BY <1>2, <1>3 DEF ConArchivo
  <2>4. \A n \in Mensajes : hilos'[n].paso \in Creando => Tipo[n] = "NEW" /\ mCrear' = n /\ Pokemon[n] \notin conMutex'
    BY <1>1, <1>3, <2>2 DEF Candados
  <2>5. \A n \in Mensajes : hilos'[n].paso \in ConArchivo => Pokemon[n] \in conMutex' /\ archivos'[Pokemon[n]].open
    BY <1>1, <1>3, <1>6, <2>1, <2>3, MensajeTipo DEF Candados
  <2>6. \A n, k \in Mensajes :
          /\ hilos'[n].paso \in ConArchivo /\ hilos'[k].paso \in ConArchivo
          /\ Pokemon[n] = Pokemon[k]
          => n = k
    BY <1>1, <2>1, <2>3 DEF Candados
  <2>7. \A q \in conMutex' : archivos'[q].open =>
           \E n \in Mensajes : Pokemon[n] = q /\ hilos'[n].paso \in ConArchivo
    <3> SUFFICES ASSUME NEW q \in conMutex, archivos'[q].open
                 PROVE  \E n \in Mensajes : Pokemon[n] = q /\ hilos'[n].paso \in ConArchivo
      BY <1>3
    <3>1. CASE q = p
      BY <2>3, <3>1
    <3>2. CASE q # p
      <4>1. archivos[q].open
        BY <1>1, <1>6, <3>2 DEF TypeOK
      <4> QED
        BY <1>1, <2>3, <4>1 DEF Candados
    <3> QED
      BY <3>1, <3>2
  <2>8. ~HayBitmap' => conMutex' = {} /\ \A n \in Mensajes : hilos'[n].paso # "crear"
    BY <1>1, <1>3 DEF Candados
  <2> QED
    BY <2>4, <2>5, <2>6, <2>7, <2>8 DEF Candados
<1>8. Sabe(m)'
  BY <1>2, <1>3 DEF Sabe, ConMano, ConDatos, AntesDeLaLista
<1>9. Suma(m)' <=> Suma(m)
  BY <1>2, <1>3 DEF Suma, Escrito
<1>10. \A q \in conMutex : archivos'[q].bloques = archivos[q].bloques
  BY <1>1, <1>6 DEF TypeOK
<1>11. /\ x.paso \notin ConListaNueva \cup ConMano \cup ConDatos
       /\ hilos[m].paso \notin ConListaNueva \cup ConMano \cup ConDatos
  BY <1>2, <1>3 DEF ConListaNueva, ConMano, ConDatos
<1> QED
  BY <1>2, <1>3, <1>4, <1>7, <1>8, <1>9, <1>10, <1>11, LlanoPreserva

LEMMA CerrarPreserva ==
  ASSUME IInv, NEW m \in Mensajes, Cerrar(m)
  PROVE  IInv'
<1>1. TypeOK /\ Candados /\ Sabe(m)
  BY DEF IInv
<1>2. PICK x \in Hilos : hilos' = [hilos EXCEPT ![m] = x] /\ x.paso = "fin" /\ x.resultado = hilos[m].resultado
  BY <1>1, IrHilo DEF Cerrar, Pasos
<1> DEFINE p == Pokemon[m]
<1>3. /\ hilos[m].paso = "cerrar" /\ hilos'[m] = x /\ UNCHANGED <<disco, ocupados, conMutex, mCrear, HayBitmap, pisados>>
      /\ archivos' = [archivos EXCEPT ![p] = [archivos[p] EXCEPT !.open = FALSE]]
      /\ \A n \in Mensajes : n # m => hilos'[n] = hilos[n]
  BY <1>1, <1>2, UnHilo DEF Cerrar, En, HayBitmap
<1>4. TypeOK'
  BY <1>1, TipoDeAtender DEF Atender
<1>5. p \in conMutex /\ archivos[p] \in Archivos /\ p \in Pokemones /\ archivos \in [Pokemones -> Archivos \cup {Nadie}]
  <2>1. p \in conMutex
    BY <1>1, <1>3 DEF Candados, ConArchivo
  <2> QED
    BY <1>1, <2>1, ListaTipo DEF TypeOK
<1>6. /\ archivos'[p].open = FALSE /\ archivos'[p].bloques = archivos[p].bloques
      /\ \A q \in Pokemones : q # p => archivos'[q] = archivos[q]
  <2>1. archivos'[p] = [archivos[p] EXCEPT !.open = FALSE] /\ \A q \in Pokemones : q # p => archivos'[q] = archivos[q]
    BY <1>3, <1>5
  <2> QED
    BY <1>5, <2>1 DEF Archivos
<1>7. Candados'
  <2>1. \A n \in Mensajes : hilos[n].paso \in ConArchivo /\ n # m => Pokemon[n] # p
    BY <1>1, <1>3 DEF Candados, ConArchivo
  <2>2. \A n \in Mensajes : hilos'[n].paso \in Creando => hilos[n].paso \in Creando
    BY <1>2, <1>3 DEF Creando
  <2>3. \A n \in Mensajes : hilos'[n].paso \in ConArchivo <=> (n # m /\ hilos[n].paso \in ConArchivo)
    BY <1>2, <1>3 DEF ConArchivo
  <2>4. \A n \in Mensajes : hilos'[n].paso \in Creando => Tipo[n] = "NEW" /\ mCrear' = n /\ Pokemon[n] \notin conMutex'
    BY <1>1, <1>3, <2>2 DEF Candados
  <2>5. \A n \in Mensajes : hilos'[n].paso \in ConArchivo => Pokemon[n] \in conMutex' /\ archivos'[Pokemon[n]].open
    BY <1>1, <1>3, <1>6, <2>1, <2>3, MensajeTipo DEF Candados
  <2>6. \A n, k \in Mensajes :
          /\ hilos'[n].paso \in ConArchivo /\ hilos'[k].paso \in ConArchivo
          /\ Pokemon[n] = Pokemon[k]
          => n = k
    BY <1>1, <2>1, <2>3 DEF Candados
  <2>7. \A q \in conMutex' : archivos'[q].open =>
           \E n \in Mensajes : Pokemon[n] = q /\ hilos'[n].paso \in ConArchivo
    <3> SUFFICES ASSUME NEW q \in conMutex, archivos'[q].open
                 PROVE  \E n \in Mensajes : Pokemon[n] = q /\ hilos'[n].paso \in ConArchivo
      BY <1>3
    <3>1. q # p
      BY <1>6
    <3>2. archivos[q].open
      BY <1>1, <1>6, <3>1 DEF TypeOK
    <3> QED
      BY <1>1, <2>3, <3>1, <3>2 DEF Candados
  <2>8. ~HayBitmap' => conMutex' = {} /\ \A n \in Mensajes : hilos'[n].paso # "crear"
    BY <1>1, <1>2, <1>3 DEF Candados
  <2> QED
    BY <2>4, <2>5, <2>6, <2>7, <2>8 DEF Candados
<1>8. Sabe(m)'
  BY <1>2, <1>3 DEF Sabe, ConMano, ConDatos, AntesDeLaLista
<1>9. Suma(m)' <=> Suma(m)
  BY <1>2, <1>3 DEF Suma, Escrito
<1>10. \A q \in conMutex : archivos'[q].bloques = archivos[q].bloques
  BY <1>1, <1>6 DEF TypeOK
<1>11. /\ x.paso \notin ConListaNueva \cup ConMano \cup ConDatos
       /\ hilos[m].paso \notin ConListaNueva \cup ConMano \cup ConDatos
  BY <1>2, <1>3 DEF ConListaNueva, ConMano, ConDatos
<1> QED
  BY <1>2, <1>3, <1>4, <1>7, <1>8, <1>9, <1>10, <1>11, LlanoPreserva

-----------------------------------------------------------------------------
(* Blocks change hands.                                                    *)

(* The hands of the other threads, and that of m. *)
Mano(h) == (IF h.paso \in ConMano THEN {h.i} ELSE {}) \ {SinBloque}

ManoDeOtros(m) == {hilos[n].i : n \in {k \in Mensajes : k # m /\ hilos[k].paso \in ConMano}} \ {SinBloque}

LEMMA EnManoEs ==
  ASSUME TypeOK, NEW m \in Mensajes, NEW x, hilos' = [hilos EXCEPT ![m] = x]
  PROVE  /\ EnMano = ManoDeOtros(m) \cup Mano(hilos[m])
         /\ EnMano' = ManoDeOtros(m) \cup Mano(x)
<1>1. hilos'[m] = x /\ \A n \in Mensajes : n # m => hilos'[n] = hilos[n]
  BY UnHilo
<1>2. EnMano = ManoDeOtros(m) \cup Mano(hilos[m])
  BY DEF EnMano, ManoDeOtros, Mano, ConMano
<1>3. {hilos'[n].i : n \in {k \in Mensajes : k # m /\ hilos'[k].paso \in ConMano}}
        = {hilos[n].i : n \in {k \in Mensajes : k # m /\ hilos[k].paso \in ConMano}}
  BY <1>1
<1>4. EnMano' = ({hilos'[n].i : n \in {k \in Mensajes : k # m /\ hilos'[k].paso \in ConMano}} \ {SinBloque}) \cup Mano(x)
  BY <1>1 DEF EnMano, Mano, ConMano
<1> QED
  BY <1>2, <1>3, <1>4 DEF ManoDeOtros

(* buscarBloqueLibre gives a block that nobody has, or none. *)
LEMMA TomarBloque ==
  ASSUME TypeOK, Duenios, HayBitmap, NEW m \in Mensajes, NEW x, hilos' = [hilos EXCEPT ![m] = x],
         x.paso \in ConMano, hilos[m].paso \notin ConMano,
         \/ x.i = SinBloque /\ ocupados' = ocupados
         \/ x.i \in Bloques /\ x.i \notin ocupados /\ ocupados' = ocupados \cup {x.i},
         conMutex' = conMutex, HayBitmap' = HayBitmap,
         \A p \in conMutex : ListaVigente(p)' = ListaVigente(p)
  PROVE  Duenios'
<1>1. hilos'[m] = x /\ \A n \in Mensajes : n # m => hilos'[n] = hilos[n]
  BY UnHilo
<1>2. \A p \in conMutex : DeArchivo(p)' = DeArchivo(p)
  BY DEF DeArchivo
<1>3. UNION {DeArchivo(p)' : p \in conMutex} = UNION {DeArchivo(p) : p \in conMutex}
  BY <1>2
<1>4. SinBloque \notin Bloques
  BY DEF SinBloque, Bloques
<1>5. ocupados = EnMano \cup UNION {DeArchivo(p) : p \in conMutex}
  BY DEF Duenios
<1>6. ocupados' = EnMano' \cup UNION {DeArchivo(p)' : p \in conMutex'}
  <2>1. EnMano = ManoDeOtros(m) /\ EnMano' = ManoDeOtros(m) \cup ({x.i} \ {SinBloque})
    BY EnManoEs DEF Mano
  <2>2. ocupados' = ocupados \cup ({x.i} \ {SinBloque})
    BY <1>4
  <2> QED
    BY <1>3, <1>5, <2>1, <2>2
<1>7. \A p \in conMutex : x.i \notin DeArchivo(p)
  BY <1>4, <1>5 DEF DeArchivo
<1>8. \A n \in Mensajes : hilos[n].paso \in ConMano /\ hilos[n].i = x.i => x.i = SinBloque
  <2> SUFFICES ASSUME NEW n \in Mensajes, hilos[n].paso \in ConMano, hilos[n].i = x.i, x.i # SinBloque PROVE FALSE
    OBVIOUS
  <2>1. x.i \in EnMano
    BY DEF EnMano, ConMano
  <2> QED
    BY <1>5, <2>1
<1>9. \A p \in conMutex : (Len(ListaVigente(p)) >= 1 /\ SinRepetidos(ListaVigente(p)))'
  BY DEF Duenios, SinRepetidos
<1>10. \A p, q \in conMutex : p # q => DeArchivo(p)' \cap DeArchivo(q)' = {}
  BY <1>2 DEF Duenios
<1>11. \A n \in Mensajes : hilos'[n].paso \in ConMano => \A p \in conMutex : hilos'[n].i \notin DeArchivo(p)'
  BY <1>1, <1>2, <1>7 DEF Duenios
<1>12. \A n, k \in Mensajes :
         /\ hilos'[n].paso \in ConMano /\ hilos'[k].paso \in ConMano
         /\ hilos'[n].i = hilos'[k].i /\ hilos'[n].i # SinBloque
         => n = k
  BY <1>1, <1>8 DEF Duenios
<1> QED
  BY <1>6, <1>9, <1>10, <1>11, <1>12 DEF Duenios

(* The block in the hand of a thread goes to the list of its file. *)
LEMMA DarBloque ==
  ASSUME TypeOK, Duenios, NEW m \in Mensajes, NEW x, hilos' = [hilos EXCEPT ![m] = x],
         x.paso \notin ConMano, hilos[m].paso \in ConMano, hilos[m].i \in Bloques \cup {SinBloque},
         ocupados' = ocupados, HayBitmap' = HayBitmap,
         NEW p, conMutex' = conMutex \cup {p},
         \A q \in conMutex : q # p => ListaVigente(q)' = ListaVigente(q),
         Len(ListaVigente(p)') >= 1, SinRepetidos(ListaVigente(p)'),
         DeArchivo(p)' = (IF p \in conMutex THEN DeArchivo(p) ELSE {}) \cup ({hilos[m].i} \ {SinBloque})
  PROVE  Duenios'
<1> DEFINE i == hilos[m].i
<1>1. hilos'[m] = x /\ \A n \in Mensajes : n # m => hilos'[n] = hilos[n]
  BY UnHilo
<1>2. \A q \in conMutex : q # p => DeArchivo(q)' = DeArchivo(q)
  BY DEF DeArchivo
<1>3. SinBloque \notin Bloques /\ \A q \in conMutex : SinBloque \notin DeArchivo(q) /\ i \notin DeArchivo(q)
  BY DEF SinBloque, Bloques, DeArchivo, Duenios
<1>4. EnMano = ManoDeOtros(m) \cup ({i} \ {SinBloque}) /\ EnMano' = ManoDeOtros(m)
  <2>1. Mano(hilos[m]) = {i} \ {SinBloque} /\ Mano(x) = {}
    BY DEF Mano
  <2>2. EnMano = ManoDeOtros(m) \cup Mano(hilos[m]) /\ EnMano' = ManoDeOtros(m) \cup Mano(x)
    BY EnManoEs
  <2> QED
    BY <2>1, <2>2
<1>5. HayBitmap' => ocupados' = EnMano' \cup UNION {DeArchivo(q)' : q \in conMutex'}
  <2> SUFFICES ASSUME HayBitmap PROVE ocupados = EnMano' \cup UNION {DeArchivo(q)' : q \in conMutex \cup {p}}
    OBVIOUS
  <2>1. ocupados = EnMano \cup UNION {DeArchivo(q) : q \in conMutex}
    BY DEF Duenios
  <2>2. UNION {DeArchivo(q)' : q \in conMutex \cup {p}} = ({i} \ {SinBloque}) \cup UNION {DeArchivo(q) : q \in conMutex}
    <3> DEFINE U == UNION {DeArchivo(q)' : q \in conMutex \cup {p}}
               V == UNION {DeArchivo(q) : q \in conMutex}
    <3>1. ASSUME NEW b \in U PROVE b \in ({i} \ {SinBloque}) \cup V
      <4>1. PICK q \in conMutex \cup {p} : b \in DeArchivo(q)'
        BY <3>1
      <4>2. CASE q = p
        BY <4>1, <4>2
      <4>3. CASE q # p
        BY <1>2, <4>1, <4>3
      <4> QED
        BY <4>2, <4>3
    <3>2. ASSUME NEW b \in V PROVE b \in U
      <4>1. PICK q \in conMutex : b \in DeArchivo(q)
        BY <3>2
      <4>2. b \in DeArchivo(q)'
        BY <1>2, <4>1
      <4> QED
        BY <4>1, <4>2
    <3>3. {i} \ {SinBloque} \subseteq U
      OBVIOUS
    <3> QED
      BY <3>1, <3>2, <3>3
  <2> QED
    BY <1>4, <2>1, <2>2
<1>6. \A q \in conMutex' : (Len(ListaVigente(q)) >= 1 /\ SinRepetidos(ListaVigente(q)))'
  BY DEF Duenios, SinRepetidos
<1>7. \A q, r \in conMutex' : q # r => DeArchivo(q)' \cap DeArchivo(r)' = {}
  <2> SUFFICES ASSUME NEW q \in conMutex, q # p PROVE DeArchivo(q) \cap DeArchivo(p)' = {}
    BY <1>2 DEF Duenios
  <2> QED
    BY <1>3 DEF Duenios
<1>8. \A n \in Mensajes : hilos'[n].paso \in ConMano => \A q \in conMutex' : hilos'[n].i \notin DeArchivo(q)'
  <2> SUFFICES ASSUME NEW n \in Mensajes, hilos'[n].paso \in ConMano, NEW q \in conMutex \cup {p}
               PROVE  hilos'[n].i \notin DeArchivo(q)'
    OBVIOUS
  <2>1. n # m /\ hilos[n].paso \in ConMano /\ hilos'[n].i = hilos[n].i
    BY <1>1
  <2>2. \A r \in conMutex : hilos[n].i \notin DeArchivo(r)
    BY <2>1 DEF Duenios
  <2>3. hilos[n].i = i => i = SinBloque
    BY <2>1 DEF Duenios
  <2> QED
    BY <1>2, <2>1, <2>2, <2>3
<1>9. \A n, k \in Mensajes :
         /\ hilos'[n].paso \in ConMano /\ hilos'[k].paso \in ConMano
         /\ hilos'[n].i = hilos'[k].i /\ hilos'[n].i # SinBloque
         => n = k
  BY <1>1 DEF Duenios
<1> QED
  BY <1>5, <1>6, <1>7, <1>8, <1>9 DEF Duenios

(* A file gives one of its blocks back. *)
LEMMA DevolverBloque ==
  ASSUME TypeOK, Duenios, NEW m \in Mensajes, NEW x, hilos' = [hilos EXCEPT ![m] = x],
         x.paso \notin ConMano, hilos[m].paso \notin ConMano,
         NEW b, ocupados' = ocupados \ {b}, HayBitmap' = HayBitmap,
         NEW p \in conMutex, conMutex' = conMutex,
         b \in Bloques => b \in DeArchivo(p),
         \A q \in conMutex : q # p => ListaVigente(q)' = ListaVigente(q),
         Len(ListaVigente(p)') >= 1, SinRepetidos(ListaVigente(p)'),
         DeArchivo(p)' = DeArchivo(p) \ {b}
  PROVE  Duenios'
<1>1. hilos'[m] = x /\ \A n \in Mensajes : n # m => hilos'[n] = hilos[n]
  BY UnHilo
<1>2. \A q \in conMutex : q # p => DeArchivo(q)' = DeArchivo(q)
  BY DEF DeArchivo
<1>3. EnMano = ManoDeOtros(m) /\ EnMano' = ManoDeOtros(m)
  <2>1. Mano(hilos[m]) = {} /\ Mano(x) = {}
    BY DEF Mano
  <2>2. EnMano = ManoDeOtros(m) \cup Mano(hilos[m]) /\ EnMano' = ManoDeOtros(m) \cup Mano(x)
    BY EnManoEs
  <2> QED
    BY <2>1, <2>2
<1>4. b \notin EnMano \/ b \notin Bloques
  BY DEF Duenios, EnMano, ConMano
<1>5. ocupados \subseteq Bloques
  BY DEF TypeOK
<1>6. HayBitmap' => ocupados' = EnMano' \cup UNION {DeArchivo(q)' : q \in conMutex'}
  <2> SUFFICES ASSUME HayBitmap PROVE ocupados \ {b} = EnMano \cup UNION {DeArchivo(q)' : q \in conMutex}
    BY <1>3
  <2>1. ocupados = EnMano \cup UNION {DeArchivo(q) : q \in conMutex}
    BY DEF Duenios
  <2>2. UNION {DeArchivo(q)' : q \in conMutex} = (UNION {DeArchivo(q) : q \in conMutex}) \ {b}
    <3> DEFINE U == UNION {DeArchivo(q)' : q \in conMutex}
               V == UNION {DeArchivo(q) : q \in conMutex}
    <3>1. ASSUME NEW c \in U PROVE c \in V \ {b}
      <4>1. PICK q \in conMutex : c \in DeArchivo(q)'
        BY <3>1
      <4>2. CASE q = p
        BY <4>1, <4>2
      <4>3. CASE q # p
        <5>1. c \in DeArchivo(q) /\ c \in Bloques
          BY <1>2, <4>1, <4>3 DEF DeArchivo
        <5> QED
          BY <4>1, <4>3, <5>1 DEF Duenios
      <4> QED
        BY <4>2, <4>3
    <3>2. ASSUME NEW c \in V, c # b PROVE c \in U
      <4>1. PICK q \in conMutex : c \in DeArchivo(q)
        BY <3>2
      <4>2. c \in DeArchivo(q)'
        BY <1>2, <3>2, <4>1
      <4> QED
        BY <4>1, <4>2
    <3> QED
      BY <3>1, <3>2
  <2> QED
    BY <1>4, <1>5, <2>1, <2>2
<1>7. \A q \in conMutex' : (Len(ListaVigente(q)) >= 1 /\ SinRepetidos(ListaVigente(q)))'
  BY DEF Duenios, SinRepetidos
<1>8. \A q, r \in conMutex' : q # r => DeArchivo(q)' \cap DeArchivo(r)' = {}
  BY <1>2 DEF Duenios
<1>9. \A n \in Mensajes : hilos'[n].paso \in ConMano => \A q \in conMutex' : hilos'[n].i \notin DeArchivo(q)'
  BY <1>1, <1>2 DEF Duenios
<1>10. \A n, k \in Mensajes :
         /\ hilos'[n].paso \in ConMano /\ hilos'[k].paso \in ConMano
         /\ hilos'[n].i = hilos'[k].i /\ hilos'[n].i # SinBloque
         => n = k
  BY <1>1 DEF Duenios
<1> QED
  BY <1>6, <1>7, <1>8, <1>9, <1>10 DEF Duenios

-----------------------------------------------------------------------------
(* The process starts, and dies.                                           *)

LEMMA BitmapPreserva ==
  ASSUME IInv, PrepararBitmap
  PROVE  IInv'
<1>1. TypeOK /\ Candados /\ (\A n \in Mensajes : Sabe(n)) /\ Duenios /\ Sumas
  BY DEF IInv
<1>2. TypeOK'
  BY <1>1, TipoPreparar
<1>3. /\ ~HayBitmap /\ conMutex = {} /\ HayBitmap' = TRUE /\ ocupados' = {}
      /\ UNCHANGED <<archivos, conMutex, mCrear, hilos, pisados>>
      /\ \A n \in Mensajes : hilos[n].paso # "crear" /\ hilos[n].paso \notin ConArchivo
  BY <1>1 DEF PrepararBitmap, Candados, HayBitmap, ConBitmap
<1>4. Candados'
  BY <1>1, <1>3 DEF Candados
<1>5. \A n \in Mensajes : Sabe(n)'
  BY <1>1, <1>3 DEF Sabe
<1>6. Duenios'
  <2>1. \A n \in Mensajes : hilos[n].paso \notin ConMano
    BY <1>3 DEF ConMano, ConArchivo
  <2>2. EnMano' = {}
    BY <1>3, <2>1 DEF EnMano, ConMano
  <2>3. UNION {DeArchivo(p)' : p \in conMutex'} = {}
    BY <1>3
  <2> QED
    BY <1>3, <2>1, <2>2, <2>3 DEF Duenios
<1>7. Sumas'
  BY <1>1, <1>3 DEF Sumas, Suma, Escrito
<1> QED
  BY <1>2, <1>3, <1>4, <1>5, <1>6, <1>7 DEF IInv

LEMMA CarpetasPreserva ==
  ASSUME IInv, PrepararFiles \/ PrepararPokemon
  PROVE  IInv'
<1>1. TypeOK'
  BY TipoPreparar DEF IInv
<1>2. /\ UNCHANGED <<archivos, disco, ocupados, conMutex, mCrear, hilos, pisados>>
      /\ HayBitmap /\ HayBitmap'
  BY DEF PrepararFiles, PrepararPokemon, HayBitmap, ConBitmap, ConFiles, ConCarpetas
<1> QED
  BY <1>1, <1>2, CaePreserva

(* A block made or truncated damages the files that have lines in it. *)
LEMMA BloquePreserva ==
  ASSUME IInv, PrepararBloque
  PROVE  IInv'
<1> DEFINE b == puesta - ConCarpetas + 1
<1>1. TypeOK /\ Candados /\ (\A n \in Mensajes : Sabe(n)) /\ Duenios /\ Sumas /\ \A p \in conMutex \ pisados : Sano(p)
  BY DEF IInv
<1>2. TypeOK'
  BY <1>1, TipoPreparar
<1>3. /\ disco' = [disco EXCEPT ![b] = Nadie] /\ pisados' = pisados \cup PisadosPor(b)
      /\ UNCHANGED <<archivos, ocupados, conMutex, mCrear, hilos>>
  BY DEF PrepararBloque
<1>4. HayBitmap /\ HayBitmap'
  BY <1>1 DEF PrepararBloque, HayBitmap, ConBitmap, ConCarpetas, TypeOK
<1> HIDE DEF b
<1>5. \A p : ListaVigente(p)' = ListaVigente(p) /\ Cuenta(p)' = Cuenta(p)
  <2> SUFFICES ASSUME NEW p PROVE ListaVigente(p)' = ListaVigente(p) /\ Cuenta(p)' = Cuenta(p)
    OBVIOUS
  <2>1. \A n \in Mensajes : Suma(n)' <=> Suma(n)
    BY <1>3 DEF Suma, Escrito
  <2> QED
    BY <1>3, <2>1, ListaSigue, CuentaSigue
<1>6. Candados'
  BY <1>1, <1>3, <1>4 DEF Candados
<1>7. \A n \in Mensajes : Sabe(n)'
  BY <1>1, <1>3 DEF Sabe
<1>8. Duenios'
  BY <1>1, <1>3, <1>4, <1>5, DueniosSiguen
<1>9. Sumas'
  BY <1>1, <1>3 DEF Sumas, Suma, Escrito
<1>10. ASSUME NEW p \in conMutex \ pisados' PROVE Sano(p)'
  <2>1. p \notin PisadosPor(b) /\ ListaVigente(p) \in Seq(Numeros) /\ Sano(p)
    BY <1>1, <1>3, ListaTipo
  <2>2. disco[b] = Nadie \/ b \notin ToSet(ListaVigente(p))
    BY <2>1 DEF PisadosPor
  <2>3. \A c \in ToSet(ListaVigente(p)) : disco'[c] = disco[c]
    <3>1. ToSet(ListaVigente(p)) \subseteq Numeros /\ DOMAIN disco = Numeros
      BY <1>1, <2>1, ElementOfSeq, LenProperties DEF ToSet, TypeOK
    <3> QED
      BY <1>3, <2>2, <3>1
  <2> QED
    BY <1>3, <1>5, <2>1, <2>3, SanoSigue
<1> QED
  BY <1>2, <1>3, <1>6, <1>7, <1>8, <1>9, <1>10 DEF IInv

LEMMA ReiniciarPreserva ==
  ASSUME IInv, Reiniciar
  PROVE  IInv'
<1>1. TypeOK /\ \A n \in Mensajes : Sabe(n)
  BY DEF IInv
<1>2. TypeOK' /\ \A n \in Mensajes : hilos'[n].paso \in {"porLlegar", "perdido"} /\ (hilos'[n].paso = "porLlegar" => hilos'[n] = hilos[n])
  BY <1>1, TipoReiniciar
<1>3. conMutex' = {} /\ ~HayBitmap'
  BY DEF Reiniciar, HayBitmap, ConBitmap
<1>4. Candados'
  BY <1>2, <1>3 DEF Candados, Creando, ConArchivo
<1>5. \A n \in Mensajes : Sabe(n)'
  BY <1>1, <1>2 DEF Sabe, ConMano, ConDatos, AntesDeLaLista
<1>6. Duenios'
  BY <1>2, <1>3 DEF Duenios, ConMano
<1>7. Sumas'
  BY <1>2 DEF Sumas, Suma, Escrito
<1> QED
  BY <1>2, <1>3, <1>4, <1>5, <1>6, <1>7 DEF IInv

-----------------------------------------------------------------------------
(* A file is made.                                                         *)

LEMMA BuscarPrimeroPreserva ==
  ASSUME IInv, NEW m \in Mensajes, BuscarPrimero(m)
  PROVE  IInv'
<1>1. TypeOK /\ Candados /\ (\A n \in Mensajes : Sabe(n)) /\ Duenios /\ Sumas /\ \A p \in conMutex \ pisados : Sano(p)
  BY DEF IInv
<1>2. TypeOK'
  BY <1>1, TipoDeAtender DEF Atender
<1>3. hilos[m].paso = "primerBloque" /\ hilos[m].i \in Bloques /\ UNCHANGED <<archivos, disco, conMutex, mCrear, HayBitmap, pisados>>
  BY <1>1 DEF BuscarPrimero, En, HayBitmap, Sabe
<1>4. CASE ~HayBitmap
  <2>1. UNCHANGED <<hilos, ocupados>>
    BY <1>4 DEF BuscarPrimero
  <2> QED
    BY <1>2, <1>3, <2>1, CaePreserva
<1>5. CASE HayBitmap
  <2>1. ProbarBloque(m, "crear") /\ "crear" \in Pasos
    BY <1>5 DEF BuscarPrimero, Pasos
  <2>2. PICK x \in Hilos :
           /\ hilos' = [hilos EXCEPT ![m] = x]
           /\ x.lista = hilos[m].lista /\ x.datos = hilos[m].datos /\ x.resultado = hilos[m].resultado
           /\ \/ x.paso = "crear" /\ x.i = hilos[m].i /\ x.i \notin ocupados /\ ocupados' = ocupados \cup {x.i}
              \/ x.paso = hilos[m].paso /\ x.i \in Bloques /\ ocupados' = ocupados
              \/ x.paso = "crear" /\ x.i = SinBloque /\ ocupados' = ocupados
    BY <1>1, <1>3, <2>1, ProbarHilo
  <2>3. hilos'[m] = x /\ \A n \in Mensajes : n # m => hilos'[n] = hilos[n]
    BY <1>1, <2>2, UnHilo
  <2>4. x.paso \in {"primerBloque", "crear"}
    BY <1>3, <2>2
  <2>5. Candados'
    BY <1>1, <1>3, <1>5, <2>2, <2>4, CandadosSiguen DEF ConArchivo, Creando
  <2>6. Sabe(m)'
    BY <1>3, <2>2, <2>3, <2>4 DEF Sabe, ConMano, ConDatos, AntesDeLaLista
  <2>7. Suma(m)' <=> Suma(m)
    BY <1>3, <2>3, <2>4 DEF Suma, Escrito
  <2>8. CASE x.paso = "primerBloque"
    <3>1. ocupados' = ocupados
      BY <2>2, <2>8
    <3>2. /\ x.paso \notin ConListaNueva \cup ConMano \cup ConDatos
          /\ hilos[m].paso \notin ConListaNueva \cup ConMano \cup ConDatos
      BY <1>3, <2>8 DEF ConListaNueva, ConMano, ConDatos
    <3> QED
      BY <1>2, <1>3, <2>2, <2>5, <2>6, <2>7, <3>1, <3>2, LlanoPreserva
  <2>9. CASE x.paso = "crear"
    <3>1. \A n \in Mensajes :
            /\ hilos'[n].paso \in ConListaNueva <=> hilos[n].paso \in ConListaNueva
            /\ hilos[n].paso \in ConListaNueva => hilos'[n].lista = hilos[n].lista
            /\ hilos'[n].paso \in ConDatos <=> hilos[n].paso \in ConDatos
            /\ hilos[n].paso \in ConDatos => hilos'[n] = hilos[n]
            /\ Suma(n)' <=> Suma(n)
      <4> SUFFICES ASSUME NEW n \in Mensajes
                   PROVE  /\ hilos'[n].paso \in ConListaNueva <=> hilos[n].paso \in ConListaNueva
                          /\ hilos[n].paso \in ConListaNueva => hilos'[n].lista = hilos[n].lista
                          /\ hilos'[n].paso \in ConDatos <=> hilos[n].paso \in ConDatos
                          /\ hilos[n].paso \in ConDatos => hilos'[n] = hilos[n]
                          /\ Suma(n)' <=> Suma(n)
        OBVIOUS
      <4>1. CASE n = m
        BY <1>3, <2>3, <2>7, <2>9, <4>1 DEF ConListaNueva, ConDatos
      <4>2. CASE n # m
        BY <2>3, <4>2 DEF Suma, Escrito
      <4> QED
        BY <4>1, <4>2
    <3>2. \A p : ListaVigente(p)' = ListaVigente(p) /\ Cuenta(p)' = Cuenta(p)
      <4> SUFFICES ASSUME NEW p PROVE ListaVigente(p)' = ListaVigente(p) /\ Cuenta(p)' = Cuenta(p)
        OBVIOUS
      <4> QED
        BY <1>3, <3>1, ListaSigue, CuentaSigue
    <3>3. Duenios'
      <4>1. x.paso \in ConMano /\ hilos[m].paso \notin ConMano
        BY <1>3, <2>9 DEF ConMano
      <4>2. \/ x.i = SinBloque /\ ocupados' = ocupados
            \/ x.i \in Bloques /\ x.i \notin ocupados /\ ocupados' = ocupados \cup {x.i}
        BY <1>3, <2>2, <2>9
      <4> QED
        BY <1>1, <1>3, <1>5, <2>2, <3>2, <4>1, <4>2, TomarBloque
    <3>4. \A n \in Mensajes : Sabe(n)'
      BY <1>1, <1>3, <2>2, <2>6, SabenLosOtros
    <3>5. Sumas'
      BY <1>1, <1>3, <3>1 DEF Sumas
    <3>6. ASSUME NEW p \in conMutex \ pisados PROVE Sano(p)'
      <4>1. ListaVigente(p) \in Seq(Numeros) /\ Sano(p)
        BY <1>1, ListaTipo
      <4> QED
        BY <1>3, <3>1, <3>2, <4>1, SanoSigue
    <3> QED
      BY <1>2, <1>3, <2>5, <3>3, <3>4, <3>5, <3>6 DEF IInv
  <2> QED
    BY <2>4, <2>8, <2>9
<1> QED
  BY <1>4, <1>5

(* A new file is empty, and so is the block it begins with, or it is among *)
(* the damaged ones.                                                       *)
LEMMA CrearPreserva ==
  ASSUME IInv, NEW m \in Mensajes, CrearArchivo(m)
  PROVE  IInv'
<1> DEFINE p == Pokemon[m]
           i == hilos[m].i
           a == [bloques |-> <<i>>, size |-> 0, open |-> FALSE]
<1>1. TypeOK /\ Candados /\ (\A n \in Mensajes : Sabe(n)) /\ Duenios /\ Sumas /\ \A q \in conMutex \ pisados : Sano(q)
  BY DEF IInv
<1>2. TypeOK'
  BY <1>1, TipoDeAtender DEF Atender
<1>3. /\ hilos[m].paso = "crear" /\ archivos' = [archivos EXCEPT ![p] = a] /\ conMutex' = conMutex \cup {p}
      /\ mCrear' = Nadie /\ UNCHANGED <<disco, ocupados, HayBitmap>>
      /\ pisados' = IF disco[i] # Nadie THEN pisados \cup {p} ELSE pisados
  BY DEF CrearArchivo, En, HayBitmap
<1>4. PICK x \in Hilos : hilos' = [hilos EXCEPT ![m] = x] /\ x.paso = "acceder" /\ x.resultado = hilos[m].resultado
  BY <1>1, SoltarHilo DEF CrearArchivo, Pasos
<1>5. hilos'[m] = x /\ \A n \in Mensajes : n # m => hilos'[n] = hilos[n]
  BY <1>1, <1>4, UnHilo
<1>6. /\ i \in Bloques \cup {SinBloque} /\ mCrear = m /\ p \in Pokemones
      /\ p \notin conMutex /\ HayBitmap
  BY <1>1, <1>3, MensajeTipo DEF Sabe, ConMano, Candados, Creando, TypeOK
<1>7. /\ archivos'[p] = a /\ \A q \in Pokemones : q # p => archivos'[q] = archivos[q]
  BY <1>1, <1>3, <1>6 DEF TypeOK
<1>8. conMutex \subseteq Pokemones /\ \A q \in conMutex : q # p /\ archivos'[q] = archivos[q]
  BY <1>1, <1>6, <1>7 DEF TypeOK
<1>9. \A n \in Mensajes : hilos[n].paso \in ConArchivo => Pokemon[n] # p
  BY <1>1, <1>6 DEF Candados
<1> HIDE DEF i
<1>10. Candados'
  <2>1. \A n \in Mensajes : hilos'[n].paso \notin Creando
    <3>1. hilos'[m].paso \notin Creando
      BY <1>4, <1>5 DEF Creando
    <3>2. \A n \in Mensajes : n # m => hilos[n].paso \notin Creando
      BY <1>1, <1>6 DEF Candados
    <3> QED
      BY <1>5, <3>1, <3>2
  <2>2. \A n \in Mensajes : hilos'[n].paso \in ConArchivo <=> hilos[n].paso \in ConArchivo
    BY <1>3, <1>4, <1>5 DEF ConArchivo
  <2>3. archivos'[p].open = FALSE
    BY <1>7
  <2>4. \A n \in Mensajes : hilos'[n].paso \in ConArchivo => Pokemon[n] \in conMutex' /\ archivos'[Pokemon[n]].open
    BY <1>1, <1>3, <1>8, <2>2 DEF Candados
  <2>5. \A q \in conMutex' : archivos'[q].open =>
           \E n \in Mensajes : Pokemon[n] = q /\ hilos'[n].paso \in ConArchivo
    BY <1>1, <1>3, <1>8, <2>2, <2>3 DEF Candados
  <2>6. \A n, k \in Mensajes :
          /\ hilos'[n].paso \in ConArchivo /\ hilos'[k].paso \in ConArchivo
          /\ Pokemon[n] = Pokemon[k]
          => n = k
    BY <1>1, <2>2 DEF Candados
  <2> QED
    BY <1>3, <1>6, <2>1, <2>4, <2>5, <2>6 DEF Candados
<1>11. \A n \in Mensajes : Sabe(n)'
  <2>1. Sabe(m)'
    BY <1>4, <1>5 DEF Sabe, ConMano, ConDatos, AntesDeLaLista
  <2> QED
    BY <1>1, <1>4, <1>8, <2>1, SabenLosOtros
<1>12. \A n \in Mensajes :
         /\ hilos'[n].paso \in ConListaNueva <=> hilos[n].paso \in ConListaNueva
         /\ hilos[n].paso \in ConListaNueva => hilos'[n].lista = hilos[n].lista
         /\ hilos'[n].paso \in ConDatos <=> hilos[n].paso \in ConDatos
         /\ hilos[n].paso \in ConDatos => hilos'[n] = hilos[n]
         /\ Suma(n)' <=> Suma(n)
  <2> SUFFICES ASSUME NEW n \in Mensajes
               PROVE  /\ hilos'[n].paso \in ConListaNueva <=> hilos[n].paso \in ConListaNueva
                      /\ hilos[n].paso \in ConListaNueva => hilos'[n].lista = hilos[n].lista
                      /\ hilos'[n].paso \in ConDatos <=> hilos[n].paso \in ConDatos
                      /\ hilos[n].paso \in ConDatos => hilos'[n] = hilos[n]
                      /\ Suma(n)' <=> Suma(n)
    OBVIOUS
  <2>1. CASE n = m
    BY <1>3, <1>4, <1>5, <2>1 DEF ConListaNueva, ConDatos, Suma, Escrito
  <2>2. CASE n # m
    BY <1>5, <2>2 DEF Suma, Escrito
  <2> QED
    BY <2>1, <2>2
<1>13. \A q \in conMutex : ListaVigente(q)' = ListaVigente(q) /\ Cuenta(q)' = Cuenta(q)
  <2> SUFFICES ASSUME NEW q \in conMutex PROVE ListaVigente(q)' = ListaVigente(q) /\ Cuenta(q)' = Cuenta(q)
    OBVIOUS
  <2> QED
    BY <1>8, <1>12, ListaSigue, CuentaSigue
<1>14. ListaVigente(p)' = <<i>>
  <2>1. \A n \in Mensajes : Pokemon[n] = p => hilos'[n].paso \notin ConListaNueva
    BY <1>9, <1>12 DEF ConListaNueva, ConArchivo
  <2>2. ListaDe(hilos', archivos', p) = archivos'[p].bloques
    BY <2>1, ListaSinEscritor
  <2> QED
    BY <1>7, <2>2, ListaVigenteEs
<1>15. Duenios'
  <2>1. x.paso \notin ConMano /\ hilos[m].paso \in ConMano
    BY <1>3, <1>4 DEF ConMano
  <2>2. Len(ListaVigente(p)') >= 1 /\ SinRepetidos(ListaVigente(p)')
    BY <1>14 DEF SinRepetidos
  <2>3. DeArchivo(p)' = {i} \ {SinBloque}
    <3>1. ToSet(<<i>>) = {i}
      BY DEF ToSet
    <3>2. DeArchivo(p)' = ToSet(ListaVigente(p)') \cap Bloques
      BY DEF DeArchivo
    <3>3. SinBloque \notin Bloques
      BY DEF SinBloque, Bloques
    <3> QED
      BY <1>6, <1>14, <3>1, <3>2, <3>3
  <2>4. \A q \in conMutex : q # p => ListaVigente(q)' = ListaVigente(q)
    BY <1>13
  <2> QED
    BY <1>1, <1>3, <1>4, <1>6, <2>1, <2>2, <2>3, <2>4, DarBloque DEF i
<1>16. Sumas'
  BY <1>1, <1>3, <1>12 DEF Sumas
<1>17. ASSUME NEW q \in conMutex \ pisados' PROVE Sano(q)'
  <2>1. ListaVigente(q) \in Seq(Numeros) /\ Sano(q)
    BY <1>1, <1>3, ListaTipo
  <2>2. \A b \in ToSet(ListaVigente(q)) : disco'[b] = disco[b]
    BY <1>3
  <2> QED
    BY <1>12, <1>13, <2>1, <2>2, SanoSigue
<1>18. ASSUME p \notin pisados' PROVE Sano(p)'
  <2>1. disco[i] = Nadie
    BY <1>3, <1>18
  <2>2. Dentro(p)' = {}
    BY <1>9, <1>12, <1>3, <1>4, <1>5 DEF Dentro, ConArchivo
  <2>3. Cuenta(p)' = SinDatos
    <3> SUFFICES ASSUME NEW y \in Posiciones PROVE Contados(p, y)' = 0
      BY DEF Cuenta, SinDatos
    <3>1. \A n \in Mensajes : Suma(n)' => Pokemon[n] # p
      BY <1>1, <1>6, <1>12 DEF Sumas
    <3>2. /\ {n \in Sumados' : Tipo[n] = "NEW" /\ Pokemon[n] = p /\ Posicion[n] = y} = {}
          /\ {n \in Sumados' : Tipo[n] = "CATCH" /\ Pokemon[n] = p /\ Posicion[n] = y} = {}
      BY <3>1 DEF Sumados
    <3>3. Suman(Sumados', p, y) = 0
      BY <3>2, FS_EmptySet DEF Suman
    <3> QED
      BY <3>3, ContadosEs
  <2>4. SinDatos \in Datos /\ Tam(SinDatos) = 0 /\ TamBloque \in Nat \ {0}
    <3>1. SinDatos \in Datos
      BY DEF SinDatos, Datos
    <3> QED
      BY <3>1, TamTipo, GameCardAssumption
  <2>5. Nulo \notin ToSet(<<i>>)
    BY <1>6 DEF ToSet, Nulo, Bloques, SinBloque
  <2>6. EnteroEn(disco', <<i>>, SinDatos)
    BY <1>3, <2>1, <2>4 DEF EnteroEn
  <2>7. Entero(ListaVigente(p), Cuenta(p))'
    BY <1>14, <2>3, <2>6 DEF Entero, EnteroEn
  <2>8. TamBloque * (Len(<<i>>) - 1) <= Tam(SinDatos) /\ Tam(SinDatos) < TamBloque * Len(<<i>>)
    BY <2>4
  <2> QED
    BY <1>14, <2>2, <2>3, <2>4, <2>5, <2>7, <2>8 DEF Sano
<1> QED
  BY <1>2, <1>3, <1>10, <1>11, <1>15, <1>16, <1>17, <1>18 DEF IInv

-----------------------------------------------------------------------------
(* The blocks of a file are read.                                          *)

(* Blocks that hold some lines whole say those lines and no others. *)
LEMMA LeidosDeEntero ==
  ASSUME TypeOK, NEW lista \in Seq(Numeros), Len(lista) >= 1, NEW c \in Datos, Entero(lista, c)
  PROVE  \A d \in Leidos(lista) : d = c
<1> DEFINE escritos == {disco[b].datos : b \in {e \in ToSet(lista) : disco[e] # Nadie}} \cup {SinDatos}
           enteros == {f \in escritos : Entero(lista, f)}
           b1 == lista[1]
<1>1. /\ 1 \in DOMAIN lista /\ b1 \in ToSet(lista) /\ ToSet(lista) \subseteq Numeros
      /\ Len(lista) \in Nat
  BY LenProperties, ElementOfSeq DEF ToSet
<1>2. \A f \in Datos : Entero(lista, f) =>
        disco[b1] = IF Tam(f) > 0 THEN [datos |-> f, parte |-> 1] ELSE Nadie
  <2>1. TamBloque * (1 - 1) = 0
    BY GameCardAssumption
  <2> QED
    BY <1>1, <2>1 DEF Entero
<1>3. \A f \in Datos : Tam(f) \in Nat /\ (Tam(f) = 0 <=> f = SinDatos)
  BY TamTipo
<1>4. \A f \in Datos : [datos |-> f, parte |-> 1] # Nadie
  BY NadieAssumption DEF Partes
<1>5. escritos \subseteq Datos
  BY <1>1 DEF TypeOK, Partes, SinDatos, Datos
<1>6. c \in escritos
  <2>1. CASE Tam(c) = 0
    BY <1>3, <2>1
  <2>2. CASE Tam(c) # 0
    <3>1. disco[b1] = [datos |-> c, parte |-> 1] /\ disco[b1] # Nadie
      BY <1>2, <1>3, <1>4, <2>2
    <3>2. disco[b1].datos = c
      BY <3>1
    <3> HIDE DEF b1
    <3> QED
      BY <1>1, <3>1, <3>2
  <2> QED
    BY <2>1, <2>2
<1>7. \A f \in enteros : f = c
  <2> SUFFICES ASSUME NEW f \in Datos, Entero(lista, f) PROVE f = c
    BY <1>5
  <2>1. disco[b1] = IF Tam(f) > 0 THEN [datos |-> f, parte |-> 1] ELSE Nadie
    BY <1>2
  <2>2. disco[b1] = IF Tam(c) > 0 THEN [datos |-> c, parte |-> 1] ELSE Nadie
    BY <1>2
  <2>3. Tam(f) > 0 <=> Tam(c) > 0
    BY <1>4, <2>1, <2>2
  <2>4. CASE Tam(c) > 0
    <3>1. [datos |-> f, parte |-> 1] = [datos |-> c, parte |-> 1]
      BY <2>1, <2>2, <2>3, <2>4
    <3>2. [datos |-> f, parte |-> 1].datos = [datos |-> c, parte |-> 1].datos
      BY <3>1
    <3> QED
      BY <3>2
  <2>5. CASE ~(Tam(c) > 0)
    BY <1>3, <2>3, <2>5
  <2> QED
    BY <2>4, <2>5
<1>8. Leidos(lista) = enteros
  <2>1. enteros # {}
    BY <1>6
  <2>2. Leidos(lista) = IF enteros # {} THEN enteros
                        ELSE UNION {{[x \in Posiciones |-> IF x \in s THEN f[x] ELSE 0] : s \in SUBSET Posiciones}
                                    : f \in escritos}
    BY DEF Leidos
  <2> HIDE DEF enteros, escritos
  <2> QED
    BY <2>1, <2>2
<1> QED
  BY <1>7, <1>8

(* A block more or less. *)
LEMMA Bloques1 ==
  ASSUME NEW n \in Int
  PROVE  /\ TamBloque * n \in Int /\ TamBloque \in Nat \ {0}
         /\ TamBloque * (n + 1) = TamBloque * n + TamBloque
         /\ TamBloque * (n - 1) = TamBloque * n - TamBloque
         /\ TamBloque * (n - 2) = TamBloque * n - TamBloque - TamBloque
<1>1. TamBloque \in Nat \ {0}
  BY GameCardAssumption
<1>2. \A t \in Nat : t * (n + 1) = t * n + t /\ t * (n - 1) = t * n - t /\ t * (n - 2) = t * n - t - t /\ t * n \in Int
  OBVIOUS
<1> QED
  BY <1>1, <1>2

(* The frame of a step of the thread that has the file of p open. *)
LEMMA PropioDespues ==
  ASSUME TypeOK, Candados, NEW m \in Mensajes, NEW x, hilos' = [hilos EXCEPT ![m] = x],
         hilos[m].paso \in ConArchivo, x.paso \in ConArchivo,
         UNCHANGED <<archivos, conMutex, mCrear, HayBitmap>>
  PROVE  /\ Candados' /\ HayBitmap /\ Pokemon[m] \in conMutex /\ Dentro(Pokemon[m]) = {m} /\ Dentro(Pokemon[m])' = {m}
         /\ hilos'[m] = x
         /\ hilos[m].paso \in ConListaNueva => ListaVigente(Pokemon[m]) = hilos[m].lista
         /\ hilos[m].paso \notin ConListaNueva => ListaVigente(Pokemon[m]) = archivos[Pokemon[m]].bloques
         /\ x.paso \in ConListaNueva => ListaVigente(Pokemon[m])' = x.lista
         /\ x.paso \notin ConListaNueva => ListaVigente(Pokemon[m])' = archivos[Pokemon[m]].bloques
         /\ \A q \in conMutex : q # Pokemon[m] => ListaVigente(q)' = ListaVigente(q)
         /\ (Suma(m)' <=> Suma(m)) => Cuenta(Pokemon[m])' = Cuenta(Pokemon[m])
<1>1. hilos'[m] = x /\ \A n \in Mensajes : n # m => hilos'[n] = hilos[n]
  BY UnHilo
<1>2. Candados'
  <2>1. x.paso \notin Creando /\ x.paso # "crear"
    BY DEF ConArchivo, Creando
  <2> QED
    BY <2>1, CandadosSiguen
<1>3. ASSUME NEW q \in conMutex, q # Pokemon[m] PROVE ListaVigente(q)' = ListaVigente(q)
  <2>1. \A n \in Mensajes : Pokemon[n] = q => hilos'[n] = hilos[n]
    BY <1>1, <1>3
  <2> QED
    BY <2>1, ListaSigue
<1>4. (Suma(m)' <=> Suma(m)) => Cuenta(Pokemon[m])' = Cuenta(Pokemon[m])
  <2> SUFFICES ASSUME Suma(m)' <=> Suma(m) PROVE Cuenta(Pokemon[m])' = Cuenta(Pokemon[m])
    OBVIOUS
  <2>1. \A n \in Mensajes : Suma(n)' <=> Suma(n)
    BY <1>1 DEF Suma, Escrito
  <2> QED
    BY <2>1, CuentaSigue
<1>5. Pokemon[m] \in conMutex /\ HayBitmap
  BY DEF Candados
<1>6. Dentro(Pokemon[m]) = {m}
      /\ (hilos[m].paso \in ConListaNueva => ListaVigente(Pokemon[m]) = hilos[m].lista)
      /\ (hilos[m].paso \notin ConListaNueva => ListaVigente(Pokemon[m]) = archivos[Pokemon[m]].bloques)
  BY Adentro
<1>7. Dentro(Pokemon[m])' = {m}
      /\ (hilos'[m].paso \in ConListaNueva => ListaVigente(Pokemon[m])' = hilos'[m].lista)
      /\ (hilos'[m].paso \notin ConListaNueva => ListaVigente(Pokemon[m])' = archivos'[Pokemon[m]].bloques)
  BY <1>1, <1>2, AdentroDespues
<1> QED
  BY <1>1, <1>2, <1>3, <1>4, <1>5, <1>6, <1>7

LEMMA LeerPreserva ==
  ASSUME IInv, NEW m \in Mensajes, Leer(m)
  PROVE  IInv'
<1> DEFINE p == Pokemon[m]
           l == archivos[p].bloques
<1>1. TypeOK /\ Candados /\ (\A n \in Mensajes : Sabe(n)) /\ Duenios /\ Sumas /\ \A q \in conMutex \ pisados : Sano(q)
  BY DEF IInv
<1>2. TypeOK'
  BY <1>1, TipoDeAtender DEF Atender
<1>3. /\ hilos[m].paso = "leer" /\ hilos[m].paso \in ConArchivo /\ SinBloque \notin ToSet(l)
      /\ UNCHANGED <<archivos, disco, ocupados, conMutex, mCrear, HayBitmap, pisados>>
  <2>1. SinBloque \notin existen
    BY <1>1 DEF TypeOK, SinBloque, Nulo, Bloques
  <2> QED
    BY <2>1 DEF Leer, En, HayBitmap, HayBitmap, ConArchivo
<1>4. p \in conMutex /\ ListaVigente(p) = l /\ Dentro(p) = {m}
  BY <1>1, <1>3, Adentro DEF ConListaNueva
<1>5. PICK datos \in Leidos(l) : \E x \in Hilos :
           /\ datos \in Datos /\ hilos' = [hilos EXCEPT ![m] = x]
           /\ Tipo[m] = "GET" => x.paso = "cerrar"
           /\ Tipo[m] # "GET" =>
                /\ x.i \in Bloques /\ x.lista = l
                /\ x.datos = Cambio(m, datos)
                /\ x.paso = Decidir(Tam(x.datos), Len(x.lista))
                /\ x.resultado <=> Tipo[m] = "CATCH" /\ datos[Posicion[m]] > 0
  BY <1>1, <1>4, LeerHilo
<1>6. PICK x \in Hilos :
           /\ datos \in Datos /\ hilos' = [hilos EXCEPT ![m] = x]
           /\ Tipo[m] = "GET" => x.paso = "cerrar"
           /\ Tipo[m] # "GET" =>
                /\ x.i \in Bloques /\ x.lista = l
                /\ x.datos = Cambio(m, datos)
                /\ x.paso = Decidir(Tam(x.datos), Len(x.lista))
                /\ x.resultado <=> Tipo[m] = "CATCH" /\ datos[Posicion[m]] > 0
  BY <1>5
<1>7. l \in Seq(Numeros) /\ Len(l) >= 1 /\ Len(l) \in Nat
  <2>1. l \in Seq(Numeros)
    BY <1>1, <1>4, ListaTipo
  <2> QED
    BY <1>1, <1>4, <2>1, LenProperties DEF Duenios
<1> HIDE DEF l
<1>8. CASE Tipo[m] = "GET"
  <2>1. x.paso = "cerrar" /\ hilos'[m] = x
    BY <1>1, <1>6, <1>8, UnHilo
  <2>2. Candados'
    BY <1>1, <1>3, <1>6, <2>1, CandadosSiguen DEF ConArchivo, Creando
  <2>3. Sabe(m)'
    BY <2>1 DEF Sabe, ConMano, ConDatos, AntesDeLaLista
  <2>4. Suma(m)' <=> Suma(m)
    BY <1>8 DEF Suma
  <2>5. /\ x.paso \notin ConListaNueva \cup ConMano \cup ConDatos
        /\ hilos[m].paso \notin ConListaNueva \cup ConMano \cup ConDatos
    BY <1>3, <2>1 DEF ConListaNueva, ConMano, ConDatos
  <2> QED
    BY <1>2, <1>3, <1>6, <2>2, <2>3, <2>4, <2>5, LlanoPreserva
<1>9. CASE Tipo[m] # "GET"
  <2> DEFINE n == Len(l)
             T == Tam(x.datos)
  <2>1. /\ x.lista = l /\ x.datos = Cambio(m, datos) /\ x.datos \in Datos /\ T \in Nat
        /\ x.paso = Decidir(T, n)
        /\ x.resultado <=> Tipo[m] = "CATCH" /\ datos[Posicion[m]] > 0
    BY <1>6, <1>9, CambioTipo
  <2>2. x.paso \in {"otroBloque", "caer", "liberar", "escribir"} /\ x.paso \in ConArchivo /\ x.paso \in ConDatos
    BY <2>1 DEF Decidir, ConArchivo, ConDatos
  <2>3. /\ Candados' /\ hilos'[m] = x /\ Dentro(p)' = {m} /\ HayBitmap
        /\ \A q \in conMutex : q # p => ListaVigente(q)' = ListaVigente(q)
        /\ ListaVigente(p)' = l
        /\ (Suma(m)' <=> Suma(m)) => Cuenta(p)' = Cuenta(p)
    BY <1>1, <1>3, <1>6, <2>1, <2>2, PropioDespues DEF l
  <2>4. Cuenta(p)' = Cuenta(p)
    <3>1. Suma(m)' <=> Suma(m)
      BY <1>3, <2>2, <2>3 DEF Suma, Escrito
    <3> QED
      BY <2>3, <3>1
  <2>5. x.paso = "liberar" => T < TamBloque * (n - 1)
    BY <2>1 DEF Decidir
  <2>6. Sabe(m)'
    <3>1. x.paso = "liberar" => Len(x.lista) >= 2
      <4>1. n = 1 => TamBloque * (n - 1) = 0
        BY GameCardAssumption
      <4>2. T \in Nat /\ n \in Nat /\ n >= 1 /\ Len(x.lista) = n
        BY <1>7, <2>1
      <4> HIDE DEF T, n
      <4>3. x.paso = "liberar" => n # 1
        BY <2>5, <4>1, <4>2
      <4> QED
        BY <4>2, <4>3
    <3>2. x.i \in Bloques
      BY <1>6, <1>9
    <3> QED
      BY <1>3, <1>7, <2>1, <2>2, <2>3, <3>1, <3>2 DEF Sabe, ConMano, l
  <2>7. Duenios'
    <3>1. \A q \in conMutex : ListaVigente(q)' = ListaVigente(q)
      BY <1>4, <2>3
    <3>2. \A k \in Mensajes :
             /\ hilos'[k].paso \in ConMano <=> hilos[k].paso \in ConMano
             /\ hilos[k].paso \in ConMano => hilos'[k].i = hilos[k].i
      <4>1. \A k \in Mensajes : k # m => hilos'[k] = hilos[k]
        BY <1>1, <1>6, UnHilo
      <4> QED
        BY <1>3, <2>2, <2>3, <4>1 DEF ConMano
    <3> QED
      BY <1>1, <1>3, <3>1, <3>2, DueniosSiguen
  <2>8. ASSUME p \notin pisados' PROVE Sano(p)'
    <3> DEFINE c == Cuenta(p)
    <3>1. SanoCon(m, hilos[m], l, c, disco)
      BY <1>1, <1>3, <1>4, <2>8, SanoDeUno
    <3>2. /\ c \in Datos /\ Nulo \notin ToSet(l) /\ EnteroEn(disco, l, c)
          /\ TamBloque * (n - 1) <= Tam(c) /\ Tam(c) < TamBloque * n
      BY <1>3, <3>1 DEF SanoCon, Rehaciendo, ConDatos
    <3>3. Entero(l, c)
      BY <3>2 DEF Entero, EnteroEn
    <3> HIDE DEF c
    <3>4. datos = c
      BY <1>1, <1>5, <1>7, <3>2, <3>3, LeidosDeEntero
    <3>5. Tam(c) \in Nat /\ T <= Tam(c) + TamBloque /\ Tam(c) <= T + TamBloque /\ (Tipo[m] = "NEW" => Tam(c) <= T)
      BY <2>1, <3>2, <3>4, CambioTipo
    <3>6. /\ TamBloque * n \in Int /\ TamBloque \in Nat \ {0}
          /\ TamBloque * (n + 1) = TamBloque * n + TamBloque
          /\ TamBloque * (n - 1) = TamBloque * n - TamBloque
          /\ TamBloque * (n - 2) = TamBloque * n - TamBloque - TamBloque
      BY <1>7, Bloques1
    <3>7. /\ x.paso = "otroBloque" => TamBloque * n < T /\ T < TamBloque * (n + 1)
          /\ x.paso = "liberar" => /\ Tipo[m] # "NEW"
                                   /\ TamBloque * (n - 2) <= T /\ T < TamBloque * (n - 1)
          /\ x.paso = "escribir" => TamBloque * (n - 1) <= T /\ T # TamBloque * n
      <4> HIDE DEF n, T
      <4> DEFINE a == TamBloque * n
      <4>1. a \in Int /\ TamBloque * (n + 1) = a + TamBloque /\ TamBloque * (n - 1) = a - TamBloque
            /\ TamBloque * (n - 2) = a - TamBloque - TamBloque
        BY <3>6
      <4>2. a - TamBloque <= Tam(c) /\ Tam(c) < a
        BY <3>2, <4>1
      <4>3. x.paso = IF T > a THEN "otroBloque" ELSE IF T = a THEN "caer"
                     ELSE IF T < a - TamBloque THEN "liberar" ELSE "escribir"
        BY <2>1, <4>1 DEF Decidir
      <4> HIDE DEF a
      <4>4. /\ x.paso = "otroBloque" => a < T /\ T < a + TamBloque
            /\ x.paso = "liberar" => Tipo[m] # "NEW" /\ a - TamBloque - TamBloque <= T /\ T < a - TamBloque
            /\ x.paso = "escribir" => a - TamBloque <= T /\ T # a
        BY <2>1, <3>5, <3>6, <4>1, <4>2, <4>3
      <4> QED
        BY <4>1, <4>4 DEF a
    <3>8. Escribira(m, x, c)
      <4>1. Tipo[m] # "NEW" => Tipo[m] = "CATCH"
        BY <1>9, MensajeTipo
      <4>2. x.paso # "vaciar" /\ x.paso # "agregar"
        BY <2>2
      <4>3. x.datos = Cambio(m, c) /\ (x.resultado <=> Tipo[m] = "CATCH" /\ c[Posicion[m]] > 0)
        BY <2>1, <3>4
      <4>4. Len(x.lista) = n
        BY <2>1
      <4> HIDE DEF n
      <4> QED
        BY <1>9, <3>7, <4>1, <4>2, <4>3, <4>4 DEF Escribira, Rehaciendo
    <3>9. SanoCon(m, x, l, c, disco)
      BY <2>2, <3>2, <3>8 DEF SanoCon
    <3> QED
      BY <1>3, <2>3, <2>4, <3>9, SanoDeUnoDespues DEF c
  <2>9. \A q \in conMutex \ pisados' : q # p => \A b \in ToSet(ListaVigente(q)) : disco'[b] = disco[b]
    BY <1>3
  <2> QED
    BY <1>2, <1>3, <1>6, <2>2, <2>6, <2>7, <2>8, <2>9, PropioPreserva
<1> QED
  BY <1>8, <1>9

-----------------------------------------------------------------------------
(* The file grows.                                                         *)

LEMMA BuscarOtroPreserva ==
  ASSUME IInv, NEW m \in Mensajes, BuscarOtro(m)
  PROVE  IInv'
<1> DEFINE p == Pokemon[m]
           l == archivos[p].bloques
<1>1. TypeOK /\ Candados /\ (\A n \in Mensajes : Sabe(n)) /\ Duenios /\ Sumas /\ \A q \in conMutex \ pisados : Sano(q)
  BY DEF IInv
<1>2. TypeOK'
  BY <1>1, TipoDeAtender DEF Atender
<1>3. /\ hilos[m].paso = "otroBloque" /\ hilos[m].i \in Bloques
      /\ hilos[m].paso \in ConArchivo /\ hilos[m].paso \notin ConListaNueva /\ hilos[m].paso \notin ConMano
      /\ ProbarBloque(m, "agregar") /\ "agregar" \in Pasos
      /\ UNCHANGED <<archivos, disco, conMutex, mCrear, HayBitmap, pisados>>
  BY <1>1 DEF BuscarOtro, En, HayBitmap, Sabe, ConArchivo, ConListaNueva, ConMano, Pasos
<1>4. PICK x \in Hilos :
         /\ hilos' = [hilos EXCEPT ![m] = x]
         /\ x.lista = hilos[m].lista /\ x.datos = hilos[m].datos /\ x.resultado = hilos[m].resultado
         /\ \/ x.paso = "agregar" /\ x.i = hilos[m].i /\ x.i \notin ocupados /\ ocupados' = ocupados \cup {x.i}
            \/ x.paso = hilos[m].paso /\ x.i \in Bloques /\ ocupados' = ocupados
            \/ x.paso = "agregar" /\ x.i = SinBloque /\ ocupados' = ocupados
  BY <1>1, <1>3, ProbarHilo
<1>5. x.paso \in {"otroBloque", "agregar"} /\ x.paso \in ConArchivo /\ x.paso \notin ConListaNueva /\ x.paso \in ConDatos
  BY <1>3, <1>4 DEF ConArchivo, ConListaNueva, ConDatos
<1>6. /\ Candados' /\ HayBitmap /\ p \in conMutex /\ Dentro(p) = {m} /\ Dentro(p)' = {m}
      /\ hilos'[m] = x
      /\ ListaVigente(p) = l /\ ListaVigente(p)' = l
      /\ \A q \in conMutex : q # p => ListaVigente(q)' = ListaVigente(q)
      /\ (Suma(m)' <=> Suma(m)) => Cuenta(p)' = Cuenta(p)
  BY <1>1, <1>3, <1>4, <1>5, PropioDespues
<1>7. Cuenta(p)' = Cuenta(p)
  <2>1. Suma(m)' <=> Suma(m)
    BY <1>3, <1>5, <1>6 DEF Suma, Escrito
  <2> QED
    BY <1>6, <2>1
<1>8. Sabe(m)'
  <2>1. hilos[m].paso \in ConDatos /\ hilos[m].paso \in AntesDeLaLista
    BY <1>3 DEF ConDatos, AntesDeLaLista
  <2>2. SinBloque \notin ToSet(x.lista) /\ Len(x.lista) >= 1 /\ x.lista = l
    BY <1>1, <1>4, <2>1 DEF Sabe
  <2> QED
    BY <1>3, <1>4, <1>5, <1>6, <2>2 DEF Sabe, ConMano
<1>9. \A q \in conMutex : ListaVigente(q)' = ListaVigente(q)
  BY <1>6
<1>10. Duenios'
  <2>1. CASE x.paso = "otroBloque"
    <3>1. x.paso \notin ConMano /\ ocupados' = ocupados
      BY <1>4, <2>1 DEF ConMano
    <3>2. \A k \in Mensajes : k # m => hilos'[k] = hilos[k]
      BY <1>1, <1>4, UnHilo
    <3>3. \A k \in Mensajes :
             /\ hilos'[k].paso \in ConMano <=> hilos[k].paso \in ConMano
             /\ hilos[k].paso \in ConMano => hilos'[k].i = hilos[k].i
      BY <1>3, <1>6, <3>1, <3>2
    <3> QED
      BY <1>1, <1>3, <1>9, <3>1, <3>3, DueniosSiguen
  <2>2. CASE x.paso = "agregar"
    <3>1. x.paso \in ConMano
      BY <2>2 DEF ConMano
    <3>2. \/ x.i = SinBloque /\ ocupados' = ocupados
          \/ x.i \in Bloques /\ x.i \notin ocupados /\ ocupados' = ocupados \cup {x.i}
      BY <1>3, <1>4, <2>2
    <3> QED
      BY <1>1, <1>3, <1>4, <1>6, <1>9, <3>1, <3>2, TomarBloque
  <2> QED
    BY <1>5, <2>1, <2>2
<1>11. ASSUME p \notin pisados' PROVE Sano(p)'
  <2> PICK c : c = Cuenta(p)
    OBVIOUS
  <2>1. SanoCon(m, hilos[m], l, c, disco)
    BY <1>1, <1>3, <1>6, <1>11, SanoDeUno
  <2>2. hilos[m].paso \in ConDatos /\ hilos[m].paso \notin Rehaciendo /\ x.paso \notin Rehaciendo
    BY <1>3, <1>5 DEF ConDatos, Rehaciendo
  <2>3. Escribira(m, x, c)
    <3>1. Escribira(m, hilos[m], c)
      BY <2>1, <2>2 DEF SanoCon
    <3>2. x.paso # "liberar" /\ x.paso # "vaciar"
      BY <1>5
    <3> QED
      BY <1>3, <1>4, <2>2, <3>1, <3>2 DEF Escribira
  <2>4. SanoCon(m, x, l, c, disco)
    BY <1>5, <2>1, <2>2, <2>3 DEF SanoCon
  <2> QED
    BY <1>3, <1>6, <1>7, <2>4, SanoDeUnoDespues
<1>12. \A q \in conMutex \ pisados' : q # p => \A b \in ToSet(ListaVigente(q)) : disco'[b] = disco[b]
  BY <1>3
<1> QED
  BY <1>2, <1>3, <1>4, <1>5, <1>8, <1>10, <1>11, <1>12, PropioPreserva

LEMMA AgregarPreserva ==
  ASSUME IInv, NEW m \in Mensajes, AgregarBloque(m)
  PROVE  IInv'
<1> DEFINE p == Pokemon[m]
<1>0. PICK l : l = archivos[p].bloques
  OBVIOUS
<1>00. PICK i : i = hilos[m].i
  OBVIOUS
<1>1. TypeOK /\ Candados /\ (\A n \in Mensajes : Sabe(n)) /\ Duenios /\ Sumas /\ \A q \in conMutex \ pisados : Sano(q)
  BY DEF IInv
<1>2. TypeOK'
  BY <1>1, TipoDeAtender DEF Atender
<1>3. /\ hilos[m].paso = "agregar"
      /\ hilos[m].paso \in ConArchivo /\ hilos[m].paso \notin ConListaNueva /\ hilos[m].paso \in ConMano
      /\ hilos[m].paso \in ConDatos /\ hilos[m].paso \in AntesDeLaLista /\ hilos[m].paso \notin Rehaciendo
      /\ UNCHANGED <<archivos, disco, ocupados, conMutex, mCrear, HayBitmap, pisados>>
  BY DEF AgregarBloque, En, HayBitmap, ConArchivo, ConListaNueva, ConMano, ConDatos, AntesDeLaLista, Rehaciendo
<1>4. i \in Bloques \cup {SinBloque} /\ hilos[m].lista = l /\ SinBloque \notin ToSet(l) /\ Len(l) >= 1
  BY <1>0, <1>00, <1>1, <1>3 DEF Sabe
<1>5. PICK x \in Hilos :
         /\ hilos' = [hilos EXCEPT ![m] = x]
         /\ x.paso = "escribir" /\ x.datos = hilos[m].datos /\ x.resultado = hilos[m].resultado
         /\ x.lista = (IF i = SinBloque THEN l ELSE Append(l, i))
  BY <1>00, <1>1, <1>4, AgregarHilo
<1>6. x.paso \in ConArchivo /\ x.paso \in ConListaNueva /\ x.paso \in ConDatos /\ x.paso \notin ConMano /\ x.paso \in Rehaciendo
  BY <1>5 DEF ConArchivo, ConListaNueva, ConDatos, ConMano, Rehaciendo
<1>7. /\ Candados' /\ HayBitmap /\ p \in conMutex /\ Dentro(p) = {m} /\ Dentro(p)' = {m}
      /\ hilos'[m] = x
      /\ ListaVigente(p) = l /\ ListaVigente(p)' = x.lista
      /\ \A q \in conMutex : q # p => ListaVigente(q)' = ListaVigente(q)
      /\ (Suma(m)' <=> Suma(m)) => Cuenta(p)' = Cuenta(p)
  BY <1>0, <1>1, <1>3, <1>5, <1>6, PropioDespues
<1>8. Cuenta(p)' = Cuenta(p)
  <2>1. Suma(m)' <=> Suma(m)
    BY <1>3, <1>5, <1>7 DEF Suma, Escrito
  <2> QED
    BY <1>7, <2>1
<1>9. l \in Seq(Numeros) /\ Len(l) \in Nat /\ SinRepetidos(l)
  <2>1. l \in Seq(Numeros)
    BY <1>1, <1>7, ListaTipo
  <2> QED
    BY <1>1, <1>7, <2>1, LenProperties DEF Duenios
<1>10. i \notin ToSet(l) \/ i = SinBloque
  <2>1. i \notin DeArchivo(p)
    BY <1>00, <1>1, <1>3, <1>7 DEF Duenios
  <2> QED
    BY <1>4, <1>7, <2>1 DEF DeArchivo
<1>11. /\ x.lista \in Seq(Numeros) /\ Len(x.lista) = (IF i = SinBloque THEN Len(l) ELSE Len(l) + 1)
       /\ ToSet(x.lista) = ToSet(l) \cup ({i} \ {SinBloque})
       /\ SinRepetidos(x.lista)
  <2>1. CASE i = SinBloque
    BY <1>5, <1>9, <2>1
  <2>2. CASE i # SinBloque
    <3>1. i \in Numeros /\ x.lista = Append(l, i)
      BY <1>4, <1>5, <2>2 DEF Numeros
    <3>2. /\ Append(l, i) \in Seq(Numeros) /\ Len(Append(l, i)) = Len(l) + 1
          /\ \A k \in 1..Len(l) : Append(l, i)[k] = l[k]
          /\ Append(l, i)[Len(l) + 1] = i
      BY <1>9, <3>1, AppendProperties
    <3>3. DOMAIN l = 1..Len(l) /\ DOMAIN x.lista = 1..(Len(l) + 1)
      BY <1>9, <3>1, <3>2, LenProperties
    <3>4. ToSet(x.lista) = ToSet(l) \cup {i}
      <4>1. ToSet(x.lista) = {x.lista[k] : k \in 1..(Len(l) + 1)} /\ ToSet(l) = {l[k] : k \in 1..Len(l)}
        BY <3>3 DEF ToSet
      <4>2. 1..(Len(l) + 1) = (1..Len(l)) \cup {Len(l) + 1}
        BY <1>9
      <4> QED
        BY <3>1, <3>2, <4>1, <4>2
    <3>5. SinRepetidos(x.lista)
      <4> SUFFICES ASSUME NEW j \in 1..(Len(l) + 1), NEW k \in 1..(Len(l) + 1), x.lista[j] = x.lista[k], x.lista[j] \in Bloques
                   PROVE  j = k
        BY <3>3 DEF SinRepetidos
      <4>1. \A n \in 1..(Len(l) + 1) : n \in 1..Len(l) \/ n = Len(l) + 1
        BY <1>9
      <4>2. \A n \in 1..Len(l) : x.lista[n] = l[n] /\ l[n] # i
        BY <1>10, <2>2, <3>1, <3>2, <3>3 DEF ToSet
      <4>3. x.lista[Len(l) + 1] = i
        BY <3>1, <3>2
      <4> QED
        BY <1>9, <3>3, <4>1, <4>2, <4>3 DEF SinRepetidos
    <3> QED
      BY <2>2, <3>1, <3>2, <3>4, <3>5
  <2> QED
    BY <2>1, <2>2
<1>12. Sabe(m)'
  <2>1. SinBloque \notin ToSet(x.lista) /\ Len(x.lista) >= 1
    BY <1>4, <1>9, <1>11
  <2> QED
    BY <1>5, <1>6, <1>7, <2>1 DEF Sabe, AntesDeLaLista
<1>13. Duenios'
  <2>1. DeArchivo(p)' = DeArchivo(p) \cup ({i} \ {SinBloque})
    BY <1>4, <1>7, <1>11 DEF DeArchivo
  <2>2. Len(ListaVigente(p)') >= 1 /\ SinRepetidos(ListaVigente(p)')
    BY <1>4, <1>7, <1>9, <1>11
  <2>3. conMutex' = conMutex \cup {p}
    BY <1>3, <1>7
  <2> QED
    BY <1>00, <1>1, <1>3, <1>4, <1>5, <1>6, <1>7, <2>1, <2>2, <2>3, DarBloque
<1>14. ASSUME p \notin pisados' PROVE Sano(p)'
  <2> PICK c : c = Cuenta(p)
    OBVIOUS
  <2>1. SanoCon(m, hilos[m], l, c, disco)
    BY <1>1, <1>3, <1>7, <1>14, SanoDeUno
  <2>2. c \in Datos /\ Nulo \notin ToSet(l) /\ Escribira(m, hilos[m], c)
    BY <1>3, <2>1 DEF SanoCon
  <2>3. Nulo \notin ToSet(x.lista)
    BY <1>4, <1>11, <2>2 DEF Nulo, Bloques
  <2>4. Escribira(m, x, c)
    <3>1. /\ Tipo[m] # "GET" /\ x.datos = Cambio(m, c)
          /\ x.resultado <=> Tipo[m] = "CATCH" /\ c[Posicion[m]] > 0
          /\ TamBloque * Len(l) < Tam(x.datos) /\ Tam(x.datos) < TamBloque * (Len(l) + 1)
      BY <1>3, <1>4, <1>5, <2>2 DEF Escribira
    <3>2. Tam(x.datos) \in Nat
      BY <2>2, <3>1, CambioTipo
    <3>3. TamBloque * (Len(x.lista) - 1) <= Tam(x.datos) /\ Tam(x.datos) # TamBloque * Len(x.lista)
      <4> DEFINE a == TamBloque * Len(l)
      <4>1. /\ a \in Int /\ TamBloque * (Len(l) + 1) = a + TamBloque /\ TamBloque * (Len(l) - 1) = a - TamBloque
            /\ TamBloque \in Nat \ {0}
        BY <1>9, Bloques1
      <4>2. a < Tam(x.datos) /\ Tam(x.datos) < a + TamBloque
        BY <3>1, <4>1
      <4>3. CASE i = SinBloque
        <5>1. Len(x.lista) = Len(l)
          BY <1>11, <4>3
        <5>2. TamBloque * (Len(x.lista) - 1) = a - TamBloque /\ TamBloque * Len(x.lista) = a
          BY <4>1, <5>1
        <5> HIDE DEF a
        <5> QED
          BY <3>2, <4>1, <4>2, <5>2
      <4>4. CASE i # SinBloque
        <5>1. Len(x.lista) = Len(l) + 1 /\ Len(x.lista) - 1 = Len(l)
          BY <1>9, <1>11, <4>4
        <5>2. TamBloque * (Len(x.lista) - 1) = a /\ TamBloque * Len(x.lista) = a + TamBloque
          BY <4>1, <5>1
        <5> HIDE DEF a
        <5> QED
          BY <3>2, <4>1, <4>2, <5>2
      <4> QED
        BY <4>3, <4>4
    <3> QED
      BY <1>5, <3>1, <3>3 DEF Escribira
  <2>5. SanoCon(m, x, x.lista, c, disco)
    BY <1>6, <2>2, <2>3, <2>4 DEF SanoCon
  <2> QED
    BY <1>3, <1>7, <1>8, <2>5, SanoDeUnoDespues
<1>15. \A q \in conMutex \ pisados' : q # p => \A b \in ToSet(ListaVigente(q)) : disco'[b] = disco[b]
  BY <1>3
<1> QED
  BY <1>2, <1>3, <1>5, <1>6, <1>12, <1>13, <1>14, <1>15, PropioPreserva

-----------------------------------------------------------------------------
(* The file shrinks.                                                       *)

(* A list without its last block, alone or with a NULL in its place. *)
LEMMA ListaSinUltimo ==
  ASSUME NEW l \in Seq(Numeros), Len(l) >= 2, SinRepetidos(l), NEW r,
         r = Front(l) \/ r = Append(Front(l), Nulo)
  PROVE  /\ Last(l) \in ToSet(l)
         /\ r \in Seq(Numeros) /\ Len(r) \in Nat /\ Len(r) >= 1 /\ SinRepetidos(r)
         /\ ToSet(r) \subseteq ToSet(l) \cup {Nulo}
         /\ r = Front(l) => Len(r) = Len(l) - 1 /\ ToSet(r) \subseteq ToSet(l)
         /\ \A b \in Bloques : b \in ToSet(r) <=> b \in ToSet(l) /\ b # Last(l)
<1> DEFINE n == Len(l)
<1>1. n \in Nat /\ n >= 2 /\ DOMAIN l = 1..n /\ ToSet(l) = {l[k] : k \in 1..n}
  BY LenProperties DEF ToSet
<1>2. PICK f : f = Front(l)
  OBVIOUS
<1>3. /\ f \in Seq(Numeros) /\ Len(f) = n - 1 /\ (\A k \in 1..(n - 1) : f[k] = l[k]) /\ Last(l) = l[n]
  BY <1>2, FrontTipo
<1>4. DOMAIN f = 1..(n - 1) /\ ToSet(f) = {f[k] : k \in 1..(n - 1)}
  BY <1>1, <1>3, LenProperties DEF ToSet
<1>5. Nulo \in Numeros /\ Nulo \notin Bloques
  BY DEF Numeros, Nulo, Bloques
<1>6. /\ Append(f, Nulo) \in Seq(Numeros) /\ Len(Append(f, Nulo)) = n
      /\ (\A k \in 1..(n - 1) : Append(f, Nulo)[k] = f[k]) /\ Append(f, Nulo)[n] = Nulo
  <2>1. /\ Append(f, Nulo) \in Seq(Numeros) /\ Len(Append(f, Nulo)) = Len(f) + 1
        /\ (\A k \in 1..Len(f) : Append(f, Nulo)[k] = f[k]) /\ Append(f, Nulo)[Len(f) + 1] = Nulo
    BY <1>3, <1>5, AppendProperties
  <2>2. Len(f) = n - 1 /\ Len(f) + 1 = n
    BY <1>1, <1>3
  <2> HIDE DEF n
  <2> QED
    BY <2>1, <2>2
<1>7. DOMAIN Append(f, Nulo) = 1..n
  BY <1>6, LenProperties
<1> HIDE DEF n
<1>8. 1..n = (1..(n - 1)) \cup {n} /\ n \notin 1..(n - 1)
  BY <1>1
<1>9. ToSet(Append(f, Nulo)) = ToSet(f) \cup {Nulo}
  BY <1>4, <1>6, <1>7, <1>8 DEF ToSet
<1>10. ToSet(r) = ToSet(f) \/ ToSet(r) = ToSet(f) \cup {Nulo}
  BY <1>2, <1>9
<1>11. \A b \in Bloques : b \in ToSet(f) <=> b \in ToSet(l) /\ b # Last(l)
  <2> SUFFICES ASSUME NEW b \in Bloques PROVE b \in ToSet(f) <=> b \in ToSet(l) /\ b # l[n]
    BY <1>3
  <2>1. b \in ToSet(f) <=> \E k \in 1..(n - 1) : b = l[k]
    BY <1>3, <1>4
  <2>2. b \in ToSet(l) <=> \E k \in 1..n : b = l[k]
    BY <1>1 DEF n
  <2>3. \A k \in 1..(n - 1) : b = l[k] => b # l[n]
    BY <1>1, <1>8 DEF SinRepetidos, n
  <2> QED
    BY <1>8, <2>1, <2>2, <2>3
<1>12. SinRepetidos(f)
  BY <1>1, <1>3, <1>4, <1>8 DEF SinRepetidos, n
<1>13. SinRepetidos(Append(f, Nulo))
  <2> SUFFICES ASSUME NEW j \in 1..n, NEW k \in 1..n, Append(f, Nulo)[j] = Append(f, Nulo)[k], Append(f, Nulo)[j] \in Bloques
               PROVE  j = k
    BY <1>7 DEF SinRepetidos
  <2>1. j \in 1..(n - 1) /\ k \in 1..(n - 1)
    BY <1>5, <1>6, <1>8
  <2> QED
    BY <1>4, <1>6, <1>12, <2>1 DEF SinRepetidos
<1>14. ToSet(f) \subseteq ToSet(l)
  BY <1>1, <1>3, <1>4, <1>8 DEF n
<1>15. Last(l) \in ToSet(l)
  BY <1>1, <1>3 DEF n
<1>16. r \in Seq(Numeros) /\ Len(r) \in Nat /\ Len(r) >= 1 /\ SinRepetidos(r) /\ (r = f => Len(r) = n - 1)
  <2>1. CASE r = f
    <3>1. Len(f) \in Nat /\ Len(f) >= 1
      BY <1>1, <1>3
    <3> QED
      BY <1>3, <1>12, <2>1, <3>1
  <2>2. CASE r = Append(f, Nulo) /\ r # f
    <3>1. n \in Nat /\ n >= 1
      BY <1>1
    <3> QED
      BY <1>6, <1>13, <2>2, <3>1
  <2> QED
    BY <1>2, <2>1, <2>2
<1> QED
  BY <1>2, <1>5, <1>10, <1>11, <1>14, <1>15, <1>16 DEF n

LEMMA LiberarPreserva ==
  ASSUME IInv, NEW m \in Mensajes, LiberarBloque(m)
  PROVE  IInv'
<1> DEFINE p == Pokemon[m]
<1>0. PICK l : l = archivos[p].bloques
  OBVIOUS
<1>00. PICK b : b = Last(l)
  OBVIOUS
<1>1. TypeOK /\ Candados /\ (\A n \in Mensajes : Sabe(n)) /\ Duenios /\ Sumas /\ \A q \in conMutex \ pisados : Sano(q)
  BY DEF IInv
<1>2. TypeOK'
  <2>1. hilos[m].paso = "liberar"
    BY DEF LiberarBloque, En, HayBitmap
  <2>2. Len(hilos[m].lista) >= 1
    BY <1>1, <2>1 DEF Sabe, ConDatos
  <2> QED
    BY <1>1, <2>2, TipoDeAtender DEF Atender
<1>3. /\ hilos[m].paso = "liberar"
      /\ hilos[m].paso \in ConArchivo /\ hilos[m].paso \notin ConListaNueva /\ hilos[m].paso \notin ConMano
      /\ hilos[m].paso \in ConDatos /\ hilos[m].paso \in AntesDeLaLista /\ hilos[m].paso \notin Rehaciendo
      /\ UNCHANGED <<archivos, disco, conMutex, mCrear, HayBitmap, pisados>>
  BY DEF LiberarBloque, En, HayBitmap, ConArchivo, ConListaNueva, ConMano, ConDatos, AntesDeLaLista, Rehaciendo
<1>4. hilos[m].lista = l /\ SinBloque \notin ToSet(l) /\ Len(l) >= 2
  BY <1>0, <1>1, <1>3 DEF Sabe
<1>5. ocupados' = ocupados \ {b}
  BY <1>00, <1>4 DEF LiberarBloque, LimpiarBit
<1>7. PICK x \in Hilos :
         /\ hilos' = [hilos EXCEPT ![m] = x]
         /\ x.paso = "vaciar" /\ x.datos = hilos[m].datos /\ x.resultado = hilos[m].resultado
         /\ x.i = b
         /\ x.lista = (IF Tipo[m] = "CATCH" THEN Front(l) ELSE Append(Front(l), Nulo))
  <2>1. Len(hilos[m].lista) >= 1
    BY <1>1, <1>3 DEF Sabe
  <2> QED
    BY <1>00, <1>1, <1>4, <2>1, LiberarHilo
<1>8. x.paso \in ConArchivo /\ x.paso \in ConListaNueva /\ x.paso \in ConDatos /\ x.paso \notin ConMano /\ x.paso \in Rehaciendo
  BY <1>7 DEF ConArchivo, ConListaNueva, ConDatos, ConMano, Rehaciendo
<1>9. /\ Candados' /\ HayBitmap /\ p \in conMutex /\ Dentro(p) = {m} /\ Dentro(p)' = {m}
      /\ hilos'[m] = x
      /\ ListaVigente(p) = l /\ ListaVigente(p)' = x.lista
      /\ \A q \in conMutex : q # p => ListaVigente(q)' = ListaVigente(q)
      /\ (Suma(m)' <=> Suma(m)) => Cuenta(p)' = Cuenta(p)
  BY <1>0, <1>1, <1>3, <1>7, <1>8, PropioDespues
<1>10. Cuenta(p)' = Cuenta(p)
  <2>1. Suma(m)' <=> Suma(m)
    BY <1>3, <1>7, <1>9 DEF Suma, Escrito
  <2> QED
    BY <1>9, <2>1
<1>11. l \in Seq(Numeros) /\ Len(l) \in Nat /\ SinRepetidos(l)
  <2>1. l \in Seq(Numeros)
    BY <1>1, <1>9, ListaTipo
  <2> QED
    BY <1>1, <1>9, <2>1, LenProperties DEF Duenios
<1>12. /\ b \in ToSet(l)
       /\ x.lista \in Seq(Numeros) /\ Len(x.lista) \in Nat /\ Len(x.lista) >= 1 /\ SinRepetidos(x.lista)
       /\ ToSet(x.lista) \subseteq ToSet(l) \cup {Nulo}
       /\ x.lista = Front(l) => Len(x.lista) = Len(l) - 1 /\ ToSet(x.lista) \subseteq ToSet(l)
       /\ \A y \in Bloques : y \in ToSet(x.lista) <=> y \in ToSet(l) /\ y # b
  <2>1. x.lista = Front(l) \/ x.lista = Append(Front(l), Nulo)
    BY <1>7
  <2> QED
    BY <1>00, <1>4, <1>11, <2>1, ListaSinUltimo
<1>13. Sabe(m)'
  <2>1. SinBloque # Nulo
    BY DEF SinBloque, Nulo
  <2>2. SinBloque \notin ToSet(x.lista)
    BY <1>4, <1>12, <2>1
  <2> QED
    BY <1>7, <1>8, <1>9, <1>12, <2>2 DEF Sabe, AntesDeLaLista
<1>14. Duenios'
  <2>1. DeArchivo(p)' = DeArchivo(p) \ {b}
    BY <1>9, <1>12 DEF DeArchivo
  <2>2. b \in Bloques => b \in DeArchivo(p)
    BY <1>9, <1>12 DEF DeArchivo
  <2>3. Len(ListaVigente(p)') >= 1 /\ SinRepetidos(ListaVigente(p)')
    BY <1>9, <1>12
  <2> QED
    BY <1>1, <1>3, <1>5, <1>7, <1>8, <1>9, <2>1, <2>2, <2>3, DevolverBloque
<1>15. ASSUME p \notin pisados' PROVE Sano(p)'
  <2> PICK c : c = Cuenta(p)
    OBVIOUS
  <2>1. SanoCon(m, hilos[m], l, c, disco)
    BY <1>1, <1>3, <1>9, <1>15, SanoDeUno
  <2>2. c \in Datos /\ Nulo \notin ToSet(l) /\ Escribira(m, hilos[m], c)
    BY <1>3, <2>1 DEF SanoCon
  <2>3. /\ Tipo[m] = "CATCH" /\ x.datos = Cambio(m, c)
        /\ x.resultado <=> Tipo[m] = "CATCH" /\ c[Posicion[m]] > 0
        /\ TamBloque * (Len(l) - 2) <= Tam(x.datos) /\ Tam(x.datos) < TamBloque * (Len(l) - 1)
    BY <1>3, <1>4, <1>7, <2>2 DEF Escribira
  <2>4. x.lista = Front(l) /\ Len(x.lista) = Len(l) - 1 /\ ToSet(x.lista) \subseteq ToSet(l)
    BY <1>7, <1>12, <2>3
  <2>5. Nulo \notin ToSet(x.lista)
    BY <2>2, <2>4
  <2>6. x.i \notin ToSet(x.lista)
    <3>1. ToSet(l) \subseteq Numeros
      BY <1>11, ElementOfSeq, LenProperties DEF ToSet
    <3>2. b \in Bloques
      BY <1>4, <1>12, <2>2, <3>1 DEF Numeros
    <3> QED
      BY <1>7, <1>12, <3>2
  <2>7. TamBloque * (Len(x.lista) - 1) <= Tam(x.datos) /\ Tam(x.datos) # TamBloque * Len(x.lista)
    <3>1. Tam(x.datos) \in Nat
      BY <2>2, <2>3, CambioTipo
    <3>2. Len(x.lista) - 1 = Len(l) - 2
      BY <1>11, <2>4
    <3>3. TamBloque * (Len(l) - 1) \in Int
      BY <1>11, Bloques1
    <3> QED
      BY <2>3, <2>4, <3>1, <3>2, <3>3
  <2>8. Escribira(m, x, c)
    BY <1>7, <2>3, <2>6, <2>7 DEF Escribira
  <2>9. SanoCon(m, x, x.lista, c, disco)
    BY <1>8, <2>2, <2>5, <2>8 DEF SanoCon
  <2> QED
    BY <1>3, <1>9, <1>10, <2>9, SanoDeUnoDespues
<1>16. \A q \in conMutex \ pisados' : q # p => \A y \in ToSet(ListaVigente(q)) : disco'[y] = disco[y]
  BY <1>3
<1> QED
  BY <1>2, <1>3, <1>7, <1>8, <1>13, <1>14, <1>15, <1>16, PropioPreserva

LEMMA VaciarPreserva ==
  ASSUME IInv, NEW m \in Mensajes, VaciarBloque(m)
  PROVE  IInv'
<1> DEFINE p == Pokemon[m]
<1>0. PICK b : b = hilos[m].i
  OBVIOUS
<1>00. PICK l : l = hilos[m].lista
  OBVIOUS
<1>1. TypeOK /\ Candados /\ (\A n \in Mensajes : Sabe(n)) /\ Duenios /\ Sumas /\ \A q \in conMutex \ pisados : Sano(q)
  BY DEF IInv
<1>2. TypeOK'
  BY <1>1, TipoDeAtender DEF Atender
<1>3. /\ hilos[m].paso = "vaciar"
      /\ hilos[m].paso \in ConArchivo /\ hilos[m].paso \in ConListaNueva /\ hilos[m].paso \notin ConMano
      /\ hilos[m].paso \in ConDatos /\ hilos[m].paso \in Rehaciendo
      /\ UNCHANGED <<archivos, ocupados, conMutex, mCrear, HayBitmap>>
      /\ disco' = [disco EXCEPT ![b] = Nadie]
      /\ pisados' = pisados \cup {q \in conMutex : disco[b] # Nadie /\ b \in ToSet(ListaVigente(q))}
      /\ Ir(m, "escribir") /\ "escribir" \in Pasos
  BY <1>0 DEF VaciarBloque, PisadosPor, En, HayBitmap, ConArchivo, ConListaNueva, ConMano, ConDatos, Rehaciendo, Pasos
<1>4. PICK x \in Hilos : /\ hilos' = [hilos EXCEPT ![m] = x]
                         /\ x.paso = "escribir" /\ x.i = b /\ x.lista = l
                         /\ x.datos = hilos[m].datos /\ x.resultado = hilos[m].resultado
  BY <1>0, <1>00, <1>1, <1>3, IrHilo
<1>5. x.paso \in ConArchivo /\ x.paso \in ConListaNueva /\ x.paso \in ConDatos /\ x.paso \notin ConMano /\ x.paso \in Rehaciendo
  BY <1>4 DEF ConArchivo, ConListaNueva, ConDatos, ConMano, Rehaciendo
<1>6. /\ p \in conMutex /\ Dentro(p) = {m} /\ Dentro(p)' = {m} /\ hilos'[m] = x
      /\ ListaVigente(p) = l /\ ListaVigente(p)' = l
      /\ \A q \in conMutex : q # p => ListaVigente(q)' = ListaVigente(q)
      /\ (Suma(m)' <=> Suma(m)) => Cuenta(p)' = Cuenta(p)
  BY <1>00, <1>1, <1>3, <1>4, <1>5, PropioDespues
<1>7. Cuenta(p)' = Cuenta(p)
  <2>1. Suma(m)' <=> Suma(m)
    BY <1>3, <1>4, <1>6 DEF Suma, Escrito
  <2> QED
    BY <1>6, <2>1
<1>8. Sabe(m)'
  <2>1. SinBloque \notin ToSet(l) /\ Len(l) >= 1
    BY <1>00, <1>1, <1>3 DEF Sabe
  <2> QED
    BY <1>4, <1>5, <1>6, <2>1 DEF Sabe, AntesDeLaLista
<1>9. Duenios'
  <2>1. \A q \in conMutex : ListaVigente(q)' = ListaVigente(q)
    BY <1>6
  <2>2. \A k \in Mensajes :
           /\ hilos'[k].paso \in ConMano <=> hilos[k].paso \in ConMano
           /\ hilos[k].paso \in ConMano => hilos'[k].i = hilos[k].i
    <3>1. \A k \in Mensajes : k # m => hilos'[k] = hilos[k]
      BY <1>1, <1>4, UnHilo
    <3> QED
      BY <1>3, <1>5, <1>6, <3>1
  <2> QED
    BY <1>1, <1>3, <2>1, <2>2, DueniosSiguen
<1>10. ASSUME p \notin pisados' PROVE Sano(p)'
  <2> PICK c : c = Cuenta(p)
    OBVIOUS
  <2>1. SanoCon(m, hilos[m], l, c, disco)
    BY <1>1, <1>3, <1>6, <1>10, SanoDeUno
  <2>2. c \in Datos /\ Nulo \notin ToSet(l) /\ Escribira(m, hilos[m], c)
    BY <1>3, <2>1 DEF SanoCon
  <2>3. Escribira(m, x, c)
    BY <1>00, <1>3, <1>4, <1>5, <2>2 DEF Escribira
  <2>4. SanoCon(m, x, l, c, disco')
    BY <1>5, <2>2, <2>3 DEF SanoCon
  <2> QED
    BY <1>6, <1>7, <2>4, SanoDeUnoDespues
<1>11. \A q \in conMutex \ pisados' : q # p => \A y \in ToSet(ListaVigente(q)) : disco'[y] = disco[y]
  <2> SUFFICES ASSUME NEW q \in conMutex \ pisados', NEW y \in ToSet(ListaVigente(q)) PROVE disco'[y] = disco[y]
    OBVIOUS
  <2>1. disco \in [Numeros -> Partes \cup {Nadie}]
    BY <1>1 DEF TypeOK
  <2>2. ListaVigente(q) \in Seq(Numeros)
    BY <1>1, ListaTipo
  <2>3. y \in Numeros
    BY <2>2, ElementOfSeq, LenProperties DEF ToSet
  <2>4. y = b => disco[b] = Nadie
    BY <1>3
  <2> QED
    BY <1>3, <2>1, <2>3, <2>4
<1>12. pisados \subseteq pisados'
  BY <1>3
<1> QED
  BY <1>2, <1>3, <1>4, <1>5, <1>8, <1>9, <1>10, <1>11, <1>12, PropioPreserva

-----------------------------------------------------------------------------
(* The blocks are rewritten.                                               *)

(* One message more that counts. *)
LEMMA SumanMas ==
  ASSUME NEW E \in SUBSET Mensajes, NEW m \in Mensajes \ E, NEW y
  PROVE  /\ Suman(E, Pokemon[m], y) \in Int
         /\ Tipo[m] = "NEW" => Suman(E \cup {m}, Pokemon[m], y)
              = IF y = Posicion[m] THEN Suman(E, Pokemon[m], y) + 1 ELSE Suman(E, Pokemon[m], y)
         /\ Tipo[m] = "CATCH" => Suman(E \cup {m}, Pokemon[m], y)
              = IF y = Posicion[m] THEN Suman(E, Pokemon[m], y) - 1 ELSE Suman(E, Pokemon[m], y)
<1> DEFINE N(F) == {n \in F : Tipo[n] = "NEW" /\ Pokemon[n] = Pokemon[m] /\ Posicion[n] = y}
           C(F) == {n \in F : Tipo[n] = "CATCH" /\ Pokemon[n] = Pokemon[m] /\ Posicion[n] = y}
<1>1. \A F : Suman(F, Pokemon[m], y) = Cardinality(N(F)) - Cardinality(C(F))
  BY DEF Suman
<1>2. IsFiniteSet(N(E)) /\ IsFiniteSet(C(E)) /\ m \notin N(E) /\ m \notin C(E)
  <2>1. N(E) \subseteq Mensajes /\ C(E) \subseteq Mensajes /\ IsFiniteSet(Mensajes)
    BY GameCardAssumption
  <2> QED
    BY <2>1, FS_Subset
<1>3. /\ Tipo[m] = "NEW" => C(E \cup {m}) = C(E) /\ N(E \cup {m}) = IF y = Posicion[m] THEN N(E) \cup {m} ELSE N(E)
      /\ Tipo[m] = "CATCH" => N(E \cup {m}) = N(E) /\ C(E \cup {m}) = IF y = Posicion[m] THEN C(E) \cup {m} ELSE C(E)
  OBVIOUS
<1> HIDE DEF N, C
<1>4. /\ Cardinality(N(E)) \in Nat /\ Cardinality(C(E)) \in Nat
      /\ Cardinality(N(E) \cup {m}) = Cardinality(N(E)) + 1
      /\ Cardinality(C(E) \cup {m}) = Cardinality(C(E)) + 1
  BY <1>2, FS_CardinalityType, FS_AddElement
<1>5. Suman(E, Pokemon[m], y) \in Int
  BY <1>1, <1>4
<1>6. ASSUME Tipo[m] = "NEW"
      PROVE  Suman(E \cup {m}, Pokemon[m], y)
              = IF y = Posicion[m] THEN Suman(E, Pokemon[m], y) + 1 ELSE Suman(E, Pokemon[m], y)
  BY <1>1, <1>3, <1>4, <1>6
<1>7. ASSUME Tipo[m] = "CATCH"
      PROVE  Suman(E \cup {m}, Pokemon[m], y)
              = IF y = Posicion[m] THEN Suman(E, Pokemon[m], y) - 1 ELSE Suman(E, Pokemon[m], y)
  BY <1>1, <1>3, <1>4, <1>7
<1> QED
  BY <1>5, <1>6, <1>7

(* A message that writes its lines counts from then on: the counts of its  *)
(* file are the lines it wrote.                                            *)
LEMMA CuentaCambia ==
  ASSUME TypeOK, NEW m \in Mensajes, NEW x, hilos' = [hilos EXCEPT ![m] = x],
         hilos[m].paso = "escribir", x.paso = "guardar", Tipo[m] # "GET",
         Cuenta(Pokemon[m]) \in Datos,
         x.resultado <=> Tipo[m] = "CATCH" /\ Cuenta(Pokemon[m])[Posicion[m]] > 0
  PROVE  Cuenta(Pokemon[m])' = Cambio(m, Cuenta(Pokemon[m]))
<1> DEFINE p == Pokemon[m]
           z == Posicion[m]
<1>0. PICK c : c = Cuenta(p)
  OBVIOUS
<1>1. hilos'[m] = x /\ \A n \in Mensajes : n # m => hilos'[n] = hilos[n]
  BY UnHilo
<1>2. Sumados \subseteq Mensajes /\ m \notin Sumados
  BY DEF Sumados, Suma, Escrito
<1>3. Sumados' = IF Tipo[m] = "NEW" \/ x.resultado THEN Sumados \cup {m} ELSE Sumados
  <2>1. \A n \in Mensajes : n # m => (Suma(n)' <=> Suma(n))
    BY <1>1 DEF Suma, Escrito
  <2>2. Suma(m)' <=> Tipo[m] = "NEW" \/ x.resultado
    <3>1. Escrito(m)'
      BY <1>1 DEF Escrito
    <3> QED
      BY <1>1, <3>1 DEF Suma
  <2>3. ASSUME Tipo[m] = "NEW" \/ x.resultado PROVE Sumados' = Sumados \cup {m}
    BY <2>1, <2>2, <2>3 DEF Sumados
  <2>4. ASSUME ~(Tipo[m] = "NEW" \/ x.resultado) PROVE Sumados' = Sumados
    BY <1>2, <2>1, <2>2, <2>4 DEF Sumados
  <2> QED
    BY <2>3, <2>4
<1>4. \A y : Contados(p, y) = Suman(Sumados, p, y) /\ Contados(p, y)' = Suman(Sumados', p, y)
  BY ContadosEs
<1>5. c \in Datos /\ Cuenta(p)' = [y \in Posiciones |-> Suman(Sumados', p, y)] /\ \A y \in Posiciones : c[y] = Suman(Sumados, p, y)
  BY <1>0, <1>4 DEF Cuenta
<1>6. z \in Posiciones
  BY MensajeTipo
<1>7. \A y \in Posiciones :
         /\ Tipo[m] = "NEW" => Suman(Sumados \cup {m}, p, y) = IF y = z THEN c[y] + 1 ELSE c[y]
         /\ Tipo[m] = "CATCH" => Suman(Sumados \cup {m}, p, y) = IF y = z THEN c[y] - 1 ELSE c[y]
  <2> SUFFICES ASSUME NEW y \in Posiciones
               PROVE  /\ Tipo[m] = "NEW" => Suman(Sumados \cup {m}, p, y) = IF y = z THEN c[y] + 1 ELSE c[y]
                      /\ Tipo[m] = "CATCH" => Suman(Sumados \cup {m}, p, y) = IF y = z THEN c[y] - 1 ELSE c[y]
    OBVIOUS
  <2>1. Sumados \in SUBSET Mensajes /\ m \in Mensajes \ Sumados
    BY <1>2
  <2>2. /\ Tipo[m] = "NEW" => Suman(Sumados \cup {m}, Pokemon[m], y)
              = IF y = Posicion[m] THEN Suman(Sumados, Pokemon[m], y) + 1 ELSE Suman(Sumados, Pokemon[m], y)
        /\ Tipo[m] = "CATCH" => Suman(Sumados \cup {m}, Pokemon[m], y)
              = IF y = Posicion[m] THEN Suman(Sumados, Pokemon[m], y) - 1 ELSE Suman(Sumados, Pokemon[m], y)
    BY <2>1, SumanMas
  <2> QED
    BY <1>5, <2>2
<1> HIDE DEF z
<1>8. CASE Tipo[m] = "NEW"
  <2>1. \A y \in Posiciones : Suman(Sumados', p, y) = IF y = z THEN c[y] + 1 ELSE c[y]
    BY <1>3, <1>7, <1>8
  <2>2. Cambio(m, c) = [c EXCEPT ![z] = c[z] + 1]
    BY <1>8 DEF Cambio, Agregar, z
  <2>3. Cambio(m, c) = [y \in Posiciones |-> IF y = z THEN c[y] + 1 ELSE c[y]]
    BY <1>5, <1>6, <2>2 DEF Datos
  <2> QED
    BY <1>0, <1>5, <2>1, <2>3
<1>9. CASE Tipo[m] = "CATCH" /\ c[z] > 0
  <2>1. \A y \in Posiciones : Suman(Sumados', p, y) = IF y = z THEN c[y] - 1 ELSE c[y]
    BY <1>0, <1>3, <1>7, <1>9 DEF z
  <2>2. Cambio(m, c) = [c EXCEPT ![z] = c[z] - 1]
    BY <1>9 DEF Cambio, Reducir, z
  <2>3. Cambio(m, c) = [y \in Posiciones |-> IF y = z THEN c[y] - 1 ELSE c[y]]
    BY <1>5, <1>6, <2>2 DEF Datos
  <2> QED
    BY <1>0, <1>5, <2>1, <2>3
<1>10. CASE Tipo[m] = "CATCH" /\ ~(c[z] > 0)
  <2>1. Sumados' = Sumados
    BY <1>0, <1>3, <1>10 DEF z
  <2>2. Cambio(m, c) = c
    BY <1>10 DEF Cambio, Reducir, z
  <2>3. c = [y \in Posiciones |-> Suman(Sumados', p, y)]
    BY <1>5, <2>1 DEF Datos
  <2> QED
    BY <1>0, <1>5, <2>2, <2>3
<1> QED
  BY <1>8, <1>9, <1>10, MensajeTipo

(* The blocks of a list without repetitions hold the lines, part by part. *)
LEMMA EscritoEntero ==
  ASSUME NEW l \in Seq(Numeros), SinRepetidos(l), ToSet(l) \subseteq Bloques, NEW d,
         Tam(d) <= TamBloque * Len(l), NEW dis,
         \A b \in ToSet(l) : dis[b] =
            LET k == CHOOSE k \in DOMAIN l : l[k] = b
            IN  IF Tam(d) > TamBloque * (k - 1) THEN [datos |-> d, parte |-> k] ELSE Nadie
  PROVE  EnteroEn(dis, l, d)
<1> SUFFICES ASSUME NEW k \in DOMAIN l
             PROVE  dis[l[k]] = IF Tam(d) > TamBloque * (k - 1) THEN [datos |-> d, parte |-> k] ELSE Nadie
  BY DEF EnteroEn
<1>1. l[k] \in ToSet(l)
  BY DEF ToSet
<1>2. (CHOOSE j \in DOMAIN l : l[j] = l[k]) = k
  <2>1. \A j \in DOMAIN l : l[j] = l[k] => j = k
    BY <1>1 DEF SinRepetidos
  <2> QED
    BY <2>1
<1> QED
  BY <1>1, <1>2

LEMMA ReescribirPreserva ==
  ASSUME IInv, NEW m \in Mensajes, Reescribir(m)
  PROVE  IInv'
<1> DEFINE p == Pokemon[m]
<1>0. PICK l : l = hilos[m].lista
  OBVIOUS
<1>00. PICK d : d = hilos[m].datos
  OBVIOUS
<1>1. TypeOK /\ Candados /\ (\A n \in Mensajes : Sabe(n)) /\ Duenios /\ Sumas /\ \A q \in conMutex \ pisados : Sano(q)
  BY DEF IInv
<1>2. TypeOK'
  BY <1>1, TipoDeAtender DEF Atender
<1>3. /\ hilos[m].paso = "escribir"
      /\ hilos[m].paso \in ConArchivo /\ hilos[m].paso \in ConListaNueva /\ hilos[m].paso \notin ConMano
      /\ hilos[m].paso \in ConDatos /\ hilos[m].paso \in Rehaciendo
      /\ UNCHANGED <<archivos, ocupados, conMutex, mCrear, HayBitmap>>
      /\ pisados' = IF Tam(d) > TamBloque * Len(l) THEN pisados \cup {p} ELSE pisados
      /\ Ir(m, "guardar") /\ "guardar" \in Pasos
  BY <1>0, <1>00 DEF Reescribir, En, HayBitmap, ConArchivo, ConListaNueva, ConMano, ConDatos, Rehaciendo, Pasos
<1>4. PICK x \in Hilos : /\ hilos' = [hilos EXCEPT ![m] = x]
                         /\ x.paso = "guardar" /\ x.i = hilos[m].i /\ x.lista = l
                         /\ x.datos = d /\ x.resultado = hilos[m].resultado
  BY <1>0, <1>00, <1>1, <1>3, IrHilo
<1>5. x.paso \in ConArchivo /\ x.paso \in ConListaNueva /\ x.paso \notin ConDatos /\ x.paso \notin ConMano /\ x.paso \notin Rehaciendo
  BY <1>4 DEF ConArchivo, ConListaNueva, ConDatos, ConMano, Rehaciendo
<1>6. /\ p \in conMutex /\ Dentro(p) = {m} /\ Dentro(p)' = {m} /\ hilos'[m] = x
      /\ ListaVigente(p) = l /\ ListaVigente(p)' = l
      /\ \A q \in conMutex : q # p => ListaVigente(q)' = ListaVigente(q)
  BY <1>0, <1>1, <1>3, <1>4, <1>5, PropioDespues
<1>7. l \in Seq(Numeros) /\ Len(l) \in Nat /\ SinRepetidos(l) /\ SinBloque \notin ToSet(l) /\ Len(l) >= 1 /\ ToSet(l) \subseteq Numeros
  <2>1. l \in Seq(Numeros)
    BY <1>1, <1>6, ListaTipo
  <2>2. SinBloque \notin ToSet(l) /\ Len(l) >= 1
    BY <1>0, <1>1, <1>3 DEF Sabe
  <2>3. ToSet(l) \subseteq Numeros
    BY <2>1, ElementOfSeq, LenProperties DEF ToSet
  <2> QED
    BY <1>1, <1>6, <2>1, <2>2, <2>3, LenProperties DEF Duenios
<1>8. \A b \in Numeros : disco'[b] =
         IF b \notin ToSet(l) THEN disco[b]
         ELSE LET k == CHOOSE k \in DOMAIN l : l[k] = b
              IN  IF Tam(d) > TamBloque * (k - 1) THEN [datos |-> d, parte |-> k] ELSE Nadie
  <2>1. DOMAIN disco = Numeros
    BY <1>1 DEF TypeOK
  <2> QED
    BY <1>0, <1>00, <2>1 DEF Reescribir
<1>9. Sabe(m)'
  BY <1>4, <1>5, <1>6, <1>7 DEF Sabe, AntesDeLaLista
<1>10. Duenios'
  <2>1. \A q \in conMutex : ListaVigente(q)' = ListaVigente(q)
    BY <1>6
  <2>2. \A k \in Mensajes :
           /\ hilos'[k].paso \in ConMano <=> hilos[k].paso \in ConMano
           /\ hilos[k].paso \in ConMano => hilos'[k].i = hilos[k].i
    <3>1. \A k \in Mensajes : k # m => hilos'[k] = hilos[k]
      BY <1>1, <1>4, UnHilo
    <3> QED
      BY <1>3, <1>5, <1>6, <3>1
  <2> QED
    BY <1>1, <1>3, <2>1, <2>2, DueniosSiguen
<1>11. ASSUME p \notin pisados' PROVE Sano(p)'
  <2>0. PICK c : c = Cuenta(p)
    OBVIOUS
  <2>1. SanoCon(m, hilos[m], l, c, disco)
    BY <1>1, <1>3, <1>6, <1>11, <2>0, SanoDeUno
  <2>2. c \in Datos /\ Nulo \notin ToSet(l) /\ Escribira(m, hilos[m], c)
    BY <1>3, <2>1 DEF SanoCon
  <2>3. /\ Tipo[m] # "GET" /\ d = Cambio(m, c)
        /\ x.resultado <=> Tipo[m] = "CATCH" /\ c[Posicion[m]] > 0
        /\ TamBloque * (Len(l) - 1) <= Tam(d) /\ Tam(d) # TamBloque * Len(l)
    BY <1>0, <1>00, <1>3, <1>4, <2>2 DEF Escribira
  <2>4. Cuenta(p)' = d
    <3>1. Cuenta(Pokemon[m])' = Cambio(m, Cuenta(Pokemon[m]))
      BY <1>1, <1>3, <1>4, <2>0, <2>2, <2>3, CuentaCambia
    <3> QED
      BY <2>0, <2>3, <3>1
  <2>5. d \in Datos /\ Tam(d) \in Nat
    BY <2>2, <2>3, CambioTipo
  <2>6. Tam(d) < TamBloque * Len(l) /\ Tam(d) <= TamBloque * Len(l)
    <3>1. TamBloque * Len(l) \in Int
      BY <1>7, Bloques1
    <3>2. ~(Tam(d) > TamBloque * Len(l))
      BY <1>3, <1>11
    <3> QED
      BY <2>3, <2>5, <3>1, <3>2
  <2>7. EnteroEn(disco', l, d)
    <3>1. ToSet(l) \subseteq Bloques
      BY <1>7, <2>2 DEF Numeros
    <3>2. \A b \in ToSet(l) : disco'[b] =
            LET k == CHOOSE k \in DOMAIN l : l[k] = b
            IN  IF Tam(d) > TamBloque * (k - 1) THEN [datos |-> d, parte |-> k] ELSE Nadie
      BY <1>7, <1>8
    <3> QED
      BY <1>7, <2>6, <3>1, <3>2, EscritoEntero
  <2>8. SanoCon(m, x, l, d, disco')
    BY <1>5, <2>2, <2>3, <2>5, <2>6, <2>7 DEF SanoCon
  <2> QED
    BY <1>6, <2>4, <2>8, SanoDeUnoDespues
<1>12. pisados \subseteq pisados'
  BY <1>3
<1>13. \A q \in conMutex \ pisados' : q # p => \A b \in ToSet(ListaVigente(q)) : disco'[b] = disco[b]
  <2> SUFFICES ASSUME NEW q \in conMutex \ pisados', q # p, NEW b \in ToSet(ListaVigente(q)) PROVE disco'[b] = disco[b]
    OBVIOUS
  <2>1. Sano(q)
    BY <1>1, <1>12
  <2>2. ListaVigente(q) \in Seq(Numeros)
    BY <1>1, ListaTipo
  <2>3. b \in Numeros
    BY <2>2, ElementOfSeq, LenProperties DEF ToSet
  <2>4. b # Nulo
    BY <2>1 DEF Sano
  <2>5. b \in Bloques => b \notin ToSet(l)
    BY <1>1, <1>6 DEF Duenios, DeArchivo
  <2>6. b \notin ToSet(l)
    BY <1>7, <2>3, <2>4, <2>5 DEF Numeros
  <2> QED
    BY <1>8, <2>3, <2>6
<1> QED
  BY <1>2, <1>3, <1>4, <1>5, <1>9, <1>10, <1>11, <1>12, <1>13, PropioPreserva

(* The metadata takes the list of the thread: the file is what it was. *)
LEMMA GuardarPreserva ==
  ASSUME IInv, NEW m \in Mensajes, Guardar(m)
  PROVE  IInv'
<1> DEFINE p == Pokemon[m]
<1>0. PICK l : l = hilos[m].lista
  OBVIOUS
<1>1. TypeOK /\ Candados /\ (\A n \in Mensajes : Sabe(n)) /\ Duenios /\ Sumas /\ \A q \in conMutex \ pisados : Sano(q)
  BY DEF IInv
<1>2. TypeOK'
  BY <1>1, TipoDeAtender DEF Atender
<1>3. /\ hilos[m].paso = "guardar"
      /\ hilos[m].paso \in ConArchivo /\ hilos[m].paso \in ConListaNueva /\ hilos[m].paso \notin ConMano
      /\ hilos[m].paso \notin ConDatos /\ hilos[m].paso \notin Rehaciendo
      /\ archivos' = [archivos EXCEPT ![p] = Metadata(m)]
      /\ UNCHANGED <<disco, ocupados, conMutex, mCrear, HayBitmap, pisados>>
      /\ Soltar(m, "cerrar") /\ "cerrar" \in Pasos
  BY DEF Guardar, En, HayBitmap, ConArchivo, ConListaNueva, ConMano, ConDatos, Rehaciendo, Pasos
<1>4. PICK x \in Hilos : hilos' = [hilos EXCEPT ![m] = x] /\ x.paso = "cerrar" /\ x.resultado = hilos[m].resultado
  BY <1>1, <1>3, SoltarHilo
<1>5. x.paso \in ConArchivo /\ x.paso \notin ConListaNueva /\ x.paso \notin ConDatos /\ x.paso \notin ConMano /\ x.paso \notin Rehaciendo
  BY <1>4 DEF ConArchivo, ConListaNueva, ConDatos, ConMano, Rehaciendo
<1>6. hilos'[m] = x /\ \A n \in Mensajes : n # m => hilos'[n] = hilos[n]
  BY <1>1, <1>4, UnHilo
<1>7. p \in conMutex /\ Dentro(p) = {m} /\ ListaVigente(p) = l
  BY <1>0, <1>1, <1>3, Adentro
<1>8. \A n \in Mensajes : n # m /\ Pokemon[n] = p => hilos[n].paso \notin ConArchivo
  BY <1>1, <1>3 DEF Candados
<1>9. Dentro(p)' = {m}
  BY <1>5, <1>6, <1>8 DEF Dentro
<1>10. ListaVigente(p)' = l
  <2>1. \A n \in Mensajes : Pokemon[n] = p => hilos'[n].paso \notin ConListaNueva
    BY <1>5, <1>6, <1>8 DEF ConListaNueva, ConArchivo
  <2>2. ListaDe(hilos', archivos', p) = archivos'[p].bloques
    BY <2>1, ListaSinEscritor
  <2>3. archivos'[p] = Metadata(m)
    BY <1>1, <1>3, MensajeTipo DEF TypeOK
  <2>4. Metadata(m).bloques = l
    BY <1>0 DEF Metadata
  <2> QED
    BY <2>2, <2>3, <2>4, ListaVigenteEs
<1>11. \A q \in conMutex : ListaVigente(q)' = ListaVigente(q)
  <2> SUFFICES ASSUME NEW q \in conMutex, q # p PROVE ListaVigente(q)' = ListaVigente(q)
    BY <1>7, <1>10
  <2>1. archivos'[q].bloques = archivos[q].bloques
    BY <1>1, <1>3 DEF TypeOK
  <2>2. \A n \in Mensajes : Pokemon[n] = q => hilos'[n] = hilos[n]
    BY <1>6
  <2> QED
    BY <2>1, <2>2, ListaSigue
<1>12. Cuenta(p)' = Cuenta(p)
  <2>1. Suma(m)' <=> Suma(m)
    BY <1>3, <1>4, <1>6 DEF Suma, Escrito
  <2>2. \A n \in Mensajes : Suma(n)' <=> Suma(n)
    BY <1>6, <2>1 DEF Suma, Escrito
  <2> QED
    BY <2>2, CuentaSigue
<1>13. Sabe(m)'
  BY <1>4, <1>5, <1>6 DEF Sabe, AntesDeLaLista
<1>14. Duenios'
  <2>1. \A k \in Mensajes :
           /\ hilos'[k].paso \in ConMano <=> hilos[k].paso \in ConMano
           /\ hilos[k].paso \in ConMano => hilos'[k].i = hilos[k].i
    BY <1>3, <1>5, <1>6
  <2> QED
    BY <1>1, <1>3, <1>11, <2>1, DueniosSiguen
<1>15. ASSUME p \notin pisados' PROVE Sano(p)'
  <2>0. PICK c : c = Cuenta(p)
    OBVIOUS
  <2>1. SanoCon(m, hilos[m], l, c, disco)
    BY <1>1, <1>3, <1>7, <1>15, <2>0, SanoDeUno
  <2>2. SanoCon(m, x, l, c, disco)
    BY <1>3, <1>5, <2>1 DEF SanoCon
  <2> QED
    BY <1>3, <1>6, <1>9, <1>10, <1>12, <2>0, <2>2, SanoDeUnoDespues
<1>16. \A q \in conMutex \ pisados' : q # p => \A b \in ToSet(ListaVigente(q)) : disco'[b] = disco[b]
  BY <1>3
<1> QED
  BY <1>2, <1>3, <1>4, <1>5, <1>13, <1>14, <1>15, <1>16, PropioPreserva

-----------------------------------------------------------------------------
(* The invariant, and what it says.                                        *)

LEMMA InitIInv ==
  ASSUME Init
  PROVE  IInv
<1>1. hilos = [m \in Mensajes |-> Hilo0] /\ Hilo0 \in Hilos
  <2>1. SinDatos \in Datos /\ <<>> \in Seq(Numeros) /\ 0 \in Numeros
    BY DEF SinDatos, Datos, Numeros, Nulo
  <2> QED
    BY <2>1 DEF Init, Hilo0, Hilos, Pasos
<1>2. \A m \in Mensajes : hilos[m].paso = "porLlegar" /\ hilos[m].resultado = FALSE
  BY <1>1 DEF Hilo0
<1>3. TypeOK
  <2>1. hilos \in [Mensajes -> Hilos]
    BY <1>1
  <2>2. 0 \in 0..MaxReinicios
    BY GameCardAssumption
  <2>3. 0 \in 0..(ConCarpetas + CantBloques) /\ 0 \in 0..2
    BY GameCardAssumption DEF ConCarpetas
  <2> QED
    BY <2>1, <2>2, <2>3 DEF Init, TypeOK, Hilos
<1>4. conMutex = {} /\ HayBitmap = FALSE
  BY DEF Init, HayBitmap, ConBitmap
<1>5. Candados
  BY <1>2, <1>4 DEF Candados, Creando, ConArchivo
<1>6. \A m \in Mensajes : Sabe(m)
  BY <1>2 DEF Sabe, ConMano, ConDatos, AntesDeLaLista
<1>7. Duenios
  BY <1>2, <1>4 DEF Duenios, ConMano
<1>8. Sumas
  BY <1>2 DEF Sumas, Suma, Escrito
<1> QED
  BY <1>3, <1>4, <1>5, <1>6, <1>7, <1>8 DEF IInv

(* One action at a time. *)
LEMMA PasoIInv ==
  ASSUME IInv, [Next]_vars
  PROVE  IInv'
<1>1. TypeOK /\ Candados /\ \A m \in Mensajes : Sabe(m)
  BY DEF IInv
<1>2. CASE PrepararBitmap \/ PrepararFiles \/ PrepararPokemon \/ PrepararBloque
  BY <1>2, BitmapPreserva, CarpetasPreserva, BloquePreserva
<1>3. CASE Reiniciar
  BY <1>3, ReiniciarPreserva
<1>4. ASSUME NEW m \in Mensajes, Recibir(m) PROVE IInv'
  BY <1>4, RecibirPreserva
<1>5. ASSUME NEW m \in Mensajes, Atender(m) PROVE IInv'
  <2>1. TypeOK'
    BY <1>1, <1>5, TipoDeAtender
  <2>2. CASE HallarDirectorio(m)
    BY <2>2, HallarPreserva
  <2>3. CASE NoHallarDirectorio(m)
    BY <2>3, NoHallarPreserva
  <2>4. CASE BuscarPrimero(m)
    BY <2>4, BuscarPrimeroPreserva
  <2>5. CASE CrearArchivo(m)
    BY <2>5, CrearPreserva
  <2>18. CASE CrearSinCarpetas(m)
    BY <2>1, <2>18, CaePreserva DEF CrearSinCarpetas, HayBitmap
  <2>6. CASE Acceder(m)
    BY <2>6, AccederPreserva
  <2>7. CASE AccederSinMutex(m)
    BY <2>1, <2>7, CaePreserva DEF AccederSinMutex, HayBitmap
  <2>8. CASE Leer(m)
    BY <2>8, LeerPreserva
  <2>9. CASE LeerSinBloque(m)
    BY <2>1, <2>9, CaePreserva DEF LeerSinBloque, HayBitmap
  <2>10. CASE TamanioExacto(m)
    BY <2>1, <2>10, CaePreserva DEF TamanioExacto, HayBitmap
  <2>11. CASE BuscarOtro(m)
    BY <2>11, BuscarOtroPreserva
  <2>12. CASE AgregarBloque(m)
    BY <2>12, AgregarPreserva
  <2>13. CASE LiberarBloque(m)
    BY <2>13, LiberarPreserva
  <2>14. CASE VaciarBloque(m)
    BY <2>14, VaciarPreserva
  <2>15. CASE Reescribir(m)
    BY <2>15, ReescribirPreserva
  <2>16. CASE Guardar(m)
    BY <2>16, GuardarPreserva
  <2>17. CASE Cerrar(m)
    BY <2>17, CerrarPreserva
  <2> QED
    BY <1>5, <2>2, <2>3, <2>4, <2>5, <2>6, <2>7, <2>8, <2>9, <2>10, <2>11, <2>12, <2>13,
       <2>14, <2>15, <2>16, <2>17, <2>18 DEF Atender
<1>6. CASE UNCHANGED vars
  <2>1. UNCHANGED <<archivos, disco, ocupados, conMutex, mCrear, hilos, puesta, carpetas, existen, caido, reinicios, pisados>>
    BY <1>6 DEF vars
  <2>2. TypeOK' /\ HayBitmap' = HayBitmap
    BY <1>1, <2>1 DEF TypeOK, HayBitmap
  <2> QED
    BY <2>1, <2>2, CaePreserva
<1> QED
  BY <1>2, <1>3, <1>4, <1>5, <1>6 DEF Next

LEMMA SiempreIInv == Spec => []IInv
  BY InitIInv, PasoIInv, PTL DEF Spec

(* Threads, files, blocks and bits are always of the kind the program      *)
(* takes them for: among others, only files that exist have a mutex.       *)
THEOREM GameCardBienTipado == Spec => []TypeOK
<1>1. IInv => TypeOK
  BY DEF IInv
<1> QED
  BY <1>1, SiempreIInv, PTL

(* The OPEN flag that puedeAccederAlArchivo sets and cerrarArchivo clears  *)
(* is a lock on the whole file, for any number of messages and restarts,   *)
(* although between the two the metadata is saved from a copy.             *)
THEOREM AccesoSiempreExclusivo == Spec => []AccesoExclusivo
<1>1. IInv => AccesoExclusivo
  <2> SUFFICES ASSUME IInv, NEW p \in conMutex
               PROVE  Cardinality(Dentro(p)) <= 1 /\ (archivos[p].open <=> Dentro(p) # {})
    BY DEF AccesoExclusivo
  <2>1. Candados /\ TypeOK
    BY DEF IInv
  <2>2. CASE Dentro(p) = {}
    <3>1. ~archivos[p].open
      BY <2>1, <2>2 DEF Candados, Dentro
    <3> QED
      BY <2>2, <3>1, FS_EmptySet
  <2>3. CASE Dentro(p) # {}
    <3>1. PICK m \in Mensajes : Pokemon[m] = p /\ hilos[m].paso \in ConArchivo
      BY <2>3 DEF Dentro
    <3>2. Dentro(p) = {m}
      BY <2>1, <3>1, Adentro
    <3>3. Cardinality({m}) = 1
      BY FS_Singleton
    <3>4. archivos[p].open
      BY <2>1, <3>1 DEF Candados
    <3> QED
      BY <2>3, <3>2, <3>3, <3>4
  <2> QED
    BY <2>2, <2>3
<1> QED
  BY <1>1, SiempreIInv, PTL

(* No block is in two files, or in one and in the hand of a thread that    *)
(* found it with buscarBloqueLibre, and none leaks: a bit is set exactly   *)
(* while its block has an owner, although the bitmap is scanned bit by bit *)
(* while other threads take and give blocks back.                          *)
THEOREM SiempreUnDuenioPorBloque == Spec => []BloquesConUnDuenio
<1>1. IInv => BloquesConUnDuenio
  <2> SUFFICES ASSUME IInv PROVE BloquesConUnDuenio
    OBVIOUS
  <2>1. Duenios
    BY DEF IInv
  <2>2. \A p \in conMutex : DeArchivo(p) \cap EnMano = {}
    BY <2>1 DEF Duenios, EnMano, ConMano
  <2> QED
    BY <2>1, <2>2 DEF Duenios, BloquesConUnDuenio
<1> QED
  BY <1>1, SiempreIInv, PTL

(* The blocks of a file that was not damaged hold, between rewritings,     *)
(* what the NEW and the CATCH that were written add up to at each position,*)
(* for any lines and blocks: none of the steps between reading and saving, *)
(* with those of the other threads among them, loses or repeats a pokemon. *)
THEOREM CuentasSiempreFieles == Spec => []CuentasFieles
<1>1. IInv => CuentasFieles
  <2> SUFFICES ASSUME IInv, NEW p \in conMutex \ pisados,
                      ~ \E m \in Dentro(p) : hilos[m].paso \in {"vaciar", "escribir"}
               PROVE  Entero(ListaVigente(p), [x \in Posiciones |-> Contados(p, x)])
    BY DEF CuentasFieles
  <2>1. Sano(p)
    BY DEF IInv
  <2> QED
    BY <2>1 DEF Sano, Rehaciendo, Cuenta
<1> QED
  BY <1>1, SiempreIInv, PTL
=============================================================================
