------------------------- MODULE LissandraFS_proofs -------------------------
(***************************************************************************)
(* Proofs about LissandraFS, for any requests, tables, keys, partitions    *)
(* and blocks.                                                             *)
(***************************************************************************)
EXTENDS LissandraFS, Integers, SequencesExt, SequenceTheorems, FiniteSetTheorems, WellFoundedInduction, TLAPS

-----------------------------------------------------------------------------
(* Facts about sequences and finite sets of numbers.                       *)

(* RemoveAt drops one entry of a sequence and keeps the order of the rest. *)
LEMMA RemoveAtElementos ==
  ASSUME NEW S, NEW s \in Seq(S), NEW k \in DOMAIN s
  PROVE  /\ RemoveAt(s, k) \in Seq(S)
         /\ Len(RemoveAt(s, k)) = Len(s) - 1
         /\ DOMAIN RemoveAt(s, k) = 1..(Len(s) - 1)
         /\ \A j \in 1..(Len(s) - 1) :
              RemoveAt(s, k)[j] = IF j < k THEN s[j] ELSE s[j + 1]
<1> DEFINE izq == SubSeq(s, 1, k - 1)
           der == SubSeq(s, k + 1, Len(s))
<1>1. /\ Len(s) \in Nat /\ DOMAIN s = 1..Len(s) /\ k \in 1..Len(s)
      /\ \A i \in 1..Len(s) : s[i] \in S
  BY LenProperties
<1>2. /\ izq \in Seq(S)
      /\ Len(izq) = k - 1
      /\ \A i \in 1..(k - 1) : izq[i] = s[i]
  BY <1>1, SubSeqProperties
<1>3. /\ der \in Seq(S)
      /\ Len(der) = Len(s) - k
      /\ \A i \in 1..(Len(s) - k) : der[i] = s[k + i]
  <2>1. /\ der \in Seq(S)
        /\ Len(der) = IF k + 1 <= Len(s) THEN Len(s) - (k + 1) + 1 ELSE 0
        /\ \A i \in 1..(Len(s) - (k + 1) + 1) : der[i] = s[(k + 1) + i - 1]
    BY <1>1, SubSeqProperties
  <2> HIDE DEF der
  <2>2. Len(s) - (k + 1) + 1 = Len(s) - k
    BY <1>1
  <2>3. Len(der) = Len(s) - k
    BY <1>1, <2>1
  <2>4. ASSUME NEW i \in 1..(Len(s) - k) PROVE der[i] = s[k + i]
    <3>1. (k + 1) + i - 1 = k + i
      BY <1>1
    <3> QED
      BY <2>1, <2>2, <3>1
  <2> QED
    BY <2>1, <2>3, <2>4
<1> HIDE DEF izq, der
<1>4. /\ izq \o der \in Seq(S)
      /\ Len(izq \o der) = Len(s) - 1
      /\ \A i \in 1..(Len(s) - 1) :
           (izq \o der)[i] = IF i <= k - 1 THEN izq[i] ELSE der[i - (k - 1)]
  <2>1. /\ izq \o der \in Seq(S)
        /\ Len(izq \o der) = Len(izq) + Len(der)
        /\ \A i \in 1..(Len(izq) + Len(der)) :
             (izq \o der)[i] = IF i <= Len(izq) THEN izq[i] ELSE der[i - Len(izq)]
    BY <1>2, <1>3, ConcatProperties
  <2>2. Len(izq) + Len(der) = Len(s) - 1
    BY <1>1, <1>2, <1>3
  <2> QED
    BY <1>2, <2>1, <2>2
<1>5. ASSUME NEW j \in 1..(Len(s) - 1)
      PROVE  (izq \o der)[j] = IF j < k THEN s[j] ELSE s[j + 1]
  <2>1. CASE j < k
    BY <1>1, <1>2, <1>4, <2>1
  <2>2. CASE ~(j < k)
    <3>1. j - (k - 1) \in 1..(Len(s) - k) /\ ~(j <= k - 1) /\ k + (j - (k - 1)) = j + 1
      BY <1>1, <2>2
    <3>2. (izq \o der)[j] = der[j - (k - 1)]
      BY <1>4, <3>1
    <3> QED
      BY <1>3, <2>2, <3>1, <3>2
  <2> QED
    BY <2>1, <2>2
<1>6. DOMAIN (izq \o der) = 1..(Len(s) - 1)
  BY <1>4, LenProperties
<1> QED
  BY <1>4, <1>5, <1>6 DEF RemoveAt, izq, der

(* The least element of a set of numbers: what lets an induction be made   *)
(* over the least counterexample.                                          *)
LEMMA MinimoNat ==
  ASSUME NEW S \in SUBSET Nat, S # {}
  PROVE  \E x \in S : \A y \in S : x <= y
<1> DEFINE T == {1..n : n \in S}
           R == StrictSubsetOrdering(Nat)
<1>1. T \subseteq FiniteSubsetsOf(Nat)
  BY FS_Interval DEF FiniteSubsetsOf
<1>2. T # {}
  OBVIOUS
<1>3. IsWellFoundedOn(R, FiniteSubsetsOf(Nat))
  BY FS_StrictSubsetOrderingWellFounded
<1>4. PICK A \in T : \A B \in T : <<B, A>> \notin R
  <2> HIDE DEF T, R
  <2> QED
    BY <1>1, <1>2, <1>3, WFMin
<1>5. PICK x \in S : A = 1..x
  OBVIOUS
<1>6. ASSUME NEW y \in S, y < x PROVE FALSE
  <2>1. 1..y \subseteq 1..x /\ x \in 1..x /\ x \notin 1..y
    BY <1>6
  <2>2. 1..y \in SUBSET Nat /\ 1..x \in SUBSET Nat
    BY <1>6
  <2>3. <<1..y, 1..x>> \in R
    BY <2>1, <2>2 DEF StrictSubsetOrdering
  <2> QED
    BY <1>4, <1>5, <2>3
<1> QED
  BY <1>6

LEMMA MinEsElemento ==
  ASSUME NEW S \in SUBSET Nat, S # {}
  PROVE  Min(S) \in S /\ \A y \in S : Min(S) <= y
BY MinimoNat DEF Min

(* Induction, for a set of numbers. *)
LEMMA InduccionNat ==
  ASSUME NEW S \in SUBSET Nat, 0 \in S, \A n \in S : n + 1 \in S
  PROVE  S = Nat
<1> SUFFICES ASSUME Nat \ S # {} PROVE FALSE
  OBVIOUS
<1>1. PICK x \in Nat \ S : \A y \in Nat \ S : x <= y
  BY MinimoNat
<1>2. x # 0 /\ x - 1 \in Nat /\ ~(x <= x - 1) /\ (x - 1) + 1 = x
  BY <1>1
<1>3. x - 1 \in S
  BY <1>1, <1>2
<1> QED
  BY <1>1, <1>2, <1>3

(* The numbers a sequence lists are bounded. *)
LEMMA ListaAcotada ==
  ASSUME NEW m \in Nat, NEW f \in [1..m -> Nat]
  PROVE  \E b \in Nat : \A i \in 1..m : f[i] <= b
<1> DEFINE A == {k \in 0..m : \E b \in Nat : \A i \in 1..k : f[i] <= b}
           B == (0..m) \ A
<1>1. 0 \in A
  <2>1. \A i \in 1..0 : f[i] <= 0
    OBVIOUS
  <2> QED
    BY <2>1
<1>2. ASSUME B # {} PROVE FALSE
  <2>1. B \in SUBSET Nat
    OBVIOUS
  <2>2. PICK k \in B : \A j \in B : k <= j
    BY <1>2, <2>1, MinimoNat
  <2>3. k \in 1..m /\ k - 1 \in 0..m /\ k - 1 \notin B
    <3> HIDE DEF A
    <3>1. k \in 0..m /\ k # 0
      BY <1>1, <2>2
    <3>2. k \in 1..m /\ k - 1 \in 0..m /\ ~(k <= k - 1)
      BY <3>1
    <3> HIDE DEF B
    <3> QED
      BY <2>2, <3>2
  <2>4. PICK b \in Nat : \A i \in 1..(k - 1) : f[i] <= b
    BY <2>3
  <2> DEFINE c == IF f[k] <= b THEN b ELSE f[k]
  <2>5. c \in Nat /\ b <= c /\ f[k] <= c
    BY <2>3
  <2> HIDE DEF c
  <2>6. ASSUME NEW i \in 1..k PROVE f[i] <= c
    <3>1. f[i] \in Nat
      BY <2>3
    <3>2. CASE i = k
      BY <2>5, <3>2
    <3>3. CASE i # k
      <4>1. f[i] <= b
        BY <2>3, <2>4, <3>3
      <4> QED
        BY <2>5, <3>1, <4>1
    <3> QED
      BY <3>2, <3>3
  <2>7. k \in A
    BY <2>2, <2>5, <2>6
  <2> QED
    BY <2>2, <2>7
<1>3. m \in A
  <2> HIDE DEF A
  <2> QED
    BY <1>2
<1> QED
  BY <1>3

LEMMA MaxEsElemento ==
  ASSUME NEW S \in SUBSET Nat, S # {}, IsFiniteSet(S)
  PROVE  Max(S) \in S /\ \A y \in S : y <= Max(S)
<1>1. PICK m \in Nat : ExistsSurjection(1..m, S)
  BY FS_NatSurjection
<1>2. PICK f \in Surjection(1..m, S) : TRUE
  BY <1>1 DEF ExistsSurjection
<1>3. f \in [1..m -> Nat] /\ \A x \in S : \E i \in 1..m : f[i] = x
  BY <1>2 DEF Surjection
<1>4. PICK b \in Nat : \A i \in 1..m : f[i] <= b
  BY <1>3, ListaAcotada
<1> DEFINE N == {n \in Nat : \A x \in S : x <= n}
<1>5. b \in N
  BY <1>3, <1>4
<1>6. PICK n \in N : \A k \in N : n <= k
  <2>1. N \in SUBSET Nat /\ N # {}
    BY <1>5
  <2> QED
    BY <2>1, MinimoNat
<1>7. n \in S
  <2> SUFFICES ASSUME n \notin S PROVE FALSE
    OBVIOUS
  <2>1. n \in Nat /\ \A x \in S : x \in Nat /\ x < n
    BY <1>6
  <2>2. n - 1 \in Nat
    <3>1. PICK x \in S : TRUE
      OBVIOUS
    <3>2. n \in Nat /\ x \in Nat /\ x < n
      BY <2>1
    <3> QED
      BY <3>2
  <2>3. n - 1 \in N
    BY <2>1, <2>2
  <2> QED
    BY <1>6, <2>1, <2>3
<1>8. \E x \in S : \A y \in S : x >= y
  BY <1>6, <1>7
<1>9. Max(S) \in S /\ \A y \in S : Max(S) >= y
  BY <1>8 DEF Max
<1> QED
  BY <1>9

-----------------------------------------------------------------------------
(* The types, field by field. *)

Archivo == Tablas \X {"bin", "tmp", "tmpc"} \X (Nat \ {0})

TTabla ==
  [nombre : Tablas, contador : Nat \ {0}, compactados : Nat \ {0}, vivo : BOOLEAN,
   mutex : Tablas \cup Pedidos \cup {Nadie}]

TNodo == [id : Pedidos, nombre : Tablas, regs : Seq(Pedidos)]

TDump == [paso : {"dormido", "volcar", "contar"}, i : Nat, numero : Nat]

Listas == [1..Particiones -> Seq(Pedidos)]

TComp ==
  [paso : {"nada", "esperaTabla", "dormido", "descargar", "actualizar", "reservar", "guardar", "fin"},
   i : Nat, j : Nat, bs : Seq(Sectores), vaciar : Sectores \cup {Nadie}, almacen : Listas \cup {<<>>}]

TPed ==
  [paso : {"nuevo", "particiones", "registrar", "fin", "rechazado", "insertar", "memtable", "leyendo",
           "tmp", "tmpc", "bin", "unir", "metadata", "olvidar", "rmdir", "colgado", "sinRespuesta"},
   nodo : Pedidos \cup {Nadie}, hubo : BOOLEAN, mejor : Pedidos \cup {Nadie}, n : Nat \ {0},
   bs : Seq(Sectores) \cup {Nadie}, debe : Nat, ventana : BOOLEAN, trabada : BOOLEAN]

(* A compaction is at one of its partitions, with a list for each. *)
EnRango(c) ==
  /\ IF c.paso \in {"descargar", "actualizar", "reservar", "guardar"} THEN c.almacen \in Listas ELSE c.almacen = <<>>
  /\ c.paso \in {"descargar", "reservar", "guardar"} => c.i \in 1..Particiones
  /\ c.paso = "descargar" => c.j # 0

Tipos ==
  /\ tablas \in Seq(TTabla)
  /\ mem \in Seq(TNodo)
  /\ dirs \subseteq Tablas /\ metadata \subseteq Tablas
  /\ DOMAIN archivos \subseteq Archivo /\ archivos \in [DOMAIN archivos -> Seq(Sectores)]
  /\ ocupados \subseteq Bloques
  /\ disco \in [Sectores -> Seq(Pedidos)]
  /\ esperaTabla \in Nat
  /\ dump \in TDump
  /\ comp \in [Tablas -> TComp] /\ \A t \in Tablas : EnRango(comp[t])
  /\ ped \in [Pedidos -> TPed]

-----------------------------------------------------------------------------
(* A CREATE that has made its directory, and a DROP on its way. *)
Creando(p) == Tipo[p] = "CREATE" /\ ped[p].paso \in {"particiones", "registrar"}
Bajando == {"tmp", "bin", "metadata", "olvidar", "rmdir", "colgado"}
EnCurso(p) == Tipo[p] = "DROP" /\ ped[p].paso \in {"unir"} \cup Bajando

Activa(t) == comp[t].paso \in {"dormido", "descargar", "actualizar", "reservar", "guardar"}

(* A table has one CREATE or one DROP at a time.  It is not in the list    *)
(* until its CREATE ends nor after its DROP has forgotten it, and its      *)
(* compaction runs only in between.                                        *)
VidaDeCreate(p) ==
  /\ Tabla[p] \in dirs /\ ~Registrada(Tabla[p])
  /\ ped[p].paso = "particiones" => comp[Tabla[p]].paso \in {"nada", "fin"}

VidaDeDrop(p) ==
  /\ Tabla[p] \in dirs
  /\ Registrada(Tabla[p]) <=> ped[p].paso # "rmdir"
  /\ ped[p].paso \in Bajando => comp[Tabla[p]].paso = "fin"
  /\ ped[p].paso \in {"olvidar", "rmdir"} => Tabla[p] \notin metadata

Unicas == \A i, j \in DOMAIN tablas : tablas[i].nombre = tablas[j].nombre => i = j

Vidas ==
  /\ Unicas
  /\ \A i \in DOMAIN tablas : tablas[i].nombre \in dirs
  /\ metadata \subseteq dirs
  /\ \A t \in Tablas : Activa(t) => Registrada(t)
  /\ \A t \in Tablas \ dirs : comp[t].paso \in {"nada", "fin"}
  /\ \A p \in Pedidos : Creando(p) => VidaDeCreate(p)
  /\ \A p \in Pedidos : EnCurso(p) => VidaDeDrop(p)
  /\ \A p, q \in Pedidos : Creando(p) /\ Creando(q) /\ Tabla[p] = Tabla[q] => p = q
  /\ \A p, q \in Pedidos : EnCurso(p) /\ EnCurso(q) /\ Tabla[p] = Tabla[q] => p = q
  /\ \A p, q \in Pedidos : EnCurso(p) /\ Creando(q) => Tabla[p] # Tabla[q]

(* A compaction finds every .tmpc that it has still to read, and there are *)
(* none left when it sleeps, unless a rename failed.                       *)
EstaLeyendo(p) == Tipo[p] = "SELECT" /\ ped[p].paso = "leyendo"

CadenaDe(x, c) ==
  /\ c.paso \notin {"descargar", "actualizar"} => x.compactados = 1 \/ x.mutex = x.nombre
  /\ c.paso \in {"descargar", "actualizar"} =>
       /\ x.compactados > 1
       /\ \A k \in 1 .. (x.compactados - 1) :
            (c.paso = "actualizar" => k >= c.i) <=> <<x.nombre, "tmpc", k>> \in DOMAIN archivos
  /\ c.paso = "actualizar" => c.i \in 1 .. (x.compactados - 1)

Cadena ==
  /\ \A p \in Pedidos : EstaLeyendo(p) => Registrada(Tabla[p]) /\ LaTabla(Tabla[p]).mutex = p
  /\ \A i \in DOMAIN tablas : CadenaDe(tablas[i], comp[tablas[i].nombre])

(* A dump is at one of the memtables, and at one of the tables; no SELECT  *)
(* is looking at a memtable meanwhile.                                     *)
EnVolcado ==
  /\ dump.paso # "dormido" => dump.i \in DOMAIN mem /\ ~Leyendo
  /\ dump.paso = "contar" => dump.i \in DOMAIN tablas

Orden == Tipos /\ Vidas /\ Cadena /\ EnVolcado

-----------------------------------------------------------------------------
(* What the types say. *)

LEMMA TablaDe ==
  ASSUME Tipos, NEW t, Registrada(t)
  PROVE  /\ Indice(t) \in DOMAIN tablas /\ tablas[Indice(t)].nombre = t
         /\ LaTabla(t) = tablas[Indice(t)] /\ LaTabla(t) \in TTabla /\ t \in Tablas
<1>1. Indice(t) \in DOMAIN tablas /\ tablas[Indice(t)].nombre = t
  BY DEF Registrada, Indice
<1>2. tablas[Indice(t)] \in TTabla
  BY <1>1, ElementOfSeq, LenProperties DEF Tipos
<1> QED
  BY <1>1, <1>2 DEF LaTabla, TTabla

LEMMA TablasTipo ==
  ASSUME Tipos
  PROVE  /\ Len(tablas) \in Nat /\ DOMAIN tablas = 1..Len(tablas)
         /\ \A i \in DOMAIN tablas : tablas[i] \in TTabla
BY LenProperties, ElementOfSeq DEF Tipos

LEMMA MemTipo ==
  ASSUME Tipos
  PROVE  /\ Len(mem) \in Nat /\ DOMAIN mem = 1..Len(mem)
         /\ \A i \in DOMAIN mem : mem[i] \in TNodo
BY LenProperties, ElementOfSeq DEF Tipos

LEMMA PedTipo ==
  ASSUME Tipos, NEW p \in Pedidos
  PROVE  /\ ped[p] \in TPed
         /\ \A x \in TPed : [ped EXCEPT ![p] = x] \in [Pedidos -> TPed]
BY DEF Tipos

LEMMA CompTipo ==
  ASSUME Tipos, NEW t \in Tablas
  PROVE  /\ comp[t] \in TComp /\ EnRango(comp[t])
         /\ \A x \in TComp : [comp EXCEPT ![t] = x] \in [Tablas -> TComp]
BY DEF Tipos

(* A request that goes to its next step. *)
Pasos ==
  {"nuevo", "particiones", "registrar", "fin", "rechazado", "insertar", "memtable", "leyendo",
   "tmp", "tmpc", "bin", "unir", "metadata", "olvidar", "rmdir", "colgado", "sinRespuesta"}

LEMMA IrTipo ==
  ASSUME Tipos, NEW p \in Pedidos, NEW s \in Pasos, Ir(p, s)
  PROVE  /\ ped' \in [Pedidos -> TPed]
         /\ ped'[p] = [ped[p] EXCEPT !.paso = s]
         /\ \A q \in Pedidos \ {p} : ped'[q] = ped[q]
<1> DEFINE x == [ped[p] EXCEPT !.paso = s]
<1>1. ped \in [Pedidos -> TPed] /\ ped[p] \in TPed
  BY DEF Tipos
<1>2. x \in TPed
  BY <1>1 DEF TPed, Pasos
<1>3. ped' = [ped EXCEPT ![p] = x]
  BY DEF Ir
<1> HIDE DEF x
<1>4. ped' \in [Pedidos -> TPed] /\ ped'[p] = x /\ \A q \in Pedidos \ {p} : ped'[q] = ped[q]
  BY <1>1, <1>2, <1>3
<1> QED
  BY <1>4 DEF x

(* The other parts of a state whose part tablas, mem... is still of its types. *)
LEMMA TiposIguales ==
  ASSUME Tipos,
         tablas' = tablas \/ tablas' \in Seq(TTabla),
         mem' = mem \/ mem' \in Seq(TNodo),
         dirs' = dirs \/ dirs' \subseteq Tablas, metadata' = metadata \/ metadata' \subseteq Tablas,
         archivos' = archivos \/ (DOMAIN archivos' \subseteq Archivo /\ archivos' \in [DOMAIN archivos' -> Seq(Sectores)]),
         ocupados' = ocupados \/ ocupados' \subseteq Bloques,
         disco' = disco \/ disco' \in [Sectores -> Seq(Pedidos)],
         esperaTabla' = esperaTabla \/ esperaTabla' \in Nat,
         dump' = dump \/ dump' \in TDump,
         comp' = comp \/ (comp' \in [Tablas -> TComp] /\ \A t \in Tablas : EnRango(comp'[t])),
         ped' = ped \/ ped' \in [Pedidos -> TPed]
  PROVE  Tipos'
BY DEF Tipos

(* A finite set of numbers has a first element, a second and so on. *)
LEMMA Enesimo ==
  \A J : J \in SUBSET Nat /\ IsFiniteSet(J) =>
    \A k \in 1..Cardinality(J) : \E i \in J : Cardinality({j \in J : j <= i}) = k
<1> DEFINE Caso(J) == \A k \in 1..Cardinality(J) : \E i \in J : Cardinality({j \in J : j <= i}) = k
           N == {n \in Nat : \A J : J \in SUBSET Nat /\ IsFiniteSet(J) /\ Cardinality(J) = n => Caso(J)}
<1>1. 0 \in N
  OBVIOUS
<1>2. ASSUME NEW n \in N PROVE n + 1 \in N
  <2> HIDE DEF Caso
  <2> SUFFICES ASSUME NEW J, J \in SUBSET Nat, IsFiniteSet(J), Cardinality(J) = n + 1 PROVE Caso(J)
    OBVIOUS
  <2> USE DEF Caso
  <2> SUFFICES ASSUME NEW k \in 1..Cardinality(J)
               PROVE  \E i \in J : Cardinality({j \in J : j <= i}) = k
    OBVIOUS
  <2>1. n \in Nat /\ J # {} /\ k \in 1..(n + 1)
    BY FS_EmptySet
  <2> DEFINE m == Max(J)
             H == J \ {m}
  <2>2. m \in J /\ \A y \in J : y <= m
    BY <2>1, MaxEsElemento
  <2> HIDE DEF m
  <2>3. IsFiniteSet(H) /\ Cardinality(H) = n
    BY <2>1, <2>2, FS_RemoveElement
  <2>4. CASE k = n + 1
    BY <2>2, <2>4
  <2>5. CASE k # n + 1
    <3>1. k \in 1..Cardinality(H)
      BY <2>1, <2>3, <2>5
    <3>2. Caso(H)
      BY <2>3
    <3>3. PICK i \in H : Cardinality({j \in H : j <= i}) = k
      BY <3>1, <3>2
    <3>4. ~(m <= i)
      BY <2>2, <3>3
    <3>5. {j \in H : j <= i} = {j \in J : j <= i}
      BY <3>4
    <3> QED
      BY <3>3, <3>5
  <2> QED
    BY <2>4, <2>5
<1>3. N = Nat
  BY <1>1, <1>2, InduccionNat DEF N
<1> SUFFICES ASSUME NEW J, J \in SUBSET Nat, IsFiniteSet(J) PROVE Caso(J)
  OBVIOUS
<1>4. Cardinality(J) \in N
  BY <1>3, FS_CardinalityType
<1> QED
  BY <1>4

(* The first blocks, in order. *)
LEMMA PrimerosTipo ==
  ASSUME NEW n
  PROVE  Primeros(n) \subseteq Libres /\ Libres \subseteq Bloques /\ IsFiniteSet(Libres) /\ IsFiniteSet(Primeros(n))
<1>1. Primeros(n) \subseteq Libres /\ Libres \subseteq Bloques
  BY DEF Primeros, Libres
<1>2. CantBloques - 1 \in Int /\ IsFiniteSet(0 .. (CantBloques - 1))
  BY FSAssumption, FS_Interval
<1> QED
  BY <1>1, <1>2, FS_Subset DEF Bloques

LEMMA OrdenadosTipo ==
  ASSUME NEW bs, bs \in SUBSET Bloques, IsFiniteSet(bs)
  PROVE  /\ Ordenados(bs) \in Seq(Bloques)
         /\ Len(Ordenados(bs)) = Cardinality(bs) /\ DOMAIN Ordenados(bs) = 1..Cardinality(bs)
         /\ ToSet(Ordenados(bs)) \subseteq bs
         /\ \A i, j \in DOMAIN Ordenados(bs) : Ordenados(bs)[i] = Ordenados(bs)[j] => i = j
<1> DEFINE o == Ordenados(bs)
           n == Cardinality(bs)
           Esta(b, k) == b \in bs /\ Cardinality({c \in bs : c <= b}) = k
<1>1. bs \in SUBSET Nat
  BY FSAssumption DEF Bloques
<1>2. n \in Nat
  BY FS_CardinalityType
<1>3. ASSUME NEW k \in 1..n PROVE Esta(o[k], k)
  <2>1. \E b \in bs : Cardinality({c \in bs : c <= b}) = k
    BY <1>1, Enesimo
  <2>2. o[k] = CHOOSE b \in bs : Cardinality({c \in bs : c <= b}) = k
    BY DEF Ordenados
  <2> QED
    BY <2>1, <2>2
<1>4. DOMAIN o = 1..n
  BY DEF Ordenados
<1> HIDE DEF n
<1>5. o \in [1..n -> bs]
  BY <1>3 DEF Ordenados, n
<1> HIDE DEF o
<1>6. o \in Seq(bs) /\ o \in Seq(Bloques)
  BY <1>2, <1>5, SeqDef
<1>7. Len(o) = n
  BY <1>2, <1>4, <1>6, LenProperties
<1>8. ToSet(o) \subseteq bs
  BY <1>5 DEF ToSet
<1>9. \A i, j \in 1..n : o[i] = o[j] => i = j
  BY <1>3
<1> QED
  BY <1>4, <1>6, <1>7, <1>8, <1>9 DEF o, n

LEMMA EnterosTipo ==
  ASSUME NEW n \in Nat
  PROVE  Enteros(n) \in Nat \ {0} /\ n <= Enteros(n) * Cap
<1>1. Cap \in Nat \ {0}
  BY FSAssumption
<1>2. CASE n = 0
  BY <1>1, <1>2 DEF Enteros
<1>3. CASE n # 0
  <2> DEFINE q == (n + Cap - 1) \div Cap
  <2>1. n + Cap - 1 \in Nat /\ n + Cap - 1 >= Cap
    BY <1>1, <1>3
  <2>2. q \in Int /\ Cap * q <= n + Cap - 1 /\ n + Cap - 1 < Cap * q + Cap
    BY <1>1, <2>1
  <2> HIDE DEF q
  <2>3. n <= Cap * q /\ Cap * q = q * Cap
    <3> DEFINE m == Cap * q
    <3>1. m \in Int /\ m = q * Cap
      BY <1>1, <2>2
    <3>2. m <= n + Cap - 1 /\ n + Cap - 1 < m + Cap
      BY <2>2
    <3> HIDE DEF m
    <3>3. n <= m
      BY <1>1, <3>1, <3>2
    <3> QED
      BY <3>1, <3>3 DEF m
  <2>4. q > 0
    <3>1. ASSUME q <= 0 PROVE q * Cap <= 0
      BY <1>1, <2>2, <3>1
    <3>2. q * Cap \in Int
      BY <1>1, <2>2
    <3> DEFINE m == q * Cap
    <3> HIDE DEF m
    <3>3. m \in Int /\ n <= m
      BY <2>3, <3>2 DEF m
    <3>4. ~(m <= 0)
      BY <1>3, <3>3
    <3> QED
      BY <2>2, <3>1, <3>4 DEF m
  <2>5. Enteros(n) = q
    BY <1>3 DEF Enteros, q
  <2> QED
    BY <2>2, <2>3, <2>4, <2>5
<1> QED
  BY <1>2, <1>3

(* What is written goes into the blocks, after what they hold. *)
LEMMA EscribirTipo ==
  ASSUME Tipos, NEW bs \in Seq(Sectores), NEW regs \in Seq(Pedidos)
  PROVE  /\ Escribir(bs, regs) \in [Sectores -> Seq(Pedidos)]
         /\ \A b \in Sectores : ToSet(disco[b]) \subseteq ToSet(Escribir(bs, regs)[b])
         /\ \A b \in Sectores \ ToSet(bs) : Escribir(bs, regs)[b] = disco[b]
<1>1. disco \in [Sectores -> Seq(Pedidos)] /\ Cap \in Nat \ {0} /\ Len(regs) \in Nat
  BY FSAssumption, LenProperties DEF Tipos
<1>2. Len(bs) \in Nat /\ DOMAIN bs = 1..Len(bs)
  BY LenProperties
<1>3. \A b : Contains(bs, b) <=> b \in ToSet(bs)
  BY DEF Contains, ToSet
<1> DEFINE J(b) == CHOOSE j \in DOMAIN bs : bs[j] = b
           H(b) == IF J(b) * Cap < Len(regs) THEN J(b) * Cap ELSE Len(regs)
           T(b) == SubSeq(regs, (J(b) - 1) * Cap + 1, H(b))
           E(b) == IF ~Contains(bs, b) THEN disco[b] ELSE disco[b] \o T(b)
<1>4. ASSUME NEW b \in Sectores, b \in ToSet(bs)
      PROVE  T(b) \in Seq(Pedidos)
  <2>1. J(b) \in DOMAIN bs
    BY <1>4 DEF ToSet
  <2> HIDE DEF J
  <2>2. J(b) \in Nat \ {0} /\ J(b) * Cap \in Int /\ (J(b) - 1) * Cap + 1 \in Nat \ {0}
    BY <1>1, <1>2, <2>1, SMTT(30)
  <2>3. H(b) \in Int /\ H(b) <= Len(regs)
    BY <1>1, <2>2
  <2> HIDE DEF H
  <2>4. \A m \in Nat \ {0}, n \in Int : n <= Len(regs) => SubSeq(regs, m, n) \in Seq(Pedidos)
    <3> TAKE m \in Nat \ {0}, n \in Int
    <3> HAVE n <= Len(regs)
    <3>1. \A i \in m..n : regs[i] \in Pedidos
      BY <1>1, ElementOfSeq
    <3> QED
      BY <3>1, SubSeqProperties
  <2> QED
    BY <2>2, <2>3, <2>4
<1>5. ASSUME NEW b \in Sectores
      PROVE  E(b) \in Seq(Pedidos) /\ ToSet(disco[b]) \subseteq ToSet(E(b)) /\ (b \notin ToSet(bs) => E(b) = disco[b])
  <2>1. CASE b \notin ToSet(bs)
    BY <1>1, <1>3, <2>1
  <2>2. CASE b \in ToSet(bs)
    <3>1. T(b) \in Seq(Pedidos) /\ E(b) = disco[b] \o T(b)
      BY <1>3, <1>4, <2>2
    <3> HIDE DEF T, E
    <3>2. disco[b] \in Seq(Pedidos)
      BY <1>1
    <3>3. /\ disco[b] \o T(b) \in Seq(Pedidos)
          /\ Len(disco[b] \o T(b)) = Len(disco[b]) + Len(T(b))
          /\ \A i \in 1..(Len(disco[b]) + Len(T(b))) :
               (disco[b] \o T(b))[i] = IF i <= Len(disco[b]) THEN disco[b][i] ELSE T(b)[i - Len(disco[b])]
      BY <3>1, <3>2, ConcatProperties
    <3>4. Len(disco[b]) \in Nat /\ Len(T(b)) \in Nat /\ DOMAIN disco[b] = 1..Len(disco[b])
      BY <3>1, <3>2, LenProperties
    <3>5. DOMAIN E(b) = 1..(Len(disco[b]) + Len(T(b)))
      BY <3>1, <3>3, LenProperties
    <3>6. \A i \in DOMAIN disco[b] : i \in DOMAIN E(b) /\ E(b)[i] = disco[b][i]
      BY <3>1, <3>3, <3>4, <3>5
    <3> QED
      BY <2>2, <3>1, <3>3, <3>6 DEF ToSet
  <2> QED
    BY <2>1, <2>2
<1>6. Escribir(bs, regs) = [b \in Sectores |-> E(b)]
  BY <1>1 DEF Escribir
<1> HIDE DEF E
<1> QED
  BY <1>5, <1>6

(* The lists of a compaction take the records one after the other. *)
LEMMA ParticionTipo ==
  ASSUME NEW r \in Pedidos
  PROVE  ParticionDe(Clave[r]) \in 1..Particiones
BY FSAssumption DEF ParticionDe

LEMMA EnteroNat ==
  \A p \in Pedidos : Entero(p) \in Nat
<1> SUFFICES ASSUME NEW p \in Pedidos PROVE Entero(p) \in Nat
  OBVIOUS
<1>1. TS[p] \in Nat /\ 2 * Medio \in Nat \ {0} /\ Medio - 1 \in Nat
  BY FSAssumption
<1> QED
  BY <1>1 DEF Entero

(* r is of the key of q, and the code does not take it for older. *)
Cubre(r, q) == Clave[r] = Clave[q] /\ Entero(r) >= Entero(q)

LEMMA CubreOrden ==
  /\ \A p \in Pedidos : Clave[p] \in Nat /\ Entero(p) \in Nat
  /\ \A p \in Pedidos : Cubre(p, p)
  /\ \A p, q, r \in Pedidos : Cubre(r, q) /\ Cubre(q, p) => Cubre(r, p)
BY FSAssumption, EnteroNat DEF Cubre

(* A list that takes a record keeps a record no older for each it had. *)
LEMMA Actualizar1Cubre ==
  ASSUME NEW lista \in Seq(Pedidos), NEW r \in Pedidos
  PROVE  /\ Actualizar1(lista, r) \in Seq(Pedidos)
         /\ \A q \in ToSet(lista) \cup {r} : \E z \in ToSet(Actualizar1(lista, r)) : Cubre(z, q)
<1> DEFINE I == DeLaClave(lista, r)
           i == Min(I)
           a == Actualizar1(lista, r)
<1>1. Len(lista) \in Nat /\ DOMAIN lista = 1..Len(lista) /\ \A j \in DOMAIN lista : lista[j] \in Pedidos
  BY LenProperties, ElementOfSeq
<1>2. ToSet(lista) \subseteq Pedidos
  BY <1>1 DEF ToSet
<1>3. ASSUME NEW s \in Seq(Pedidos)
      PROVE  /\ Append(s, r) \in Seq(Pedidos)
             /\ ToSet(Append(s, r)) = ToSet(s) \cup {r}
  BY AppendProperties, LenProperties DEF ToSet
<1>4. CASE I = {}
  BY <1>2, <1>3, <1>4, CubreOrden DEF Actualizar1, a
<1>5. CASE I # {}
  <2>1. i \in I
    <3>1. I \in SUBSET Nat
      BY <1>1 DEF DeLaClave
    <3> HIDE DEF I
    <3> QED
      BY <1>5, <3>1, MinEsElemento
  <2>2. i \in DOMAIN lista /\ Clave[lista[i]] = Clave[r]
    BY <2>1 DEF DeLaClave
  <2> HIDE DEF i
  <2>3. Entero(r) \in Nat /\ Entero(lista[i]) \in Nat /\ Clave[r] \in Nat
    BY <1>1, <2>2, CubreOrden
  <2>4. CASE Entero(r) > Entero(lista[i])
    <3>1. a = Append(RemoveAt(lista, i), r)
      BY <1>5, <2>4 DEF Actualizar1, i
    <3> DEFINE s == RemoveAt(lista, i)
    <3>2. /\ s \in Seq(Pedidos) /\ DOMAIN s = 1..(Len(lista) - 1)
          /\ \A j \in 1..(Len(lista) - 1) : s[j] = IF j < i THEN lista[j] ELSE lista[j + 1]
      BY <2>2, RemoveAtElementos
    <3> HIDE DEF s
    <3>3. ASSUME NEW j \in DOMAIN lista, j # i PROVE lista[j] \in ToSet(s)
      <4>1. CASE j < i
        BY <1>1, <2>2, <3>2, <4>1 DEF ToSet
      <4>2. CASE ~(j < i)
        <5>1. j - 1 \in 1..(Len(lista) - 1) /\ ~(j - 1 < i) /\ (j - 1) + 1 = j
          BY <1>1, <2>2, <3>3, <4>2
        <5>2. s[j - 1] = lista[j]
          BY <3>2, <5>1
        <5> QED
          BY <3>2, <5>1, <5>2 DEF ToSet
      <4> QED
        BY <4>1, <4>2
    <3>4. a \in Seq(Pedidos) /\ ToSet(a) = ToSet(s) \cup {r}
      BY <1>3, <3>1, <3>2 DEF s
    <3> HIDE DEF a
    <3>5. ASSUME NEW q \in ToSet(lista) PROVE \E z \in ToSet(a) : Cubre(z, q)
      <4>1. PICK j \in DOMAIN lista : lista[j] = q
        BY <3>5 DEF ToSet
      <4>2. CASE j = i
        BY <2>2, <2>3, <2>4, <3>4, <4>1, <4>2 DEF Cubre
      <4>3. CASE j # i
        BY <1>2, <3>3, <3>4, <4>1, <4>3, CubreOrden
      <4> QED
        BY <4>2, <4>3
    <3>6. r \in ToSet(a) /\ Cubre(r, r)
      BY <3>4, CubreOrden
    <3> QED
      BY <3>4, <3>5, <3>6 DEF a
  <2>5. CASE ~(Entero(r) > Entero(lista[i]))
    BY <1>2, <1>5, <2>2, <2>3, <2>5, CubreOrden DEF Actualizar1, i, ToSet, Cubre, a
  <2> QED
    BY <2>4, <2>5
<1> QED
  BY <1>4, <1>5

(* What the lists hold of the partition each is for. *)
EnListas(alm) == UNION {{r \in ToSet(alm[k]) : ParticionDe(Clave[r]) = k} : k \in 1..Particiones}

(* The lists take one record. *)
UnoEnListas(alm, r) == [alm EXCEPT ![ParticionDe(Clave[r])] = Actualizar1(@, r)]

LEMMA UnoEnListasCubre ==
  ASSUME NEW alm \in Listas, NEW r \in Pedidos
  PROVE  /\ UnoEnListas(alm, r) \in Listas
         /\ \A q \in EnListas(alm) \cup {r} : \E z \in EnListas(UnoEnListas(alm, r)) : Cubre(z, q)
         /\ EnListas(alm) \subseteq Pedidos
<1> DEFINE k == ParticionDe(Clave[r])
           lista == alm[k]
           nueva == Actualizar1(lista, r)
           alm2 == UnoEnListas(alm, r)
<1>1. k \in 1..Particiones
  BY ParticionTipo
<1> HIDE DEF k
<1>2. lista \in Seq(Pedidos)
  BY <1>1 DEF Listas
<1>3. nueva \in Seq(Pedidos) /\ \A q \in ToSet(lista) \cup {r} : \E z \in ToSet(nueva) : Cubre(z, q)
  BY <1>2, Actualizar1Cubre
<1>4. alm2 = [alm EXCEPT ![k] = nueva]
  BY DEF UnoEnListas, k
<1> HIDE DEF nueva, alm2
<1>5. alm2 \in Listas /\ alm2[k] = nueva /\ \A m \in (1..Particiones) \ {k} : alm2[m] = alm[m]
  BY <1>1, <1>3, <1>4 DEF Listas
<1>6. EnListas(alm) \subseteq Pedidos
  BY LenProperties, ElementOfSeq DEF Listas, ToSet, EnListas
<1>7. ASSUME NEW z \in ToSet(nueva), NEW q \in ToSet(lista) \cup {r}, Cubre(z, q), ParticionDe(Clave[q]) = k
      PROVE  z \in EnListas(alm2)
  BY <1>1, <1>5, <1>7 DEF Cubre, EnListas
<1>8. ASSUME NEW q \in EnListas(alm) PROVE \E z \in EnListas(alm2) : Cubre(z, q)
  <2>1. PICK m \in 1..Particiones : q \in ToSet(alm[m]) /\ ParticionDe(Clave[q]) = m
    BY DEF EnListas
  <2>2. CASE m = k
    BY <1>3, <1>7, <2>1, <2>2
  <2>3. CASE m # k
    BY <1>5, <1>6, <2>1, <2>3, CubreOrden DEF EnListas
  <2> QED
    BY <2>2, <2>3
<1>9. \E z \in EnListas(alm2) : Cubre(z, r)
  BY <1>3, <1>7 DEF k
<1> QED
  BY <1>5, <1>6, <1>8, <1>9 DEF alm2

(* They take a sequence of records, one after the other. *)
PasoALista(alm, regs, f) ==
  f = [n \in 0..Len(regs) |->
         IF n = 0 THEN alm
         ELSE [f[n - 1] EXCEPT ![ParticionDe(Clave[regs[n]])] = Actualizar1(@, regs[n])]]

LEMMA ListaPorPasos ==
  ASSUME NEW alm \in Listas, NEW regs \in Seq(Pedidos)
  PROVE  \E f : PasoALista(alm, regs, f)
<1> DEFINE m == Len(regs)
           Camino(n, f) == /\ f \in [0..n -> Listas] /\ f[0] = alm
                           /\ \A k \in 1..n : f[k] = UnoEnListas(f[k - 1], regs[k])
           N == {n \in Nat : n <= m => \E f : Camino(n, f)}
<1>1. m \in Nat /\ \A k \in 1..m : regs[k] \in Pedidos
  BY LenProperties, ElementOfSeq
<1> HIDE DEF m
<1>2. 0 \in N
  <2>1. Camino(0, [k \in 0..0 |-> alm])
    OBVIOUS
  <2> HIDE DEF Camino
  <2> QED
    BY <2>1
<1>3. ASSUME NEW n \in N PROVE n + 1 \in N
  <2> SUFFICES ASSUME n + 1 <= m PROVE \E f : Camino(n + 1, f)
    OBVIOUS
  <2>1. n \in Nat /\ n <= m /\ n + 1 \in 1..m
    BY <1>1
  <2> HIDE DEF Camino
  <2>2. PICK f : Camino(n, f)
    BY <2>1
  <2> USE DEF Camino
  <2> DEFINE g == [k \in 0..(n + 1) |-> IF k = n + 1 THEN UnoEnListas(f[n], regs[n + 1]) ELSE f[k]]
  <2>3. f[n] \in Listas /\ regs[n + 1] \in Pedidos
    BY <1>1, <2>1, <2>2
  <2>4. UnoEnListas(f[n], regs[n + 1]) \in Listas
    BY <2>3, UnoEnListasCubre
  <2>5. \A k \in 0..n : g[k] = f[k] /\ f[k] \in Listas
    BY <2>1, <2>2
  <2>6. g[n + 1] = UnoEnListas(f[n], regs[n + 1])
    BY <2>1
  <2>7. \A k \in 0..(n + 1) : k \in 0..n \/ k = n + 1
    BY <2>1
  <2>8. g \in [0..(n + 1) -> Listas]
    BY <2>4, <2>5, <2>6, <2>7
  <2> HIDE DEF g
  <2>9. g[0] = alm
    BY <2>1, <2>2, <2>5
  <2>10. ASSUME NEW k \in 1..(n + 1) PROVE g[k] = UnoEnListas(g[k - 1], regs[k])
    <3>1. k - 1 \in 0..n
      BY <2>1
    <3>2. CASE k = n + 1
      BY <2>1, <2>5, <2>6, <3>1, <3>2
    <3>3. CASE k # n + 1
      <4>1. k \in 1..n /\ k \in 0..n
        BY <2>1, <3>3
      <4> QED
        BY <2>2, <2>5, <3>1, <4>1
    <3> QED
      BY <3>2, <3>3
  <2>11. Camino(n + 1, g)
    BY <2>8, <2>9, <2>10
  <2> HIDE DEF Camino
  <2> QED
    BY <2>11
<1>4. m \in N
  BY <1>1, <1>2, <1>3, InduccionNat DEF N
<1> HIDE DEF Camino
<1>5. PICK f : Camino(m, f)
  BY <1>1, <1>4
<1> USE DEF Camino
<1>6. \A k \in 0..m : f[k] = IF k = 0 THEN alm ELSE [f[k - 1] EXCEPT ![ParticionDe(Clave[regs[k]])] = Actualizar1(@, regs[k])]
  <2> SUFFICES ASSUME NEW k \in 0..m
               PROVE  f[k] = IF k = 0 THEN alm ELSE [f[k - 1] EXCEPT ![ParticionDe(Clave[regs[k]])] = Actualizar1(@, regs[k])]
    OBVIOUS
  <2>1. CASE k = 0
    BY <1>5, <2>1
  <2>2. CASE k # 0
    <3>1. k \in 1..m
      BY <1>1, <2>2
    <3>2. f[k] = UnoEnListas(f[k - 1], regs[k])
      BY <1>5, <3>1
    <3> QED
      BY <2>2, <3>2 DEF UnoEnListas
  <2> QED
    BY <2>1, <2>2
<1>7. PasoALista(alm, regs, f)
  <2>1. f = [k \in 0..m |-> f[k]]
    BY <1>5
  <2> QED
    BY <1>6, <2>1 DEF PasoALista, m
<1> QED
  BY <1>7

LEMMA ActualizarTodosCubre ==
  ASSUME NEW alm \in Listas, NEW regs \in Seq(Pedidos)
  PROVE  /\ ActualizarTodos(alm, regs) \in Listas
         /\ \A q \in EnListas(alm) \cup ToSet(regs) : \E z \in EnListas(ActualizarTodos(alm, regs)) : Cubre(z, q)
<1> DEFINE m == Len(regs)
           f == CHOOSE g : PasoALista(alm, regs, g)
           Bien(n) == /\ f[n] \in Listas
                      /\ \A q \in EnListas(alm) : \E z \in EnListas(f[n]) : Cubre(z, q)
                      /\ \A k \in 1..n : \E z \in EnListas(f[n]) : Cubre(z, regs[k])
           N == {n \in Nat : n <= m => Bien(n)}
<1>1. m \in Nat /\ DOMAIN regs = 1..m /\ \A k \in 1..m : regs[k] \in Pedidos
  BY LenProperties, ElementOfSeq
<1>2. PasoALista(alm, regs, f)
  BY ListaPorPasos
<1>3. ActualizarTodos(alm, regs) = f[m]
  BY DEF ActualizarTodos, PasoALista
<1> HIDE DEF f
<1>4. f[0] = alm /\ \A k \in 1..m : f[k] = UnoEnListas(f[k - 1], regs[k])
  <2> DEFINE E(n) == IF n = 0 THEN alm
                     ELSE [f[n - 1] EXCEPT ![ParticionDe(Clave[regs[n]])] = Actualizar1(@, regs[n])]
  <2>1. f = [n \in 0..m |-> E(n)]
    BY <1>2 DEF PasoALista
  <2> HIDE DEF E, m
  <2>2. \A n \in 0..m : f[n] = E(n)
    BY <2>1
  <2>3. 0 \in 0..m /\ \A k \in 1..m : k \in 0..m /\ k # 0
    BY <1>1
  <2> QED
    BY <2>2, <2>3 DEF E, UnoEnListas
<1> HIDE DEF m
<1>5. 0 \in N
  <2>1. EnListas(alm) \subseteq Pedidos
    BY UnoEnListasCubre DEF EnListas, Listas, ToSet
  <2> QED
    BY <1>4, <2>1, CubreOrden
<1>6. ASSUME NEW n \in N PROVE n + 1 \in N
  <2> SUFFICES ASSUME n + 1 <= m PROVE Bien(n + 1)
    OBVIOUS
  <2> DEFINE r == regs[n + 1]
             g == f[n + 1]
  <2>1. n \in Nat /\ n <= m /\ n + 1 \in 1..m /\ (n + 1) - 1 = n
    BY <1>1
  <2>2. Bien(n)
    BY <2>1
  <2>3. f[n] \in Listas /\ r \in Pedidos /\ g = UnoEnListas(f[n], r)
    BY <1>1, <1>4, <2>1, <2>2
  <2> HIDE DEF r, g
  <2>4. /\ g \in Listas
        /\ \A q \in EnListas(f[n]) \cup {r} : \E z \in EnListas(g) : Cubre(z, q)
        /\ EnListas(f[n]) \subseteq Pedidos
    BY <2>3, UnoEnListasCubre
  <2>5. EnListas(g) \subseteq Pedidos
    BY <2>3, <2>4, UnoEnListasCubre
  <2>6. ASSUME NEW q \in Pedidos, \E z \in EnListas(f[n]) : Cubre(z, q)
        PROVE  \E z \in EnListas(g) : Cubre(z, q)
    BY <2>4, <2>5, <2>6, CubreOrden
  <2>7. EnListas(alm) \subseteq Pedidos
    BY <2>3, UnoEnListasCubre
  <2>8. \A q \in EnListas(alm) : \E z \in EnListas(g) : Cubre(z, q)
    BY <2>2, <2>6, <2>7
  <2>9. ASSUME NEW k \in 1..(n + 1) PROVE \E z \in EnListas(g) : Cubre(z, regs[k])
    BY <1>1, <2>1, <2>2, <2>4, <2>6 DEF r
  <2> QED
    BY <2>4, <2>8, <2>9 DEF g
<1>7. m \in N
  BY <1>1, <1>5, <1>6, InduccionNat DEF N
<1>8. Bien(m)
  BY <1>1, <1>7
<1>9. \A q \in ToSet(regs) : \E k \in 1..m : regs[k] = q
  BY <1>1 DEF ToSet
<1> QED
  BY <1>3, <1>8, <1>9

-----------------------------------------------------------------------------
(* Every action keeps the types.                                           *)

LEMMA PedDe ==
  ASSUME Tipos, NEW p \in Pedidos, NEW x \in TPed, ped' = [ped EXCEPT ![p] = x]
  PROVE  ped' \in [Pedidos -> TPed]
BY DEF Tipos

LEMMA CompDe ==
  ASSUME Tipos, NEW t \in Tablas, NEW c \in TComp, EnRango(c), comp' = [comp EXCEPT ![t] = c]
  PROVE  /\ comp' \in [Tablas -> TComp] /\ \A u \in Tablas : EnRango(comp'[u])
         /\ comp'[t] = c /\ \A u \in Tablas \ {t} : comp'[u] = comp[u]
BY DEF Tipos

LEMMA TablasDe ==
  ASSUME Tipos, NEW i \in DOMAIN tablas, NEW x \in TTabla, NEW s, s = [tablas EXCEPT ![i] = x]
  PROVE  /\ s \in Seq(TTabla) /\ Len(s) = Len(tablas) /\ DOMAIN s = DOMAIN tablas
         /\ s[i] = x /\ \A j \in DOMAIN tablas \ {i} : s[j] = tablas[j]
BY ExceptSeq, LenProperties DEF Tipos

LEMMA MemDe ==
  ASSUME Tipos, NEW i \in DOMAIN mem, NEW x \in TNodo, NEW s, s = [mem EXCEPT ![i] = x]
  PROVE  /\ s \in Seq(TNodo) /\ Len(s) = Len(mem) /\ DOMAIN s = DOMAIN mem
         /\ s[i] = x /\ \A j \in DOMAIN mem \ {i} : s[j] = mem[j]
BY ExceptSeq, LenProperties DEF Tipos

(* Tables and compactions that change a few of their fields. *)
LEMMA VaciaEsSeq ==
  \A S : <<>> \in Seq(S)
OBVIOUS

LEMMA TablaCambia ==
  ASSUME NEW x \in TTabla, NEW k \in Nat \ {0}, NEW m \in Nat \ {0}, NEW t \in Tablas
  PROVE  /\ [x EXCEPT !.contador = k, !.compactados = m] \in TTabla
         /\ [x EXCEPT !.compactados = m, !.mutex = t] \in TTabla
BY DEF TTabla

LEMMA CompDescarga ==
  ASSUME NEW c \in TComp, NEW alm \in Listas, NEW i \in Nat, i \in 1..Particiones, NEW j \in Nat \ {0}
  PROVE  /\ [c EXCEPT !.paso = "descargar", !.i = i, !.j = j, !.almacen = alm] \in TComp
         /\ EnRango([c EXCEPT !.paso = "descargar", !.i = i, !.j = j, !.almacen = alm])
BY DEF TComp, EnRango

LEMMA CompDescargaOtro ==
  ASSUME NEW c \in TComp, NEW alm \in Listas, EnRango(c), c.paso = "descargar", NEW b \in Sectores, NEW j \in Nat \ {0}
  PROVE  /\ [c EXCEPT !.almacen = alm, !.vaciar = b, !.j = j] \in TComp
         /\ EnRango([c EXCEPT !.almacen = alm, !.vaciar = b, !.j = j])
BY DEF TComp, EnRango

LEMMA CompAvanza ==
  ASSUME NEW c \in TComp, EnRango(c), c.paso = "descargar", NEW i \in Nat, i \in 1..Particiones, NEW j \in Nat \ {0}
  PROVE  [c EXCEPT !.i = i, !.j = j] \in TComp /\ EnRango([c EXCEPT !.i = i, !.j = j])
BY DEF TComp, EnRango

LEMMA CompActualiza ==
  ASSUME NEW c \in TComp, NEW alm \in Listas, EnRango(c), c.paso = "actualizar", NEW s \in Seq(Sectores)
  PROVE  [c EXCEPT !.bs = s, !.almacen = alm] \in TComp /\ EnRango([c EXCEPT !.bs = s, !.almacen = alm])
BY DEF TComp, EnRango

LEMMA CompSigueTmpc ==
  ASSUME NEW c \in TComp, EnRango(c), c.paso = "actualizar", NEW i \in Nat, NEW s \in Seq(Sectores)
  PROVE  [c EXCEPT !.i = i, !.bs = s] \in TComp /\ EnRango([c EXCEPT !.i = i, !.bs = s])
BY DEF TComp, EnRango

LEMMA CompTermina ==
  ASSUME NEW c \in TComp, NEW p \in {"dormido", "fin"}
  PROVE  /\ [c EXCEPT !.paso = p, !.bs = <<>>, !.almacen = <<>>, !.i = 0] \in TComp
         /\ EnRango([c EXCEPT !.paso = p, !.bs = <<>>, !.almacen = <<>>, !.i = 0])
BY VaciaEsSeq DEF TComp, EnRango

LEMMA CompReserva ==
  ASSUME NEW c \in TComp, EnRango(c), c.paso = "guardar", NEW i \in Nat, i \in 1..Particiones
  PROVE  /\ [c EXCEPT !.paso = "reservar", !.bs = <<>>, !.i = i] \in TComp
         /\ EnRango([c EXCEPT !.paso = "reservar", !.bs = <<>>, !.i = i])
BY VaciaEsSeq DEF TComp, EnRango

(* A file that is written, the others as they were. *)
LEMMA ConArchivoTipo ==
  ASSUME Tipos, NEW f \in Archivo, NEW x \in Seq(Sectores)
  PROVE  /\ DOMAIN ConArchivo(f, x) = DOMAIN archivos \cup {f}
         /\ DOMAIN ConArchivo(f, x) \subseteq Archivo
         /\ ConArchivo(f, x) \in [DOMAIN ConArchivo(f, x) -> Seq(Sectores)]
         /\ ConArchivo(f, x)[f] = x
         /\ \A g \in DOMAIN archivos \ {f} : ConArchivo(f, x)[g] = archivos[g]
BY DEF ConArchivo, Tipos

LEMMA ArchivoTipo ==
  \A t \in Tablas, k \in Nat \ {0} : <<t, "bin", k>> \in Archivo /\ <<t, "tmp", k>> \in Archivo /\ <<t, "tmpc", k>> \in Archivo
BY DEF Archivo

LEMMA TablaDePedido ==
  \A p \in Pedidos : Tabla[p] \in Tablas
BY FSAssumption

(* A step of a request that changes only its place. *)
LEMMA TiposIr ==
  ASSUME Tipos, NEW p \in Pedidos, NEW s \in Pasos, Ir(p, s),
         tablas' = tablas \/ tablas' \in Seq(TTabla), mem' = mem \/ mem' \in Seq(TNodo),
         dirs' = dirs \/ dirs' \subseteq Tablas, metadata' = metadata \/ metadata' \subseteq Tablas,
         esperaTabla' = esperaTabla \/ esperaTabla' \in Nat,
         UNCHANGED <<archivos, ocupados, disco, dump, comp>>
  PROVE  Tipos'
<1>1. ped' \in [Pedidos -> TPed]
  BY IrTipo
<1> QED
  BY <1>1, TiposIguales

LEMMA CrearDirectorioTipos ==
  ASSUME Tipos, NEW p \in Pedidos, CrearExistente(p) \/ CrearSinEspacio(p) \/ CrearDirectorio(p)
  PROVE  Tipos'
BY TablaDePedido, TiposIr DEF CrearExistente, CrearSinEspacio, CrearDirectorio, Tipos, Pasos, disk

LEMMA CrearParticionesTipos ==
  ASSUME Tipos, Vidas, NEW p \in Pedidos, CrearParticiones(p)
  PROVE  Tipos'
<1> DEFINE t == Tabla[p]
           bs == Primeros(Particiones)
           orden == Ordenados(bs)
           nuevos == {<<t, "bin", i>> : i \in DOMAIN orden}
<1>1. bs \subseteq Bloques /\ IsFiniteSet(bs) /\ t \in Tablas
  BY PrimerosTipo, TablaDePedido
<1>2. orden \in Seq(Bloques) /\ DOMAIN orden = 1..Cardinality(bs) /\ Cardinality(bs) \in Nat
  BY <1>1, OrdenadosTipo, FS_CardinalityType
<1>3. \A i \in DOMAIN orden : <<orden[i]>> \in Seq(Sectores) /\ i \in Nat \ {0}
  BY <1>2, ElementOfSeq, LenProperties DEF Sectores
<1> HIDE DEF orden, bs
<1>4. \A f \in nuevos : f \in Archivo /\ <<orden[f[3]]>> \in Seq(Sectores)
  <2> SUFFICES ASSUME NEW f \in nuevos PROVE f \in Archivo /\ <<orden[f[3]]>> \in Seq(Sectores)
    OBVIOUS
  <2>1. PICK i \in DOMAIN orden : f = <<t, "bin", i>>
    OBVIOUS
  <2>2. f[3] = i
    BY <2>1
  <2> QED
    BY <1>1, <1>3, <2>1, <2>2, ArchivoTipo
<1>5. archivos' = [f \in DOMAIN archivos \cup nuevos |-> IF f \in nuevos THEN <<orden[f[3]]>> ELSE archivos[f]]
  BY DEF CrearParticiones, orden, bs
<1> HIDE DEF nuevos
<1>6. DOMAIN archivos' \subseteq Archivo /\ archivos' \in [DOMAIN archivos' -> Seq(Sectores)]
  BY <1>4, <1>5 DEF Tipos
<1>7. ocupados' \subseteq Bloques
  BY <1>1 DEF CrearParticiones, Marcar, Tipos, bs
<1>8. comp' \in [Tablas -> TComp] /\ \A u \in Tablas : EnRango(comp'[u])
  <2> DEFINE c == [comp[t] EXCEPT !.paso = "esperaTabla"]
  <2>1. comp[t].paso \in {"nada", "fin"}
    BY DEF CrearParticiones, En, Vidas, Creando, VidaDeCreate
  <2>2. comp[t] \in TComp /\ EnRango(comp[t])
    BY <1>1, CompTipo
  <2>3. c \in TComp /\ EnRango(c)
    BY <2>1, <2>2 DEF TComp, EnRango
  <2>4. comp' = [comp EXCEPT ![t] = c]
    BY DEF CrearParticiones
  <2> HIDE DEF c
  <2> QED
    BY <1>1, <2>3, <2>4, CompDe
<1>9. ped' \in [Pedidos -> TPed]
  BY IrTipo DEF CrearParticiones, Pasos
<1> QED
  BY <1>6, <1>7, <1>8, <1>9, TiposIguales DEF CrearParticiones

LEMMA RegistrarTipos ==
  ASSUME Tipos, NEW p \in Pedidos, Registrar(p)
  PROVE  Tipos'
<1>1. Tabla0(Tabla[p]) \in TTabla
  BY TablaDePedido DEF Tabla0, TTabla
<1>2. tablas' \in Seq(TTabla)
  BY <1>1, AppendProperties DEF Registrar, Tipos
<1>3. esperaTabla' \in Nat
  BY DEF Registrar, Tipos
<1>4. Ir(p, "fin") /\ "fin" \in Pasos
  BY DEF Registrar, Pasos
<1> QED
  BY <1>2, <1>3, <1>4, TiposIr DEF Registrar, disk

LEMMA BuscarMemTableTipos ==
  ASSUME Tipos, NEW p \in Pedidos, BuscarMemTable(p)
  PROVE  Tipos'
<1> DEFINE t == Tabla[p]
<1>1. t \in Tablas
  BY TablaDePedido
<1>2. CASE t \notin dirs
  BY <1>2, TiposIr DEF BuscarMemTable, Pasos, disk
<1>3. CASE t \in dirs
  <2> DEFINE n == IF NodosDe(t) = {} THEN p ELSE mem[Min(NodosDe(t))].id
             x == [ped[p] EXCEPT !.paso = "insertar", !.nodo = n]
  <2>1. [id |-> p, nombre |-> t, regs |-> <<>>] \in TNodo
    BY <1>1 DEF TNodo
  <2>2. Append(mem, [id |-> p, nombre |-> t, regs |-> <<>>]) \in Seq(TNodo)
    BY <2>1, AppendProperties DEF Tipos
  <2>3. mem' \in Seq(TNodo)
    BY <1>3, <2>2 DEF BuscarMemTable, Tipos
  <2>4. n \in Pedidos
    <3>1. ASSUME NodosDe(t) # {} PROVE Min(NodosDe(t)) \in DOMAIN mem
      <4>1. NodosDe(t) \subseteq DOMAIN mem /\ NodosDe(t) \in SUBSET Nat
        BY MemTipo DEF NodosDe
      <4> QED
        BY <3>1, <4>1, MinEsElemento
    <3> QED
      BY <3>1, MemTipo DEF TNodo
  <2> HIDE DEF n
  <2>5. x \in TPed
    BY <2>4, PedTipo, ZenonT(60) DEF TPed
  <2>6. ped' = [ped EXCEPT ![p] = x]
    BY <1>3 DEF BuscarMemTable, n
  <2>7. ped' \in [Pedidos -> TPed]
    BY <2>5, <2>6, PedDe
  <2> QED
    BY <2>3, <2>7, TiposIguales DEF BuscarMemTable, disk
<1> QED
  BY <1>2, <1>3

LEMMA InsertarTipos ==
  ASSUME Tipos, NEW p \in Pedidos, Insertar(p)
  PROVE  Tipos'
<1> DEFINE i == Nodo(ped[p].nodo)
           x == [mem[i] EXCEPT !.regs = Append(@, p)]
<1>1. i \in DOMAIN mem
  BY DEF Insertar, InsertarCae, HayNodo, Nodo
<1>2. mem[i] \in TNodo
  BY <1>1, MemTipo
<1>3. mem' = [mem EXCEPT ![i] = x]
  BY DEF Insertar
<1> HIDE DEF i
<1>4. Append(mem[i].regs, p) \in Seq(Pedidos)
  BY <1>2, AppendProperties DEF TNodo
<1>5. x \in TNodo
  BY <1>2, <1>4 DEF TNodo
<1>6. mem' \in Seq(TNodo)
  BY <1>1, <1>3, <1>5, MemDe
<1>7. Ir(p, "fin") /\ "fin" \in Pasos
  BY DEF Insertar, Pasos
<1> QED
  BY <1>6, <1>7, TiposIr DEF Insertar, disk

(* The memtable that a dump writes, and the table of its place. *)
LEMMA LugarTipo ==
  ASSUME Tipos, EnVolcado, Volcando
  PROVE  /\ Lugar \in DOMAIN mem /\ mem[Lugar] \in TNodo
         /\ ~VolcarCae => Lugar \in DOMAIN tablas /\ tablas[Lugar] \in TTabla
<1>1. Len(mem) \in Nat /\ DOMAIN mem = 1..Len(mem) /\ \A i \in DOMAIN mem : mem[i] \in TNodo
  BY MemTipo
<1>2. Lugar \in DOMAIN mem
  BY <1>1, EmptySeq DEF Volcando, Tipos, Lugar, EnVolcado
<1>3. ASSUME ~VolcarCae PROVE Lugar \in DOMAIN tablas
  <2>1. ~(Lugar > Len(tablas))
    BY <1>3 DEF VolcarCae
  <2> QED
    BY <1>1, <1>2, <2>1, TablasTipo
<1> QED
  BY <1>1, <1>2, <1>3, TablasTipo

LEMMA DumpSinBloquesTipos ==
  ASSUME Tipos, DumpSinBloques
  PROVE  Tipos'
BY TiposIguales DEF DumpSinBloques, Tipos, TDump, disk

LEMMA VolcarTipos ==
  ASSUME Tipos, EnVolcado, Volcar
  PROVE  Tipos'
<1> DEFINE nodo == mem[Lugar]
           numero == tablas[Lugar].contador
           n == Enteros(Len(nodo.regs))
           bs == Primeros(n)
           o == Ordenados(bs)
           x == [nodo EXCEPT !.regs = <<>>]
<1>1. Lugar \in DOMAIN mem /\ nodo \in TNodo /\ Lugar \in DOMAIN tablas /\ tablas[Lugar] \in TTabla
  BY LugarTipo DEF Volcar
<1>2. nodo.nombre \in Tablas /\ nodo.regs \in Seq(Pedidos) /\ numero \in Nat \ {0}
  BY <1>1 DEF TNodo, TTabla
<1>3. bs \in SUBSET Bloques /\ IsFiniteSet(bs)
  BY PrimerosTipo
<1> HIDE DEF bs
<1>4. o \in Seq(Bloques)
  BY <1>3, OrdenadosTipo
<1>5. o \in Seq(Sectores)
  BY <1>4, LenProperties, SeqDef DEF Sectores
<1>6. archivos' = ConArchivo(<<nodo.nombre, "tmp", numero>>, o)
  BY DEF Volcar, bs
<1>7. disco' = Escribir(o, nodo.regs)
  BY DEF Volcar, bs
<1>8. ocupados' = ocupados \cup bs
  BY DEF Volcar, Marcar, bs
<1>9. mem' = [mem EXCEPT ![Lugar] = x] /\ dump' = [paso |-> "contar", i |-> Lugar, numero |-> numero]
  BY DEF Volcar
<1> HIDE DEF o
<1>10. x \in TNodo
  <2>1. <<>> \in Seq(Pedidos)
    OBVIOUS
  <2> HIDE DEF nodo
  <2> QED
    BY <1>1, <2>1 DEF TNodo, nodo
<1>11. mem' \in Seq(TNodo)
  BY <1>1, <1>9, <1>10, MemDe
<1>12. dump' \in TDump
  BY <1>1, <1>2, <1>9, MemTipo DEF TDump
<1>13. DOMAIN archivos' \subseteq Archivo /\ archivos' \in [DOMAIN archivos' -> Seq(Sectores)]
  BY <1>2, <1>5, <1>6, ArchivoTipo, ConArchivoTipo
<1>14. disco' \in [Sectores -> Seq(Pedidos)]
  BY <1>2, <1>5, <1>7, EscribirTipo
<1>15. ocupados' \subseteq Bloques
  BY <1>3, <1>8 DEF Tipos
<1> QED
  BY <1>11, <1>12, <1>13, <1>14, <1>15, TiposIguales DEF Volcar

LEMMA ContarTipos ==
  ASSUME Tipos, EnVolcado, Contar
  PROVE  Tipos'
<1> DEFINE x == [tablas[dump.i] EXCEPT !.contador = @ + 1]
<1>1. dump.i \in DOMAIN tablas /\ tablas[dump.i] \in TTabla /\ dump \in TDump
  BY TablasTipo DEF Contar, EnVolcado, Tipos
<1>2. x \in TTabla
  BY <1>1 DEF TTabla
<1>3. tablas' = [tablas EXCEPT ![dump.i] = x]
  BY DEF Contar, UnoMas
<1>4. tablas' \in Seq(TTabla)
  BY <1>1, <1>2, <1>3, TablasDe
<1>5. mem' \in Seq(TNodo)
  BY DEF Contar, Tipos
<1>6. dump' \in TDump
  BY <1>1 DEF Contar, TDump
<1> QED
  BY <1>4, <1>5, <1>6, TiposIguales DEF Contar, disk

-----------------------------------------------------------------------------
(* The compaction. *)

(* The table of a compaction. *)
LEMMA TablaActiva ==
  ASSUME Tipos, Vidas, Cadena, NEW t \in Tablas, Activa(t)
  PROVE  Registrada(t) /\ CadenaDe(LaTabla(t), comp[t])
BY TablaDe DEF Vidas, Cadena

(* A step of a compaction that changes only its place. *)
LEMMA ArrancarTipos ==
  ASSUME Tipos, NEW t \in Tablas, Arrancar(t)
  PROVE  Tipos'
<1> DEFINE c == [comp[t] EXCEPT !.paso = "dormido"]
<1>1. comp[t] \in TComp /\ EnRango(comp[t]) /\ comp[t].paso = "esperaTabla"
  BY CompTipo DEF Arrancar, Comp
<1>2. c \in TComp /\ EnRango(c) /\ comp' = [comp EXCEPT ![t] = c]
  BY <1>1 DEF TComp, EnRango, Arrancar
<1> HIDE DEF c
<1>3. comp' \in [Tablas -> TComp] /\ \A u \in Tablas : EnRango(comp'[u])
  BY <1>2, CompDe
<1>4. esperaTabla' \in Nat
  BY DEF Arrancar, Tipos
<1> QED
  BY <1>3, <1>4, TiposIguales DEF Arrancar, disk

LEMMA SalirTipos ==
  ASSUME Tipos, NEW t \in Tablas, Salir(t)
  PROVE  Tipos'
BY CompTipo, CompDe, TiposIguales DEF Salir, Comp, TComp, EnRango, disk

LEMMA RenombrablesTipo ==
  ASSUME Tipos, NEW t, Registrada(t)
  PROVE  /\ Renombrables(t) \subseteq 1 .. (LaTabla(t).contador - 1)
         /\ IsFiniteSet(Renombrables(t)) /\ Cardinality(Renombrables(t)) \in Nat
         /\ LaTabla(t).contador - 1 \in Nat
         /\ \A k \in Renombrables(t) : <<t, "tmp", k>> \in DOMAIN archivos
<1>1. LaTabla(t).contador \in Nat \ {0}
  BY TablaDe DEF TTabla
<1>2. Renombrables(t) \subseteq 1 .. (LaTabla(t).contador - 1)
  BY DEF Renombrables
<1>3. IsFiniteSet(1 .. (LaTabla(t).contador - 1))
  BY <1>1, FS_Interval
<1>4. \A k \in Renombrables(t) : k \in 1..k
  BY <1>1 DEF Renombrables
<1>5. \A k \in Renombrables(t) : <<t, "tmp", k>> \in DOMAIN archivos
  BY <1>4 DEF Renombrables
<1>6. IsFiniteSet(Renombrables(t)) /\ Cardinality(Renombrables(t)) \in Nat
  BY <1>2, <1>3, FS_Subset, FS_CardinalityType
<1> QED
  BY <1>1, <1>2, <1>5, <1>6

(* What the rename does to each file. *)
LEMMA RenombradosTipo ==
  ASSUME Tipos, NEW t, Registrada(t)
  PROVE  /\ DOMAIN Renombrados(t) =
              (DOMAIN archivos \ {<<t, "tmp", k>> : k \in Renombrables(t)}) \cup {<<t, "tmpc", k>> : k \in Renombrables(t)}
         /\ \A k \in Renombrables(t) : Renombrados(t)[<<t, "tmpc", k>>] = archivos[<<t, "tmp", k>>]
         /\ \A f \in DOMAIN Renombrados(t) \ {<<t, "tmpc", k>> : k \in Renombrables(t)} :
              f \in DOMAIN archivos /\ Renombrados(t)[f] = archivos[f]
         /\ DOMAIN Renombrados(t) \subseteq Archivo
         /\ Renombrados(t) \in [DOMAIN Renombrados(t) -> Seq(Sectores)]
<1> DEFINE ks == Renombrables(t)
           N == {<<t, "tmpc", k>> : k \in ks}
           V == {<<t, "tmp", k>> : k \in ks}
           D == (DOMAIN archivos \ V) \cup N
           Val(f) == IF f[1] = t /\ f[2] = "tmpc" /\ f[3] \in ks THEN archivos[<<t, "tmp", f[3]>>] ELSE archivos[f]
<1>1. Renombrados(t) = [f \in D |-> Val(f)]
  BY DEF Renombrados
<1>2. ks \subseteq Nat \ {0} /\ \A k \in ks : <<t, "tmp", k>> \in DOMAIN archivos
  BY RenombrablesTipo
<1>3. t \in Tablas
  BY TablaDe
<1> HIDE DEF ks
<1>4. \A k \in ks : Val(<<t, "tmpc", k>>) = archivos[<<t, "tmp", k>>]
  OBVIOUS
<1>5. ASSUME NEW f \in D, f \notin N PROVE Val(f) = archivos[f] /\ f \in DOMAIN archivos
  BY <1>5 DEF Tipos, Archivo
<1>6. D \subseteq Archivo
  <2>1. N \subseteq Archivo
    BY <1>2, <1>3, ArchivoTipo
  <2> QED
    BY <2>1 DEF Tipos
<1>7. \A f \in DOMAIN archivos : archivos[f] \in Seq(Sectores)
  BY DEF Tipos
<1>8. \A f \in D : Val(f) \in Seq(Sectores)
  BY <1>2, <1>4, <1>5, <1>7
<1> HIDE DEF Val
<1>9. DOMAIN Renombrados(t) = D /\ \A f \in D : Renombrados(t)[f] = Val(f)
  BY <1>1
<1>10. N \subseteq D /\ \A k \in ks : <<t, "tmpc", k>> \in N
  OBVIOUS
<1>11. Renombrados(t) \in [D -> Seq(Sectores)]
  BY <1>1, <1>8
<1> HIDE DEF D
<1>12. \A k \in ks : Renombrados(t)[<<t, "tmpc", k>>] = archivos[<<t, "tmp", k>>]
  BY <1>4, <1>9, <1>10
<1>13. \A f \in D \ N : f \in DOMAIN archivos /\ Renombrados(t)[f] = archivos[f]
  BY <1>5, <1>9
<1> QED
  BY <1>6, <1>9, <1>11, <1>12, <1>13 DEF D, ks

LEMMA DormirTipo ==
  ASSUME NEW t
  PROVE  Dormir(t) \in {"dormido", "fin"}
BY DEF Dormir

LEMMA AvisarTipo ==
  ASSUME Tipos, NEW t
  PROVE  /\ Avisar(t) \in [Pedidos -> TPed]
         /\ \A p \in Pedidos : \/ Avisar(t)[p] = ped[p]
                               \/ Tipo[p] = "SELECT" /\ Tabla[p] = t /\ Avisar(t)[p] = [ped[p] EXCEPT !.ventana = TRUE]
         /\ \A p \in Pedidos : Tipo[p] = "SELECT" /\ Tabla[p] = t => Avisar(t)[p] = [ped[p] EXCEPT !.ventana = TRUE]
<1>1. \A p \in Pedidos : ped[p] \in TPed
  BY DEF Tipos
<1>2. \A p \in Pedidos : [ped[p] EXCEPT !.ventana = TRUE] \in TPed
  BY <1>1 DEF TPed
<1> QED
  BY <1>1, <1>2 DEF Avisar

LEMMA RenombrarTipos ==
  ASSUME Tipos, Vidas, Cadena, NEW t \in Tablas, Renombrar(t)
  PROVE  Tipos'
<1> DEFINE i == Indice(t)
           ks == Renombrables(t)
           mas == LaTabla(t).compactados + Cardinality(ks)
           x1 == [tablas[i] EXCEPT !.contador = 1, !.compactados = mas]
           x2 == [tablas[i] EXCEPT !.compactados = mas, !.mutex = t]
           alm == [k \in 1..Particiones |-> <<>>]
           c1 == [comp[t] EXCEPT !.paso = "descargar", !.i = 1, !.j = 1, !.almacen = alm]
           c2 == [comp[t] EXCEPT !.paso = Dormir(t)]
<1>1. Registrada(t)
  BY TablaActiva DEF Renombrar, Comp, Activa
<1>2. i \in DOMAIN tablas /\ LaTabla(t) = tablas[i] /\ tablas[i] \in TTabla
  BY <1>1, TablaDe
<1>3. mas \in Nat \ {0}
  BY <1>1, <1>2, RenombrablesTipo DEF TTabla
<1>4. comp[t] \in TComp /\ EnRango(comp[t]) /\ comp[t].paso = "dormido"
  BY CompTipo DEF Renombrar, Comp
<1>5. c1 \in TComp /\ EnRango(c1)
  <2>1. Particiones \in Nat \ {0} /\ 1 \in 1..Particiones
    BY FSAssumption
  <2>2. [k \in 1..Particiones |-> <<>>] \in Listas
    BY VaciaEsSeq DEF Listas
  <2> HIDE DEF alm
  <2>3. alm \in Listas
    BY <2>2 DEF alm
  <2>4. 1 \in Nat \ {0} /\ 1 \in Nat
    OBVIOUS
  <2> QED
    BY <1>4, <2>1, <2>3, <2>4, CompDescarga
<1>6. c2 \in TComp /\ EnRango(c2)
  BY <1>4, DormirTipo DEF TComp, EnRango
<1> HIDE DEF i, mas, c1, c2
<1>7. x1 \in TTabla /\ x2 \in TTabla
  <2>1. 1 \in Nat \ {0}
    OBVIOUS
  <2> QED
    BY <1>2, <1>3, <2>1, TablaCambia
<1>8. \/ tablas' = [tablas EXCEPT ![i] = x1] /\ comp' = [comp EXCEPT ![t] = c1]
      \/ tablas' = [tablas EXCEPT ![i] = x2] /\ comp' = [comp EXCEPT ![t] = c2]
  BY DEF Renombrar, i, mas, c1, c2
<1> HIDE DEF x1, x2
<1>9. tablas' \in Seq(TTabla)
  BY <1>2, <1>7, <1>8, TablasDe
<1>10. comp' \in [Tablas -> TComp] /\ \A u \in Tablas : EnRango(comp'[u])
  BY <1>5, <1>6, <1>8, CompDe
<1>11. DOMAIN archivos' \subseteq Archivo /\ archivos' \in [DOMAIN archivos' -> Seq(Sectores)]
  BY <1>1, RenombradosTipo DEF Renombrar
<1>12. ped' \in [Pedidos -> TPed]
  BY AvisarTipo DEF Renombrar
<1> QED
  BY <1>9, <1>10, <1>11, <1>12, TiposIguales DEF Renombrar

(* The block that a compaction takes from its partition. *)
LEMMA DescargarBloqueTipo ==
  ASSUME Tipos, NEW t \in Tablas, DescargarBloque(t)
  PROVE  /\ LaParticion(t) \in DOMAIN archivos
         /\ comp[t].i \in 1..Particiones /\ comp[t].j \in DOMAIN archivos[LaParticion(t)]
         /\ archivos[LaParticion(t)][comp[t].j] \in Sectores
         /\ comp[t].almacen \in Listas
         /\ Tipos'
<1> DEFINE i == comp[t].i
           s == archivos[LaParticion(t)]
           b == s[comp[t].j]
           alm == comp[t].almacen
           lista == alm[i] \o disco[b]
           alm2 == [alm EXCEPT ![i] = lista]
           c == [comp[t] EXCEPT !.almacen = alm2, !.vaciar = b, !.j = comp[t].j + 1]
<1>1. comp[t] \in TComp /\ EnRango(comp[t]) /\ comp[t].paso = "descargar"
  BY CompTipo DEF DescargarBloque, Comp
<1>2. LaParticion(t) \in DOMAIN archivos
  BY DEF DescargarBloque, DescargarCae
<1>3. s \in Seq(Sectores)
  BY <1>2 DEF Tipos
<1>4. i \in 1..Particiones /\ alm \in Listas /\ comp[t].j \in Nat \ {0}
  BY <1>1 DEF EnRango, TComp
<1>5. comp[t].j <= Len(s) /\ Len(s) \in Nat /\ DOMAIN s = 1..Len(s)
  BY <1>3, LenProperties DEF DescargarBloque
<1>6. comp[t].j \in DOMAIN s
  BY <1>4, <1>5
<1>7. b \in Sectores
  BY <1>3, <1>5, <1>6, ElementOfSeq
<1>8. comp' = [comp EXCEPT ![t] = c] /\ ocupados' = ocupados \ {b}
  BY DEF DescargarBloque
<1> HIDE DEF s, b, i, alm
<1>9. disco[b] \in Seq(Pedidos) /\ alm[i] \in Seq(Pedidos)
  BY <1>4, <1>7 DEF Tipos, Listas
<1>10. lista \in Seq(Pedidos)
  BY <1>9, ConcatProperties
<1> HIDE DEF lista
<1>11. alm2 \in Listas
  BY <1>4, <1>10 DEF Listas
<1> HIDE DEF alm2
<1>12. c \in TComp /\ EnRango(c)
  <2>1. comp[t].j + 1 \in Nat \ {0}
    BY <1>4
  <2> QED
    BY <1>1, <1>7, <1>11, <2>1, CompDescargaOtro
<1> HIDE DEF c
<1>13. comp' \in [Tablas -> TComp] /\ \A u \in Tablas : EnRango(comp'[u])
  BY <1>8, <1>12, CompDe
<1>14. ocupados' \subseteq Bloques
  BY <1>8 DEF Tipos
<1>15. Tipos'
  BY <1>13, <1>14, TiposIguales DEF DescargarBloque
<1> QED
  BY <1>2, <1>4, <1>6, <1>7, <1>15 DEF s, b, i, alm

LEMMA RecrearBloqueVacioTipos ==
  ASSUME Tipos, NEW t \in Tablas, RecrearBloqueVacio(t)
  PROVE  Tipos'
<1> DEFINE c == [comp[t] EXCEPT !.vaciar = Nadie]
<1>1. comp[t] \in TComp /\ EnRango(comp[t])
  BY CompTipo
<1>2. c \in TComp /\ EnRango(c) /\ comp' = [comp EXCEPT ![t] = c]
  BY <1>1 DEF TComp, EnRango, RecrearBloqueVacio
<1> HIDE DEF c
<1>3. comp' \in [Tablas -> TComp] /\ \A u \in Tablas : EnRango(comp'[u])
  BY <1>2, CompDe
<1>4. disco' \in [Sectores -> Seq(Pedidos)]
  BY VaciaEsSeq DEF RecrearBloqueVacio, Tipos
<1> QED
  BY <1>3, <1>4, TiposIguales DEF RecrearBloqueVacio

LEMMA VaciarParticionTipos ==
  ASSUME Tipos, Vidas, Cadena, NEW t \in Tablas, VaciarParticion(t)
  PROVE  Tipos'
<1> DEFINE c1 == [comp[t] EXCEPT !.i = comp[t].i + 1, !.j = 1]
           c2 == [comp[t] EXCEPT !.paso = "actualizar", !.i = 1, !.bs = archivos[<<t, "tmpc", 1>>]]
           c == IF comp[t].i < Particiones THEN c1 ELSE c2
<1>1. comp[t] \in TComp /\ EnRango(comp[t]) /\ comp[t].paso = "descargar"
  BY CompTipo DEF VaciarParticion, Comp
<1>2. comp[t].i \in 1..Particiones /\ Particiones \in Nat
  BY <1>1, FSAssumption DEF EnRango
<1>3. <<t, "tmpc", 1>> \in DOMAIN archivos
  BY <1>1, TablaActiva, TablaDe DEF Activa, TTabla, CadenaDe
<1>4. archivos[<<t, "tmpc", 1>>] \in Seq(Sectores)
  BY <1>3 DEF Tipos
<1>5. comp[t].i < Particiones => c1 \in TComp /\ EnRango(c1)
  <2>1. comp[t].i < Particiones => comp[t].i + 1 \in Nat /\ comp[t].i + 1 \in 1..Particiones
    BY <1>2
  <2>2. 1 \in Nat \ {0}
    OBVIOUS
  <2> QED
    BY <1>1, <2>1, <2>2, CompAvanza
<1>6. c2 \in TComp /\ EnRango(c2)
  BY <1>1, <1>4 DEF TComp, EnRango
<1>7. comp' = [comp EXCEPT ![t] = c]
  BY DEF VaciarParticion
<1> HIDE DEF c1, c2
<1>8. comp' \in [Tablas -> TComp] /\ \A u \in Tablas : EnRango(comp'[u])
  BY <1>5, <1>6, <1>7, CompDe
<1>9. DOMAIN archivos' \subseteq Archivo /\ archivos' \in [DOMAIN archivos' -> Seq(Sectores)]
  BY VaciaEsSeq DEF VaciarParticion, Tipos
<1> QED
  BY <1>8, <1>9, TiposIguales DEF VaciarParticion

LEMMA ActualizarBloqueTipos ==
  ASSUME Tipos, NEW t \in Tablas, ActualizarBloque(t)
  PROVE  Tipos'
<1> DEFINE s == comp[t].bs
           b == Head(s)
           alm == ActualizarTodos(comp[t].almacen, disco[b])
           c == [comp[t] EXCEPT !.bs = Tail(s), !.almacen = alm]
<1>1. comp[t] \in TComp /\ EnRango(comp[t]) /\ comp[t].paso = "actualizar"
  BY CompTipo DEF ActualizarBloque, Comp
<1>2. s \in Seq(Sectores) /\ s # <<>> /\ comp[t].almacen \in Listas
  BY <1>1 DEF ActualizarBloque, TComp, EnRango
<1>3. b \in Sectores /\ Tail(s) \in Seq(Sectores)
  BY <1>2, HeadTailProperties
<1>4. comp' = [comp EXCEPT ![t] = c] /\ ocupados' = ocupados \ {b} /\ disco' = [disco EXCEPT ![b] = <<>>]
  BY DEF ActualizarBloque
<1> HIDE DEF b
<1>5. disco[b] \in Seq(Pedidos)
  BY <1>3 DEF Tipos
<1>6. alm \in Listas
  BY <1>2, <1>5, ActualizarTodosCubre
<1> HIDE DEF alm
<1>7. c \in TComp /\ EnRango(c)
  BY <1>1, <1>3, <1>6, CompActualiza
<1> HIDE DEF c
<1>8. comp' \in [Tablas -> TComp] /\ \A u \in Tablas : EnRango(comp'[u])
  BY <1>4, <1>7, CompDe
<1>9. ocupados' \subseteq Bloques /\ disco' \in [Sectores -> Seq(Pedidos)]
  BY <1>4, VaciaEsSeq DEF Tipos
<1> QED
  BY <1>8, <1>9, TiposIguales DEF ActualizarBloque

LEMMA BorrarTmpcTipos ==
  ASSUME Tipos, Vidas, Cadena, NEW t \in Tablas, BorrarTmpc(t)
  PROVE  Tipos'
<1> DEFINE k == comp[t].i
           x == LaTabla(t)
           ultimo == k + 1 = x.compactados
           c1 == [comp[t] EXCEPT !.paso = "reservar", !.i = 1]
           c2 == [comp[t] EXCEPT !.i = k + 1, !.bs = archivos[<<t, "tmpc", k + 1>>]]
           y == [tablas[Indice(t)] EXCEPT !.compactados = 1]
<1>1. comp[t] \in TComp /\ EnRango(comp[t]) /\ comp[t].paso = "actualizar"
  BY CompTipo DEF BorrarTmpc, Comp
<1>2. Registrada(t) /\ CadenaDe(x, comp[t])
  BY <1>1, TablaActiva DEF Activa
<1>3. x.nombre = t /\ x.compactados \in Nat \ {0} /\ x = tablas[Indice(t)] /\ Indice(t) \in DOMAIN tablas /\ x \in TTabla
  BY <1>2, TablaDe DEF TTabla
<1>4. k \in 1 .. (x.compactados - 1)
  BY <1>1, <1>2 DEF CadenaDe
<1>5. ASSUME ~ultimo PROVE archivos[<<t, "tmpc", k + 1>>] \in Seq(Sectores)
  <2>1. k + 1 \in 1 .. (x.compactados - 1) /\ k + 1 >= k
    BY <1>3, <1>4, <1>5
  <2>2. <<t, "tmpc", k + 1>> \in DOMAIN archivos
    BY <1>1, <1>2, <1>3, <2>1 DEF CadenaDe
  <2> QED
    BY <2>2 DEF Tipos
<1>6. c1 \in TComp /\ EnRango(c1)
  <2>1. 1 \in 1..Particiones
    BY FSAssumption
  <2> QED
    BY <1>1, <2>1 DEF TComp, EnRango
<1>7. ~ultimo => c2 \in TComp /\ EnRango(c2)
  <2>1. k + 1 \in Nat
    BY <1>4
  <2> HIDE DEF k, ultimo
  <2> QED
    BY <1>1, <1>5, <2>1, CompSigueTmpc
<1>8. comp' = IF ultimo THEN [comp EXCEPT ![t] = c1] ELSE [comp EXCEPT ![t] = c2]
  BY DEF BorrarTmpc
<1>9. tablas' = tablas \/ tablas' = [tablas EXCEPT ![Indice(t)] = y]
  BY DEF BorrarTmpc
<1>10. y \in TTabla
  BY <1>3 DEF TTabla
<1> HIDE DEF c1, c2, y
<1>11. comp' \in [Tablas -> TComp] /\ \A u \in Tablas : EnRango(comp'[u])
  BY <1>6, <1>7, <1>8, CompDe
<1>12. tablas' = tablas \/ tablas' \in Seq(TTabla)
  BY <1>3, <1>9, <1>10, TablasDe
<1>13. DOMAIN archivos' \subseteq Archivo /\ archivos' \in [DOMAIN archivos' -> Seq(Sectores)]
  BY DEF BorrarTmpc, Tipos
<1> QED
  BY <1>11, <1>12, <1>13, TiposIguales DEF BorrarTmpc

(* The blocks a compaction writes: the free ones and then -1. *)
LosDeReservar(bs, n) == Ordenados(bs) \o [k \in 1 .. (n - Cardinality(bs)) |-> SinBloque]

LEMMA LosDeReservarTipo ==
  ASSUME NEW bs \in SUBSET Bloques, IsFiniteSet(bs), NEW n \in Nat
  PROVE  /\ LosDeReservar(bs, n) \in Seq(Sectores)
         /\ \A i \in DOMAIN LosDeReservar(bs, n) :
              IF i <= Cardinality(bs) THEN i \in DOMAIN Ordenados(bs) /\ LosDeReservar(bs, n)[i] = Ordenados(bs)[i]
              ELSE LosDeReservar(bs, n)[i] = SinBloque
         /\ Cardinality(bs) >= n => LosDeReservar(bs, n) = Ordenados(bs)
<1> DEFINE o == Ordenados(bs)
           m == n - Cardinality(bs)
           r == [k \in 1..m |-> SinBloque]
           s == LosDeReservar(bs, n)
<1>1. Cardinality(bs) \in Nat
  BY FS_CardinalityType
<1>2. o \in Seq(Bloques) /\ Len(o) = Cardinality(bs) /\ DOMAIN o = 1..Cardinality(bs)
  BY OrdenadosTipo
<1>3. o \in Seq(Sectores)
  BY <1>1, <1>2, LenProperties, SeqDef DEF Sectores
<1>4. r \in Seq(Sectores) /\ \A k \in DOMAIN r : r[k] = SinBloque
  <2>1. PICK h \in Nat : 1..m = 1..h
    <3>1. CASE m >= 0
      BY <1>1, <3>1
    <3>2. CASE ~(m >= 0)
      <4>1. 1..m = 1..0
        BY <1>1, <3>2
      <4> QED
        BY <4>1
    <3> QED
      BY <3>1, <3>2
  <2>2. r \in [1..m -> Sectores]
    BY DEF Sectores
  <2> HIDE DEF r, m
  <2>3. r \in Seq(Sectores)
    <3>1. r \in [1..h -> Sectores]
      BY <2>1, <2>2
    <3> QED
      BY <3>1, SeqDef
  <2> QED
    BY <2>3 DEF r
<1>5. s = o \o r
  BY DEF LosDeReservar
<1>6. m <= 0 => r = <<>>
  BY <1>1
<1> HIDE DEF o, r, s
<1>8. /\ s \in Seq(Sectores) /\ Len(s) = Len(o) + Len(r)
      /\ \A i \in 1..(Len(o) + Len(r)) : s[i] = IF i <= Len(o) THEN o[i] ELSE r[i - Len(o)]
  BY <1>3, <1>4, <1>5, ConcatProperties
<1>9. Len(r) \in Nat /\ DOMAIN r = 1..Len(r) /\ DOMAIN s = 1..Len(s)
  BY <1>4, <1>8, LenProperties
<1>10. ASSUME NEW i \in DOMAIN s
       PROVE  IF i <= Cardinality(bs) THEN i \in DOMAIN o /\ s[i] = o[i] ELSE s[i] = SinBloque
  BY <1>1, <1>2, <1>4, <1>8, <1>9
<1>11. ASSUME Cardinality(bs) >= n PROVE s = o
  <2>1. r = <<>>
    BY <1>1, <1>6, <1>11
  <2> QED
    BY <1>3, <1>5, <2>1, ConcatEmptySeq
<1> QED
  BY <1>8, <1>10, <1>11 DEF o, s

(* The list a compaction is to write, and the blocks it reserves. *)
LEMMA ReservarTipo ==
  ASSUME Tipos, NEW t \in Tablas, comp[t].paso \in {"reservar", "guardar"}
  PROVE  /\ comp[t].i \in 1..Particiones /\ comp[t].almacen \in Listas
         /\ comp[t].almacen[comp[t].i] \in Seq(Pedidos)
         /\ Len(comp[t].almacen[comp[t].i]) \in Nat
BY CompTipo, LenProperties DEF EnRango, Listas

LEMMA ReservarTipos ==
  ASSUME Tipos, NEW t \in Tablas, Reservar(t)
  PROVE  Tipos'
<1> DEFINE regs == comp[t].almacen[comp[t].i]
           n == Enteros(Len(regs))
           bs == Primeros(n)
           todos == LosDeReservar(bs, n)
           c == [comp[t] EXCEPT !.paso = "guardar", !.bs = todos]
<1>1. comp[t] \in TComp /\ EnRango(comp[t]) /\ comp[t].paso = "reservar"
  BY CompTipo DEF Reservar, Comp
<1>2. regs \in Seq(Pedidos) /\ n \in Nat
  BY <1>1, ReservarTipo, EnterosTipo
<1>3. /\ comp' = [comp EXCEPT ![t] = c] /\ ocupados' = ocupados \cup bs
      /\ disco' = Escribir(todos, regs)
  BY DEF Reservar, LosDeReservar, Marcar
<1> HIDE DEF n, regs
<1>4. bs \in SUBSET Bloques /\ IsFiniteSet(bs)
  BY PrimerosTipo
<1> HIDE DEF bs
<1>5. todos \in Seq(Sectores)
  BY <1>2, <1>4, LosDeReservarTipo
<1> HIDE DEF todos
<1>6. c \in TComp /\ EnRango(c)
  BY <1>1, <1>5 DEF TComp, EnRango
<1> HIDE DEF c
<1>7. comp' \in [Tablas -> TComp] /\ \A u \in Tablas : EnRango(comp'[u])
  BY <1>3, <1>6, CompDe
<1>8. disco' \in [Sectores -> Seq(Pedidos)] /\ ocupados' \subseteq Bloques
  BY <1>2, <1>3, <1>4, <1>5, EscribirTipo DEF Tipos
<1> QED
  BY <1>7, <1>8, TiposIguales DEF Reservar

LEMMA GuardarTipos ==
  ASSUME Tipos, NEW t \in Tablas, Guardar(t)
  PROVE  Tipos'
<1> DEFINE i == comp[t].i
           c1 == [comp[t] EXCEPT !.paso = Dormir(t), !.bs = <<>>, !.almacen = <<>>, !.i = 0]
           c2 == [comp[t] EXCEPT !.paso = "reservar", !.bs = <<>>, !.i = i + 1]
<1>1. comp[t] \in TComp /\ EnRango(comp[t]) /\ comp[t].paso = "guardar"
  BY CompTipo DEF Guardar, Comp
<1>2. i \in 1..Particiones /\ Particiones \in Nat
  BY <1>1, FSAssumption DEF EnRango
<1>3. c1 \in TComp /\ EnRango(c1)
  BY <1>1, DormirTipo, CompTermina
<1>4. i # Particiones => c2 \in TComp /\ EnRango(c2)
  <2>1. i # Particiones => i + 1 \in Nat /\ i + 1 \in 1..Particiones
    BY <1>2
  <2> QED
    BY <1>1, <2>1, CompReserva
<1>5. comp' = IF i = Particiones THEN [comp EXCEPT ![t] = c1] ELSE [comp EXCEPT ![t] = c2]
  BY DEF Guardar
<1>6. archivos' = ConArchivo(<<t, "bin", i>>, comp[t].bs)
  BY DEF Guardar
<1> HIDE DEF c1, c2
<1>7. comp' \in [Tablas -> TComp] /\ \A u \in Tablas : EnRango(comp'[u])
  BY <1>3, <1>4, <1>5, CompDe
<1>8. comp[t].bs \in Seq(Sectores) /\ <<t, "bin", i>> \in Archivo
  <2>1. i \in Nat \ {0}
    BY <1>2
  <2>2. comp[t].bs \in Seq(Sectores)
    BY <1>1 DEF TComp
  <2> QED
    BY <2>1, <2>2, ArchivoTipo
<1>9. DOMAIN archivos' \subseteq Archivo /\ archivos' \in [DOMAIN archivos' -> Seq(Sectores)]
  BY <1>6, <1>8, ConArchivoTipo
<1> QED
  BY <1>7, <1>9, TiposIguales DEF Guardar

-----------------------------------------------------------------------------
(* The SELECT. *)

(* The greatest record of the key among those read. *)
LEMMA MejorTipo ==
  ASSUME NEW k, NEW hasta \in Pedidos \cup {Nadie}, NEW regs \in SUBSET Pedidos
  PROVE  /\ Mejor(k, hasta, regs) \in Pedidos \cup {Nadie}
         /\ hasta # Nadie => Mejor(k, hasta, regs) # Nadie /\ Entero(Mejor(k, hasta, regs)) >= Entero(hasta)
         /\ \A r \in regs : Clave[r] = k /\ Entero(r) # 0 => Mejor(k, hasta, regs) # Nadie /\ Entero(Mejor(k, hasta, regs)) >= Entero(r)
         /\ Mejor(k, hasta, regs) = hasta \/ Clave[Mejor(k, hasta, regs)] = k
<1> DEFINE maximo == IF hasta = Nadie THEN 0 ELSE Entero(hasta)
           otros == {r \in regs : Clave[r] = k /\ Entero(r) > maximo}
           m == Mejor(k, hasta, regs)
           T == {Entero(r) : r \in otros}
<1>1. /\ \A r \in Pedidos : Entero(r) \in Nat /\ r # Nadie
      /\ maximo \in Nat /\ (hasta = Nadie => maximo = 0) /\ (hasta # Nadie => maximo = Entero(hasta))
  BY EnteroNat, NadieAssumption
<1>2. CASE otros = {}
  BY <1>1, <1>2 DEF Mejor, m
<1>3. CASE otros # {}
  <2>1. otros \subseteq Pedidos
    OBVIOUS
  <2> HIDE DEF otros
  <2>2. IsFiniteSet(otros)
    BY <2>1, NadieAssumption, FS_Subset
  <2>3. IsFiniteSet(T)
    <3> DEFINE f == [r \in otros |-> Entero(r)]
    <3>1. f \in Surjection(otros, T)
      BY DEF Surjection
    <3> QED
      BY <2>2, <3>1, FS_Surjection
  <2>4. T \in SUBSET Nat /\ T # {}
    BY <1>1, <1>3, <2>1
  <2>5. Max(T) \in T /\ \A y \in T : y <= Max(T)
    <3> HIDE DEF T
    <3> QED
      BY <2>3, <2>4, MaxEsElemento
  <2>6. \E r \in otros : \A q \in otros : Entero(q) <= Entero(r)
    BY <2>5
  <2>7. m = CHOOSE r \in otros : \A q \in otros : Entero(q) <= Entero(r)
    BY <1>3 DEF Mejor, otros, maximo
  <2>8. m \in otros /\ \A q \in otros : Entero(q) <= Entero(m)
    BY <2>6, <2>7
  <2> HIDE DEF m
  <2>9. m \in Pedidos /\ Clave[m] = k /\ m # Nadie /\ Entero(m) > maximo
    BY <1>1, <2>1, <2>8 DEF otros
  <2>10. hasta # Nadie => hasta \in Pedidos /\ Entero(m) >= Entero(hasta)
    BY <1>1, <2>9
  <2>11. ASSUME NEW r \in regs, Clave[r] = k, Entero(r) # 0 PROVE Entero(m) >= Entero(r)
    BY <1>1, <2>8, <2>9, <2>10, <2>11 DEF otros
  <2> QED
    BY <2>9, <2>10, <2>11 DEF m
<1> QED
  BY <1>2, <1>3

(* What was inserted of a key before a SELECT began, and the newest of it. *)
LEMMA AnterioresTipo ==
  ASSUME NEW p
  PROVE  LET T == {Entero(q) : q \in Anteriores(p)} \cup {0}
         IN  Max(T) \in Nat /\ Max(T) \in T /\ \A y \in T : y <= Max(T)
<1> DEFINE A == Anteriores(p)
           R == {Entero(q) : q \in A}
           T == R \cup {0}
<1>1. A \subseteq Pedidos
  BY DEF Anteriores
<1> HIDE DEF A
<1>2. IsFiniteSet(A)
  BY <1>1, NadieAssumption, FS_Subset
<1>3. IsFiniteSet(R)
  <2> DEFINE f == [q \in A |-> Entero(q)]
  <2>1. f \in Surjection(A, R)
    BY DEF Surjection
  <2> QED
    BY <1>2, <2>1, FS_Surjection
<1>4. R \subseteq Nat
  BY <1>1, EnteroNat
<1> HIDE DEF R
<1>5. IsFiniteSet(T)
  BY <1>3, FS_AddElement
<1>6. T \in SUBSET Nat /\ T # {}
  BY <1>4
<1> HIDE DEF T
<1>7. Max(T) \in T /\ \A y \in T : y <= Max(T)
  BY <1>5, <1>6, MaxEsElemento
<1> QED
  BY <1>6, <1>7 DEF T, R, A

LEMMA NodosTipo ==
  ASSUME Tipos, NEW t
  PROVE  /\ NodosDe(t) \subseteq DOMAIN mem
         /\ NodosDe(t) # {} => Min(NodosDe(t)) \in NodosDe(t) /\ \A i \in NodosDe(t) : Min(NodosDe(t)) <= i
<1>1. NodosDe(t) \subseteq DOMAIN mem /\ NodosDe(t) \in SUBSET Nat
  BY MemTipo DEF NodosDe
<1> QED
  BY <1>1, MinEsElemento

LEMMA BuscarTablaTipos ==
  ASSUME Tipos, NEW p \in Pedidos, BuscarTabla(p)
  PROVE  Tipos'
<1> DEFINE t == Tabla[p]
           nodos == NodosDe(t)
           n == IF nodos = {} THEN Nadie ELSE mem[Min(nodos)].id
           h == nodos # {} /\ mem[Min(nodos)].regs # <<>>
           d == Max({Entero(q) : q \in Anteriores(p)} \cup {0})
           v == Compactando(t)
           x == [ped[p] EXCEPT !.paso = "memtable", !.nodo = n, !.hubo = h, !.debe = d, !.ventana = v]
           y == [ped[p] EXCEPT !.paso = "rechazado"]
<1>1. n \in Pedidos \cup {Nadie}
  BY NodosTipo, MemTipo DEF TNodo
<1>2. h \in BOOLEAN /\ v \in BOOLEAN
  BY DEF Compactando
<1>3. d \in Nat
  BY AnterioresTipo
<1>4. ped' = [ped EXCEPT ![p] = x] \/ ped' = [ped EXCEPT ![p] = y]
  BY DEF BuscarTabla
<1> HIDE DEF n, h, d, v
<1>5. ped[p] \in TPed
  BY PedTipo
<1>6. x \in TPed
  BY <1>1, <1>2, <1>3, <1>5 DEF TPed
<1>7. y \in TPed
  BY <1>5 DEF TPed
<1> HIDE DEF x, y
<1>8. ped' \in [Pedidos -> TPed]
  BY <1>4, <1>6, <1>7, PedDe
<1> QED
  BY <1>8, TiposIguales DEF BuscarTabla, disk

(* The mutex of the table of a SELECT. *)
LEMMA MutexTipo ==
  ASSUME Tipos, NEW t, Registrada(t), NEW m \in Tablas \cup Pedidos \cup {Nadie},
         tablas' = [tablas EXCEPT ![Indice(t)].mutex = m]
  PROVE  tablas' \in Seq(TTabla)
<1> DEFINE x == [tablas[Indice(t)] EXCEPT !.mutex = m]
<1>1. Indice(t) \in DOMAIN tablas /\ tablas[Indice(t)] \in TTabla
  BY TablaDe, TablasTipo
<1>2. x \in TTabla
  BY <1>1 DEF TTabla
<1>3. tablas' = [tablas EXCEPT ![Indice(t)] = x]
  OBVIOUS
<1> HIDE DEF x
<1> QED
  BY <1>1, <1>2, <1>3, TablasDe

LEMMA TomarMutexTablaTipos ==
  ASSUME Tipos, NEW p \in Pedidos, TomarMutexTabla(p)
  PROVE  Tipos'
BY MutexTipo, TiposIr DEF TomarMutexTabla, SelectCae, En, Leen, Pasos, disk

LEMMA ToSetTipo ==
  ASSUME NEW S, NEW s \in Seq(S)
  PROVE  ToSet(s) \subseteq S
BY LenProperties, ElementOfSeq DEF ToSet

LEMMA LeerMemTableTipos ==
  ASSUME Tipos, NEW p \in Pedidos, LeerMemTable(p)
  PROVE  Tipos'
<1> DEFINE m == IF ped[p].hubo THEN Mejor(Clave[p], ped[p].mejor, ToSet(mem[Nodo(ped[p].nodo)].regs)) ELSE ped[p].mejor
           uno == 1
           x == [ped[p] EXCEPT !.paso = "tmp", !.n = uno, !.mejor = m]
<1>1. Registrada(Tabla[p])
  BY DEF LeerMemTable, SelectCae, En, Leen
<1>2. tablas' \in Seq(TTabla)
  BY <1>1, MutexTipo DEF LeerMemTable
<1>3. ped[p] \in TPed
  BY PedTipo
<1>4. ped[p].mejor \in Pedidos \cup {Nadie}
  BY <1>3 DEF TPed
<1>5. ASSUME ped[p].hubo PROVE ToSet(mem[Nodo(ped[p].nodo)].regs) \in SUBSET Pedidos
  <2>1. HayNodo(ped[p].nodo)
    BY <1>5 DEF LeerMemTable, SelectCae, En, Leen, NodoVivo
  <2>2. Nodo(ped[p].nodo) \in DOMAIN mem
    BY <2>1 DEF HayNodo, Nodo
  <2>3. mem[Nodo(ped[p].nodo)].regs \in Seq(Pedidos)
    BY <2>2, MemTipo DEF TNodo
  <2> QED
    BY <2>3, ToSetTipo
<1>6. m \in Pedidos \cup {Nadie}
  BY <1>4, <1>5, MejorTipo
<1>7. ped' = [ped EXCEPT ![p] = x]
  BY DEF LeerMemTable
<1>10. uno \in Nat \ {0}
  OBVIOUS
<1> HIDE DEF m, uno
<1>8. x \in TPed
  BY <1>3, <1>6, <1>10 DEF TPed
<1> HIDE DEF x
<1>9. ped' \in [Pedidos -> TPed]
  BY <1>7, <1>8, PedDe
<1> QED
  BY <1>2, <1>9, TiposIguales DEF LeerMemTable, disk

LEMMA SiguienteArchivoTipo ==
  ASSUME Tipos, NEW p \in Pedidos
  PROVE  /\ SiguienteArchivo(p) = <<SiguienteArchivo(p)[1], SiguienteArchivo(p)[2], SiguienteArchivo(p)[3]>>
         /\ SiguienteArchivo(p)[1] = Tabla[p]
         /\ SiguienteArchivo(p)[2] \in {"tmp", "tmpc", "bin"}
         /\ SiguienteArchivo(p)[3] \in Nat \ {0}
BY ParticionTipo, PedTipo DEF TPed, SiguienteArchivo

LEMMA AbrirArchivoTipos ==
  ASSUME Tipos, NEW p \in Pedidos, AbrirArchivo(p)
  PROVE  Tipos'
<1> DEFINE f == SiguienteArchivo(p)
           b == IF f \in DOMAIN archivos THEN archivos[f] ELSE <<>>
           x == [ped[p] EXCEPT !.paso = f[2], !.n = f[3] + 1, !.bs = b]
<1>1. f[2] \in {"tmp", "tmpc", "bin"} /\ f[3] + 1 \in Nat \ {0}
  BY SiguienteArchivoTipo
<1>2. b \in Seq(Sectores)
  BY VaciaEsSeq DEF Tipos
<1>3. ped' = [ped EXCEPT ![p] = x]
  BY DEF AbrirArchivo
<1> HIDE DEF f, b
<1>4. x \in TPed
  BY <1>1, <1>2, PedTipo, ZenonT(60) DEF TPed
<1> HIDE DEF x
<1>5. ped' \in [Pedidos -> TPed]
  BY <1>3, <1>4, PedDe
<1> QED
  BY <1>5, TiposIguales DEF AbrirArchivo, disk

LEMMA ContenidoTipo ==
  ASSUME Tipos, NEW s \in Seq(Sectores)
  PROVE  Contenido(s) \in SUBSET Pedidos
BY LenProperties, ElementOfSeq, ToSetTipo DEF Tipos, Contenido

LEMMA LeerBloquesTipos ==
  ASSUME Tipos, NEW p \in Pedidos, LeerBloques(p)
  PROVE  Tipos'
<1> DEFINE m == Mejor(Clave[p], ped[p].mejor, Contenido(ped[p].bs))
           s == IF ped[p].paso = "bin" THEN "fin" ELSE ped[p].paso
           x == [ped[p] EXCEPT !.mejor = m, !.bs = Nadie, !.paso = s]
<1>1. ped[p] \in TPed
  BY PedTipo
<1>2. ped[p].mejor \in Pedidos \cup {Nadie} /\ ped[p].bs \in Seq(Sectores)
  BY <1>1 DEF TPed, LeerBloques
<1>3. m \in Pedidos \cup {Nadie}
  BY <1>2, ContenidoTipo, MejorTipo
<1>4. ped' = [ped EXCEPT ![p] = x]
  BY DEF LeerBloques
<1> HIDE DEF m
<1>5. x \in TPed
  BY <1>1, <1>3 DEF TPed
<1> HIDE DEF x
<1>6. ped' \in [Pedidos -> TPed]
  BY <1>4, <1>5, PedDe
<1> QED
  BY <1>6, TiposIguales DEF LeerBloques, disk

LEMMA DescribirTipos ==
  ASSUME Tipos, NEW p \in Pedidos, Describir(p)
  PROVE  Tipos'
BY TiposIr DEF Describir, Pasos, disk

-----------------------------------------------------------------------------
(* The DROP. *)

LEMMA EmpezarDropTipos ==
  ASSUME Tipos, NEW p \in Pedidos, EmpezarDrop(p)
  PROVE  Tipos'
<1> DEFINE i == Indice(Tabla[p])
           x == [tablas[i] EXCEPT !.vivo = FALSE]
<1>1. tablas' = tablas \/ tablas' \in Seq(TTabla)
  <2>1. CASE Tabla[p] \in dirs
    <3>1. Registrada(Tabla[p])
      BY <2>1 DEF EmpezarDrop, EmpezarDropCae
    <3>2. i \in DOMAIN tablas /\ tablas[i] \in TTabla
      BY <3>1, TablaDe, TablasTipo
    <3>3. tablas' = [tablas EXCEPT ![i] = x]
      BY <2>1 DEF EmpezarDrop
    <3>4. x \in TTabla
      BY <3>2 DEF TTabla
    <3> HIDE DEF x, i
    <3> QED
      BY <3>2, <3>3, <3>4, TablasDe
  <2>2. CASE Tabla[p] \notin dirs
    BY <2>2 DEF EmpezarDrop
  <2> QED
    BY <2>1, <2>2
<1>2. \E s \in Pasos : Ir(p, s)
  BY DEF EmpezarDrop, Pasos
<1> QED
  BY <1>1, <1>2, TiposIr DEF EmpezarDrop, disk

LEMMA UnirTipos ==
  ASSUME Tipos, NEW p \in Pedidos, Unir(p)
  PROVE  Tipos'
BY TiposIr DEF Unir, Pasos, disk

(* The file that a DROP removes. *)
LEMMA ABorrarTipo ==
  ASSUME Tipos, NEW p \in Pedidos, Borrando(p)
  PROVE  /\ ABorrar(p) = <<Tabla[p], ABorrar(p)[2], ABorrar(p)[3]>>
         /\ ABorrar(p)[2] \in {"tmp", "bin"}
         /\ ABorrar(p)[3] \in Nat \ {0}
BY PedTipo DEF TPed, ABorrar

LEMMA LiberarBloquesTipos ==
  ASSUME Tipos, NEW p \in Pedidos, LiberarBloques(p)
  PROVE  Tipos'
<1> DEFINE f == ABorrar(p)
           b == archivos[f]
           l == ~MutexLibre(Tabla[p])
           x == [ped[p] EXCEPT !.paso = f[2], !.n = f[3], !.bs = b, !.trabada = l]
<1>1. f[2] \in {"tmp", "bin"} /\ f[3] \in Nat \ {0}
  BY ABorrarTipo DEF LiberarBloques
<1>2. b \in Seq(Sectores)
  BY DEF LiberarBloques, LiberarCae, Tipos
<1>3. ped' = [ped EXCEPT ![p] = x]
  BY DEF LiberarBloques
<1>4. l \in BOOLEAN
  BY DEF MutexLibre
<1>5. ocupados' \subseteq Bloques
  BY DEF LiberarBloques, Tipos
<1> HIDE DEF f, b, l
<1>6. x \in TPed
  BY <1>1, <1>2, <1>4, PedTipo, ZenonT(60) DEF TPed
<1> HIDE DEF x
<1>7. ped' \in [Pedidos -> TPed]
  BY <1>3, <1>6, PedDe
<1> QED
  BY <1>5, <1>7, TiposIguales DEF LiberarBloques

LEMMA EliminarContenidoTipos ==
  ASSUME Tipos, NEW p \in Pedidos, EliminarContenido(p)
  PROVE  Tipos'
<1> DEFINE s == IF ped[p].paso = "bin" /\ ped[p].n = Particiones THEN "metadata" ELSE ped[p].paso
           n == ped[p].n + 1
           x == [ped[p] EXCEPT !.bs = Nadie, !.paso = "colgado"]
           y == [ped[p] EXCEPT !.bs = Nadie, !.n = n, !.paso = s]
<1>1. ped[p] \in TPed /\ ped[p].n \in Nat \ {0}
  BY PedTipo DEF TPed
<1>2. n \in Nat \ {0}
  BY <1>1
<1>3. ped' = [ped EXCEPT ![p] = x] \/ ped' = [ped EXCEPT ![p] = y]
  BY DEF EliminarContenido
<1>4. x \in TPed
  BY <1>1 DEF TPed
<1> HIDE DEF n
<1>5. y \in TPed
  BY <1>1, <1>2 DEF TPed
<1> HIDE DEF x, y
<1>6. ped' \in [Pedidos -> TPed]
  BY <1>3, <1>4, <1>5, PedDe
<1>7. archivos' = archivos \/ (DOMAIN archivos' \subseteq Archivo /\ archivos' \in [DOMAIN archivos' -> Seq(Sectores)])
  BY DEF EliminarContenido, Tipos
<1>8. disco' \in [Sectores -> Seq(Pedidos)]
  BY VaciaEsSeq DEF EliminarContenido, Tipos
<1> QED
  BY <1>6, <1>7, <1>8, TiposIguales DEF EliminarContenido

LEMMA BorrarMetadataTipos ==
  ASSUME Tipos, NEW p \in Pedidos, BorrarMetadata(p)
  PROVE  Tipos'
BY TiposIr DEF BorrarMetadata, Pasos, Tipos, disk

LEMMA OlvidarTipos ==
  ASSUME Tipos, NEW p \in Pedidos, Olvidar(p), Registrada(Tabla[p])
  PROVE  Tipos'
BY TablaDe, RemoveAtElementos, VaciaEsSeq, TiposIr DEF Olvidar, Tipos, Pasos, disk

LEMMA BorrarDirectorioTipos ==
  ASSUME Tipos, NEW p \in Pedidos, BorrarDirectorio(p)
  PROVE  Tipos'
BY TiposIr DEF BorrarDirectorio, Pasos, Tipos

-----------------------------------------------------------------------------
(* What keeps the lives of the tables, the chains of files and the place   *)
(* of the dump as they are.                                                *)

MismosNombres ==
  DOMAIN tablas' = DOMAIN tablas /\ \A i \in DOMAIN tablas : tablas'[i].nombre = tablas[i].nombre

LEMMA IndiceUnico ==
  ASSUME Unicas, NEW i \in DOMAIN tablas
  PROVE  Indice(tablas[i].nombre) = i /\ Registrada(tablas[i].nombre) /\ LaTabla(tablas[i].nombre) = tablas[i]
BY DEF Indice, Unicas, Registrada, LaTabla

LEMMA MismasTablas ==
  ASSUME Unicas, MismosNombres
  PROVE  /\ Unicas'
         /\ \A t : Registrada(t)' <=> Registrada(t)
         /\ \A t : Registrada(t) => Indice(t)' = Indice(t)
BY DEF Unicas, MismosNombres, Registrada, Indice

(* A DROP goes through its files and ends, or stops at one. *)
SigueBorrando(p) ==
  ped[p].paso \in {"tmp", "bin"} /\ ped'[p].paso \in {"tmp", "bin", "metadata", "colgado"}

CalmaVidas ==
  /\ MismosNombres /\ dirs' = dirs /\ metadata' = metadata
  /\ \A t \in Tablas : comp'[t].paso = comp[t].paso \/ (Registrada(t) /\ comp[t].paso # "fin")
  /\ \A p \in Pedidos : Tipo[p] = "CREATE" => ped'[p].paso = ped[p].paso
  /\ \A p \in Pedidos : Tipo[p] = "DROP" => ped'[p].paso = ped[p].paso \/ SigueBorrando(p)

LEMMA VidasCalma ==
  ASSUME Vidas, CalmaVidas
  PROVE  Vidas'
<1>1. /\ Unicas' /\ \A t : Registrada(t)' <=> Registrada(t)
  BY MismasTablas DEF Vidas, CalmaVidas
<1>2. \A p \in Pedidos : Creando(p)' <=> Creando(p)
  BY DEF Creando, CalmaVidas
<1>3. \A p \in Pedidos : EnCurso(p)' <=> EnCurso(p)
  BY DEF EnCurso, Bajando, CalmaVidas, SigueBorrando
<1>4. \A p \in Pedidos : Tabla[p] \in Tablas
  BY TablaDePedido
<1>5. \A i \in DOMAIN tablas' : tablas'[i].nombre \in dirs'
  BY DEF Vidas, CalmaVidas, MismosNombres
<1>6. metadata' \subseteq dirs'
  BY DEF Vidas, CalmaVidas
<1>7. \A t \in Tablas : Activa(t)' => Registrada(t)'
  BY <1>1 DEF Vidas, CalmaVidas, Activa
<1>8. \A t \in Tablas \ dirs' : comp'[t].paso \in {"nada", "fin"}
  BY DEF Vidas, CalmaVidas, Registrada
<1>9. ASSUME NEW p \in Pedidos, Creando(p)' PROVE VidaDeCreate(p)'
  BY <1>1, <1>2, <1>4, <1>9 DEF Vidas, CalmaVidas, Creando, VidaDeCreate
<1>10. ASSUME NEW p \in Pedidos, EnCurso(p)' PROVE VidaDeDrop(p)'
  BY <1>1, <1>3, <1>4, <1>10 DEF Vidas, EnCurso, VidaDeDrop, CalmaVidas, Bajando, SigueBorrando
<1> QED
  BY <1>1, <1>2, <1>3, <1>5, <1>6, <1>7, <1>8, <1>9, <1>10 DEF Vidas

EnTmpc(c) == c.paso \in {"descargar", "actualizar"}

CalmaCadena ==
  /\ MismosNombres
  /\ \A i \in DOMAIN tablas : tablas'[i].mutex = tablas[i].mutex /\ tablas'[i].compactados = tablas[i].compactados
  /\ \A p \in Pedidos : EstaLeyendo(p)' => EstaLeyendo(p)
  /\ \A t \in Tablas :
       \/ ~EnTmpc(comp'[t]) /\ ~EnTmpc(comp[t])
       \/ comp'[t].paso = comp[t].paso /\ (comp'[t].i = comp[t].i \/ comp[t].paso = "descargar")
  /\ \A t \in Tablas, k \in Nat : <<t, "tmpc", k>> \in DOMAIN archivos' <=> <<t, "tmpc", k>> \in DOMAIN archivos

LEMMA CadenaCalma ==
  ASSUME Tipos, Vidas, Cadena, CalmaCadena
  PROVE  Cadena'
<1>1. Unicas /\ MismosNombres
  BY DEF Vidas, CalmaCadena
<1>2. ASSUME NEW p \in Pedidos, EstaLeyendo(p)'
      PROVE  (Registrada(Tabla[p]) /\ LaTabla(Tabla[p]).mutex = p)'
  BY <1>1, <1>2, MismasTablas, TablaDe DEF Cadena, CalmaCadena, LaTabla
<1>3. ASSUME NEW i \in DOMAIN tablas'
      PROVE  CadenaDe(tablas[i], comp[tablas[i].nombre])'
  BY TablasTipo DEF CalmaCadena, MismosNombres, TTabla, Cadena, CadenaDe, EnTmpc
<1> QED
  BY <1>2, <1>3 DEF Cadena

CalmaVolcado ==
  /\ dump' = dump
  /\ dump.paso = "dormido" \/ (DOMAIN mem \subseteq DOMAIN mem' /\ DOMAIN tablas \subseteq DOMAIN tablas' /\ (Leyendo' => Leyendo))

LEMMA VolcadoCalma ==
  ASSUME EnVolcado, CalmaVolcado
  PROVE  EnVolcado'
BY DEF EnVolcado, CalmaVolcado

LEMMA NombresIguales ==
  tablas' = tablas => MismosNombres
BY DEF MismosNombres

(* Requests of the other kinds, INSERT and DESCRIBE, keep all three. *)
LEMMA OtrosPedidos ==
  ASSUME Orden, NEW p \in Pedidos, NEW s \in Pasos, Ir(p, s), Tipo[p] \in {"INSERT", "DESCRIBE"},
         UNCHANGED <<tablas, dirs, metadata, archivos, dump, comp>>,
         dump.paso = "dormido" \/ DOMAIN mem \subseteq DOMAIN mem'
  PROVE  Vidas' /\ Cadena' /\ EnVolcado'
<1>1. \A q \in Pedidos : Tipo[q] \in {"CREATE", "DROP", "SELECT"} => ped'[q] = ped[q]
  BY DEF Ir, Orden, Tipos
<1>2. CalmaVidas
  BY <1>1, NombresIguales DEF CalmaVidas
<1>3. CalmaCadena
  BY <1>1, NombresIguales DEF CalmaCadena, EstaLeyendo
<1>4. Leyendo' => Leyendo
  BY <1>1 DEF Leyendo
<1>5. CalmaVolcado
  BY <1>4 DEF CalmaVolcado
<1> QED
  BY <1>2, <1>3, <1>5, VidasCalma, CadenaCalma, VolcadoCalma DEF Orden

LEMMA BuscarMemTableOrden ==
  ASSUME Orden, NEW p \in Pedidos, BuscarMemTable(p)
  PROVE  Orden'
<1>1. Tipos'
  BY BuscarMemTableTipos DEF Orden
<1>2. \A q \in Pedidos : Tipo[q] \in {"CREATE", "DROP", "SELECT"} => ped'[q] = ped[q]
  BY DEF BuscarMemTable, En, Ir, Orden, Tipos
<1>3. CalmaVidas
  BY <1>2, NombresIguales DEF CalmaVidas, BuscarMemTable, disk
<1>4. CalmaCadena
  BY <1>2, NombresIguales DEF CalmaCadena, EstaLeyendo, BuscarMemTable, disk
<1>5. Leyendo' => Leyendo
  BY <1>2 DEF Leyendo
<1>6. CalmaVolcado
  BY <1>5 DEF CalmaVolcado, BuscarMemTable, BusquedaLibre, InsertsLibre
<1> QED
  BY <1>1, <1>3, <1>4, <1>6, VidasCalma, CadenaCalma, VolcadoCalma DEF Orden

LEMMA InsertarOrden ==
  ASSUME Orden, NEW p \in Pedidos, Insertar(p)
  PROVE  Orden'
BY InsertarTipos, OtrosPedidos DEF Orden, Insertar, Pasos, En, InsertsLibre, disk

LEMMA DescribirOrden ==
  ASSUME Orden, NEW p \in Pedidos, Describir(p)
  PROVE  Orden'
BY DescribirTipos, OtrosPedidos DEF Orden, Describir, Pasos, En, disk

LEMMA DumpSinBloquesOrden ==
  ASSUME Orden, DumpSinBloques
  PROVE  Orden'
<1>1. Tipos'
  BY DumpSinBloquesTipos DEF Orden
<1>2. CalmaVidas
  BY NombresIguales DEF CalmaVidas, DumpSinBloques, disk
<1>3. CalmaCadena
  BY NombresIguales DEF CalmaCadena, EstaLeyendo, DumpSinBloques, disk
<1>4. dump'.paso = "dormido"
  BY DEF DumpSinBloques, Orden, Tipos, TDump
<1> QED
  BY <1>1, <1>2, <1>3, <1>4, VidasCalma, CadenaCalma DEF Orden, EnVolcado

(* A .tmp or a partition that is written changes no .tmpc. *)
LEMMA ConArchivoTmpc ==
  ASSUME NEW f, f[2] # "tmpc", NEW x
  PROVE  \A t \in Tablas, k \in Nat : <<t, "tmpc", k>> \in DOMAIN ConArchivo(f, x) <=> <<t, "tmpc", k>> \in DOMAIN archivos
BY DEF ConArchivo

LEMMA VolcarOrden ==
  ASSUME Orden, Volcar
  PROVE  Orden'
<1>1. Tipos'
  BY VolcarTipos DEF Orden
<1>2. CalmaVidas
  BY NombresIguales DEF CalmaVidas, Volcar
<1>3. \A t \in Tablas, k \in Nat : <<t, "tmpc", k>> \in DOMAIN archivos' <=> <<t, "tmpc", k>> \in DOMAIN archivos
  BY ConArchivoTmpc DEF Volcar
<1>4. CalmaCadena
  BY <1>3, NombresIguales DEF CalmaCadena, EstaLeyendo, Volcar
<1>5. Lugar \in DOMAIN mem /\ Lugar \in DOMAIN tablas
  BY LugarTipo DEF Volcar, Orden
<1>6. dump'.i = Lugar /\ DOMAIN mem' = DOMAIN mem /\ tablas' = tablas
  BY DEF Volcar
<1>7. ~Leyendo'
  <2>1. ~Leyendo
    BY DEF Volcar, Volcando, Orden, EnVolcado
  <2> QED
    BY <2>1 DEF Leyendo, Volcar
<1> QED
  BY <1>1, <1>2, <1>4, <1>5, <1>6, <1>7, VidasCalma, CadenaCalma DEF Orden, EnVolcado

LEMMA ContarOrden ==
  ASSUME Orden, Contar
  PROVE  Orden'
<1>1. Tipos'
  BY ContarTipos DEF Orden
<1> DEFINE x == [tablas[dump.i] EXCEPT !.contador = @ + 1]
<1>2. dump.i \in DOMAIN tablas /\ tablas[dump.i] \in TTabla /\ dump.i \in DOMAIN mem /\ ~Leyendo
  BY TablasTipo DEF Contar, EnVolcado, Orden
<1>3. tablas' = [tablas EXCEPT ![dump.i] = x]
  BY DEF Contar, UnoMas
<1>4. x.nombre = tablas[dump.i].nombre /\ x.mutex = tablas[dump.i].mutex /\ x.compactados = tablas[dump.i].compactados
  BY <1>2 DEF TTabla
<1> HIDE DEF x
<1>5. /\ MismosNombres
      /\ \A i \in DOMAIN tablas : tablas'[i].mutex = tablas[i].mutex /\ tablas'[i].compactados = tablas[i].compactados
  BY <1>3, <1>4 DEF MismosNombres
<1>6. CalmaVidas
  BY <1>5 DEF CalmaVidas, Contar, disk
<1>7. CalmaCadena
  BY <1>5 DEF CalmaCadena, EstaLeyendo, Contar, disk
<1>8. EnVolcado'
  BY <1>2, MemTipo DEF Leyendo, Contar, EnVolcado, Orden
<1> QED
  BY <1>1, <1>6, <1>7, <1>8, VidasCalma, CadenaCalma DEF Orden

(* A step of a compaction that leaves the list of tables alone and changes *)
(* no .tmpc.                                                               *)
LEMMA CompOrden ==
  ASSUME Orden, Tipos', NEW t \in Tablas,
         \A u \in Tablas \ {t} : comp'[u] = comp[u],
         comp'[t].paso = comp[t].paso \/ (Registrada(t) /\ comp[t].paso # "fin"),
         \/ ~EnTmpc(comp'[t]) /\ ~EnTmpc(comp[t])
         \/ comp'[t].paso = comp[t].paso /\ (comp'[t].i = comp[t].i \/ comp[t].paso = "descargar"),
         \A u \in Tablas, k \in Nat : <<u, "tmpc", k>> \in DOMAIN archivos' <=> <<u, "tmpc", k>> \in DOMAIN archivos,
         UNCHANGED <<tablas, mem, dirs, metadata, dump, ped>>
  PROVE  Orden'
<1>1. CalmaVidas
  BY NombresIguales DEF CalmaVidas
<1>2. CalmaCadena
  BY NombresIguales DEF CalmaCadena, EstaLeyendo
<1>3. CalmaVolcado
  BY DEF CalmaVolcado, Leyendo
<1> QED
  BY <1>1, <1>2, <1>3, VidasCalma, CadenaCalma, VolcadoCalma DEF Orden

LEMMA ArrancarOrden ==
  ASSUME Orden, NEW t \in Tablas, Arrancar(t)
  PROVE  Orden'
<1>1. Tipos'
  BY ArrancarTipos DEF Orden
<1>2. comp \in [Tablas -> TComp]
  BY DEF Orden, Tipos
<1>3. /\ comp[t].paso = "esperaTabla" /\ comp'[t].paso = "dormido" /\ Registrada(t)
      /\ \A u \in Tablas \ {t} : comp'[u] = comp[u]
  BY <1>2 DEF Arrancar, ArrancarCae, Comp, TComp
<1> QED
  BY <1>1, <1>3, CompOrden DEF Arrancar, disk, EnTmpc

LEMMA SalirOrden ==
  ASSUME Orden, NEW t \in Tablas, Salir(t)
  PROVE  Orden'
<1>1. Tipos'
  BY SalirTipos DEF Orden
<1>2. comp \in [Tablas -> TComp]
  BY DEF Orden, Tipos
<1>3. /\ comp[t].paso = "dormido" /\ comp'[t].paso = "fin"
      /\ \A u \in Tablas \ {t} : comp'[u] = comp[u]
  BY <1>2 DEF Salir, Comp, TComp
<1>4. Registrada(t)
  BY <1>3, TablaActiva DEF Activa, Orden
<1> QED
  BY <1>1, <1>3, <1>4, CompOrden DEF Salir, disk, EnTmpc

LEMMA DescargarBloqueOrden ==
  ASSUME Orden, NEW t \in Tablas, DescargarBloque(t)
  PROVE  Orden'
BY DescargarBloqueTipo, CompOrden DEF Orden, Tipos, DescargarBloque, TComp

LEMMA RecrearBloqueVacioOrden ==
  ASSUME Orden, NEW t \in Tablas, RecrearBloqueVacio(t)
  PROVE  Orden'
BY RecrearBloqueVacioTipos, CompOrden DEF Orden, Tipos, RecrearBloqueVacio, TComp

LEMMA ActualizarBloqueOrden ==
  ASSUME Orden, NEW t \in Tablas, ActualizarBloque(t)
  PROVE  Orden'
BY ActualizarBloqueTipos, CompOrden DEF Orden, Tipos, ActualizarBloque, TComp

LEMMA ReservarOrden ==
  ASSUME Orden, NEW t \in Tablas, Reservar(t)
  PROVE  Orden'
BY ReservarTipos, TablaActiva, CompOrden DEF Orden, Tipos, Reservar, Comp, TComp, Activa, EnTmpc

LEMMA GuardarOrden ==
  ASSUME Orden, NEW t \in Tablas, Guardar(t)
  PROVE  Orden'
BY GuardarTipos, DormirTipo, TablaActiva, ConArchivoTmpc, CompOrden DEF Orden, Tipos, Guardar, Comp, TComp, Activa, EnTmpc

(* The requests: the lives of the tables that a step of a request does not *)
(* touch.                                                                  *)
SinTocar(t) ==
  /\ Registrada(t)' <=> Registrada(t)
  /\ (t \in dirs => t \in dirs') /\ (t \in metadata' => t \in metadata)
  /\ comp'[t].paso = comp[t].paso

LEMMA PedidoVidas ==
  ASSUME Vidas, NEW p \in Pedidos, \A q \in Pedidos \ {p} : ped'[q] = ped[q],
         Unicas', \A i \in DOMAIN tablas' : tablas'[i].nombre \in dirs', metadata' \subseteq dirs',
         \A t \in Tablas : Activa(t)' => Registrada(t)',
         \A t \in Tablas \ dirs' : comp'[t].paso \in {"nada", "fin"},
         \A q \in Pedidos \ {p} : Creando(q) \/ EnCurso(q) => SinTocar(Tabla[q]),
         Creando(p)' => VidaDeCreate(p)',
         EnCurso(p)' => VidaDeDrop(p)',
         Creando(p)' \/ EnCurso(p)' => \A q \in Pedidos \ {p} : Creando(q) \/ EnCurso(q) => Tabla[q] # Tabla[p]
  PROVE  Vidas'
<1>1. \A q \in Pedidos \ {p} : (Creando(q)' <=> Creando(q)) /\ (EnCurso(q)' <=> EnCurso(q))
  BY DEF Creando, EnCurso
<1>2. ASSUME NEW q \in Pedidos, Creando(q)' PROVE VidaDeCreate(q)'
  <2>1. CASE q # p
    BY <1>1, <1>2, <2>1 DEF Vidas, VidaDeCreate, SinTocar
  <2> QED
    BY <1>2, <2>1
<1>3. ASSUME NEW q \in Pedidos, EnCurso(q)' PROVE VidaDeDrop(q)'
  <2>1. CASE q # p
    BY <1>1, <1>3, <2>1 DEF Vidas, VidaDeDrop, SinTocar
  <2> QED
    BY <1>3, <2>1
<1>4. ASSUME NEW q \in Pedidos, NEW r \in Pedidos, Tabla[q] = Tabla[r], Creando(q)' \/ EnCurso(q)', Creando(r)' \/ EnCurso(r)'
      PROVE  q = r
  BY <1>1, <1>4 DEF Vidas
<1>5. \A q \in Pedidos : ~(Creando(q)' /\ EnCurso(q)')
  BY DEF Creando, EnCurso
<1> QED
  BY <1>2, <1>3, <1>4, <1>5 DEF Vidas

(* Nobody else makes or drops the table of a CREATE or of a DROP. *)
LEMMA SoloUno ==
  ASSUME Vidas, NEW p \in Pedidos, Creando(p) \/ EnCurso(p)
  PROVE  \A q \in Pedidos \ {p} : Creando(q) \/ EnCurso(q) => Tabla[q] # Tabla[p]
BY DEF Vidas

(* A SELECT that takes no mutex. *)
LEMMA SelectOrden ==
  ASSUME Orden, Tipos', NEW p \in Pedidos, Tipo[p] = "SELECT",
         \A q \in Pedidos \ {p} : ped'[q] = ped[q],
         ped'[p].paso # "leyendo" \/ ped'[p].paso = ped[p].paso,
         UNCHANGED <<tablas, mem, disk, dump, comp>>
  PROVE  Orden'
<1>1. \A q \in Pedidos : Tipo[q] \in {"CREATE", "DROP"} => ped'[q] = ped[q]
  OBVIOUS
<1>2. CalmaVidas
  BY <1>1, NombresIguales DEF CalmaVidas, disk
<1>3. CalmaCadena
  BY NombresIguales DEF CalmaCadena, EstaLeyendo, disk
<1>4. CalmaVolcado
  BY DEF CalmaVolcado, Leyendo
<1> QED
  BY <1>2, <1>3, <1>4, VidasCalma, CadenaCalma, VolcadoCalma DEF Orden

LEMMA BuscarTablaOrden ==
  ASSUME Orden, NEW p \in Pedidos, BuscarTabla(p)
  PROVE  Orden'
<1>1. Tipos'
  BY BuscarTablaTipos DEF Orden
<1>2. ped \in [Pedidos -> TPed]
  BY DEF Orden, Tipos
<1>3. \A q \in Pedidos \ {p} : ped'[q] = ped[q]
  BY <1>2 DEF BuscarTabla
<1>4. ped'[p].paso \in {"rechazado", "memtable"}
  BY <1>2, ZenonT(60) DEF BuscarTabla, TPed
<1> QED
  BY <1>1, <1>3, <1>4, SelectOrden DEF BuscarTabla, En

LEMMA AbrirArchivoOrden ==
  ASSUME Orden, NEW p \in Pedidos, AbrirArchivo(p)
  PROVE  Orden'
<1>1. Tipos'
  BY AbrirArchivoTipos DEF Orden
<1>2. ped \in [Pedidos -> TPed]
  BY DEF Orden, Tipos
<1>3. \A q \in Pedidos \ {p} : ped'[q] = ped[q]
  BY <1>2 DEF AbrirArchivo
<1>4. ped'[p].paso = SiguienteArchivo(p)[2]
  BY <1>2 DEF AbrirArchivo, TPed
<1>5. SiguienteArchivo(p)[2] \in {"tmp", "tmpc", "bin"}
  BY SiguienteArchivoTipo DEF Orden
<1> QED
  BY <1>1, <1>3, <1>4, <1>5, SelectOrden DEF AbrirArchivo, BuscandoEnArchivos

LEMMA LeerBloquesOrden ==
  ASSUME Orden, NEW p \in Pedidos, LeerBloques(p)
  PROVE  Orden'
BY LeerBloquesTipos, SelectOrden DEF Orden, Tipos, LeerBloques, TPed

(* One table changes hands. *)
LEMMA MutexCadena ==
  ASSUME Orden, NEW t, Registrada(t), NEW m \in Pedidos \cup {Nadie},
         LaTabla(t).mutex # t, tablas' = [tablas EXCEPT ![Indice(t)].mutex = m],
         UNCHANGED <<archivos, comp>>,
         \A q \in Pedidos : EstaLeyendo(q)' => \/ Tabla[q] = t /\ m = q
                                               \/ EstaLeyendo(q) /\ LaTabla(t).mutex # q
  PROVE  Cadena' /\ MismosNombres
<1> DEFINE i == Indice(t)
           x == [tablas[i] EXCEPT !.mutex = m]
<1>1. i \in DOMAIN tablas /\ tablas[i].nombre = t /\ LaTabla(t) = tablas[i] /\ tablas[i] \in TTabla
  BY TablaDe DEF Orden
<1>2. x \in TTabla /\ x.nombre = t /\ x.mutex = m /\ x.compactados = tablas[i].compactados
  BY <1>1 DEF TTabla
<1>3. tablas' = [tablas EXCEPT ![i] = x]
  OBVIOUS
<1> HIDE DEF x
<1>4. DOMAIN tablas' = DOMAIN tablas /\ tablas'[i] = x /\ \A j \in DOMAIN tablas \ {i} : tablas'[j] = tablas[j]
  BY <1>1, <1>2, <1>3, TablasDe DEF Orden
<1>5. MismosNombres
  BY <1>1, <1>2, <1>4 DEF MismosNombres
<1>6. /\ \A u : Registrada(u)' <=> Registrada(u)
      /\ \A u : Registrada(u) => Indice(u)' = Indice(u)
  BY <1>5, MismasTablas DEF Orden, Vidas
<1>7. ASSUME NEW q \in Pedidos, EstaLeyendo(q)'
      PROVE  (Registrada(Tabla[q]) /\ LaTabla(Tabla[q]).mutex = q)'
  BY <1>1, <1>2, <1>4, <1>6, <1>7, TablaDe DEF LaTabla, Orden, Cadena
<1>8. ASSUME NEW j \in DOMAIN tablas' PROVE CadenaDe(tablas[j], comp[tablas[j].nombre])'
  BY <1>1, <1>2, <1>4, <1>5 DEF Orden, Cadena, MismosNombres, CadenaDe
<1> QED
  BY <1>5, <1>7, <1>8 DEF Cadena

LEMMA TomarMutexTablaOrden ==
  ASSUME Orden, NEW p \in Pedidos, TomarMutexTabla(p)
  PROVE  Orden'
<1> DEFINE t == Tabla[p]
<1>1. Tipos'
  BY TomarMutexTablaTipos DEF Orden
<1>2. Registrada(t) /\ t \in Tablas
  BY TablaDePedido DEF TomarMutexTabla, SelectCae, En, Leen
<1>3. LaTabla(t).mutex = Nadie /\ Nadie \notin Tablas \cup Pedidos
  BY NadieAssumption DEF TomarMutexTabla, MutexLibre
<1>4. Tipo[p] = "SELECT" /\ \A q \in Pedidos \ {p} : ped'[q] = ped[q]
  BY DEF TomarMutexTabla, En, Ir, Orden, Tipos
<1>5. \A q \in Pedidos : EstaLeyendo(q)' => q = p \/ EstaLeyendo(q)
  BY <1>4 DEF EstaLeyendo
<1>6. Cadena' /\ MismosNombres
  BY <1>2, <1>3, <1>5, MutexCadena, ZenonT(60) DEF TomarMutexTabla, disk
<1>7. CalmaVidas
  BY <1>4, <1>6 DEF CalmaVidas, TomarMutexTabla, disk
<1>8. CalmaVolcado
  BY DEF CalmaVolcado, TomarMutexTabla, BusquedaLibre, InsertsLibre
<1> QED
  BY <1>1, <1>6, <1>7, <1>8, VidasCalma, VolcadoCalma DEF Orden

LEMMA LeerMemTableOrden ==
  ASSUME Orden, NEW p \in Pedidos, LeerMemTable(p)
  PROVE  Orden'
<1> DEFINE t == Tabla[p]
<1>1. Tipos'
  BY LeerMemTableTipos DEF Orden
<1>2. EstaLeyendo(p) /\ ped \in [Pedidos -> TPed]
  BY DEF LeerMemTable, En, EstaLeyendo, Orden, Tipos
<1>3. Registrada(t) /\ LaTabla(t).mutex = p /\ p \notin Tablas /\ t \in Tablas
  BY <1>2, NadieAssumption, TablaDePedido DEF Orden, Cadena
<1>4. Tipo[p] = "SELECT" /\ \A q \in Pedidos \ {p} : ped'[q] = ped[q]
  BY <1>2 DEF LeerMemTable, EstaLeyendo
<1>5. ped'[p].paso = "tmp"
  BY <1>2 DEF LeerMemTable, TPed
<1>6. \A q \in Pedidos : EstaLeyendo(q)' => q # p /\ EstaLeyendo(q)
  BY <1>4, <1>5 DEF EstaLeyendo
<1>7. Cadena' /\ MismosNombres
  BY <1>3, <1>6, MutexCadena DEF LeerMemTable, disk
<1>8. CalmaVidas
  BY <1>4, <1>7 DEF CalmaVidas, LeerMemTable, disk
<1>9. CalmaVolcado
  <2>1. Leyendo' => Leyendo
    BY <1>6 DEF Leyendo, EstaLeyendo
  <2> QED
    BY <1>7, <2>1 DEF CalmaVolcado, LeerMemTable, MismosNombres
<1> QED
  BY <1>1, <1>7, <1>8, <1>9, VidasCalma, VolcadoCalma DEF Orden

(* The CREATE. *)
LEMMA CrearDirectorioOrden ==
  ASSUME Orden, NEW p \in Pedidos, CrearExistente(p) \/ CrearSinEspacio(p) \/ CrearDirectorio(p)
  PROVE  Orden'
<1> DEFINE t == Tabla[p]
<1>1. Tipos'
  BY CrearDirectorioTipos DEF Orden
<1>2. t \in Tablas /\ Tipo[p] = "CREATE" /\ ped[p].paso = "nuevo" /\ ped \in [Pedidos -> TPed]
  BY TablaDePedido DEF CrearExistente, CrearSinEspacio, CrearDirectorio, En, Orden, Tipos
<1>3. \A q \in Pedidos \ {p} : ped'[q] = ped[q]
  BY <1>2 DEF CrearExistente, CrearSinEspacio, CrearDirectorio, Ir
<1>4. \/ ped'[p].paso \in {"rechazado", "sinRespuesta"} /\ dirs' = dirs /\ metadata' = metadata
      \/ ped'[p].paso = "particiones" /\ t \notin dirs /\ dirs' = dirs \cup {t} /\ metadata' = metadata \cup {t}
  BY <1>2 DEF CrearExistente, CrearSinEspacio, CrearDirectorio, Ir, TPed, disk
<1>5. tablas' = tablas /\ comp' = comp /\ archivos' = archivos /\ dump' = dump /\ mem' = mem
  BY DEF CrearExistente, CrearSinEspacio, CrearDirectorio, disk
<1>6. \A u : Registrada(u)' <=> Registrada(u)
  BY <1>5 DEF Registrada
<1>7. Vidas
  BY DEF Orden
<1>8. \A q \in Pedidos : (Creando(q) \/ EnCurso(q)) => Tabla[q] \in dirs
  BY <1>7 DEF Vidas, VidaDeCreate, VidaDeDrop
<1>9. ASSUME NEW q \in Pedidos \ {p}, Creando(q) \/ EnCurso(q) PROVE SinTocar(Tabla[q])
  BY <1>4, <1>5, <1>6, <1>8, <1>9 DEF SinTocar
<1>10. ~EnCurso(p)'
  BY <1>2 DEF EnCurso
<1>11. Creando(p)' => ped'[p].paso = "particiones" /\ t \notin dirs
  BY <1>4 DEF Creando
<1>12. t \notin dirs => ~Registrada(t) /\ comp[t].paso \in {"nada", "fin"}
  BY <1>2, <1>7 DEF Vidas, Registrada
<1>13. Creando(p)' => VidaDeCreate(p)'
  BY <1>4, <1>5, <1>6, <1>11, <1>12 DEF VidaDeCreate
<1>14. Creando(p)' => \A q \in Pedidos \ {p} : Creando(q) \/ EnCurso(q) => Tabla[q] # t
  BY <1>8, <1>11
<1>15. /\ Unicas' /\ metadata' \subseteq dirs' /\ \A i \in DOMAIN tablas' : tablas'[i].nombre \in dirs'
       /\ \A u \in Tablas : Activa(u)' => Registrada(u)'
       /\ \A u \in Tablas \ dirs' : comp'[u].paso \in {"nada", "fin"}
  BY <1>4, <1>5, <1>6, <1>7 DEF Vidas, Unicas, Activa
<1>16. Vidas'
  BY <1>3, <1>7, <1>9, <1>10, <1>13, <1>14, <1>15, PedidoVidas
<1>17. CalmaCadena
  BY <1>2, <1>3, <1>5, NombresIguales DEF CalmaCadena, EstaLeyendo
<1>18. CalmaVolcado
  BY <1>2, <1>3, <1>5 DEF CalmaVolcado, Leyendo
<1> QED
  BY <1>1, <1>16, <1>17, <1>18, CadenaCalma, VolcadoCalma DEF Orden

LEMMA CrearParticionesOrden ==
  ASSUME Orden, NEW p \in Pedidos, CrearParticiones(p)
  PROVE  Orden'
<1> DEFINE t == Tabla[p]
<1>1. Tipos'
  BY CrearParticionesTipos DEF Orden
<1>2. /\ t \in Tablas /\ Tipo[p] = "CREATE" /\ ped[p].paso = "particiones" /\ Creando(p)
      /\ ped \in [Pedidos -> TPed] /\ comp \in [Tablas -> TComp]
  BY TablaDePedido DEF CrearParticiones, En, Creando, Orden, Tipos
<1>3. ped'[p].paso = "registrar" /\ \A q \in Pedidos \ {p} : ped'[q] = ped[q]
  BY <1>2 DEF CrearParticiones, Ir, TPed
<1>4. comp'[t].paso = "esperaTabla" /\ \A u \in Tablas \ {t} : comp'[u] = comp[u]
  BY <1>2 DEF CrearParticiones, TComp
<1>5. tablas' = tablas /\ dirs' = dirs /\ metadata' = metadata /\ dump' = dump /\ mem' = mem
  BY DEF CrearParticiones
<1>6. \A u : Registrada(u)' <=> Registrada(u)
  BY <1>5 DEF Registrada
<1>7. Vidas
  BY DEF Orden
<1>8. VidaDeCreate(p) /\ comp[t].paso \in {"nada", "fin"}
  BY <1>2, <1>7 DEF Vidas, VidaDeCreate
<1>9. \A q \in Pedidos \ {p} : Creando(q) \/ EnCurso(q) => Tabla[q] # t
  BY <1>2, <1>7, SoloUno
<1>10. ASSUME NEW q \in Pedidos \ {p}, Creando(q) \/ EnCurso(q) PROVE SinTocar(Tabla[q])
  BY <1>4, <1>5, <1>6, <1>9, <1>10, TablaDePedido DEF SinTocar
<1>11. ~EnCurso(p)' /\ VidaDeCreate(p)'
  BY <1>2, <1>3, <1>5, <1>6, <1>8 DEF EnCurso, VidaDeCreate
<1>12. /\ Unicas' /\ metadata' \subseteq dirs' /\ \A i \in DOMAIN tablas' : tablas'[i].nombre \in dirs'
       /\ \A u \in Tablas : Activa(u)' => Registrada(u)'
       /\ \A u \in Tablas \ dirs' : comp'[u].paso \in {"nada", "fin"}
  BY <1>4, <1>5, <1>6, <1>7, <1>8 DEF Vidas, Unicas, Activa, VidaDeCreate
<1>13. Vidas'
  BY <1>3, <1>7, <1>9, <1>10, <1>11, <1>12, PedidoVidas
<1>14. \A u \in Tablas, k \in Nat : <<u, "tmpc", k>> \in DOMAIN archivos' <=> <<u, "tmpc", k>> \in DOMAIN archivos
  BY DEF CrearParticiones
<1>15. CalmaCadena
  BY <1>2, <1>3, <1>4, <1>5, <1>8, <1>14, NombresIguales DEF CalmaCadena, EstaLeyendo, EnTmpc
<1>16. CalmaVolcado
  BY <1>2, <1>3, <1>5 DEF CalmaVolcado, Leyendo
<1> QED
  BY <1>1, <1>13, <1>15, <1>16, CadenaCalma, VolcadoCalma DEF Orden

LEMMA RegistrarOrden ==
  ASSUME Orden, NEW p \in Pedidos, Registrar(p)
  PROVE  Orden'
<1> DEFINE t == Tabla[p]
           n == Len(tablas)
<1>1. Tipos'
  BY RegistrarTipos DEF Orden
<1>2. /\ t \in Tablas /\ Tipo[p] = "CREATE" /\ ped[p].paso = "registrar" /\ Creando(p)
      /\ ped \in [Pedidos -> TPed]
  BY TablaDePedido DEF Registrar, En, Creando, Orden, Tipos
<1>3. ped'[p].paso = "fin" /\ \A q \in Pedidos \ {p} : ped'[q] = ped[q]
  BY <1>2 DEF Registrar, Ir, TPed
<1>4. dirs' = dirs /\ metadata' = metadata /\ dump' = dump /\ mem' = mem /\ comp' = comp /\ archivos' = archivos
  BY DEF Registrar, disk
<1>5. Vidas
  BY DEF Orden
<1>6. t \in dirs /\ ~Registrada(t)
  BY <1>2, <1>5 DEF Vidas, VidaDeCreate
<1>7. /\ n \in Nat /\ DOMAIN tablas = 1..n /\ DOMAIN tablas' = 1..(n + 1)
      /\ \A i \in 1..n : tablas'[i] = tablas[i]
      /\ tablas'[n + 1] = Tabla0(t)
  <2>1. Tabla0(t) \in TTabla
    BY <1>2 DEF Tabla0, TTabla
  <2> QED
    BY <2>1, AppendProperties, LenProperties DEF Registrar, Orden, Tipos
<1>8. Tabla0(t).nombre = t /\ Tabla0(t).compactados = 1
  BY DEF Tabla0
<1> HIDE DEF n
<1>9. n + 1 \in 1..(n + 1) /\ n + 1 \notin 1..n /\ 1..(n + 1) = 1..n \cup {n + 1}
  BY <1>7
<1>10. \A u : Registrada(u)' <=> (Registrada(u) \/ u = t)
  BY <1>7, <1>8, <1>9 DEF Registrada
<1>11. \A i \in 1..n : tablas[i].nombre # t
  BY <1>6, <1>7 DEF Registrada
<1>12. Unicas'
  BY <1>5, <1>7, <1>8, <1>9, <1>11 DEF Unicas, Vidas
<1>13. \A q \in Pedidos \ {p} : Creando(q) \/ EnCurso(q) => Tabla[q] # t
  BY <1>2, <1>5, SoloUno
<1>14. ASSUME NEW q \in Pedidos \ {p}, Creando(q) \/ EnCurso(q) PROVE SinTocar(Tabla[q])
  BY <1>4, <1>10, <1>13, <1>14 DEF SinTocar
<1>15. ~EnCurso(p)' /\ ~Creando(p)'
  BY <1>2, <1>3 DEF EnCurso, Creando
<1>16. /\ metadata' \subseteq dirs' /\ \A i \in DOMAIN tablas' : tablas'[i].nombre \in dirs'
       /\ \A u \in Tablas : Activa(u)' => Registrada(u)'
       /\ \A u \in Tablas \ dirs' : comp'[u].paso \in {"nada", "fin"}
  BY <1>4, <1>5, <1>6, <1>7, <1>8, <1>9, <1>10 DEF Vidas, Activa
<1>17. Vidas'
  BY <1>3, <1>5, <1>12, <1>14, <1>15, <1>16, PedidoVidas
<1>18. ~Activa(t)
  BY <1>2, <1>5, <1>6 DEF Vidas
<1>19. ASSUME NEW i \in DOMAIN tablas' PROVE CadenaDe(tablas[i], comp[tablas[i].nombre])'
  BY <1>4, <1>7, <1>8, <1>9, <1>18 DEF Orden, Cadena, CadenaDe, Activa
<1>20. ASSUME NEW q \in Pedidos, EstaLeyendo(q)'
       PROVE  (Registrada(Tabla[q]) /\ LaTabla(Tabla[q]).mutex = q)'
  <2>1. EstaLeyendo(q)
    BY <1>2, <1>3, <1>20 DEF EstaLeyendo
  <2>2. Registrada(Tabla[q]) /\ LaTabla(Tabla[q]).mutex = q
    BY <2>1 DEF Orden, Cadena
  <2>3. Indice(Tabla[q]) \in DOMAIN tablas /\ tablas[Indice(Tabla[q])].nombre = Tabla[q] /\ LaTabla(Tabla[q]) = tablas[Indice(Tabla[q])]
    BY <2>2, TablaDe DEF Orden
  <2>4. Registrada(Tabla[q])' /\ Indice(Tabla[q])' \in DOMAIN tablas' /\ tablas'[Indice(Tabla[q])'].nombre = Tabla[q]
    BY <1>1, <1>10, <2>2 DEF Registrada, Indice
  <2>5. Indice(Tabla[q])' = Indice(Tabla[q])
    BY <1>7, <1>9, <1>12, <2>3, <2>4 DEF Unicas
  <2> QED
    BY <1>7, <2>2, <2>3, <2>4, <2>5 DEF LaTabla
<1>21. Cadena'
  BY <1>19, <1>20 DEF Cadena
<1>22. CalmaVolcado
  BY <1>2, <1>3, <1>4, <1>7, <1>9 DEF CalmaVolcado, Leyendo
<1> QED
  BY <1>1, <1>17, <1>21, <1>22, VolcadoCalma DEF Orden

(* The DROP. *)
LEMMA EmpezarDropOrden ==
  ASSUME Orden, NEW p \in Pedidos, EmpezarDrop(p)
  PROVE  Orden'
<1> DEFINE t == Tabla[p]
           i == Indice(t)
           x == [tablas[i] EXCEPT !.vivo = FALSE]
<1>1. Tipos'
  BY EmpezarDropTipos DEF Orden
<1>2. t \in Tablas /\ Tipo[p] = "DROP" /\ ped[p].paso = "nuevo" /\ ped \in [Pedidos -> TPed]
  BY TablaDePedido DEF EmpezarDrop, En, Orden, Tipos
<1>3. \A q \in Pedidos \ {p} : ped'[q] = ped[q]
  BY <1>2 DEF EmpezarDrop, Ir
<1>4. dirs' = dirs /\ metadata' = metadata /\ dump' = dump /\ mem' = mem /\ comp' = comp /\ archivos' = archivos
  BY DEF EmpezarDrop, disk
<1>5. \/ ped'[p].paso = "rechazado" /\ tablas' = tablas
      \/ ped'[p].paso = "unir" /\ t \in dirs /\ Registrada(t) /\ tablas' = [tablas EXCEPT ![i] = x]
  BY <1>2 DEF EmpezarDrop, EmpezarDropCae, Ir, TPed
<1>6. Registrada(t) => i \in DOMAIN tablas /\ tablas[i] \in TTabla
  BY TablaDe DEF Orden
<1>7. Registrada(t) => x \in TTabla /\ x.nombre = tablas[i].nombre /\ x.mutex = tablas[i].mutex /\ x.compactados = tablas[i].compactados
  BY <1>6 DEF TTabla
<1> HIDE DEF x
<1>8. /\ MismosNombres
      /\ \A j \in DOMAIN tablas : tablas'[j].mutex = tablas[j].mutex /\ tablas'[j].compactados = tablas[j].compactados
  BY <1>5, <1>6, <1>7, NombresIguales DEF MismosNombres
<1>9. Vidas
  BY DEF Orden
<1>10. Unicas' /\ \A u : Registrada(u)' <=> Registrada(u)
  BY <1>8, <1>9, MismasTablas DEF Vidas
<1>11. \A q \in Pedidos \ {p} : Creando(q) \/ EnCurso(q) => SinTocar(Tabla[q])
  BY <1>4, <1>10 DEF SinTocar
<1>12. ~Creando(p)'
  BY <1>2 DEF Creando
<1>13. EnCurso(p)' => ped'[p].paso = "unir" /\ t \in dirs /\ Registrada(t)
  BY <1>5 DEF EnCurso, Bajando
<1>14. EnCurso(p)' => VidaDeDrop(p)'
  BY <1>4, <1>10, <1>13 DEF VidaDeDrop, Bajando
<1>15. ASSUME EnCurso(p)', NEW q \in Pedidos \ {p}, Creando(q) \/ EnCurso(q) PROVE Tabla[q] # t
  BY <1>9, <1>13, <1>15 DEF Vidas, VidaDeCreate, EnCurso, Bajando, EmpezarDrop, EmpezarDropCae
<1>16. /\ metadata' \subseteq dirs' /\ \A j \in DOMAIN tablas' : tablas'[j].nombre \in dirs'
       /\ \A u \in Tablas : Activa(u)' => Registrada(u)'
       /\ \A u \in Tablas \ dirs' : comp'[u].paso \in {"nada", "fin"}
  BY <1>4, <1>8, <1>9, <1>10 DEF Vidas, Activa, MismosNombres
<1>17. Vidas'
  BY <1>3, <1>9, <1>10, <1>11, <1>12, <1>14, <1>15, <1>16, PedidoVidas
<1>18. CalmaCadena
  BY <1>2, <1>3, <1>4, <1>8 DEF CalmaCadena, EstaLeyendo
<1>19. CalmaVolcado
  BY <1>2, <1>3, <1>4, <1>8 DEF CalmaVolcado, Leyendo, MismosNombres
<1> QED
  BY <1>1, <1>17, <1>18, <1>19, CadenaCalma, VolcadoCalma DEF Orden

(* A DROP that is on its way and leaves the list of tables alone. *)
LEMMA DropOrden ==
  ASSUME Orden, Tipos', NEW p \in Pedidos, EnCurso(p),
         \A q \in Pedidos \ {p} : ped'[q] = ped[q],
         EnCurso(p)' => VidaDeDrop(p)',
         ~Registrada(Tabla[p]) \/ dirs' = dirs, dirs \subseteq dirs' \cup {Tabla[p]}, dirs' \subseteq dirs,
         metadata' \subseteq dirs', metadata' \subseteq metadata,
         dirs' = dirs \/ comp[Tabla[p]].paso = "fin",
         UNCHANGED <<tablas, mem, comp, dump>>,
         \A u \in Tablas, k \in Nat : <<u, "tmpc", k>> \in DOMAIN archivos' <=> <<u, "tmpc", k>> \in DOMAIN archivos
  PROVE  Orden'
<1>1. Tipo[p] = "DROP"
  BY DEF EnCurso
<1>2. Vidas
  BY DEF Orden
<1>3. \A u : Registrada(u)' <=> Registrada(u)
  BY DEF Registrada
<1>4. \A q \in Pedidos \ {p} : Creando(q) \/ EnCurso(q) => Tabla[q] # Tabla[p]
  BY <1>2, SoloUno
<1>5. ASSUME NEW q \in Pedidos \ {p}, Creando(q) \/ EnCurso(q) PROVE SinTocar(Tabla[q])
  BY <1>3, <1>4, <1>5 DEF SinTocar
<1>6. ~Creando(p)'
  BY <1>1 DEF Creando
<1>7. \A i \in DOMAIN tablas' : tablas'[i].nombre \in dirs'
  BY <1>2 DEF Registrada, Vidas
<1>8. /\ Unicas' /\ \A u \in Tablas : Activa(u)' => Registrada(u)'
      /\ \A u \in Tablas \ dirs' : comp'[u].paso \in {"nada", "fin"}
  BY <1>2, <1>3 DEF Vidas, Unicas, Activa
<1>9. Vidas'
  BY <1>2, <1>4, <1>5, <1>6, <1>7, <1>8, PedidoVidas
<1>10. CalmaCadena
  BY <1>1, NombresIguales DEF CalmaCadena, EstaLeyendo
<1>11. CalmaVolcado
  BY <1>1 DEF CalmaVolcado, Leyendo
<1> QED
  BY <1>9, <1>10, <1>11, CadenaCalma, VolcadoCalma DEF Orden

LEMMA UnirOrden ==
  ASSUME Orden, NEW p \in Pedidos, Unir(p)
  PROVE  Orden'
<1> DEFINE t == Tabla[p]
<1>1. Tipos'
  BY UnirTipos DEF Orden
<1>2. Tipo[p] = "DROP" /\ ped[p].paso = "unir" /\ EnCurso(p) /\ ped \in [Pedidos -> TPed] /\ comp[t].paso = "fin"
  BY DEF Unir, En, EnCurso, Orden, Tipos
<1>3. ped'[p].paso = "tmp" /\ \A q \in Pedidos \ {p} : ped'[q] = ped[q]
  BY <1>2 DEF Unir, Ir, TPed
<1>4. UNCHANGED <<tablas, mem, dirs, metadata, archivos, comp, dump>>
  BY DEF Unir, disk
<1>5. VidaDeDrop(p) /\ metadata \subseteq dirs
  BY <1>2 DEF Orden, Vidas
<1>6. VidaDeDrop(p)'
  BY <1>2, <1>3, <1>4, <1>5 DEF VidaDeDrop, Registrada
<1> QED
  BY <1>1, <1>2, <1>3, <1>4, <1>5, <1>6, DropOrden

LEMMA BorrarMetadataOrden ==
  ASSUME Orden, NEW p \in Pedidos, BorrarMetadata(p)
  PROVE  Orden'
<1> DEFINE t == Tabla[p]
<1>1. Tipos'
  BY BorrarMetadataTipos DEF Orden
<1>2. Tipo[p] = "DROP" /\ ped[p].paso = "metadata" /\ EnCurso(p) /\ ped \in [Pedidos -> TPed]
  BY DEF BorrarMetadata, En, EnCurso, Bajando, Orden, Tipos
<1>3. ped'[p].paso = "olvidar" /\ \A q \in Pedidos \ {p} : ped'[q] = ped[q]
  BY <1>2 DEF BorrarMetadata, Ir, TPed
<1>4. UNCHANGED <<tablas, mem, dirs, archivos, comp, dump>> /\ metadata' = metadata \ {t}
  BY DEF BorrarMetadata
<1>5. VidaDeDrop(p) /\ metadata \subseteq dirs
  BY <1>2 DEF Orden, Vidas
<1>6. VidaDeDrop(p)'
  BY <1>2, <1>3, <1>4, <1>5 DEF VidaDeDrop, Registrada, Bajando
<1> QED
  BY <1>1, <1>2, <1>3, <1>4, <1>5, <1>6, DropOrden

LEMMA BorrarDirectorioOrden ==
  ASSUME Orden, NEW p \in Pedidos, BorrarDirectorio(p)
  PROVE  Orden'
<1> DEFINE t == Tabla[p]
<1>1. Tipos'
  BY BorrarDirectorioTipos DEF Orden
<1>2. Tipo[p] = "DROP" /\ ped[p].paso = "rmdir" /\ EnCurso(p) /\ ped \in [Pedidos -> TPed]
  BY DEF BorrarDirectorio, En, EnCurso, Bajando, Orden, Tipos
<1>3. ped'[p].paso = "fin" /\ \A q \in Pedidos \ {p} : ped'[q] = ped[q]
  BY <1>2 DEF BorrarDirectorio, Ir, TPed
<1>4. UNCHANGED <<tablas, mem, metadata, archivos, comp, dump>> /\ (dirs' = dirs \/ dirs' = dirs \ {t})
  BY DEF BorrarDirectorio
<1>5. VidaDeDrop(p) /\ metadata \subseteq dirs
  BY <1>2 DEF Orden, Vidas
<1>6. ~EnCurso(p)'
  BY <1>3 DEF EnCurso, Bajando
<1>7. ~Registrada(t) /\ t \notin metadata /\ comp[t].paso = "fin"
  BY <1>2, <1>5 DEF VidaDeDrop, Bajando
<1>8. metadata' \subseteq dirs' /\ metadata' \subseteq metadata /\ dirs \subseteq dirs' \cup {t} /\ dirs' \subseteq dirs
  BY <1>4, <1>5, <1>7
<1> QED
  BY <1>1, <1>2, <1>3, <1>4, <1>6, <1>7, <1>8, DropOrden

LEMMA LiberarBloquesOrden ==
  ASSUME Orden, NEW p \in Pedidos, LiberarBloques(p)
  PROVE  Orden'
<1> DEFINE t == Tabla[p]
<1>1. Tipos'
  BY LiberarBloquesTipos DEF Orden
<1>2. Tipo[p] = "DROP" /\ ped[p].paso \in {"tmp", "bin"} /\ EnCurso(p) /\ ped \in [Pedidos -> TPed] /\ Borrando(p)
  BY DEF LiberarBloques, Borrando, EnCurso, Bajando, Orden, Tipos
<1>3. ped'[p].paso = ABorrar(p)[2] /\ \A q \in Pedidos \ {p} : ped'[q] = ped[q]
  BY <1>2 DEF LiberarBloques, TPed
<1>4. UNCHANGED <<tablas, mem, dirs, metadata, archivos, comp, dump>>
  BY DEF LiberarBloques
<1>5. VidaDeDrop(p) /\ metadata \subseteq dirs
  BY <1>2 DEF Orden, Vidas
<1>6. ped'[p].paso \in {"tmp", "bin"}
  BY <1>2, <1>3, ABorrarTipo DEF Orden
<1>7. VidaDeDrop(p)'
  BY <1>2, <1>4, <1>5, <1>6 DEF VidaDeDrop, Registrada, Bajando
<1> QED
  BY <1>1, <1>2, <1>3, <1>4, <1>5, <1>7, DropOrden

LEMMA EliminarContenidoOrden ==
  ASSUME Orden, NEW p \in Pedidos, EliminarContenido(p)
  PROVE  Orden'
<1> DEFINE t == Tabla[p]
<1>1. Tipos'
  BY EliminarContenidoTipos DEF Orden
<1>2. Tipo[p] = "DROP" /\ ped[p].paso \in {"tmp", "bin"} /\ EnCurso(p) /\ ped \in [Pedidos -> TPed]
  BY DEF EliminarContenido, Borrando, EnCurso, Bajando, Orden, Tipos
<1>3. ped'[p].paso \in {"tmp", "bin", "metadata", "colgado"} /\ \A q \in Pedidos \ {p} : ped'[q] = ped[q]
  BY <1>2 DEF EliminarContenido, TPed
<1>4. UNCHANGED <<tablas, mem, dirs, metadata, comp, dump>>
  BY DEF EliminarContenido
<1>5. VidaDeDrop(p) /\ metadata \subseteq dirs
  BY <1>2 DEF Orden, Vidas
<1>6. VidaDeDrop(p)'
  BY <1>2, <1>3, <1>4, <1>5 DEF VidaDeDrop, Registrada, Bajando
<1>7. \A u \in Tablas, k \in Nat : <<u, "tmpc", k>> \in DOMAIN archivos' <=> <<u, "tmpc", k>> \in DOMAIN archivos
  BY <1>2 DEF EliminarContenido
<1> QED
  BY <1>1, <1>2, <1>3, <1>4, <1>5, <1>6, <1>7, DropOrden

LEMMA OlvidarOrden ==
  ASSUME Orden, NEW p \in Pedidos, Olvidar(p)
  PROVE  Orden'
<1> DEFINE t == Tabla[p]
           i == Indice(t)
<1>1. Tipo[p] = "DROP" /\ ped[p].paso = "olvidar" /\ EnCurso(p) /\ ped \in [Pedidos -> TPed]
  BY DEF Olvidar, En, EnCurso, Bajando, Orden, Tipos
<1>2. VidaDeDrop(p) /\ Vidas
  BY <1>1 DEF Orden, Vidas
<1>3. Registrada(t) /\ t \in dirs /\ t \notin metadata /\ comp[t].paso = "fin"
  BY <1>1, <1>2 DEF VidaDeDrop, Bajando
<1>4. Tipos'
  BY <1>3, OlvidarTipos DEF Orden
<1>5. ped'[p].paso = "rmdir" /\ \A q \in Pedidos \ {p} : ped'[q] = ped[q]
  BY <1>1 DEF Olvidar, Ir, TPed
<1>6. UNCHANGED <<dirs, metadata, archivos, comp, dump>> /\ dump.paso = "dormido" /\ ~Leyendo
  BY DEF Olvidar, disk, OlvidarCae
<1>7. i \in DOMAIN tablas /\ tablas[i].nombre = t
  BY <1>3, TablaDe DEF Orden
<1>8. /\ Len(tablas) \in Nat /\ DOMAIN tablas = 1..Len(tablas)
      /\ DOMAIN tablas' = 1..(Len(tablas) - 1)
      /\ \A j \in 1..(Len(tablas) - 1) : tablas'[j] = IF j < i THEN tablas[j] ELSE tablas[j + 1]
  BY <1>7, RemoveAtElementos, TablasTipo DEF Olvidar, Orden, Tipos
<1> HIDE DEF i
<1> DEFINE Viejo(j) == IF j < i THEN j ELSE j + 1
<1>9. \A j \in DOMAIN tablas' : Viejo(j) \in DOMAIN tablas \ {i} /\ tablas'[j] = tablas[Viejo(j)]
  BY <1>7, <1>8
<1>10. \A j, k \in DOMAIN tablas' : Viejo(j) = Viejo(k) => j = k
  BY <1>7, <1>8
<1>11. ASSUME NEW j \in DOMAIN tablas \ {i} PROVE \E k \in DOMAIN tablas' : Viejo(k) = j
  <2>1. CASE j < i
    BY <1>7, <1>8, <2>1
  <2>2. CASE ~(j < i)
    <3>1. j - 1 \in DOMAIN tablas' /\ Viejo(j - 1) = j
      BY <1>7, <1>8, <2>2
    <3> QED
      BY <3>1
  <2> QED
    BY <2>1, <2>2
<1> HIDE DEF Viejo
<1>12. \A j \in DOMAIN tablas \ {i} : tablas[j].nombre # t
  BY <1>2, <1>7 DEF Vidas, Unicas
<1>13. \A u : Registrada(u)' <=> (Registrada(u) /\ u # t)
  BY <1>7, <1>9, <1>11, <1>12 DEF Registrada
<1>14. Unicas'
  BY <1>2, <1>9, <1>10 DEF Unicas, Vidas
<1>15. \A q \in Pedidos \ {p} : Creando(q) \/ EnCurso(q) => Tabla[q] # t
  BY <1>1, <1>2, SoloUno
<1>16. ASSUME NEW q \in Pedidos \ {p}, Creando(q) \/ EnCurso(q) PROVE SinTocar(Tabla[q])
  BY <1>6, <1>13, <1>15, <1>16 DEF SinTocar
<1>17. ~Creando(p)' /\ VidaDeDrop(p)'
  BY <1>1, <1>3, <1>5, <1>6, <1>13 DEF Creando, VidaDeDrop
<1>18. /\ metadata' \subseteq dirs' /\ \A j \in DOMAIN tablas' : tablas'[j].nombre \in dirs'
       /\ \A u \in Tablas : Activa(u)' => Registrada(u)'
       /\ \A u \in Tablas \ dirs' : comp'[u].paso \in {"nada", "fin"}
  BY <1>2, <1>3, <1>6, <1>9, <1>13 DEF Vidas, Activa
<1>19. Vidas'
  BY <1>2, <1>5, <1>14, <1>15, <1>16, <1>17, <1>18, PedidoVidas
<1>20. \A q \in Pedidos : ~EstaLeyendo(q)'
  BY <1>1, <1>5, <1>6 DEF Leyendo, EstaLeyendo
<1>21. \A j \in DOMAIN tablas' : CadenaDe(tablas[j], comp[tablas[j].nombre])'
  BY <1>6, <1>9 DEF Orden, Cadena, CadenaDe
<1>22. Cadena'
  BY <1>20, <1>21 DEF Cadena
<1>23. EnVolcado'
  BY <1>6 DEF EnVolcado
<1> QED
  BY <1>4, <1>19, <1>22, <1>23 DEF Orden

(* The compaction of a table goes from a stage to the next. *)
LEMMA UnaTablaCadena ==
  ASSUME Orden, NEW t \in Tablas, Registrada(t), MismosNombres,
         \A j \in DOMAIN tablas \ {Indice(t)} : tablas'[j] = tablas[j],
         \A u \in Tablas \ {t} : comp'[u] = comp[u],
         \A u \in Tablas \ {t}, k \in Nat : <<u, "tmpc", k>> \in DOMAIN archivos' <=> <<u, "tmpc", k>> \in DOMAIN archivos,
         \A q \in Pedidos : EstaLeyendo(q)' => EstaLeyendo(q),
         tablas'[Indice(t)].mutex = LaTabla(t).mutex \/ LaTabla(t).mutex = Nadie,
         CadenaDe(LaTabla(t), comp[t])'
  PROVE  Cadena'
<1> DEFINE i == Indice(t)
<1>1. i \in DOMAIN tablas /\ tablas[i].nombre = t /\ LaTabla(t) = tablas[i]
  BY TablaDe DEF Orden
<1>2. /\ \A u : Registrada(u)' <=> Registrada(u)
      /\ \A u : Registrada(u) => Indice(u)' = Indice(u)
  BY MismasTablas DEF Orden, Vidas
<1>3. ASSUME NEW q \in Pedidos, EstaLeyendo(q)'
      PROVE  (Registrada(Tabla[q]) /\ LaTabla(Tabla[q]).mutex = q)'
  BY <1>1, <1>2, <1>3, NadieAssumption, TablaDe DEF Orden, Cadena, LaTabla
<1>4. ASSUME NEW j \in DOMAIN tablas' PROVE CadenaDe(tablas[j], comp[tablas[j].nombre])'
  <2>1. CASE j = i
    BY <1>1, <1>2, <2>1 DEF MismosNombres, LaTabla
  <2>2. CASE j # i
    BY <1>1, <2>2, TablasTipo DEF MismosNombres, Orden, Cadena, Vidas, Unicas, TTabla, CadenaDe
  <2> QED
    BY <2>1, <2>2
<1> QED
  BY <1>3, <1>4 DEF Cadena

LEMMA VaciarParticionOrden ==
  ASSUME Orden, NEW t \in Tablas, VaciarParticion(t)
  PROVE  Orden'
<1> DEFINE i == Indice(t)
           x == LaTabla(t)
<1>1. Tipos'
  BY VaciarParticionTipos DEF Orden
<1>2. comp \in [Tablas -> TComp] /\ comp[t].paso = "descargar" /\ comp[t] \in TComp
  BY DEF VaciarParticion, Comp, Orden, Tipos
<1>3. \A u \in Tablas \ {t} : comp'[u] = comp[u]
  BY <1>2 DEF VaciarParticion
<1>4. UNCHANGED <<tablas, mem, dirs, metadata, dump, ped>> /\ DOMAIN archivos' = DOMAIN archivos
  BY DEF VaciarParticion
<1>5. CASE comp[t].i < Particiones
  BY <1>1, <1>2, <1>3, <1>4, <1>5, CompOrden DEF VaciarParticion, TComp
<1>6. CASE ~(comp[t].i < Particiones)
  <2>1. comp'[t].paso = "actualizar" /\ comp'[t].i = 1
    BY <1>2, <1>6 DEF VaciarParticion, TComp
  <2>2. Registrada(t) /\ CadenaDe(x, comp[t])
    BY <1>2, TablaActiva DEF Activa, Orden
  <2>3. i \in DOMAIN tablas /\ x = tablas[i] /\ x.nombre = t /\ x.compactados \in Nat
    BY <2>2, TablaDe DEF Orden, TTabla
  <2>4. CalmaVidas
    BY <1>2, <1>3, <1>4, <2>2, NombresIguales DEF CalmaVidas
  <2>5. CadenaDe(LaTabla(t), comp[t])'
    BY <1>2, <1>4, <2>1, <2>2, <2>3 DEF LaTabla, Indice, CadenaDe
  <2>6. Cadena'
    BY <1>3, <1>4, <2>2, <2>3, <2>5, NombresIguales, UnaTablaCadena DEF EstaLeyendo
  <2>7. CalmaVolcado
    BY <1>4 DEF CalmaVolcado, Leyendo
  <2> QED
    BY <1>1, <2>4, <2>6, <2>7, VidasCalma, VolcadoCalma DEF Orden
<1> QED
  BY <1>5, <1>6

LEMMA BorrarTmpcOrden ==
  ASSUME Orden, NEW t \in Tablas, BorrarTmpc(t)
  PROVE  Orden'
<1> DEFINE i == Indice(t)
           x == LaTabla(t)
           k == comp[t].i
           ultimo == k + 1 = x.compactados
           y == [tablas[i] EXCEPT !.compactados = 1]
<1>1. Tipos'
  BY BorrarTmpcTipos DEF Orden
<1>2. comp \in [Tablas -> TComp] /\ comp[t].paso = "actualizar" /\ comp[t] \in TComp
  BY DEF BorrarTmpc, Comp, Orden, Tipos
<1>3. \A u \in Tablas \ {t} : comp'[u] = comp[u]
  BY <1>2 DEF BorrarTmpc
<1>4. Registrada(t) /\ CadenaDe(x, comp[t])
  BY <1>2, TablaActiva DEF Activa, Orden
<1>5. i \in DOMAIN tablas /\ x = tablas[i] /\ x.nombre = t /\ x.compactados \in Nat /\ x \in TTabla
  BY <1>4, TablaDe DEF Orden, TTabla
<1>6. k \in 1 .. (x.compactados - 1)
  BY <1>2, <1>4 DEF CadenaDe
<1>7. UNCHANGED <<mem, dirs, metadata, dump, ped>> /\ DOMAIN archivos' = DOMAIN archivos \ {<<t, "tmpc", k>>}
  BY DEF BorrarTmpc
<1>8. y.nombre = t /\ y.mutex = x.mutex /\ y.compactados = 1 /\ y \in TTabla
  BY <1>5 DEF TTabla
<1>9. IF ultimo THEN tablas' = [tablas EXCEPT ![i] = y] ELSE tablas' = tablas
  BY DEF BorrarTmpc
<1> HIDE DEF y
<1>10. /\ MismosNombres /\ \A j \in DOMAIN tablas \ {i} : tablas'[j] = tablas[j]
       /\ tablas'[i].mutex = x.mutex /\ tablas'[i] = IF ultimo THEN y ELSE x
  BY <1>5, <1>8, <1>9, TablasDe, NombresIguales DEF MismosNombres, Orden
<1>11. \A u \in Tablas \ {t}, n \in Nat : <<u, "tmpc", n>> \in DOMAIN archivos' <=> <<u, "tmpc", n>> \in DOMAIN archivos
  BY <1>7
<1>12. CadenaDe(LaTabla(t), comp[t])'
  <2>1. CASE ultimo
    BY <1>2, <1>4, <1>8, <1>10, <2>1, MismasTablas DEF BorrarTmpc, TComp, LaTabla, Orden, Vidas, CadenaDe
  <2>2. CASE ~ultimo
    <3>1. comp'[t].paso = "actualizar" /\ comp'[t].i = k + 1
      BY <1>2, <2>2 DEF BorrarTmpc, TComp
    <3>2. k + 1 \in 1 .. (x.compactados - 1) /\ x.compactados > 1
      BY <1>5, <1>6, <2>2
    <3>3. ASSUME NEW n \in 1 .. (x.compactados - 1)
          PROVE  n >= k + 1 <=> <<t, "tmpc", n>> \in DOMAIN archivos'
      BY <1>2, <1>4, <1>5, <1>6, <1>7 DEF CadenaDe
    <3>4. LaTabla(t)' = x
      BY <1>4, <1>10, <2>2, MismasTablas DEF LaTabla, Orden, Vidas
    <3> HIDE DEF x, k
    <3> QED
      BY <1>5, <3>1, <3>2, <3>3, <3>4 DEF CadenaDe
  <2> QED
    BY <2>1, <2>2
<1>13. CalmaVidas
  BY <1>2, <1>3, <1>4, <1>7, <1>10 DEF CalmaVidas
<1>14. Cadena'
  BY <1>3, <1>4, <1>5, <1>7, <1>10, <1>11, <1>12, UnaTablaCadena DEF EstaLeyendo
<1>15. CalmaVolcado
  BY <1>7, <1>10 DEF CalmaVolcado, Leyendo, MismosNombres
<1> QED
  BY <1>1, <1>13, <1>14, <1>15, VidasCalma, VolcadoCalma DEF Orden

LEMMA RenombrarOrden ==
  ASSUME Orden, NEW t \in Tablas, Renombrar(t)
  PROVE  Orden'
<1> DEFINE i == Indice(t)
           x == LaTabla(t)
           ks == Renombrables(t)
           todos == ks = 1 .. (x.contador - 1)
           mas == x.compactados + Cardinality(ks)
           y == [tablas[i] EXCEPT !.contador = 1, !.compactados = mas]
           z == [tablas[i] EXCEPT !.compactados = mas, !.mutex = t]
<1>1. Tipos'
  BY RenombrarTipos DEF Orden
<1>2. comp \in [Tablas -> TComp] /\ comp[t].paso = "dormido" /\ comp[t] \in TComp
  BY DEF Renombrar, Comp, Orden, Tipos
<1>3. \A u \in Tablas \ {t} : comp'[u] = comp[u]
  BY <1>2 DEF Renombrar
<1>4. Registrada(t) /\ CadenaDe(x, comp[t])
  BY <1>2, TablaActiva DEF Activa, Orden
<1>5. i \in DOMAIN tablas /\ x = tablas[i] /\ x.nombre = t /\ x.compactados \in Nat /\ x.contador \in Nat \ {0} /\ x \in TTabla
  BY <1>4, TablaDe DEF Orden, TTabla
<1>6. x.mutex = Nadie /\ x.contador # 1 /\ x.compactados = 1
  BY <1>2, <1>4, <1>5, NadieAssumption DEF Renombrar, MutexLibre, CadenaDe
<1>7. UNCHANGED <<mem, dirs, metadata, dump>> /\ archivos' = Renombrados(t) /\ ped' = Avisar(t)
  BY DEF Renombrar
<1>8. /\ ks \subseteq 1 .. (x.contador - 1) /\ Cardinality(ks) \in Nat
      /\ todos => Cardinality(ks) = x.contador - 1
  <2>1. Cardinality(1 .. (x.contador - 1)) = x.contador - 1
    <3> DEFINE n == x.contador - 1
    <3>1. n \in Int /\ n >= 1
      BY <1>5, <1>6
    <3> HIDE DEF n
    <3>2. Cardinality(1..n) = IF 1 > n THEN 0 ELSE n - 1 + 1
      BY <3>1, FS_Interval
    <3>3. Cardinality(1..n) = n
      BY <3>1, <3>2
    <3> QED
      BY <3>3 DEF n
  <2> QED
    BY <1>4, <2>1, RenombrablesTipo DEF Orden
<1> HIDE DEF ks
<1>9. mas \in Nat \ {0}
  BY <1>5, <1>6, <1>8
<1>10. y.nombre = t /\ y.compactados = mas /\ z.nombre = t /\ z.compactados = mas /\ z.mutex = t /\ y \in TTabla /\ z \in TTabla
  <2>1. 1 \in Nat \ {0}
    OBVIOUS
  <2>2. y \in TTabla /\ z \in TTabla
    BY <1>5, <1>9, <2>1, TablaCambia
  <2> HIDE DEF mas
  <2> QED
    BY <1>5, <2>2 DEF TTabla
<1>11. IF todos THEN tablas' = [tablas EXCEPT ![i] = y] ELSE tablas' = [tablas EXCEPT ![i] = z]
  BY DEF Renombrar, ks
<1> HIDE DEF y, z
<1>12. /\ MismosNombres /\ \A j \in DOMAIN tablas \ {i} : tablas'[j] = tablas[j]
       /\ tablas'[i] = IF todos THEN y ELSE z
  BY <1>5, <1>10, <1>11, TablasDe DEF MismosNombres, Orden
<1>13. DOMAIN archivos' = (DOMAIN archivos \ {<<t, "tmp", k>> : k \in ks}) \cup {<<t, "tmpc", k>> : k \in ks}
  BY <1>4, <1>7, RenombradosTipo DEF ks, Orden
<1>14. \A u \in Tablas \ {t}, n \in Nat : <<u, "tmpc", n>> \in DOMAIN archivos' <=> <<u, "tmpc", n>> \in DOMAIN archivos
  BY <1>13
<1>15. CadenaDe(LaTabla(t), comp[t])'
  <2>1. CASE todos
    <3>1. comp'[t].paso = "descargar"
      BY <1>2, <2>1 DEF Renombrar, TComp, ks
    <3>2. mas = x.contador /\ mas > 1
      BY <1>5, <1>6, <1>8, <2>1
    <3>3. ASSUME NEW n \in 1 .. (mas - 1) PROVE <<t, "tmpc", n>> \in DOMAIN archivos'
      BY <1>13, <2>1, <3>2
    <3>4. LaTabla(t)' = y
      BY <1>4, <1>12, <2>1, MismasTablas DEF LaTabla, Orden, Vidas
    <3> HIDE DEF mas, todos, x
    <3> QED
      BY <1>10, <3>1, <3>2, <3>3, <3>4 DEF CadenaDe
  <2>2. CASE ~todos
    BY <1>2, <1>4, <1>10, <1>12, <2>2, DormirTipo, MismasTablas DEF Renombrar, TComp, ks, LaTabla, Orden, Vidas, CadenaDe
  <2> QED
    BY <2>1, <2>2
<1>16. \A q \in Pedidos : ped'[q].paso = ped[q].paso
  <2>1. \A q \in Pedidos : ped[q] \in TPed
    BY DEF Orden, Tipos
  <2>2. \A q \in Pedidos : ped'[q] = ped[q] \/ ped'[q] = [ped[q] EXCEPT !.ventana = TRUE]
    BY <1>7, AvisarTipo DEF Orden
  <2> QED
    BY <2>1, <2>2 DEF TPed
<1>17. CalmaVidas
  BY <1>2, <1>3, <1>4, <1>7, <1>12, <1>16 DEF CalmaVidas
<1>18. Cadena'
  BY <1>3, <1>4, <1>5, <1>6, <1>12, <1>14, <1>15, <1>16, UnaTablaCadena DEF EstaLeyendo
<1>19. CalmaVolcado
  BY <1>7, <1>12, <1>16 DEF CalmaVolcado, Leyendo, MismosNombres
<1> QED
  BY <1>1, <1>17, <1>18, <1>19, VidasCalma, VolcadoCalma DEF Orden

-----------------------------------------------------------------------------
(* The blocks of the tables that were created before. *)
LEMMA BloqueInicialTipo ==
  /\ Len(Creadas) \in Nat /\ DOMAIN Creadas = 1..Len(Creadas)
  /\ \A i \in DOMAIN Creadas, k \in 1..Particiones :
       /\ BloqueInicial(i, k) \in 0 .. (Particiones * Len(Creadas) - 1)
       /\ BloqueInicial(i, k) \in Bloques
  /\ \A i, j \in DOMAIN Creadas, k, l \in 1..Particiones :
       BloqueInicial(i, k) = BloqueInicial(j, l) => i = j /\ k = l
<1>1. Len(Creadas) \in Nat /\ DOMAIN Creadas = 1..Len(Creadas)
  BY FSAssumption, LenProperties
<1> DEFINE P == Particiones
           L == Len(Creadas)
<1>2. P \in Nat \ {0} /\ CantBloques \in Nat /\ P * L <= CantBloques
  BY FSAssumption
<1> HIDE DEF P, L
<1>3. \A a, b \in Nat : a <= b => P * a <= P * b
  BY <1>2
<1>4. \A a \in Nat : P * a \in Nat /\ P * (a + 1) = P * a + P /\ a * P = P * a
  BY <1>2
<1>5. ASSUME NEW i \in 1..L, NEW k \in 1..P
      PROVE  /\ BloqueInicial(i, k) \in 0 .. (P * L - 1)
             /\ BloqueInicial(i, k) \in Bloques
             /\ BloqueInicial(i, k) = P * (i - 1) + (k - 1)
  BY <1>1, <1>2, <1>3, <1>4 DEF L, BloqueInicial, P, Bloques
<1>6. ASSUME NEW i \in 1..L, NEW j \in 1..L, NEW k \in 1..P, NEW l \in 1..P,
             BloqueInicial(i, k) = BloqueInicial(j, l)
      PROVE  ~(i < j)
  <2>1. i - 1 \in Nat /\ j - 1 \in Nat /\ i \in Nat /\ j \in Nat
    BY <1>1 DEF L
  <2>2. P * (i - 1) + (k - 1) = P * (j - 1) + (l - 1)
    BY <1>5, <1>6
  <2>3. ASSUME i < j PROVE FALSE
    BY <1>2, <1>3, <1>4, <2>1, <2>2, <2>3
  <2> QED
    BY <2>3
<1>7. ASSUME NEW i \in 1..L, NEW j \in 1..L, NEW k \in 1..P, NEW l \in 1..P,
             BloqueInicial(i, k) = BloqueInicial(j, l)
      PROVE  i = j /\ k = l
  <2>1. i = j
    BY <1>1, <1>6, <1>7 DEF L
  <2>2. P * (i - 1) + (k - 1) = P * (i - 1) + (l - 1) /\ P * (i - 1) \in Nat
    <3>1. i - 1 \in Nat
      BY <1>1 DEF L
    <3> QED
      BY <1>4, <1>5, <1>7, <2>1, <3>1
  <2> DEFINE a == P * (i - 1)
  <2>3. a \in Nat /\ a + (k - 1) = a + (l - 1)
    BY <2>2
  <2> HIDE DEF a
  <2> QED
    BY <1>2, <2>1, <2>3
<1> QED
  BY <1>1, <1>5, <1>7 DEF P, L

(* The files of the tables that were created before. *)
LEMMA ArchivosIniciales ==
  ASSUME Init
  PROVE  /\ \A f \in DOMAIN archivos : \E i \in DOMAIN Creadas, k \in 1..Particiones :
              f = <<Creadas[i], "bin", k>> /\ archivos[f] = <<BloqueInicial(i, k)>>
         /\ archivos = [f \in DOMAIN archivos |-> archivos[f]]
         /\ DOMAIN archivos = {<<Creadas[i], "bin", k>> : i \in DOMAIN Creadas, k \in 1..Particiones}
<1> DEFINE D == {<<Creadas[i], "bin", k>> : i \in DOMAIN Creadas, k \in 1..Particiones}
           Val(f) == <<BloqueInicial(CHOOSE i \in DOMAIN Creadas : Creadas[i] = f[1], f[3])>>
<1>1. archivos = [f \in D |-> Val(f)]
  BY DEF Init
<1>2. ASSUME NEW f \in D
      PROVE  \E i \in DOMAIN Creadas, k \in 1..Particiones : f = <<Creadas[i], "bin", k>> /\ Val(f) = <<BloqueInicial(i, k)>>
  <2>1. PICK i \in DOMAIN Creadas, k \in 1..Particiones : f = <<Creadas[i], "bin", k>>
    OBVIOUS
  <2>2. f[1] = Creadas[i] /\ f[3] = k
    BY <2>1
  <2> DEFINE c == CHOOSE j \in DOMAIN Creadas : Creadas[j] = f[1]
  <2>3. c \in DOMAIN Creadas /\ Creadas[c] = f[1]
    BY <2>2
  <2>4. c = i
    BY <2>2, <2>3, FSAssumption DEF IsInjective
  <2>5. Val(f) = <<BloqueInicial(c, f[3])>>
    OBVIOUS
  <2> HIDE DEF Val, c
  <2>6. Val(f) = <<BloqueInicial(i, k)>>
    BY <2>2, <2>4, <2>5
  <2> QED
    BY <2>1, <2>6
<1> HIDE DEF Val, D
<1>3. /\ DOMAIN archivos = D /\ \A f \in D : archivos[f] = Val(f)
      /\ archivos = [f \in DOMAIN archivos |-> archivos[f]]
  BY <1>1
<1> QED
  BY <1>2, <1>3 DEF D

LEMMA InitTipos ==
  ASSUME Init
  PROVE  Tipos
<1>1. Creadas \in Seq(Tablas) /\ Len(Creadas) \in Nat /\ DOMAIN Creadas = 1..Len(Creadas) /\ \A i \in DOMAIN Creadas : Creadas[i] \in Tablas
  BY FSAssumption, LenProperties, ElementOfSeq
<1>2. tablas \in Seq(TTabla)
  BY <1>1, SeqDef DEF Tabla0, TTabla, Init
<1>3. mem \in Seq(TNodo)
  BY VaciaEsSeq DEF Init
<1>4. dirs \subseteq Tablas /\ metadata \subseteq Tablas
  BY <1>1, ToSetTipo DEF Init
<1>5. DOMAIN archivos \subseteq Archivo /\ archivos \in [DOMAIN archivos -> Seq(Sectores)]
  <2>1. ASSUME NEW f \in DOMAIN archivos PROVE f \in Archivo /\ archivos[f] \in Seq(Sectores)
    <3>1. PICK i \in DOMAIN Creadas, k \in 1..Particiones : f = <<Creadas[i], "bin", k>> /\ archivos[f] = <<BloqueInicial(i, k)>>
      BY ArchivosIniciales
    <3>2. k \in Nat \ {0} /\ BloqueInicial(i, k) \in Sectores
      BY BloqueInicialTipo, FSAssumption DEF Sectores
    <3>3. f \in Archivo
      BY <1>1, <3>1, <3>2, ArchivoTipo
    <3> QED
      BY <3>1, <3>2, <3>3
  <2>2. archivos = [f \in DOMAIN archivos |-> archivos[f]]
    BY ArchivosIniciales
  <2> QED
    BY <2>1, <2>2
<1>6. ocupados \subseteq Bloques
  BY BloqueInicialTipo, FSAssumption DEF Init, Bloques
<1>7. disco \in [Sectores -> Seq(Pedidos)]
  BY VaciaEsSeq DEF Init
<1>8. esperaTabla \in Nat /\ dump \in TDump
  BY DEF Init, TDump
<1>9. comp \in [Tablas -> TComp] /\ \A t \in Tablas : EnRango(comp[t])
  BY VaciaEsSeq DEF TComp, EnRango, Init
<1>10. ped \in [Pedidos -> TPed]
  BY DEF Init, TPed
<1> QED
  BY <1>2, <1>3, <1>4, <1>5, <1>6, <1>7, <1>8, <1>9, <1>10 DEF Tipos

LEMMA InitOrden ==
  ASSUME Init
  PROVE  Orden
<1>1. Tipos
  BY InitTipos
<1>2. Len(Creadas) \in Nat /\ DOMAIN Creadas = 1..Len(Creadas) /\ \A i \in DOMAIN Creadas : Creadas[i] \in Tablas
  BY FSAssumption, LenProperties, ElementOfSeq
<1>3. DOMAIN tablas = DOMAIN Creadas /\ \A i \in DOMAIN tablas : tablas[i] = Tabla0(Creadas[i])
  BY DEF Init
<1>4. \A i \in DOMAIN tablas : tablas[i].nombre = Creadas[i] /\ tablas[i].compactados = 1
  BY <1>3 DEF Tabla0
<1>5. Unicas
  BY <1>3, <1>4, FSAssumption DEF Unicas, IsInjective
<1>6. \A t : t \in dirs <=> \E i \in DOMAIN Creadas : Creadas[i] = t
  BY DEF Init, ToSet
<1>7. \A t \in Tablas : comp[t].paso = IF \E i \in DOMAIN Creadas : Creadas[i] = t THEN "dormido" ELSE "nada"
  BY DEF Init, Contains
<1>8. \A p \in Pedidos : ped[p].paso = "nuevo"
  BY DEF Init
<1>9. Vidas
  BY <1>3, <1>4, <1>5, <1>6, <1>7, <1>8 DEF Creando, EnCurso, Bajando, Registrada, Init, Activa, Vidas
<1>10. Cadena
  BY <1>2, <1>3, <1>4, <1>7, <1>8 DEF EstaLeyendo, Cadena, CadenaDe
<1>11. EnVolcado
  BY DEF EnVolcado, Init
<1> QED
  BY <1>1, <1>9, <1>10, <1>11 DEF Orden

(* Every step keeps the order. *)
LEMMA MismoOrden ==
  ASSUME Orden, UNCHANGED <<tablas, mem, disk, esperaTabla, dump, comp, ped>>
  PROVE  Orden'
<1>1. Tipos'
  BY TiposIguales DEF Orden, disk
<1>2. CalmaVidas
  BY NombresIguales DEF CalmaVidas, disk
<1>3. CalmaCadena
  BY NombresIguales DEF CalmaCadena, EstaLeyendo, disk
<1>4. CalmaVolcado
  BY DEF CalmaVolcado, Leyendo
<1> QED
  BY <1>1, <1>2, <1>3, <1>4, VidasCalma, CadenaCalma, VolcadoCalma DEF Orden

LEMMA PasoOrden ==
  ASSUME Orden, [Next]_vars
  PROVE  Orden'
<1>1. CASE Caer
  BY <1>1, MismoOrden DEF Caer
<1>2. CASE Dump
  BY <1>2, DumpSinBloquesOrden, VolcarOrden, ContarOrden DEF Dump
<1>3. ASSUME NEW t \in Tablas, Compactacion(t) PROVE Orden'
  BY <1>3, ArrancarOrden, SalirOrden, RenombrarOrden, DescargarBloqueOrden, RecrearBloqueVacioOrden, VaciarParticionOrden,
     ActualizarBloqueOrden, BorrarTmpcOrden, ReservarOrden, GuardarOrden DEF Compactacion
<1>4. ASSUME NEW p \in Pedidos, Pedido(p) PROVE Orden'
  BY <1>4, CrearDirectorioOrden, CrearParticionesOrden, RegistrarOrden, BuscarMemTableOrden, InsertarOrden,
     BuscarTablaOrden, TomarMutexTablaOrden, LeerMemTableOrden, AbrirArchivoOrden, LeerBloquesOrden, DescribirOrden,
     EmpezarDropOrden, UnirOrden, LiberarBloquesOrden, EliminarContenidoOrden, BorrarMetadataOrden, OlvidarOrden,
     BorrarDirectorioOrden DEF Pedido
<1>5. CASE UNCHANGED vars
  BY <1>5, MismoOrden DEF vars
<1> QED
  BY <1>1, <1>2, <1>3, <1>4, <1>5 DEF Next

(* The tables, their files and the threads that work on them stay in order *)
(* (consolaLissandra.c:266-420, libLissandra.c:780-1290): a table has one  *)
(* CREATE or one DROP at a time and a compaction only between them, a      *)
(* compaction finds the .tmpc it has yet to read, and a dump is at one of  *)
(* the memtables and tables of the lists.                                  *)
THEOREM EnOrden == Spec => []Orden
<1>1. Init => Orden
  BY InitOrden
<1>2. Orden /\ [Next]_vars => Orden'
  BY PasoOrden
<1> QED
  BY <1>1, <1>2, PTL DEF Spec

LEMMA OrdenTypeOK ==
  ASSUME Orden
  PROVE  TypeOK
BY TablasTipo DEF Orden, TTabla, Tipos, Vidas, TypeOK

(* The state of the file system is of its types: the counters of a table   *)
(* are at least 1 and the blocks of a file are blocks of the disk or -1    *)
(* (libLissandra.c, the structures and the BLOCKS of the files).           *)
THEOREM TiposCorrectos == Spec => []TypeOK
<1>1. Orden => TypeOK
  BY OrdenTypeOK
<1> QED
  BY <1>1, EnOrden, PTL

-----------------------------------------------------------------------------
(* The owners of the blocks.                                               *)

(* A file whose blocks a DROP has given back, and has not deleted yet. *)
Soltando(p) == Tipo[p] = "DROP" /\ ped[p].paso \in {"tmp", "bin"} /\ ped[p].bs # Nadie
Colgado(p) == Tipo[p] = "DROP" /\ ped[p].paso = "colgado"

EnManos(f) ==
  \E p \in Pedidos :
    /\ f[1] = Tabla[p] /\ f[3] = ped[p].n
    /\ (Soltando(p) /\ f[2] = ped[p].paso) \/ (Colgado(p) /\ f[2] \in {"tmp", "bin"})

(* The blocks of a list, and those that a compaction has still to give     *)
(* back of the file that it is reading.                                    *)
Utiles(s) == ToSet(s) \ {SinBloque}

Quedan(c, f, s) ==
  IF c.paso = "descargar" /\ f[2] = "bin" /\ f[3] = c.i THEN {s[k] : k \in {l \in DOMAIN s : l >= c.j}} \ {SinBloque}
  ELSE IF c.paso = "actualizar" /\ f[2] = "tmpc" /\ f[3] = c.i THEN Utiles(c.bs)
  ELSE Utiles(s)

Posee(f) == IF EnManos(f) THEN {} ELSE Quedan(comp[f[1]], f, archivos[f])

(* The owners: the files, and the compactions that have reserved blocks    *)
(* for a file that they have not written.                                  *)
Duenio == Archivo \cup (Tablas \X {"nuevo"} \X {0})

Tiene(d) ==
  IF d[2] = "nuevo" THEN Reservados(d[1]) ELSE IF d \in DOMAIN archivos THEN Posee(d) ELSE {}

SinRepetir(s) == \A a, b \in DOMAIN s : s[a] = s[b] /\ s[a] # SinBloque => a = b

UnDuenio ==
  /\ \A d, e \in Duenio : d # e => Tiene(d) \cap Tiene(e) = {}
  /\ \A d \in Duenio : Tiene(d) \subseteq ocupados

SinDobles ==
  /\ \A f \in DOMAIN archivos : SinRepetir(archivos[f])
  /\ \A t \in Tablas : SinRepetir(comp[t].bs)

Duenios == UnDuenio /\ SinDobles

(* The blocks change hands from one owner to another, and free ones get    *)
(* one.                                                                    *)
LEMMA Reparto ==
  ASSUME UnDuenio, NEW viejo \in [Duenio -> Duenio], NEW fresco \in [Duenio -> SUBSET Bloques],
         \A d, e \in Duenio : d # e /\ viejo[d] = viejo[e] => Tiene(d)' = {} \/ Tiene(e)' = {},
         \A d, e \in Duenio : d # e => fresco[d] \cap fresco[e] = {},
         \A d \in Duenio : fresco[d] \cap ocupados = {},
         \A d \in Duenio : Tiene(d)' \subseteq Tiene(viejo[d]) \cup fresco[d],
         \A d \in Duenio : Tiene(d)' \subseteq ocupados'
  PROVE  UnDuenio'
BY DEF UnDuenio, Duenio, Archivo

LEMMA Encoge ==
  ASSUME UnDuenio, \A d \in Duenio : Tiene(d)' \subseteq Tiene(d) /\ Tiene(d)' \subseteq ocupados'
  PROVE  UnDuenio'
BY DEF UnDuenio, Duenio, Archivo

(* One owner gets free blocks. *)
LEMMA Recibe ==
  ASSUME UnDuenio, NEW a \in Duenio, NEW bs \in SUBSET Libres,
         \A d \in Duenio \ {a} : Tiene(d)' \subseteq Tiene(d),
         Tiene(a)' \subseteq bs \cup Tiene(a), ocupados' = ocupados \cup bs
  PROVE  UnDuenio'
BY DEF Libres, UnDuenio, Duenio, Archivo

(* What is owned, kind by kind. *)
LEMMA DuenioTipo ==
  /\ \A f \in Archivo : f \in Duenio /\ f[1] \in Tablas /\ f[2] \in {"bin", "tmp", "tmpc"} /\ f[3] \in Nat \ {0} /\ f = <<f[1], f[2], f[3]>>
  /\ \A t \in Tablas : <<t, "nuevo", 0>> \in Duenio /\ <<t, "nuevo", 0>> \notin Archivo
  /\ \A d \in Duenio : d \in Archivo \/ \E t \in Tablas : d = <<t, "nuevo", 0>>
BY DEF Duenio, Archivo

LEMMA TieneDe ==
  ASSUME Tipos
  PROVE  /\ \A f \in DOMAIN archivos : f \in Archivo /\ Tiene(f) = Posee(f)
         /\ \A f \in Archivo : f \notin DOMAIN archivos => Tiene(f) = {}
         /\ \A t \in Tablas : Tiene(<<t, "nuevo", 0>>) = Reservados(t)
BY DEF Tipos, Archivo, Tiene

(* The blocks of a file are owned while it is not being read by a          *)
(* compaction nor deleted.                                                 *)
LEMMA QuedanUtiles ==
  ASSUME NEW c, NEW f, NEW s
  PROVE  /\ Quedan(c, f, s) \subseteq Utiles(s) \/ (c.paso = "actualizar" /\ f[2] = "tmpc" /\ f[3] = c.i)
         /\ c.paso \notin {"descargar", "actualizar"} => Quedan(c, f, s) = Utiles(s)
         /\ f[2] = "tmp" => Quedan(c, f, s) = Utiles(s)
BY DEF Quedan, Utiles, ToSet

LEMMA EnManosFin ==
  ASSUME Orden, NEW f, EnManos(f)
  PROVE  comp[f[1]].paso = "fin"
<1>1. PICK p \in Pedidos : f[1] = Tabla[p] /\ (Soltando(p) \/ Colgado(p))
  BY DEF EnManos
<1>2. EnCurso(p) /\ ped[p].paso \in Bajando
  BY <1>1 DEF Soltando, Colgado, EnCurso, Bajando
<1>3. VidaDeDrop(p)
  BY <1>2 DEF Orden, Vidas
<1> QED
  BY <1>1, <1>2, <1>3 DEF VidaDeDrop

LEMMA MismosEnManos ==
  ASSUME \A p \in Pedidos : Tipo[p] = "DROP" => ped'[p] = ped[p]
  PROVE  \A f : EnManos(f)' <=> EnManos(f)
BY DEF EnManos, Soltando, Colgado

(* A compaction that touches no block. *)
Quieta(t) ==
  /\ comp'[t].bs = comp[t].bs
  /\ \/ comp'[t].paso = comp[t].paso /\ comp'[t].i = comp[t].i /\ comp'[t].j = comp[t].j
     \/ {comp'[t].paso, comp[t].paso} \cap {"descargar", "actualizar", "guardar"} = {}

LEMMA MismoDuenio ==
  ASSUME Tipos, Tipos', NEW d \in Duenio, Quieta(d[1]),
         d \in DOMAIN archivos' => d \in DOMAIN archivos /\ archivos'[d] = archivos[d] /\ (EnManos(d) => EnManos(d)')
  PROVE  Tiene(d)' \subseteq Tiene(d)
<1>1. CASE d \in Archivo /\ d \in DOMAIN archivos'
  <2>1. Tiene(d) = Posee(d) /\ d \in Archivo /\ d[2] # "nuevo"
    BY <1>1, TieneDe, DuenioTipo
  <2>2. Tiene(d)' = Posee(d)'
    BY <1>1, <2>1 DEF Tiene
  <2>3. Quedan(comp'[d[1]], d, archivos'[d]) = Quedan(comp[d[1]], d, archivos[d])
    BY <1>1 DEF Quedan, Quieta
  <2> QED
    BY <1>1, <2>1, <2>2, <2>3 DEF Posee
<1>2. CASE d \in Archivo /\ d \notin DOMAIN archivos'
  <2>1. d[2] # "nuevo"
    BY <1>2, DuenioTipo
  <2> QED
    BY <1>2, <2>1 DEF Tiene
<1>3. CASE d \notin Archivo
  BY <1>3 DEF Duenio, Quieta, Reservados, Tiene
<1> QED
  BY <1>1, <1>2, <1>3

LEMMA DueniosCalma ==
  ASSUME Tipos, Tipos', Duenios,
         \A f \in DOMAIN archivos' : f \in DOMAIN archivos /\ archivos'[f] = archivos[f] /\ (EnManos(f) => EnManos(f)'),
         \A t \in Tablas : Quieta(t),
         ocupados \subseteq ocupados'
  PROVE  Duenios'
BY MismoDuenio, Encoge DEF Duenio, Archivo, Duenios, UnDuenio, SinDobles, Quieta, SinRepetir

LEMMA SiguenEnManos ==
  ASSUME \A p \in Pedidos : Tipo[p] = "DROP" => ped'[p] = ped[p] \/ (~Soltando(p) /\ ~Colgado(p))
  PROVE  \A f : EnManos(f) => EnManos(f)'
BY DEF EnManos, Soltando, Colgado

(* A step of a request that deletes no file. *)
LEMMA DueniosPedido ==
  ASSUME Orden, Orden', Duenios, NEW p \in Pedidos, \A q \in Pedidos \ {p} : ped'[q] = ped[q],
         Tipo[p] # "DROP" \/ ped[p].paso \notin {"tmp", "bin", "colgado"},
         UNCHANGED <<archivos, ocupados, comp>>
  PROVE  Duenios'
BY SiguenEnManos, DueniosCalma DEF Soltando, Colgado, Quieta, Orden

(* A step of the dump or of a compaction that touches no block. *)
LEMMA DueniosQuietos ==
  ASSUME Orden, Orden', Duenios, UNCHANGED <<archivos, ocupados, ped>>, \A t \in Tablas : Quieta(t)
  PROVE  Duenios'
<1>1. \A f : EnManos(f) => EnManos(f)'
  BY SiguenEnManos
<1> QED
  BY <1>1, DueniosCalma DEF Orden

LEMMA DumpQuieto ==
  ASSUME Orden, Orden', Duenios, DumpSinBloques \/ Contar
  PROVE  Duenios'
BY DueniosQuietos DEF DumpSinBloques, Contar, disk, Quieta

LEMMA CompQuieta ==
  ASSUME Orden, Orden', Duenios, NEW t \in Tablas, Arrancar(t) \/ Salir(t) \/ RecrearBloqueVacio(t)
  PROVE  Duenios'
<1>1. comp \in [Tablas -> TComp]
  BY DEF Orden, Tipos
<1>2. \A u \in Tablas : Quieta(u)
  <2>1. CASE Arrancar(t)
    BY <1>1, <2>1 DEF Arrancar, Comp, Quieta, TComp
  <2>2. CASE Salir(t)
    BY <1>1, <2>2 DEF Salir, Comp, Quieta, TComp
  <2>3. CASE RecrearBloqueVacio(t)
    BY <1>1, <2>3 DEF RecrearBloqueVacio, Quieta, TComp
  <2> QED
    BY <2>1, <2>2, <2>3
<1> QED
  BY <1>2, DueniosQuietos DEF Arrancar, Salir, RecrearBloqueVacio, disk

(* The requests that touch no block. *)
LEMMA PedidoQuieto ==
  ASSUME Orden, Orden', Duenios, NEW p \in Pedidos,
         \/ CrearExistente(p) \/ CrearSinEspacio(p) \/ CrearDirectorio(p) \/ Registrar(p) \/ BuscarMemTable(p) \/ Insertar(p)
         \/ BuscarTabla(p) \/ TomarMutexTabla(p) \/ LeerMemTable(p) \/ AbrirArchivo(p) \/ LeerBloques(p)
         \/ Describir(p) \/ EmpezarDrop(p) \/ Unir(p) \/ BorrarMetadata(p) \/ Olvidar(p) \/ BorrarDirectorio(p)
  PROVE  Duenios'
<1>1. ped \in [Pedidos -> TPed]
  BY DEF Orden, Tipos
<1>2. CASE CrearExistente(p) \/ CrearSinEspacio(p) \/ CrearDirectorio(p)
  BY <1>1, <1>2, DueniosPedido DEF CrearExistente, CrearSinEspacio, CrearDirectorio, En, Ir, disk
<1>3. CASE Registrar(p)
  BY <1>1, <1>3, DueniosPedido DEF Registrar, En, Ir, disk
<1>4. CASE BuscarMemTable(p)
  BY <1>1, <1>4, DueniosPedido DEF BuscarMemTable, En, Ir, disk
<1>5. CASE Insertar(p)
  BY <1>1, <1>5, DueniosPedido DEF Insertar, En, Ir, disk
<1>6. CASE BuscarTabla(p)
  BY <1>1, <1>6, DueniosPedido DEF BuscarTabla, En, Ir, disk
<1>7. CASE TomarMutexTabla(p)
  BY <1>1, <1>7, DueniosPedido DEF TomarMutexTabla, En, Ir, disk
<1>8. CASE LeerMemTable(p)
  BY <1>1, <1>8, DueniosPedido DEF LeerMemTable, En, Ir, disk
<1>9. CASE AbrirArchivo(p)
  BY <1>1, <1>9, DueniosPedido DEF AbrirArchivo, BuscandoEnArchivos, En, Ir, disk
<1>10. CASE LeerBloques(p)
  BY <1>1, <1>10, DueniosPedido DEF LeerBloques, En, Ir, disk
<1>11. CASE Describir(p)
  BY <1>1, <1>11, DueniosPedido DEF Describir, En, Ir, disk
<1>12. CASE EmpezarDrop(p)
  BY <1>1, <1>12, DueniosPedido DEF EmpezarDrop, En, Ir, disk
<1>13. CASE Unir(p)
  BY <1>1, <1>13, DueniosPedido DEF Unir, En, Ir, disk
<1>14. CASE BorrarMetadata(p)
  BY <1>1, <1>14, DueniosPedido DEF BorrarMetadata, En, Ir, disk
<1>15. CASE Olvidar(p)
  BY <1>1, <1>15, DueniosPedido DEF Olvidar, En, Ir, disk
<1>16. CASE BorrarDirectorio(p)
  BY <1>1, <1>16, DueniosPedido DEF BorrarDirectorio, En, Ir, disk
<1> QED
  BY <1>2, <1>3, <1>4, <1>5, <1>6, <1>7, <1>8, <1>9, <1>10, <1>11, <1>12, <1>13, <1>14, <1>15, <1>16

LEMMA EliminarContenidoDuenios ==
  ASSUME Orden, Orden', Duenios, NEW p \in Pedidos, EliminarContenido(p)
  PROVE  Duenios'
<1> DEFINE f0 == <<Tabla[p], ped[p].paso, ped[p].n>>
<1>1. ped \in [Pedidos -> TPed] /\ Soltando(p) /\ ~Colgado(p)
  BY DEF Orden, Tipos, EliminarContenido, Borrando, Soltando, Colgado
<1>2. UNCHANGED <<ocupados, comp>> /\ \A q \in Pedidos \ {p} : ped'[q] = ped[q]
  BY <1>1 DEF EliminarContenido
<1>3. CASE ped[p].trabada
  BY <1>1, <1>2, <1>3, DueniosCalma DEF EliminarContenido, TPed, Colgado, Soltando, EnManos, Quieta, Orden
<1>4. CASE ~ped[p].trabada
  <2>1. archivos' = [f \in DOMAIN archivos \ {f0} |-> archivos[f]]
    BY <1>4 DEF EliminarContenido
  <2>2. \A f \in DOMAIN archivos' : f \in DOMAIN archivos /\ archivos'[f] = archivos[f] /\ f # f0 /\ f \in Archivo
    BY <2>1 DEF Orden, Tipos
  <2>3. ASSUME NEW f \in DOMAIN archivos', EnManos(f) PROVE EnManos(f)'
    BY <1>1, <1>2, <2>2, <2>3, DuenioTipo DEF EnManos, Soltando, Colgado
  <2> QED
    BY <1>2, <2>2, <2>3, DueniosCalma DEF Quieta, Orden
<1> QED
  BY <1>3, <1>4

(* The steps that touch blocks. *)

(* The owner a gives blocks back. *)
LEMMA Devuelve ==
  ASSUME UnDuenio, NEW a \in Duenio, NEW B, B \cap ocupados \subseteq Tiene(a), ocupados' = ocupados \ B,
         \A d \in Duenio : Tiene(d)' \subseteq Tiene(d), Tiene(a)' \cap B = {}
  PROVE  UnDuenio'
BY Encoge DEF UnDuenio

(* The blocks of a file whose content or whose reader changes. *)
LEMMA ArchivoDuenio ==
  ASSUME Tipos, Tipos', NEW f \in Archivo,
         f \in DOMAIN archivos' =>
           /\ f \in DOMAIN archivos /\ (EnManos(f) => EnManos(f)')
           /\ Quedan(comp'[f[1]], f, archivos'[f]) \subseteq Quedan(comp[f[1]], f, archivos[f])
  PROVE  Tiene(f)' \subseteq Tiene(f)
BY DuenioTipo DEF Tiene, Posee

LEMMA TieneReservados ==
  \A t \in Tablas : Tiene(<<t, "nuevo", 0>>) = Reservados(t) /\ Tiene(<<t, "nuevo", 0>>)' = Reservados(t)'
BY DEF Tiene

LEMMA QuedanOtro ==
  ASSUME NEW c, NEW f, NEW s,
         c.paso = "descargar" => f[2] # "bin" \/ f[3] # c.i,
         c.paso = "actualizar" => f[2] # "tmpc" \/ f[3] # c.i \/ c.bs = s
  PROVE  Quedan(c, f, s) = Utiles(s)
BY DEF Quedan

LEMMA OrdenadosUtiles ==
  ASSUME NEW bs \in SUBSET Bloques, IsFiniteSet(bs)
  PROVE  Utiles(Ordenados(bs)) \subseteq bs /\ SinRepetir(Ordenados(bs))
BY OrdenadosTipo DEF Utiles, SinRepetir

LEMMA VolcarDuenios ==
  ASSUME Orden, Orden', Duenios, Volcar
  PROVE  Duenios'
<1> DEFINE n == Enteros(Len(mem[Lugar].regs))
           bs == Primeros(n)
           o == Ordenados(bs)
<1>1. Lugar \in DOMAIN mem /\ mem[Lugar] \in TNodo /\ Lugar \in DOMAIN tablas /\ tablas[Lugar] \in TTabla
  BY LugarTipo DEF Volcar, Orden
<1>2. PICK f0 \in Archivo : f0 = <<mem[Lugar].nombre, "tmp", tablas[Lugar].contador>>
  BY <1>1, ArchivoTipo DEF TNodo, TTabla
<1>3. archivos' = ConArchivo(f0, o) /\ ocupados' = ocupados \cup bs /\ UNCHANGED <<comp, ped>>
  BY <1>2 DEF Volcar, Marcar
<1>4. bs \in SUBSET Libres /\ bs \in SUBSET Bloques /\ IsFiniteSet(bs)
  BY PrimerosTipo
<1> HIDE DEF bs
<1>5. Utiles(o) \subseteq bs /\ SinRepetir(o)
  BY <1>4, OrdenadosUtiles
<1> HIDE DEF o
<1>6. /\ f0 \in DOMAIN archivos' /\ archivos'[f0] = o
      /\ \A g \in DOMAIN archivos' \ {f0} : g \in DOMAIN archivos /\ archivos'[g] = archivos[g]
  BY <1>3 DEF ConArchivo
<1>7. \A f : EnManos(f) => EnManos(f)'
  BY <1>3, SiguenEnManos
<1>8. ASSUME NEW d \in Duenio \ {f0} PROVE Tiene(d)' \subseteq Tiene(d)
  <2>1. Quieta(d[1])
    BY <1>3 DEF Quieta
  <2> QED
    BY <1>6, <1>7, <2>1, MismoDuenio DEF Orden
<1>9. Tiene(f0)' \subseteq bs
  BY <1>2, <1>5, <1>6, QuedanUtiles DEF Tiene, Posee
<1>10. UnDuenio'
  BY <1>2, <1>3, <1>4, <1>8, <1>9, Recibe, DuenioTipo DEF Duenios
<1>11. SinDobles'
  BY <1>3, <1>5, <1>6 DEF Duenios, SinDobles, SinRepetir
<1> QED
  BY <1>10, <1>11 DEF Duenios

LEMMA ReservarDuenios ==
  ASSUME Orden, Orden', Duenios, NEW t \in Tablas, Reservar(t)
  PROVE  Duenios'
<1> DEFINE regs == comp[t].almacen[comp[t].i]
           n == Enteros(Len(regs))
           bs == Primeros(n)
           todos == LosDeReservar(bs, n)
           a == <<t, "nuevo", 0>>
<1>1. comp \in [Tablas -> TComp] /\ comp[t].paso = "reservar" /\ comp[t] \in TComp
  BY DEF Orden, Tipos, Reservar, Comp
<1>2. regs \in Seq(Pedidos) /\ n \in Nat
  BY <1>1, ReservarTipo, EnterosTipo DEF Orden
<1>3. /\ comp'[t].paso = "guardar" /\ comp'[t].bs = todos /\ \A u \in Tablas \ {t} : comp'[u] = comp[u]
      /\ ocupados' = ocupados \cup bs /\ UNCHANGED <<archivos, ped>>
  BY <1>1 DEF Reservar, LosDeReservar, Marcar, TComp
<1> HIDE DEF n, regs
<1>4. bs \in SUBSET Libres /\ bs \in SUBSET Bloques /\ IsFiniteSet(bs)
  BY PrimerosTipo
<1> HIDE DEF bs
<1>5. /\ \A i \in DOMAIN todos : IF i <= Cardinality(bs) THEN i \in DOMAIN Ordenados(bs) /\ todos[i] = Ordenados(bs)[i] ELSE todos[i] = SinBloque
  BY <1>2, <1>4, LosDeReservarTipo
<1>6. ToSet(Ordenados(bs)) \subseteq bs /\ SinRepetir(Ordenados(bs))
  BY <1>4, OrdenadosTipo DEF SinRepetir
<1> HIDE DEF todos
<1>7. Utiles(todos) \subseteq bs /\ SinRepetir(todos)
  BY <1>5, <1>6 DEF Utiles, SinRepetir, ToSet
<1>8. \A f : EnManos(f) => EnManos(f)'
  BY <1>3, SiguenEnManos
<1>9. ASSUME NEW d \in Duenio \ {a} PROVE Tiene(d)' \subseteq Tiene(d)
  BY <1>1, <1>3, <1>8, MismoDuenio, QuedanOtro, ArchivoDuenio DEF Duenio, Archivo, Quieta, Orden
<1>10. Tiene(a)' \subseteq bs
  BY <1>3, <1>7, TieneReservados DEF Reservados, Utiles
<1>11. UnDuenio'
  BY <1>3, <1>4, <1>9, <1>10, DuenioTipo, Recibe DEF Duenios
<1>12. SinDobles'
  BY <1>3, <1>7 DEF Duenios, SinDobles, SinRepetir
<1> QED
  BY <1>11, <1>12 DEF Duenios

LEMMA CrearParticionesDuenios ==
  ASSUME Orden, Orden', Duenios, NEW p \in Pedidos, CrearParticiones(p)
  PROVE  Duenios'
<1> DEFINE t == Tabla[p]
<1>1. /\ t \in Tablas /\ Tipo[p] = "CREATE" /\ Creando(p) /\ ped \in [Pedidos -> TPed] /\ comp \in [Tablas -> TComp]
      /\ comp[t] \in TComp /\ comp[t].paso \in {"nada", "fin"}
  BY TablaDePedido DEF CrearParticiones, En, Creando, Orden, Tipos, Vidas, VidaDeCreate
<1>2. PICK bs : bs = Primeros(Particiones)
  OBVIOUS
<1>3. PICK orden : orden = Ordenados(bs)
  OBVIOUS
<1>4. bs \in SUBSET Libres /\ bs \in SUBSET Bloques /\ IsFiniteSet(bs) /\ Libres \subseteq Bloques
  BY <1>2, PrimerosTipo
<1>5. /\ orden \in Seq(Bloques) /\ DOMAIN orden = 1..Cardinality(bs) /\ Cardinality(bs) \in Nat
      /\ \A i \in DOMAIN orden : orden[i] \in bs
      /\ \A i, j \in DOMAIN orden : orden[i] = orden[j] => i = j
  BY <1>3, <1>4, OrdenadosTipo, FS_CardinalityType DEF ToSet
<1> DEFINE nuevos == {<<t, "bin", i>> : i \in DOMAIN orden}
<1>6. nuevos \subseteq Archivo /\ \A f \in nuevos : f[1] = t /\ f[3] \in DOMAIN orden /\ f = <<t, "bin", f[3]>>
  <2>1. \A i \in DOMAIN orden : i \in Nat \ {0}
    BY <1>5
  <2>2. \A i \in DOMAIN orden : <<t, "bin", i>> \in Archivo
    BY <1>1, <2>1, ArchivoTipo
  <2> QED
    BY <2>2
<1>7. /\ DOMAIN archivos' = DOMAIN archivos \cup nuevos
      /\ \A f \in DOMAIN archivos' : archivos'[f] = IF f \in nuevos THEN <<orden[f[3]]>> ELSE archivos[f]
  BY <1>2, <1>3 DEF CrearParticiones
<1>8. /\ ocupados' = ocupados \cup bs /\ comp' = [comp EXCEPT ![t].paso = "esperaTabla"]
      /\ \A q \in Pedidos : Tipo[q] = "DROP" => ped'[q] = ped[q]
  BY <1>1, <1>2 DEF CrearParticiones, Marcar, Ir
<1>9. comp'[t].paso = "esperaTabla" /\ \A u \in Tablas : Quieta(u)
  BY <1>1, <1>8 DEF Quieta, TComp
<1>10. \A f : EnManos(f) => EnManos(f)'
  BY <1>8, SiguenEnManos
<1> HIDE DEF nuevos
<1> DEFINE viejo == [d \in Duenio |-> d]
           fresco == [d \in Duenio |-> IF d \in nuevos THEN {orden[d[3]]} ELSE {}]
<1>11. viejo \in [Duenio -> Duenio] /\ fresco \in [Duenio -> SUBSET Bloques]
  BY <1>4, <1>5, <1>6
<1>12. \A d, e \in Duenio : d # e => fresco[d] \cap fresco[e] = {}
  BY <1>5, <1>6
<1>13. \A d \in Duenio : fresco[d] \subseteq bs /\ fresco[d] \cap ocupados = {}
  BY <1>4, <1>5, <1>6 DEF Libres
<1>14. ASSUME NEW d \in Duenio PROVE Tiene(d)' \subseteq Tiene(d) \cup fresco[d]
  <2>1. CASE d \in nuevos
    <3>1. d \in Archivo /\ d \in DOMAIN archivos' /\ d[2] # "nuevo"
      BY <1>6, <1>7, <2>1, DuenioTipo
    <3>2. Tiene(d)' = Posee(d)'
      BY <3>1 DEF Tiene
    <3>3. Quedan(comp'[d[1]], d, archivos'[d]) = Utiles(archivos'[d])
      BY <1>6, <1>9, <2>1, QuedanOtro
    <3>4. Utiles(archivos'[d]) \subseteq {orden[d[3]]}
      <4>1. archivos'[d] = <<orden[d[3]]>>
        BY <1>7, <2>1, <3>1
      <4> QED
        BY <4>1 DEF Utiles, ToSet
    <3> QED
      BY <2>1, <3>2, <3>3, <3>4 DEF Posee
  <2>2. CASE d \notin nuevos
    BY <1>7, <1>9, <1>10, <2>2, MismoDuenio DEF Duenio, Archivo, Orden
  <2> QED
    BY <2>1, <2>2
<1>15. \A d \in Duenio : viejo[d] = d
  OBVIOUS
<1> HIDE DEF viejo, fresco
<1>16. \A d \in Duenio : Tiene(d)' \subseteq ocupados'
  BY <1>8, <1>13, <1>14 DEF Duenios, UnDuenio
<1>17. UnDuenio'
  BY <1>11, <1>12, <1>13, <1>14, <1>15, <1>16, Reparto DEF Duenios
<1>18. SinDobles'
  <2>1. \A f \in DOMAIN archivos' : SinRepetir(archivos'[f])
    <3>1. \A b : SinRepetir(<<b>>)
      BY DEF SinRepetir
    <3> QED
      BY <1>7, <3>1 DEF Duenios, SinDobles
  <2>2. \A u \in Tablas : SinRepetir(comp'[u].bs)
    BY <1>9 DEF Duenios, SinDobles, Quieta
  <2> QED
    BY <2>1, <2>2 DEF SinDobles, SinRepetir
<1> QED
  BY <1>17, <1>18 DEF Duenios

LEMMA RenombrarDuenios ==
  ASSUME Orden, Orden', Duenios, NEW t \in Tablas, Renombrar(t)
  PROVE  Duenios'
<1>1. /\ comp \in [Tablas -> TComp] /\ comp[t].paso = "dormido" /\ comp[t] \in TComp /\ Registrada(t)
  BY TablaActiva DEF Orden, Tipos, Renombrar, Comp, Activa
<1>2. PICK ks : ks = Renombrables(t)
  OBVIOUS
<1>3. ks \subseteq Nat \ {0} /\ \A k \in ks : <<t, "tmp", k>> \in DOMAIN archivos
  BY <1>1, <1>2, RenombrablesTipo DEF Orden
<1> DEFINE N == {<<t, "tmpc", k>> : k \in ks}
           V == {<<t, "tmp", k>> : k \in ks}
<1>4. /\ DOMAIN archivos' = (DOMAIN archivos \ V) \cup N
      /\ \A k \in ks : archivos'[<<t, "tmpc", k>>] = archivos[<<t, "tmp", k>>]
      /\ \A f \in DOMAIN archivos' \ N : f \in DOMAIN archivos /\ archivos'[f] = archivos[f]
  BY <1>1, <1>2, RenombradosTipo, ZenonT(40) DEF Renombrar, Orden
<1>5. N \subseteq Archivo /\ V \subseteq Archivo /\ N \cap V = {}
  <2>1. \A k \in ks : <<t, "tmp", k>> \in Archivo /\ <<t, "tmpc", k>> \in Archivo
    BY <1>3, ArchivoTipo
  <2>2. \A k, l \in ks : <<t, "tmp", k>> # <<t, "tmpc", l>>
    OBVIOUS
  <2> QED
    BY <2>1, <2>2
<1>6. /\ \A u \in Tablas \ {t} : comp'[u] = comp[u]
      /\ comp'[t].bs = comp[t].bs
      /\ comp'[t].paso \in {"dormido", "fin"} \/ (comp'[t].paso = "descargar" /\ comp'[t].j = 1)
      /\ ocupados' = ocupados
  BY <1>1, DormirTipo DEF Renombrar, TComp
<1>7. \A f : EnManos(f) => EnManos(f)'
  BY AvisarTipo, SiguenEnManos DEF Renombrar, Orden
<1> DEFINE viejo == [d \in Duenio |-> IF d \in N THEN <<t, "tmp", d[3]>> ELSE d]
           fresco == [d \in Duenio |-> {}]
<1>8. viejo \in [Duenio -> Duenio] /\ fresco \in [Duenio -> SUBSET Bloques] /\ \A d \in Duenio : fresco[d] = {}
  BY <1>5, DuenioTipo
<1>9. \A d \in V : Tiene(d)' = {}
  BY <1>4, <1>5, DuenioTipo DEF Tiene
<1>10. \A d, e \in Duenio : d # e /\ viejo[d] = viejo[e] => Tiene(d)' = {} \/ Tiene(e)' = {}
  BY <1>9
<1>11. ASSUME NEW d \in Duenio PROVE Tiene(d)' \subseteq Tiene(viejo[d])
  <2>1. CASE d \in N
    <3>1. PICK k \in ks : d = <<t, "tmpc", k>>
      BY <2>1
    <3> DEFINE g == <<t, "tmp", k>>
    <3>2. viejo[d] = g /\ d[1] = t /\ d[2] = "tmpc"
      BY <2>1, <3>1
    <3>3. Tiene(d)' = Posee(d)' /\ archivos'[d] = archivos[g]
      BY <1>4, <2>1, <3>1, <3>2 DEF Tiene
    <3>4. Quedan(comp'[t], d, archivos'[d]) = Utiles(archivos[g])
      BY <1>6, <3>2, <3>3, QuedanOtro
    <3>5. Tiene(g) = Posee(g) /\ ~EnManos(g)
      BY <1>1, <1>3, EnManosFin DEF Tiene
    <3>6. Quedan(comp[t], g, archivos[g]) = Utiles(archivos[g])
      BY QuedanUtiles
    <3> QED
      BY <3>2, <3>3, <3>4, <3>5, <3>6 DEF Posee
  <2>2. CASE d \notin N /\ d \in Archivo /\ d[1] = t
    BY <1>1, <1>4, <1>6, <1>7, <2>2, QuedanUtiles, ArchivoDuenio DEF Orden
  <2>3. CASE d \in Duenio /\ d[1] # t
    BY <1>4, <1>6, <1>7, <2>3, MismoDuenio DEF Duenio, Archivo, Quieta, Orden
  <2>4. CASE d = <<t, "nuevo", 0>>
    <3>1. Reservados(t)' = {}
      BY <1>6 DEF Reservados
    <3> QED
      BY <2>4, <3>1, TieneReservados
  <2>5. d \in Archivo \/ d[1] # t \/ d = <<t, "nuevo", 0>>
    BY DuenioTipo
  <2>6. d \in N => d \in Archivo /\ d[1] = t
    BY <1>5
  <2> QED
    BY <2>1, <2>2, <2>3, <2>4, <2>5, <2>6
<1>12. \A d \in Duenio : Tiene(d)' \subseteq Tiene(viejo[d]) \cup fresco[d]
  BY <1>11
<1> HIDE DEF viejo, fresco, N, V
<1>13. UnDuenio'
  BY <1>6, <1>8, <1>10, <1>11, <1>12, Reparto DEF Duenios, UnDuenio
<1>14. SinDobles'
  <2>1. \A f \in DOMAIN archivos' : \E g \in DOMAIN archivos : archivos'[f] = archivos[g]
    BY <1>3, <1>4 DEF N
  <2>2. \A f \in DOMAIN archivos' : SinRepetir(archivos'[f])
    BY <2>1 DEF Duenios, SinDobles
  <2>3. \A u \in Tablas : SinRepetir(comp'[u].bs)
    BY <1>6 DEF Duenios, SinDobles
  <2> QED
    BY <2>2, <2>3 DEF SinDobles, SinRepetir
<1> QED
  BY <1>13, <1>14 DEF Duenios

(* A step of one compaction that gets no block. *)
LEMMA DueniosDeComp ==
  ASSUME Orden, Orden', NEW t \in Tablas, ped' = ped, \A u \in Tablas \ {t} : comp'[u] = comp[u],
         comp'[t].paso # "guardar",
         \A f \in DOMAIN archivos' : f \in DOMAIN archivos /\ (f[1] # t => archivos'[f] = archivos[f]),
         \A f \in DOMAIN archivos' : f[1] = t =>
           Quedan(comp'[t], f, archivos'[f]) \subseteq Quedan(comp[t], f, archivos[f])
  PROVE  \A d \in Duenio : Tiene(d)' \subseteq Tiene(d)
<1> SUFFICES ASSUME NEW d \in Duenio PROVE Tiene(d)' \subseteq Tiene(d)
  OBVIOUS
<1>1. \A f : EnManos(f) => EnManos(f)'
  BY SiguenEnManos
<1>2. CASE d[1] # t
  BY <1>1, <1>2, MismoDuenio DEF Duenio, Archivo, Quieta, Orden
<1>3. CASE d \in Archivo /\ d[1] = t
  BY <1>1, <1>3, ArchivoDuenio DEF Orden
<1>4. CASE d = <<t, "nuevo", 0>>
  <2>1. Reservados(t)' = {}
    BY DEF Reservados
  <2> QED
    BY <1>4, <2>1, TieneReservados
<1>5. d[1] # t \/ d \in Archivo \/ d = <<t, "nuevo", 0>>
  BY DuenioTipo
<1> QED
  BY <1>2, <1>3, <1>4, <1>5

LEMMA SinBloqueLibre ==
  ASSUME Tipos
  PROVE  SinBloque \notin ocupados /\ SinBloque \notin Bloques
BY FSAssumption DEF Tipos, Bloques, SinBloque

LEMMA DescargarBloqueDuenios ==
  ASSUME Orden, Orden', Duenios, NEW t \in Tablas, DescargarBloque(t)
  PROVE  Duenios'
<1>1. /\ comp \in [Tablas -> TComp] /\ comp[t].paso = "descargar" /\ comp[t] \in TComp
      /\ comp[t].j \in Nat /\ comp[t].i \in 1..Particiones
  BY DescargarBloqueTipo DEF Orden, Tipos, DescargarBloque, Comp, TComp
<1>2. PICK f0 \in Archivo : f0 = LaParticion(t)
  BY DescargarBloqueTipo DEF Orden, Tipos
<1>3. /\ f0 \in DOMAIN archivos /\ f0 = <<t, "bin", comp[t].i>>
      /\ comp[t].j \in DOMAIN archivos[f0]
  BY <1>2, DescargarBloqueTipo DEF Orden, LaParticion
<1>4. PICK b : b = archivos[f0][comp[t].j]
  OBVIOUS
<1>5. /\ comp'[t].paso = "descargar" /\ comp'[t].i = comp[t].i /\ comp'[t].j = comp[t].j + 1 /\ comp'[t].bs = comp[t].bs
      /\ \A u \in Tablas \ {t} : comp'[u] = comp[u]
      /\ ocupados' = ocupados \ {b}
      /\ UNCHANGED <<archivos, ped>>
  BY <1>1, <1>2, <1>4 DEF DescargarBloque, TComp
<1>6. archivos[f0] \in Seq(Sectores) /\ DOMAIN archivos[f0] \subseteq Nat /\ SinRepetir(archivos[f0])
  <2>1. archivos[f0] \in Seq(Sectores)
    BY <1>3 DEF Orden, Tipos
  <2>2. DOMAIN archivos[f0] \subseteq Nat
    BY <2>1, LenProperties
  <2> QED
    BY <1>3, <2>1, <2>2 DEF Duenios, SinDobles
<1> DEFINE antes == {l \in DOMAIN archivos[f0] : l >= comp[t].j}
           ahora == {l \in DOMAIN archivos[f0] : l >= comp[t].j + 1}
<1>7. /\ Quedan(comp[t], f0, archivos[f0]) = {archivos[f0][k] : k \in antes} \ {SinBloque}
      /\ Quedan(comp'[t], f0, archivos[f0]) = {archivos[f0][k] : k \in ahora} \ {SinBloque}
  BY <1>1, <1>3, <1>5 DEF Quedan
<1>8. /\ comp[t].j \in antes /\ ahora \subseteq antes /\ comp[t].j \notin ahora
  BY <1>1, <1>3, <1>6, SMTT(30)
<1>9. \A k \in ahora : archivos[f0][k] = b => b = SinBloque
  BY <1>3, <1>4, <1>6, <1>8 DEF SinRepetir
<1> HIDE DEF antes, ahora
<1>10. ASSUME NEW f \in DOMAIN archivos', f[1] = t
       PROVE  Quedan(comp'[t], f, archivos'[f]) \subseteq Quedan(comp[t], f, archivos[f])
  <2>1. CASE f = f0
    BY <1>5, <1>7, <1>8, <2>1
  <2>2. CASE f # f0
    BY <1>1, <1>3, <1>5, <1>10, <2>2, DuenioTipo DEF Orden, Tipos, Quedan
  <2> QED
    BY <2>1, <2>2
<1>11. \A d \in Duenio : Tiene(d)' \subseteq Tiene(d)
  BY <1>5, <1>10, DueniosDeComp
<1>12. Tiene(f0) = Quedan(comp[t], f0, archivos[f0])
  BY <1>1, <1>3, EnManosFin DEF Tiene, Posee
<1>13. Tiene(f0)' \subseteq Quedan(comp'[t], f0, archivos[f0])
  BY <1>3, <1>5 DEF Tiene, Posee
<1>14. {b} \cap ocupados \subseteq Tiene(f0)
  BY <1>4, <1>7, <1>8, <1>12, SinBloqueLibre DEF Orden
<1>15. Tiene(f0)' \cap {b} = {}
  BY <1>7, <1>9, <1>13
<1>16. UnDuenio'
  BY <1>2, <1>5, <1>11, <1>14, <1>15, Devuelve, DuenioTipo DEF Duenios
<1>17. SinDobles'
  BY <1>5 DEF Duenios, SinDobles, SinRepetir
<1> QED
  BY <1>16, <1>17 DEF Duenios

(* The file that a compaction is reading. *)
LEMMA TmpcActual ==
  ASSUME Orden, NEW t \in Tablas, comp[t].paso = "actualizar"
  PROVE  /\ Registrada(t) /\ LaTabla(t).compactados \in Nat /\ comp[t].i \in 1..(LaTabla(t).compactados - 1)
         /\ \A k \in 1..(LaTabla(t).compactados - 1) : k >= comp[t].i <=> <<t, "tmpc", k>> \in DOMAIN archivos
         /\ <<t, "tmpc", comp[t].i>> \in DOMAIN archivos
<1>1. Registrada(t) /\ CadenaDe(LaTabla(t), comp[t])
  BY TablaActiva DEF Orden, Activa
<1>2. LaTabla(t).nombre = t /\ LaTabla(t) \in TTabla /\ comp[t] \in TComp
  BY <1>1, TablaDe DEF Orden, Tipos
<1>3. /\ comp[t].i \in 1..(LaTabla(t).compactados - 1)
      /\ \A k \in 1..(LaTabla(t).compactados - 1) : k >= comp[t].i <=> <<t, "tmpc", k>> \in DOMAIN archivos
  BY <1>1, <1>2 DEF CadenaDe
<1>4. LaTabla(t).compactados \in Nat /\ comp[t].i \in Nat
  BY <1>2 DEF TTabla, TComp
<1> QED
  BY <1>1, <1>3, <1>4

LEMMA ActualizarBloqueDuenios ==
  ASSUME Orden, Orden', Duenios, NEW t \in Tablas, ActualizarBloque(t)
  PROVE  Duenios'
<1>1. comp \in [Tablas -> TComp] /\ comp[t].paso = "actualizar" /\ comp[t] \in TComp /\ comp[t].bs # <<>>
  BY DEF Orden, Tipos, ActualizarBloque, Comp
<1>2. PICK s : s = comp[t].bs
  OBVIOUS
<1>3. s \in Seq(Sectores) /\ s # <<>> /\ SinRepetir(s)
  BY <1>1, <1>2 DEF TComp, Duenios, SinDobles
<1>4. PICK b : b = Head(s)
  OBVIOUS
<1>5. /\ comp'[t].paso = "actualizar" /\ comp'[t].i = comp[t].i /\ comp'[t].bs = Tail(s)
      /\ \A u \in Tablas \ {t} : comp'[u] = comp[u]
      /\ ocupados' = ocupados \ {b}
      /\ UNCHANGED <<archivos, ped>>
  BY <1>1, <1>2, <1>4 DEF ActualizarBloque, TComp
<1>6. /\ Len(s) \in Nat /\ DOMAIN s = 1..Len(s) /\ 1 \in DOMAIN s /\ b = s[1]
      /\ \A i \in DOMAIN Tail(s) : i + 1 \in DOMAIN s /\ Tail(s)[i] = s[i + 1] /\ i # 0 /\ i \in Nat
  BY <1>3, <1>4, LenProperties, EmptySeq, HeadTailProperties
<1>7. Utiles(Tail(s)) \subseteq Utiles(s) /\ b \notin Utiles(Tail(s)) /\ SinRepetir(Tail(s)) /\ (b # SinBloque => b \in Utiles(s))
  BY <1>3, <1>6 DEF Utiles, ToSet, SinRepetir
<1>8. PICK f0 : f0 = <<t, "tmpc", comp[t].i>>
  OBVIOUS
<1>9. f0 \in DOMAIN archivos /\ f0 \in Archivo
  BY <1>1, <1>8, TmpcActual DEF Orden, Tipos
<1>10. ASSUME NEW f \in DOMAIN archivos', f[1] = t
       PROVE  Quedan(comp'[t], f, archivos'[f]) \subseteq Quedan(comp[t], f, archivos[f])
  BY <1>1, <1>2, <1>5, <1>7 DEF Quedan
<1>11. \A d \in Duenio : Tiene(d)' \subseteq Tiene(d)
  BY <1>5, <1>10, DueniosDeComp
<1>12. Tiene(f0) = Utiles(s)
  BY <1>1, <1>2, <1>8, <1>9, EnManosFin DEF Tiene, Quedan, Posee
<1>13. Tiene(f0)' \subseteq Utiles(Tail(s))
  BY <1>5, <1>8, <1>9 DEF Tiene, Quedan, Posee
<1>14. {b} \cap ocupados \subseteq Tiene(f0)
  BY <1>7, <1>12, SinBloqueLibre DEF Orden
<1>15. UnDuenio'
  BY <1>5, <1>7, <1>9, <1>11, <1>13, <1>14, Devuelve, DuenioTipo, ZenonT(60) DEF Duenios
<1>16. SinDobles'
  <2>1. \A u \in Tablas : SinRepetir(comp'[u].bs)
    BY <1>5, <1>7 DEF Duenios, SinDobles
  <2>2. \A f \in DOMAIN archivos' : SinRepetir(archivos'[f])
    BY <1>5 DEF Duenios, SinDobles
  <2> QED
    BY <2>1, <2>2 DEF SinDobles, SinRepetir
<1> QED
  BY <1>15, <1>16 DEF Duenios

LEMMA LiberarBloquesDuenios ==
  ASSUME Orden, Orden', Duenios, NEW p \in Pedidos, LiberarBloques(p)
  PROVE  Duenios'
<1> DEFINE t == Tabla[p]
<1>1. PICK f0 : f0 = ABorrar(p)
  OBVIOUS
<1>2. /\ ped \in [Pedidos -> TPed] /\ Borrando(p) /\ EnCurso(p) /\ ~Soltando(p) /\ ~Colgado(p)
      /\ ped[p].paso \in Bajando
  BY DEF Orden, Tipos, LiberarBloques, Borrando, EnCurso, Bajando, Soltando, Colgado
<1>3. /\ f0 = <<t, f0[2], f0[3]>> /\ f0[2] \in {"tmp", "bin"} /\ f0[3] \in Nat \ {0}
      /\ f0 \in DOMAIN archivos /\ f0 \in Archivo
  BY <1>1, <1>2, ABorrarTipo DEF LiberarBloques, LiberarCae, Orden, Tipos
<1>4. /\ ocupados' = ocupados \ ToSet(archivos[f0])
      /\ \A q \in Pedidos \ {p} : ped'[q] = ped[q]
      /\ ped'[p].paso = f0[2] /\ ped'[p].n = f0[3] /\ ped'[p].bs = archivos[f0]
      /\ UNCHANGED <<archivos, comp>>
  BY <1>1, <1>2 DEF LiberarBloques, TPed
<1>5. archivos[f0] # Nadie
  BY <1>3, NadieAssumption DEF Orden, Tipos
<1>6. EnManos(f0)'
  BY <1>2, <1>3, <1>4, <1>5 DEF Soltando, Borrando, EnManos
<1>7. ~EnManos(f0)
  BY <1>2, <1>3 DEF EnManos, EnCurso, Bajando, Soltando, Colgado, Orden, Vidas
<1>8. comp[t].paso = "fin"
  <2>1. VidaDeDrop(p)
    BY <1>2 DEF Orden, Vidas
  <2> QED
    BY <1>2, <2>1 DEF VidaDeDrop
<1>9. \A f : EnManos(f) => EnManos(f)'
  BY <1>2, <1>4, SiguenEnManos
<1>10. \A d \in Duenio : Tiene(d)' \subseteq Tiene(d)
  BY <1>4, <1>9, MismoDuenio DEF Quieta, Orden
<1>11. Tiene(f0) = Utiles(archivos[f0])
  BY <1>3, <1>7, <1>8, QuedanUtiles DEF Tiene, Posee
<1>12. Tiene(f0)' = {}
  <2>1. f0[2] # "nuevo"
    BY <1>3
  <2> QED
    BY <1>3, <1>4, <1>6, <2>1 DEF Tiene, Posee
<1>13. ToSet(archivos[f0]) \cap ocupados \subseteq Tiene(f0)
  BY <1>11, SinBloqueLibre DEF Orden, Utiles
<1>14. UnDuenio'
  BY <1>3, <1>4, <1>10, <1>12, <1>13, DuenioTipo, Devuelve DEF Duenios
<1>15. SinDobles'
  BY <1>4 DEF Duenios, SinDobles, SinRepetir
<1> QED
  BY <1>14, <1>15 DEF Duenios

(* A step of one compaction that keeps the bits. *)
LEMMA DueniosMismosBits ==
  ASSUME Orden, Duenios, NEW t \in Tablas, ocupados' = ocupados,
         \A d \in Duenio : Tiene(d)' \subseteq Tiene(d),
         \A f \in DOMAIN archivos' : archivos'[f] = <<>> \/ (f \in DOMAIN archivos /\ archivos'[f] = archivos[f]),
         \A u \in Tablas \ {t} : comp'[u] = comp[u],
         comp'[t].bs = comp[t].bs \/ \E f \in DOMAIN archivos : comp'[t].bs = archivos[f]
  PROVE  Duenios'
BY Encoge DEF Duenios, UnDuenio, SinRepetir, SinDobles

LEMMA VaciarParticionDuenios ==
  ASSUME Orden, Orden', Duenios, NEW t \in Tablas, VaciarParticion(t)
  PROVE  Duenios'
<1>1. /\ comp \in [Tablas -> TComp] /\ comp[t].paso = "descargar" /\ comp[t] \in TComp
  BY DEF Orden, Tipos, VaciarParticion, Comp
<1>2. PICK f0 : f0 = LaParticion(t)
  OBVIOUS
<1>3. f0 \in DOMAIN archivos /\ f0 \in Archivo /\ f0 = <<t, "bin", comp[t].i>>
  BY <1>2 DEF VaciarParticion, DescargarCae, Orden, Tipos, LaParticion
<1>4. PICK g0 : g0 = <<t, "tmpc", 1>>
  OBVIOUS
<1>5. g0 \in DOMAIN archivos
  BY <1>1, <1>4, TablaActiva, TablaDe DEF Orden, Activa, CadenaDe, TTabla
<1>6. /\ \A u \in Tablas \ {t} : comp'[u] = comp[u]
      /\ \/ comp'[t].paso = "descargar" /\ comp'[t].bs = comp[t].bs
         \/ comp'[t].paso = "actualizar" /\ comp'[t].i = 1 /\ comp'[t].bs = archivos[g0]
      /\ UNCHANGED <<ocupados, ped>>
  BY <1>1, <1>4 DEF VaciarParticion, TComp
<1>7. /\ DOMAIN archivos' = DOMAIN archivos /\ archivos'[f0] = <<>>
      /\ \A f \in DOMAIN archivos \ {f0} : archivos'[f] = archivos[f]
  BY <1>2, <1>3 DEF VaciarParticion
<1>8. ASSUME NEW f \in DOMAIN archivos', f[1] = t
      PROVE  Quedan(comp'[t], f, archivos'[f]) \subseteq Quedan(comp[t], f, archivos[f])
  <2>1. f \in Archivo /\ f = <<t, f[2], f[3]>>
    <3>1. f \in Archivo
      BY <1>7 DEF Orden, Tipos
    <3> QED
      BY <1>8, <3>1, DuenioTipo
  <2>2. CASE f = f0
    BY <1>3, <1>7, <2>2, QuedanUtiles DEF Utiles, ToSet
  <2>3. CASE f # f0 /\ f[2] # "tmpc"
    BY <1>1, <1>3, <1>7, <2>1, <2>3, QuedanOtro, QuedanUtiles
  <2>4. CASE f[2] = "tmpc"
    <3>1. f # f0 /\ archivos'[f] = archivos[f]
      BY <1>3, <1>7, <2>4
    <3>2. Quedan(comp[t], f, archivos[f]) = Utiles(archivos[f])
      BY <1>1, <2>4, QuedanOtro
    <3>3. comp'[t].paso = "actualizar" => f[3] # comp'[t].i \/ comp'[t].bs = archivos[f]
      BY <1>4, <1>6, <2>1, <2>4
    <3>4. Quedan(comp'[t], f, archivos[f]) = Utiles(archivos[f])
      BY <2>4, <3>3, QuedanOtro
    <3> QED
      BY <3>1, <3>2, <3>4
  <2> QED
    BY <2>2, <2>3, <2>4
<1>9. \A d \in Duenio : Tiene(d)' \subseteq Tiene(d)
  BY <1>3, <1>6, <1>7, <1>8, DueniosDeComp
<1> QED
  BY <1>5, <1>6, <1>7, <1>9, DueniosMismosBits

LEMMA BorrarTmpcDuenios ==
  ASSUME Orden, Orden', Duenios, NEW t \in Tablas, BorrarTmpc(t)
  PROVE  Duenios'
<1>1. comp \in [Tablas -> TComp] /\ comp[t].paso = "actualizar" /\ comp[t] \in TComp
  BY DEF Orden, Tipos, BorrarTmpc, Comp
<1>2. PICK k : k = comp[t].i
  OBVIOUS
<1>3. /\ Registrada(t) /\ LaTabla(t).compactados \in Nat /\ k \in 1..(LaTabla(t).compactados - 1)
      /\ \A l \in 1..(LaTabla(t).compactados - 1) : l >= k <=> <<t, "tmpc", l>> \in DOMAIN archivos
  BY <1>1, <1>2, TmpcActual
<1>4. PICK f0 : f0 = <<t, "tmpc", k>>
  OBVIOUS
<1>5. PICK g0 : g0 = <<t, "tmpc", k + 1>>
  OBVIOUS
<1>6. /\ \A u \in Tablas \ {t} : comp'[u] = comp[u]
      /\ \/ comp'[t].paso = "reservar" /\ comp'[t].bs = comp[t].bs
         \/ k + 1 # LaTabla(t).compactados /\ comp'[t].paso = "actualizar" /\ comp'[t].i = k + 1 /\ comp'[t].bs = archivos[g0]
      /\ UNCHANGED <<ocupados, ped>>
  BY <1>1, <1>2, <1>5 DEF BorrarTmpc, TComp
<1>7. k + 1 # LaTabla(t).compactados => g0 \in DOMAIN archivos
  BY <1>3, <1>5
<1>8. \A f \in DOMAIN archivos' : f \in DOMAIN archivos /\ archivos'[f] = archivos[f] /\ f # f0
  BY <1>2, <1>4 DEF BorrarTmpc
<1>9. ASSUME NEW f \in DOMAIN archivos', f[1] = t
      PROVE  Quedan(comp'[t], f, archivos'[f]) \subseteq Quedan(comp[t], f, archivos[f])
  <2>1. f \in Archivo /\ f = <<t, f[2], f[3]>>
    <3>1. f \in Archivo
      BY <1>8 DEF Orden, Tipos
    <3> QED
      BY <1>9, <3>1, DuenioTipo
  <2>2. f[2] # "tmpc" \/ f[3] # k
    BY <1>4, <1>8, <2>1
  <2>3. Quedan(comp[t], f, archivos[f]) = Utiles(archivos[f])
    BY <1>1, <1>2, <2>2, QuedanOtro
  <2>4. comp'[t].paso = "actualizar" => f[2] # "tmpc" \/ f[3] # comp'[t].i \/ comp'[t].bs = archivos[f]
    BY <1>5, <1>6, <2>1
  <2>5. comp'[t].paso # "descargar"
    BY <1>6
  <2>6. Quedan(comp'[t], f, archivos[f]) = Utiles(archivos[f])
    BY <2>4, <2>5, QuedanOtro
  <2> QED
    BY <1>8, <2>3, <2>6
<1>10. \A d \in Duenio : Tiene(d)' \subseteq Tiene(d)
  BY <1>6, <1>8, <1>9, DueniosDeComp
<1> QED
  BY <1>6, <1>7, <1>8, <1>10, DueniosMismosBits

LEMMA GuardarDuenios ==
  ASSUME Orden, Orden', Duenios, NEW t \in Tablas, Guardar(t)
  PROVE  Duenios'
<1>1. comp \in [Tablas -> TComp] /\ comp[t].paso = "guardar" /\ comp[t] \in TComp /\ comp[t].i \in 1..Particiones
  BY ReservarTipo DEF Orden, Tipos, Guardar, Comp
<1>2. PICK f0 : f0 = <<t, "bin", comp[t].i>>
  OBVIOUS
<1>3. PICK s : s = comp[t].bs
  OBVIOUS
<1>4. PICK a : a = <<t, "nuevo", 0>>
  OBVIOUS
<1>5. f0 \in Archivo /\ f0 \in Duenio /\ a \in Duenio /\ a # f0
  <2>1. comp[t].i \in Nat \ {0}
    BY <1>1
  <2>2. f0 \in Archivo
    BY <1>2, <2>1, ArchivoTipo
  <2> QED
    BY <1>4, <2>2, DuenioTipo
<1>6. /\ f0 \in DOMAIN archivos' /\ archivos'[f0] = s
      /\ \A g \in DOMAIN archivos' \ {f0} : g \in DOMAIN archivos /\ archivos'[g] = archivos[g]
  BY <1>2, <1>3 DEF Guardar, ConArchivo
<1>7. /\ \A u \in Tablas \ {t} : comp'[u] = comp[u]
      /\ comp'[t].paso \notin {"descargar", "actualizar", "guardar"} /\ comp'[t].bs = <<>>
      /\ UNCHANGED <<ocupados, ped>>
  BY <1>1, DormirTipo DEF Guardar, TComp
<1>8. \A f : EnManos(f) => EnManos(f)'
  BY <1>7, SiguenEnManos
<1>9. Tiene(a)' = {}
  <2>1. Reservados(t)' = {}
    BY <1>7 DEF Reservados
  <2> QED
    BY <1>4, <2>1, TieneReservados
<1>10. Tiene(f0)' \subseteq Tiene(a)
  <2>1. Tiene(a) = Utiles(s)
    BY <1>1, <1>3, <1>4, TieneReservados DEF Reservados, Utiles
  <2>2. Tiene(f0)' = Posee(f0)' /\ f0[1] = t
    BY <1>2, <1>6 DEF Tiene
  <2>3. Quedan(comp'[t], f0, archivos'[f0]) = Utiles(s)
    BY <1>6, <1>7, QuedanUtiles
  <2> QED
    BY <2>1, <2>2, <2>3 DEF Posee
<1>11. ASSUME NEW d \in Duenio \ {f0, a} PROVE Tiene(d)' \subseteq Tiene(d)
  <2>1. CASE d[1] # t
    BY <1>6, <1>7, <1>8, <2>1, MismoDuenio DEF Duenio, Archivo, Quieta, Orden
  <2>2. CASE d[1] = t
    <3>1. d \in Archivo
      BY <1>4, <2>2, DuenioTipo
    <3>2. Quedan(comp'[t], d, archivos[d]) = Utiles(archivos[d]) /\ Quedan(comp[t], d, archivos[d]) = Utiles(archivos[d])
      BY <1>1, <1>7, QuedanUtiles
    <3> QED
      BY <1>6, <1>8, <2>2, <3>1, <3>2, ArchivoDuenio DEF Orden
  <2> QED
    BY <2>1, <2>2
<1> DEFINE viejo == [d \in Duenio |-> IF d = f0 THEN a ELSE d]
           fresco == [d \in Duenio |-> {}]
<1>12. /\ viejo \in [Duenio -> Duenio] /\ fresco \in [Duenio -> SUBSET Bloques]
       /\ viejo[f0] = a /\ \A d \in Duenio \ {f0} : viejo[d] = d
       /\ \A d \in Duenio : fresco[d] = {}
  BY <1>5
<1> HIDE DEF viejo, fresco
<1>13. \A d, e \in Duenio : d # e /\ viejo[d] = viejo[e] => Tiene(d)' = {} \/ Tiene(e)' = {}
  BY <1>5, <1>9, <1>12
<1>14. \A d \in Duenio : Tiene(d)' \subseteq Tiene(viejo[d]) \cup fresco[d]
  BY <1>9, <1>10, <1>11, <1>12
<1>15. \A d \in Duenio : Tiene(d)' \subseteq ocupados'
  BY <1>5, <1>7, <1>9, <1>10, <1>11 DEF Duenios, UnDuenio
<1>16. UnDuenio'
  BY <1>12, <1>13, <1>14, <1>15, Reparto DEF Duenios
<1>17. SinDobles'
  BY <1>3, <1>6, <1>7 DEF SinRepetir, Duenios, SinDobles
<1> QED
  BY <1>16, <1>17 DEF Duenios

LEMMA InitDuenios ==
  ASSUME Init
  PROVE  Duenios
<1>1. Tipos
  BY InitTipos
<1>2. \A t \in Tablas : comp[t].paso \in {"dormido", "nada"} /\ comp[t].bs = <<>>
  BY DEF Init
<1>3. \A t \in Tablas : Reservados(t) = {}
  BY <1>2 DEF Reservados
<1>4. ASSUME NEW f \in DOMAIN archivos
      PROVE  \E i \in DOMAIN Creadas, k \in 1..Particiones :
               /\ f = <<Creadas[i], "bin", k>> /\ Tiene(f) \subseteq {BloqueInicial(i, k)}
               /\ archivos[f] = <<BloqueInicial(i, k)>>
  BY <1>1, <1>2, ArchivosIniciales, TieneDe, DuenioTipo, QuedanUtiles DEF Utiles, ToSet, Posee
<1>5. \A d \in Duenio : d \in DOMAIN archivos \/ Tiene(d) = {}
  BY <1>1, <1>3, TieneDe, DuenioTipo
<1>6. \A d \in Duenio : Tiene(d) \subseteq ocupados
  <2>1. ocupados = 0 .. (Particiones * Len(Creadas) - 1)
    BY DEF Init
  <2>2. \A f \in DOMAIN archivos : Tiene(f) \subseteq ocupados
    BY <1>4, <2>1, BloqueInicialTipo
  <2> QED
    BY <1>5, <2>2
<1>7. ASSUME NEW f \in DOMAIN archivos, NEW g \in DOMAIN archivos, f # g PROVE Tiene(f) \cap Tiene(g) = {}
  BY <1>4, <1>7, BloqueInicialTipo, SMTT(30)
<1>8. UnDuenio
  BY <1>5, <1>6, <1>7 DEF UnDuenio
<1>9. SinDobles
  BY <1>2, <1>4 DEF SinRepetir, SinDobles
<1> QED
  BY <1>8, <1>9 DEF Duenios

LEMMA PasoDuenios ==
  ASSUME Orden, Orden', Duenios, [Next]_vars
  PROVE  Duenios'
<1>1. CASE UNCHANGED <<archivos, ocupados, comp, ped>>
  BY <1>1, DueniosQuietos DEF Quieta
<1>2. CASE Dump
  BY <1>2, DumpQuieto, VolcarDuenios DEF Dump
<1>3. ASSUME NEW t \in Tablas, Compactacion(t) PROVE Duenios'
  BY <1>3, CompQuieta, RenombrarDuenios, DescargarBloqueDuenios, VaciarParticionDuenios, ActualizarBloqueDuenios,
     BorrarTmpcDuenios, ReservarDuenios, GuardarDuenios DEF Compactacion
<1>4. ASSUME NEW p \in Pedidos, Pedido(p) PROVE Duenios'
  BY <1>4, PedidoQuieto, CrearParticionesDuenios, LiberarBloquesDuenios, EliminarContenidoDuenios DEF Pedido
<1>5. CASE Caer
  BY <1>1, <1>5 DEF Caer, disk
<1>6. CASE UNCHANGED vars
  BY <1>1, <1>6 DEF vars, disk
<1> QED
  BY <1>2, <1>3, <1>4, <1>5, <1>6 DEF Next

(* Whatever dumps, compactions, CREATEs and DROPs are under way, a block   *)
(* is owned by one file, or by one compaction that has reserved it, and    *)
(* its bit is set: the inductive invariant of BloquesConUnDuenio           *)
(* (libLissandra.c:521-575, 993-1005, 1132-1140, 1221-1290).               *)
THEOREM EnDuenios == Spec => [](Orden /\ Duenios)
<1>1. Init => Orden /\ Duenios
  BY InitOrden, InitDuenios
<1>2. Orden /\ Duenios /\ [Next]_vars => Orden' /\ Duenios'
  BY PasoOrden, PasoDuenios
<1> QED
  BY <1>1, <1>2, PTL DEF Spec

(* A file that nobody is giving back owns all its blocks. *)
LEMMA FirmeDuenio ==
  ASSUME Orden, NEW f \in Firmes
  PROVE  f \in DOMAIN archivos /\ f \in Duenio /\ Tiene(f) = Utiles(archivos[f])
<1>1. f \in DOMAIN archivos /\ f \in Archivo /\ f \in Duenio /\ f[1] \in Tablas /\ f = <<f[1], f[2], f[3]>>
  BY DuenioTipo DEF Firmes, Orden, Tipos
<1>2. ~EnManos(f)
  BY <1>1 DEF EnManos, EnLiberacion, Soltando, Colgado, Firmes
<1>3. Quedan(comp[f[1]], f, archivos[f]) = Utiles(archivos[f])
  BY <1>1, QuedanOtro DEF Firmes, EnLiberacion
<1> QED
  BY <1>1, <1>2, <1>3, TieneDe DEF Posee, Orden

(* A block that is taken has one owner and its bit is set, for any tables, *)
(* requests, partitions and number of blocks (libLissandra.c:521-575,      *)
(* 993-1005, 1132-1140, 1221-1290).                                        *)
THEOREM UnDuenioPorBloque == Spec => []BloquesConUnDuenio
<1>1. ASSUME Orden, Duenios PROVE BloquesConUnDuenio
  <2>1. \A f \in Firmes : f \in DOMAIN archivos /\ f \in Duenio /\ Tiene(f) = ToSet(archivos[f]) \ {SinBloque}
    BY <1>1, FirmeDuenio DEF Utiles
  <2>2. \A t \in Tablas : <<t, "nuevo", 0>> \in Duenio /\ Tiene(<<t, "nuevo", 0>>) = Reservados(t)
    BY TieneReservados, DuenioTipo
  <2>3. \A f, g \in Firmes : f # g => (ToSet(archivos[f]) \cap ToSet(archivos[g])) \subseteq {SinBloque}
    BY <1>1, <2>1 DEF Duenios, UnDuenio
  <2>4. \A f \in Firmes : ToSet(archivos[f]) \ {SinBloque} \subseteq ocupados
    BY <1>1, <2>1 DEF Duenios, UnDuenio
  <2>5. \A t \in Tablas : Reservados(t) \subseteq ocupados
    BY <1>1, <2>2 DEF Duenios, UnDuenio
  <2>6. ASSUME NEW t \in Tablas, NEW f \in Firmes PROVE Reservados(t) \cap ToSet(archivos[f]) = {}
    <3>1. f # <<t, "nuevo", 0>>
      BY <1>1, <2>1, DuenioTipo DEF Orden, Tipos
    <3>2. Reservados(t) \cap (ToSet(archivos[f]) \ {SinBloque}) = {}
      BY <1>1, <2>1, <2>2, <3>1 DEF Duenios, UnDuenio
    <3>3. SinBloque \notin Reservados(t)
      BY DEF Reservados
    <3> QED
      BY <3>2, <3>3
  <2> QED
    BY <2>3, <2>4, <2>5, <2>6 DEF BloquesConUnDuenio
<1>2. Orden /\ Duenios => BloquesConUnDuenio
  BY <1>1
<1> QED
  BY <1>2, EnDuenios, PTL

-----------------------------------------------------------------------------
(* The counters of the tables and the files of the dumps.                  *)

(* No DROP has begun to delete its files. *)
Intacta(t) == \A p \in Pedidos : EnCurso(p) /\ Tabla[p] = t => ped[p].paso = "unir"

(* Every file that is counted is there. *)
Contados(x) ==
  Intacta(x.nombre) => \A k \in 1 .. (x.contador - 1) : <<x.nombre, "tmp", k>> \in DOMAIN archivos

Completas ==
  "descuadre" \notin perdidas => \A i \in DOMAIN tablas : Contados(tablas[i]) /\ tablas[i].mutex # tablas[i].nombre

(* And so is the one that the dump is about to count.  A compaction may    *)
(* have put the counter back to 1.                                         *)
Contando ==
  LET x == tablas[dump.i] IN
  dump.paso = "contar" =>
    /\ x.contador \in {1, dump.numero}
    /\ "descuadre" \notin perdidas => x.nombre = mem[dump.i].nombre
    /\ x.contador = dump.numero /\ x.nombre = mem[dump.i].nombre /\ Intacta(x.nombre) =>
         <<x.nombre, "tmp", dump.numero>> \in DOMAIN archivos

Cuentas == Completas /\ Contando

(* The requests that go on with a DROP. *)
SiguenBorrando ==
  \A p \in Pedidos : EnCurso(p) /\ ped[p].paso # "unir" => EnCurso(p)' /\ ped'[p].paso # "unir"

LEMMA IntactaSigue ==
  ASSUME SiguenBorrando
  PROVE  \A t : Intacta(t)' => Intacta(t)
BY DEF SiguenBorrando, Intacta

LEMMA ActivaIntacta ==
  ASSUME Orden, NEW t, comp[t].paso # "fin"
  PROVE  Intacta(t)
BY DEF Intacta, Orden, Vidas, VidaDeDrop, EnCurso

(* A step that counts nothing, and one that leaves alone what the dump is  *)
(* counting.                                                               *)
CalmaCuentas ==
  /\ perdidas \subseteq perdidas'
  /\ \A i \in DOMAIN tablas' :
       \/ tablas'[i].contador = 1 /\ tablas'[i].mutex # tablas'[i].nombre
       \/ \E j \in DOMAIN tablas :
            /\ tablas'[i].nombre = tablas[j].nombre /\ tablas'[i].contador = tablas[j].contador
            /\ tablas'[i].mutex = tablas[j].mutex \/ tablas'[i].mutex # tablas'[i].nombre
  /\ \A t : Registrada(t)' /\ Intacta(t)' => Intacta(t)
  /\ \A t, k : Intacta(t)' /\ <<t, "tmp", k>> \in DOMAIN archivos => <<t, "tmp", k>> \in DOMAIN archivos'

CalmaContando ==
  /\ dump' = dump
  /\ dump.paso = "contar" =>
       /\ mem' = mem
       /\ tablas'[dump.i].contador = tablas[dump.i].contador /\ tablas'[dump.i].nombre = tablas[dump.i].nombre

LEMMA CompletasCalma ==
  ASSUME Completas, CalmaCuentas
  PROVE  Completas'
<1>1. \A i \in DOMAIN tablas' : Registrada(tablas[i].nombre)'
  BY DEF Registrada
<1>2. ASSUME "descuadre" \notin perdidas', NEW i \in DOMAIN tablas'
      PROVE  Contados(tablas[i])' /\ tablas'[i].mutex # tablas'[i].nombre
  <2>1. "descuadre" \notin perdidas
    BY <1>2 DEF CalmaCuentas
  <2>2. CASE tablas'[i].contador = 1 /\ tablas'[i].mutex # tablas'[i].nombre
    BY <2>2 DEF Contados
  <2>3. CASE \E j \in DOMAIN tablas :
               /\ tablas'[i].nombre = tablas[j].nombre /\ tablas'[i].contador = tablas[j].contador
               /\ tablas'[i].mutex = tablas[j].mutex \/ tablas'[i].mutex # tablas'[i].nombre
    BY <1>1, <2>1, <2>3 DEF Completas, CalmaCuentas, Contados
  <2> QED
    BY <2>2, <2>3 DEF CalmaCuentas
<1> QED
  BY <1>2 DEF Completas

LEMMA CuentasCalma ==
  ASSUME Orden, Orden', Cuentas, CalmaCuentas, CalmaContando
  PROVE  Cuentas'
<1>2. Completas'
  BY CompletasCalma DEF Cuentas
<1>3. Contando'
  <2> SUFFICES ASSUME dump.paso = "contar" PROVE Contando'
    BY DEF Contando, CalmaCuentas, CalmaContando
  <2>1. dump' = dump /\ mem' = mem /\ perdidas \subseteq perdidas' /\ dump.i \in DOMAIN tablas'
    BY DEF CalmaCuentas, CalmaContando, Orden, EnVolcado
  <2>2. tablas'[dump.i].contador = tablas[dump.i].contador /\ tablas'[dump.i].nombre = tablas[dump.i].nombre
    BY DEF CalmaCuentas, CalmaContando
  <2>3. Intacta(tablas[dump.i].nombre)' => Intacta(tablas[dump.i].nombre)
    BY <2>1, <2>2 DEF Registrada, CalmaCuentas, CalmaContando, Intacta
  <2> QED
    BY <2>1, <2>2, <2>3 DEF Contando, Cuentas, CalmaCuentas, CalmaContando
<1> QED
  BY <1>2, <1>3 DEF Cuentas

LEMMA MismasCuentas ==
  ASSUME Orden, Orden', Cuentas, CalmaContando, perdidas \subseteq perdidas', SiguenBorrando,
         DOMAIN tablas' = DOMAIN tablas,
         \A i \in DOMAIN tablas :
           /\ tablas'[i].nombre = tablas[i].nombre /\ tablas'[i].contador = tablas[i].contador
           /\ tablas'[i].mutex = tablas[i].mutex \/ tablas'[i].mutex \in Pedidos \cup {Nadie},
         \A t, k : Intacta(t)' /\ <<t, "tmp", k>> \in DOMAIN archivos => <<t, "tmp", k>> \in DOMAIN archivos'
  PROVE  Cuentas'
BY TablasTipo, NadieAssumption, IntactaSigue, CuentasCalma DEF Orden, TTabla, CalmaCuentas

(* A step that changes neither the tables nor the files that there were. *)
LEMMA CuentasQuietas ==
  ASSUME Orden, Orden', Cuentas, perdidas \subseteq perdidas', SiguenBorrando, tablas' = tablas, dump' = dump,
         dump.paso = "contar" => mem' = mem,
         \A t, k : Intacta(t)' /\ <<t, "tmp", k>> \in DOMAIN archivos => <<t, "tmp", k>> \in DOMAIN archivos'
  PROVE  Cuentas'
<1>1. CalmaContando
  BY DEF CalmaContando
<1> QED
  BY <1>1, MismasCuentas

LEMMA OtroSigue ==
  ASSUME NEW p \in Pedidos, \A q \in Pedidos \ {p} : ped'[q] = ped[q],
         EnCurso(p) /\ ped[p].paso # "unir" => EnCurso(p)' /\ ped'[p].paso # "unir"
  PROVE  SiguenBorrando
BY DEF SiguenBorrando, EnCurso

LEMMA PedidoCuentas ==
  ASSUME Orden, Orden', Cuentas, NEW p \in Pedidos,
         \/ CrearExistente(p) \/ CrearSinEspacio(p) \/ CrearDirectorio(p) \/ BuscarMemTable(p) \/ Insertar(p)
         \/ BuscarTabla(p) \/ AbrirArchivo(p) \/ LeerBloques(p)
         \/ Describir(p) \/ Unir(p) \/ BorrarMetadata(p) \/ LiberarBloques(p)
  PROVE  Cuentas'
<1>1. ped \in [Pedidos -> TPed]
  BY DEF Orden, Tipos
<1>2. CASE CrearExistente(p) \/ CrearSinEspacio(p) \/ CrearDirectorio(p)
  BY <1>1, <1>2, OtroSigue, CuentasQuietas DEF CrearExistente, CrearSinEspacio, CrearDirectorio, En, Ir, EnCurso, disk
<1>3. CASE BuscarMemTable(p)
  BY <1>1, <1>3, OtroSigue, CuentasQuietas DEF BuscarMemTable, En, Ir, EnCurso, BusquedaLibre, InsertsLibre, disk
<1>4. CASE Insertar(p)
  BY <1>1, <1>4, OtroSigue, CuentasQuietas DEF Insertar, En, Ir, EnCurso, InsertsLibre, disk
<1>5. CASE BuscarTabla(p)
  BY <1>1, <1>5, OtroSigue, CuentasQuietas DEF BuscarTabla, En, EnCurso, disk
<1>6. CASE AbrirArchivo(p)
  BY <1>1, <1>6, OtroSigue, CuentasQuietas DEF AbrirArchivo, BuscandoEnArchivos, EnCurso, disk
<1>7. CASE LeerBloques(p)
  BY <1>1, <1>7, OtroSigue, CuentasQuietas DEF LeerBloques, EnCurso, disk
<1>8. CASE Describir(p)
  BY <1>1, <1>8, OtroSigue, CuentasQuietas DEF Describir, En, Ir, EnCurso, disk
<1>9. CASE Unir(p)
  BY <1>1, <1>9, OtroSigue, CuentasQuietas DEF Unir, En, Ir, EnCurso, disk
<1>10. CASE BorrarMetadata(p)
  BY <1>1, <1>10, OtroSigue, CuentasQuietas DEF BorrarMetadata, En, Ir, EnCurso, Bajando, TPed
<1>11. CASE LiberarBloques(p)
  BY <1>1, <1>11, ABorrarTipo, OtroSigue, CuentasQuietas DEF LiberarBloques, Orden, TPed, EnCurso, Bajando
<1> QED
  BY <1>2, <1>3, <1>4, <1>5, <1>6, <1>7, <1>8, <1>9, <1>10, <1>11

LEMMA CrearParticionesCuentas ==
  ASSUME Orden, Orden', Cuentas, NEW p \in Pedidos, CrearParticiones(p)
  PROVE  Cuentas'
BY OtroSigue, CuentasQuietas DEF Orden, Tipos, CrearParticiones, En, Ir, EnCurso

(* The mutex of a table, or its flag. *)
LEMMA MutexCuentas ==
  ASSUME Orden, Orden', Cuentas, NEW p \in Pedidos, TomarMutexTabla(p) \/ LeerMemTable(p) \/ EmpezarDrop(p)
  PROVE  Cuentas'
<1>1. /\ ped \in [Pedidos -> TPed] /\ tablas \in Seq(TTabla)
      /\ \A i \in DOMAIN tablas : tablas[i] \in TTabla
  BY TablasTipo DEF Orden, Tipos
<1>2. SiguenBorrando
  BY <1>1, OtroSigue DEF TomarMutexTabla, En, Ir, EnCurso, LeerMemTable, EmpezarDrop, Bajando
<1>3. UNCHANGED <<mem, archivos, dump, perdidas>>
  BY DEF TomarMutexTabla, LeerMemTable, EmpezarDrop, disk
<1>4. /\ DOMAIN tablas' = DOMAIN tablas
      /\ \A i \in DOMAIN tablas :
           /\ tablas'[i].nombre = tablas[i].nombre /\ tablas'[i].contador = tablas[i].contador
           /\ tablas'[i].mutex = tablas[i].mutex \/ tablas'[i].mutex \in Pedidos \cup {Nadie}
  <2>1. CASE TomarMutexTabla(p)
    BY <1>1, <2>1 DEF TomarMutexTabla, TTabla
  <2>2. CASE LeerMemTable(p)
    BY <1>1, <2>2 DEF LeerMemTable, TTabla
  <2>3. CASE EmpezarDrop(p)
    <3>1. tablas' = tablas \/ tablas' = [tablas EXCEPT ![Indice(Tabla[p])].vivo = FALSE]
      BY <2>3 DEF EmpezarDrop
    <3>2. CASE tablas' = tablas
      BY <3>2
    <3>3. CASE tablas' = [tablas EXCEPT ![Indice(Tabla[p])].vivo = FALSE]
      BY <1>1, <3>3 DEF TTabla
    <3> QED
      BY <3>1, <3>2, <3>3
  <2> QED
    BY <2>1, <2>2, <2>3
<1>5. CalmaContando
  BY <1>3, <1>4 DEF CalmaContando, Orden, EnVolcado
<1> QED
  BY <1>2, <1>3, <1>4, <1>5, MismasCuentas

LEMMA RegistrarCuentas ==
  ASSUME Orden, Orden', Cuentas, NEW p \in Pedidos, Registrar(p)
  PROVE  Cuentas'
<1>1. PICK x : x = Tabla0(Tabla[p])
  OBVIOUS
<1>2. x.contador = 1 /\ x.mutex # x.nombre
  BY <1>1, TablaDePedido, NadieAssumption DEF Tabla0
<1>3. tablas' = Append(tablas, x) /\ UNCHANGED <<mem, archivos, dump, perdidas>>
  BY <1>1 DEF Registrar, disk
<1>4. /\ \A i \in DOMAIN tablas : i \in DOMAIN tablas' /\ tablas'[i] = tablas[i]
      /\ \A i \in DOMAIN tablas' \ DOMAIN tablas : tablas'[i] = x
  BY <1>1, <1>3, TablasTipo, TablaDePedido, AppendProperties, LenProperties DEF Orden, Tipos, Tabla0, TTabla
<1>5. SiguenBorrando
  BY OtroSigue DEF Orden, Tipos, Registrar, En, Ir, EnCurso
<1>6. CalmaCuentas
  BY <1>2, <1>3, <1>4, <1>5, IntactaSigue DEF CalmaCuentas
<1>7. CalmaContando
  BY <1>3, <1>4 DEF CalmaContando, Orden, EnVolcado
<1> QED
  BY <1>6, <1>7, CuentasCalma

LEMMA EliminarContenidoCuentas ==
  ASSUME Orden, Orden', Cuentas, NEW p \in Pedidos, EliminarContenido(p)
  PROVE  Cuentas'
<1>1. /\ ped \in [Pedidos -> TPed] /\ Tipo[p] = "DROP"
      /\ ped[p].paso \in {"tmp", "bin"}
  BY DEF Orden, Tipos, EliminarContenido, Borrando
<1>2. ped'[p].paso \in {"tmp", "bin", "metadata", "colgado"} /\ \A q \in Pedidos \ {p} : ped'[q] = ped[q]
  BY <1>1 DEF EliminarContenido, TPed
<1>3. EnCurso(p)' /\ ped'[p].paso # "unir"
  BY <1>1, <1>2 DEF EnCurso, Bajando
<1>4. SiguenBorrando
  BY <1>2, <1>3, OtroSigue
<1>5. ~Intacta(Tabla[p])'
  BY <1>3 DEF Intacta
<1>6. \A f \in DOMAIN archivos : f[1] # Tabla[p] => f \in DOMAIN archivos'
  BY DEF EliminarContenido
<1>7. \A t, k : Intacta(t)' /\ <<t, "tmp", k>> \in DOMAIN archivos => <<t, "tmp", k>> \in DOMAIN archivos'
  BY <1>5, <1>6
<1>8. UNCHANGED <<tablas, mem, dump, perdidas>>
  BY DEF EliminarContenido
<1> QED
  BY <1>4, <1>7, <1>8, CuentasQuietas

LEMMA OlvidarCuentas ==
  ASSUME Orden, Orden', Cuentas, NEW p \in Pedidos, Olvidar(p)
  PROVE  Cuentas'
<1>1. /\ ped \in [Pedidos -> TPed] /\ EnCurso(p) /\ dump.paso = "dormido"
  BY DEF Orden, Tipos, Olvidar, OlvidarCae, En, EnCurso, Bajando
<1>2. SiguenBorrando
  BY <1>1, OtroSigue DEF Olvidar, Ir, EnCurso, Bajando, TPed
<1>3. Registrada(Tabla[p])
  <2>1. VidaDeDrop(p)
    BY <1>1 DEF Orden, Vidas
  <2> QED
    BY <2>1 DEF VidaDeDrop, Olvidar, En
<1>4. \A i \in DOMAIN tablas' : \E j \in DOMAIN tablas : tablas'[i] = tablas[j]
  <2>1. tablas' = RemoveAt(tablas, Indice(Tabla[p])) /\ Indice(Tabla[p]) \in DOMAIN tablas /\ tablas \in Seq(TTabla)
    BY <1>3, TablaDe DEF Olvidar, Orden, Tipos
  <2>2. PICK h : h = Indice(Tabla[p])
    OBVIOUS
  <2>3. /\ DOMAIN tablas' = 1..(Len(tablas) - 1)
        /\ \A i \in 1..(Len(tablas) - 1) : tablas'[i] = IF i < h THEN tablas[i] ELSE tablas[i + 1]
    BY <2>1, <2>2, RemoveAtElementos
  <2>4. DOMAIN tablas = 1..Len(tablas) /\ Len(tablas) \in Nat
    BY <2>1, LenProperties
  <2> QED
    BY <2>3, <2>4
<1>5. perdidas \subseteq perdidas' /\ UNCHANGED <<archivos, dump>>
  BY DEF Olvidar, disk
<1>6. CalmaCuentas
  BY <1>2, <1>4, <1>5, IntactaSigue DEF CalmaCuentas
<1>7. CalmaContando
  BY <1>1, <1>5 DEF CalmaContando
<1> QED
  BY <1>6, <1>7, CuentasCalma

LEMMA BorrarDirectorioCuentas ==
  ASSUME Orden, Orden', Cuentas, NEW p \in Pedidos, BorrarDirectorio(p)
  PROVE  Cuentas'
<1>1. ped \in [Pedidos -> TPed] /\ EnCurso(p) /\ ped[p].paso = "rmdir"
  BY DEF Orden, Tipos, BorrarDirectorio, En, EnCurso, Bajando
<1>2. UNCHANGED <<tablas, mem, archivos, dump, perdidas>> /\ \A q \in Pedidos \ {p} : ped'[q] = ped[q]
  BY <1>1 DEF BorrarDirectorio, Ir
<1>3. ~Registrada(Tabla[p])
  <2>1. VidaDeDrop(p)
    BY <1>1 DEF Orden, Vidas
  <2> QED
    BY <1>1, <2>1 DEF VidaDeDrop
<1>4. ASSUME NEW t, Registrada(t)', Intacta(t)' PROVE Intacta(t)
  BY <1>2, <1>3, <1>4 DEF Registrada, Intacta, EnCurso
<1>5. CalmaCuentas
  BY <1>2, <1>4 DEF CalmaCuentas
<1>6. CalmaContando
  BY <1>2 DEF CalmaContando
<1> QED
  BY <1>5, <1>6, CuentasCalma

(* A dump that writes and counts. *)
LEMMA MismasCompletas ==
  ASSUME Completas, tablas' = tablas, ped' = ped, DOMAIN archivos \subseteq DOMAIN archivos', perdidas \subseteq perdidas'
  PROVE  Completas'
BY CompletasCalma DEF Intacta, EnCurso, CalmaCuentas

LEMMA DumpSinBloquesCuentas ==
  ASSUME Orden, Orden', Cuentas, DumpSinBloques
  PROVE  Cuentas'
BY MismasCompletas DEF DumpSinBloques, Orden, Tipos, TDump, Cuentas, disk, Contando

LEMMA VolcarCuentas ==
  ASSUME Orden, Orden', Cuentas, Volcar
  PROVE  Cuentas'
BY LugarTipo, MismasCompletas DEF Volcar, Orden, ConArchivo, TNodo, Cuentas, Contando

LEMMA ContarCuentas ==
  ASSUME Orden, Orden', Cuentas, Contar
  PROVE  Cuentas'
<1>1. PICK d : d = dump.i
  OBVIOUS
<1>2. /\ d \in DOMAIN tablas /\ tablas[d] \in TTabla /\ \A i \in DOMAIN tablas : tablas[i] \in TTabla
      /\ dump.paso = "contar" /\ tablas[d].mutex = Nadie
  BY <1>1, TablasTipo DEF Contar, Orden, EnVolcado
<1>3. /\ tablas' = [tablas EXCEPT ![d].contador = @ + 1]
      /\ UNCHANGED <<ped, archivos>> /\ perdidas \subseteq perdidas'
      /\ tablas[d].contador = dump.numero \/ "descuadre" \in perdidas'
      /\ dump'.paso # "contar"
  BY <1>1 DEF Contar, UnoMas, disk
<1>4. PICK k : k = tablas[d].contador + 1
  OBVIOUS
<1>5. /\ DOMAIN tablas' = DOMAIN tablas
      /\ tablas'[d].nombre = tablas[d].nombre /\ tablas'[d].contador = k /\ tablas'[d].mutex = tablas[d].mutex
      /\ \A i \in DOMAIN tablas \ {d} : tablas'[i] = tablas[i]
  BY <1>2, <1>3, <1>4 DEF TTabla
<1>6. \A t : Intacta(t)' <=> Intacta(t)
  BY <1>3 DEF Intacta, EnCurso
<1>7. ASSUME "descuadre" \notin perdidas' PROVE Completas'
  <2>1. "descuadre" \notin perdidas /\ tablas[d].contador = dump.numero
    BY <1>3, <1>7
  <2>2. \A i \in DOMAIN tablas \ {d} : Contados(tablas[i])' /\ tablas'[i].mutex # tablas'[i].nombre
    BY <1>3, <1>5, <1>6, <2>1 DEF Cuentas, Completas, Contados, Intacta, EnCurso
  <2>3. tablas'[d].mutex # tablas'[d].nombre
    BY <1>2, <1>5, NadieAssumption DEF TTabla
  <2>4. PICK t : t = tablas[d].nombre
    OBVIOUS
  <2>5. Intacta(t) => \A l \in 1..(k - 1) : <<t, "tmp", l>> \in DOMAIN archivos
    BY <1>1, <1>2, <1>4, <2>1, <2>4 DEF TTabla, Cuentas, Completas, Contando, Contados
  <2>6. Contados(tablas[d])'
    BY <1>3, <1>5, <1>6, <2>4, <2>5 DEF Contados
  <2> QED
    BY <1>5, <2>2, <2>3, <2>6 DEF Completas
<1>8. Completas'
  BY <1>7 DEF Completas
<1> QED
  BY <1>3, <1>8 DEF Cuentas, Contando

(* A step of a compaction that renames nothing. *)
LEMMA CompCuentas ==
  ASSUME Orden, Orden', Cuentas, NEW t \in Tablas,
         \/ Arrancar(t) \/ Salir(t) \/ DescargarBloque(t) \/ RecrearBloqueVacio(t) \/ VaciarParticion(t)
         \/ ActualizarBloque(t) \/ Reservar(t) \/ Guardar(t)
  PROVE  Cuentas'
<1>1. UNCHANGED <<tablas, mem, dump, ped>> /\ perdidas \subseteq perdidas' /\ DOMAIN archivos \subseteq DOMAIN archivos'
  BY DEF Arrancar, Salir, DescargarBloque, RecrearBloqueVacio, VaciarParticion, ActualizarBloque, Reservar, Guardar,
         ConArchivo, disk
<1>2. SiguenBorrando
  BY <1>1 DEF SiguenBorrando, EnCurso
<1> QED
  BY <1>1, <1>2, CuentasQuietas

LEMMA BorrarTmpcCuentas ==
  ASSUME Orden, Orden', Cuentas, NEW t \in Tablas, BorrarTmpc(t)
  PROVE  Cuentas'
<1>1. UNCHANGED <<mem, dump, ped, perdidas>>
  BY DEF BorrarTmpc
<1>2. SiguenBorrando
  BY <1>1 DEF SiguenBorrando, EnCurso
<1>3. \A u, k : <<u, "tmp", k>> \in DOMAIN archivos => <<u, "tmp", k>> \in DOMAIN archivos'
  BY DEF BorrarTmpc
<1>4. \A i \in DOMAIN tablas : tablas[i] \in TTabla
  BY TablasTipo DEF Orden
<1>5. /\ DOMAIN tablas' = DOMAIN tablas
      /\ \A i \in DOMAIN tablas :
           /\ tablas'[i].nombre = tablas[i].nombre /\ tablas'[i].contador = tablas[i].contador
           /\ tablas'[i].mutex = tablas[i].mutex
  BY <1>4 DEF TTabla, BorrarTmpc
<1>6. CalmaContando
  BY <1>1, <1>5 DEF CalmaContando, Orden, EnVolcado
<1> QED
  BY <1>1, <1>2, <1>3, <1>5, <1>6, MismasCuentas

LEMMA RenombrarCuentas ==
  ASSUME Orden, Orden', Cuentas, NEW t \in Tablas, Renombrar(t)
  PROVE  Cuentas'
<1>1. /\ comp \in [Tablas -> TComp] /\ comp[t].paso = "dormido" /\ Registrada(t)
  BY TablaActiva DEF Orden, Tipos, Renombrar, Comp, Activa
<1>2. PICK h : h = Indice(t)
  OBVIOUS
<1>3. /\ h \in DOMAIN tablas /\ tablas[h].nombre = t /\ LaTabla(t) = tablas[h] /\ tablas[h] \in TTabla
      /\ \A i \in DOMAIN tablas : tablas[i] \in TTabla /\ (tablas[i].nombre = t => i = h)
      /\ tablas[h].contador # 1 /\ tablas[h].mutex = Nadie
  BY <1>1, <1>2, TablaDe, TablasTipo DEF Orden, Renombrar, Vidas, Unicas, MutexLibre
<1>4. PICK ks : ks = Renombrables(t)
  OBVIOUS
<1>5. ks \subseteq 1 .. (tablas[h].contador - 1)
  BY <1>1, <1>3, <1>4, RenombrablesTipo DEF Orden
<1>6. DOMAIN archivos' = (DOMAIN archivos \ {<<t, "tmp", k>> : k \in ks}) \cup {<<t, "tmpc", k>> : k \in ks}
  BY <1>1, <1>4, RenombradosTipo DEF Renombrar, Orden
<1>7. UNCHANGED <<mem, dump, perdidas>>
  BY DEF Renombrar
<1>8. \A u : Intacta(u)' <=> Intacta(u)
  <2>1. \A q \in Pedidos : Tipo[q] = "DROP" => ped'[q] = ped[q]
    BY AvisarTipo DEF Renombrar, Orden
  <2> QED
    BY <2>1 DEF Intacta, EnCurso
<1>9. Intacta(t)
  BY <1>1, ActivaIntacta
<1> DEFINE todos == ks = 1 .. (tablas[h].contador - 1)
<1>10. PICK mas : mas = tablas[h].compactados + Cardinality(ks)
  OBVIOUS
<1>11. /\ DOMAIN tablas' = DOMAIN tablas /\ \A i \in DOMAIN tablas \ {h} : tablas'[i] = tablas[i]
       /\ tablas'[h].nombre = t
       /\ todos => tablas'[h].contador = 1 /\ tablas'[h].mutex = Nadie
       /\ ~todos => tablas'[h].contador = tablas[h].contador
  BY <1>2, <1>3, <1>4, <1>10 DEF Renombrar, TTabla
<1>12. "descuadre" \notin perdidas => todos
  BY <1>3, <1>4, <1>5, <1>9 DEF Cuentas, Completas, Contados, TTabla, Renombrables
<1>13. \A u, k : u # t \/ k \notin ks => (<<u, "tmp", k>> \in DOMAIN archivos => <<u, "tmp", k>> \in DOMAIN archivos')
  BY <1>6
<1> HIDE DEF todos
<1>14. ASSUME "descuadre" \notin perdidas', NEW i \in DOMAIN tablas'
       PROVE  Contados(tablas[i])' /\ tablas'[i].mutex # tablas'[i].nombre
  <2>1. CASE i = h
    BY <1>7, <1>11, <1>12, <1>14, <2>1, NadieAssumption DEF Contados
  <2>2. CASE i # h
    BY <1>3, <1>7, <1>8, <1>11, <1>13, <1>14, <2>2 DEF Cuentas, Completas, Contados
  <2> QED
    BY <2>1, <2>2
<1>15. Contando'
  <2> SUFFICES ASSUME dump.paso = "contar" PROVE Contando'
    BY <1>7 DEF Contando
  <2>1. PICK d : d = dump.i
    OBVIOUS
  <2>2. d \in DOMAIN tablas /\ tablas[d] \in TTabla /\ tablas[d].contador \in {1, dump.numero}
    BY <1>3, <2>1 DEF Cuentas, Contando, Orden, EnVolcado
  <2>3. tablas'[d].nombre = tablas[d].nombre
    BY <1>3, <1>11, <2>2
  <2>4. tablas'[d].contador = tablas[d].contador \/ (d = h /\ tablas'[d].contador = 1 /\ tablas[d].contador # 1)
    BY <1>3, <1>11, <2>2
  <2>5. tablas'[d].contador \in {1, dump.numero}
    BY <2>2, <2>4
  <2>6. "descuadre" \notin perdidas => tablas'[d].nombre = mem[d].nombre
    BY <2>1, <2>3 DEF Cuentas, Contando
  <2>7. ASSUME tablas'[d].contador = dump.numero, tablas'[d].nombre = mem[d].nombre, Intacta(tablas[d].nombre)
        PROVE  <<tablas[d].nombre, "tmp", dump.numero>> \in DOMAIN archivos'
    <3>1. tablas[d].contador = dump.numero
      BY <2>2, <2>4, <2>7
    <3>2. <<tablas[d].nombre, "tmp", dump.numero>> \in DOMAIN archivos
      BY <2>1, <2>3, <2>7, <3>1 DEF Cuentas, Contando
    <3>3. tablas[d].nombre = t => dump.numero \notin ks
      BY <1>3, <1>5, <2>2, <3>1 DEF TTabla
    <3> QED
      BY <1>13, <3>2, <3>3
  <2>8. Intacta(tablas[dump.i].nombre)' <=> Intacta(tablas[d].nombre)
    BY <1>7, <1>8, <2>1, <2>3 DEF Intacta
  <2> QED
    BY <1>7, <2>1, <2>3, <2>5, <2>6, <2>7, <2>8 DEF Contando
<1> QED
  BY <1>14, <1>15 DEF Cuentas, Completas

LEMMA InitCuentas ==
  ASSUME Init
  PROVE  Cuentas
<1>1. \A i \in DOMAIN tablas : tablas[i].contador = 1 /\ tablas[i].mutex = Nadie
  BY DEF Init, Tabla0
<1>2. \A i \in DOMAIN tablas : tablas[i].mutex # tablas[i].nombre
  BY <1>1, InitTipos, TablasTipo, NadieAssumption DEF TTabla
<1>3. \A i \in DOMAIN tablas : tablas[i].contador - 1 = 0
  BY <1>1
<1>4. Completas
  BY <1>2, <1>3 DEF Completas, Contados
<1>5. Contando
  BY DEF Init, Contando
<1> QED
  BY <1>4, <1>5 DEF Cuentas

LEMMA PasoCuentas ==
  ASSUME Orden, Orden', Cuentas, [Next]_vars
  PROVE  Cuentas'
<1>1. CASE UNCHANGED <<tablas, mem, archivos, dump, ped, perdidas>>
  <2>1. SiguenBorrando
    BY <1>1 DEF SiguenBorrando, EnCurso
  <2> QED
    BY <1>1, <2>1, CuentasQuietas
<1>2. CASE Dump
  BY <1>2, DumpSinBloquesCuentas, VolcarCuentas, ContarCuentas DEF Dump
<1>3. ASSUME NEW t \in Tablas, Compactacion(t) PROVE Cuentas'
  BY <1>3, CompCuentas, BorrarTmpcCuentas, RenombrarCuentas DEF Compactacion
<1>4. ASSUME NEW p \in Pedidos, Pedido(p) PROVE Cuentas'
  BY <1>4, PedidoCuentas, CrearParticionesCuentas, MutexCuentas, RegistrarCuentas, EliminarContenidoCuentas,
     OlvidarCuentas, BorrarDirectorioCuentas DEF Pedido
<1>5. CASE Caer
  BY <1>1, <1>5 DEF Caer, disk
<1>6. CASE UNCHANGED vars
  BY <1>1, <1>6 DEF vars, disk
<1> QED
  BY <1>2, <1>3, <1>4, <1>5, <1>6 DEF Next

(* Every file that a table counts is on the disk, and so is the one that   *)
(* the dump is about to count, unless a dump has counted a file on the     *)
(* table of another (libLissandra.c:795-834, 885-905).                     *)
THEOREM EnCuentas == Spec => [](Orden /\ Cuentas)
<1>1. Init => Orden /\ Cuentas
  BY InitOrden, InitCuentas
<1>2. Orden /\ Cuentas /\ [Next]_vars => Orden' /\ Cuentas'
  BY PasoOrden, PasoCuentas
<1> QED
  BY <1>1, <1>2, PTL DEF Spec

(* A rename fails, and leaves the mutex of its table locked for ever, only *)
(* after a dump has counted a file on a counter that was not its own       *)
(* (libLissandra.c:897-900).                                               *)
THEOREM SoloSeTrabaPorDescuadre == Spec => []TrabadaSoloPorDescuadre
<1>1. Orden /\ Cuentas => TrabadaSoloPorDescuadre
  BY DEF Cuentas, Completas, TrabadaSoloPorDescuadre, Trabadas
<1> QED
  BY <1>1, EnCuentas, PTL

-----------------------------------------------------------------------------
(* The records, and where they are kept.                                   *)

(* The records of some blocks. *)
De(bs) == UNION {ToSet(disco[b]) : b \in bs}

(* A file that a SELECT reads, and the records that are in their place. *)
Cierto(f) == f[2] = "bin" \/ f[3] < Cuenta(f[1], f[2]) \/ f = PorContar
Cabe(f) == IF f[2] = "bin" THEN {r \in Pedidos : ParticionDe(Clave[r]) = f[3]} ELSE Pedidos

EnMem(t) == UNION {ToSet(mem[i].regs) : i \in NodosDe(t)}
EnArchivos(t) == UNION {De(Tiene(f)) \cap Cabe(f) : f \in {g \in DOMAIN archivos : g[1] = t /\ Cierto(g)}}
EnAlmacen(t) == IF comp[t].almacen = <<>> THEN {} ELSE EnListas(comp[t].almacen)

(* What a table keeps: in the memtable, in the blocks that its files own   *)
(* and in the lists of its compaction.                                     *)
Seguros(t) == EnMem(t) \cup EnArchivos(t) \cup EnAlmacen(t)

Guardado ==
  perdidas = {} => \A p \in Pedidos :
    Tipo[p] = "INSERT" /\ ped[p].paso = "fin" /\ ~EnDrop(Tabla[p]) => \E r \in Seguros(Tabla[p]) : Cubre(r, p)

(* An INSERT adds its record to a memtable of its table. *)
Nodos ==
  /\ \A i \in DOMAIN mem : mem[i].nombre = Tabla[mem[i].id]
  /\ \A p \in Pedidos : Tipo[p] = "INSERT" /\ ped[p].paso = "insertar" =>
       ped[p].nodo \in Pedidos /\ Tabla[ped[p].nodo] = Tabla[p]

(* The memtables that the dump has written are empty. *)
Volcados ==
  dump.paso # "dormido" =>
    \A j \in DOMAIN mem : j < dump.i \/ (j = dump.i /\ dump.paso = "contar") => mem[j].regs = <<>>

(* The bit of a block that is about to be emptied is clear. *)
Limpios == perdidas = {} => PorVaciar \cap ocupados = {}

(* A table that is to be created has no partitions. *)
SinCrear(t) == t \notin dirs \/ \E p \in Pedidos : Tipo[p] = "CREATE" /\ Tabla[p] = t /\ ped[p].paso = "particiones"
Vacias == \A t \in Tablas : ~EnDrop(t) /\ SinCrear(t) => \A f \in DOMAIN archivos : f[1] = t => f[2] # "bin"

(* The partitions that a compaction has read own no block until it has     *)
(* written them, and the lists that are written are in their blocks.       *)
Vaciada(c, k) ==
  \/ c.paso = "actualizar"
  \/ c.paso = "descargar" /\ k < c.i
  \/ c.paso \in {"reservar", "guardar"} /\ k >= c.i

Compactada(t) ==
  LET c == comp[t] IN
  /\ c.paso = "actualizar" => ToSet(c.bs) \subseteq ToSet(archivos[<<t, "tmpc", c.i>>])
  /\ \A k \in 1..Particiones : Vaciada(c, k) => Tiene(<<t, "bin", k>>) = {}
  /\ perdidas = {} /\ c.paso \in {"reservar", "guardar"} =>
       \A k \in 1..Particiones : k < c.i => ToSet(c.almacen[k]) \subseteq De(Tiene(<<t, "bin", k>>))
  /\ perdidas = {} /\ c.paso = "guardar" => ToSet(c.almacen[c.i]) \subseteq De(Reservados(t))

Compactadas == \A t \in Tablas : Compactada(t)

-----------------------------------------------------------------------------
(* What the steps leave alone. *)

LEMMA UnPedido ==
  ASSUME Orden, NEW p \in Pedidos, Pedido(p)
  PROVE  \A q \in Pedidos \ {p} : ped'[q] = ped[q]
<1>1. ped \in [Pedidos -> TPed]
  BY DEF Orden, Tipos
<1>2. CASE CrearExistente(p) \/ CrearSinEspacio(p) \/ CrearDirectorio(p) \/ CrearParticiones(p) \/ Registrar(p) \/ BuscarMemTable(p) \/ Insertar(p)
  BY <1>1, <1>2 DEF CrearExistente, CrearSinEspacio, CrearDirectorio, CrearParticiones, Registrar, BuscarMemTable, Insertar, Ir
<1>3. CASE BuscarTabla(p) \/ TomarMutexTabla(p) \/ LeerMemTable(p) \/ AbrirArchivo(p) \/ LeerBloques(p)
  BY <1>1, <1>3 DEF BuscarTabla, TomarMutexTabla, LeerMemTable, AbrirArchivo, LeerBloques, Ir
<1>4. CASE Describir(p) \/ EmpezarDrop(p) \/ Unir(p) \/ LiberarBloques(p) \/ EliminarContenido(p)
  BY <1>1, <1>4 DEF Describir, EmpezarDrop, Unir, LiberarBloques, EliminarContenido, Ir
<1>5. CASE BorrarMetadata(p) \/ Olvidar(p) \/ BorrarDirectorio(p)
  BY <1>1, <1>5 DEF BorrarMetadata, Olvidar, BorrarDirectorio, Ir
<1> QED
  BY <1>2, <1>3, <1>4, <1>5 DEF Pedido

LEMMA MismoMem ==
  ASSUME NEW p \in Pedidos, Pedido(p), ~BuscarMemTable(p), ~Insertar(p), ~Olvidar(p)
  PROVE  mem' = mem
<1>1. CASE CrearExistente(p) \/ CrearSinEspacio(p) \/ CrearDirectorio(p) \/ CrearParticiones(p) \/ Registrar(p) \/ BuscarTabla(p) \/ TomarMutexTabla(p)
  BY <1>1 DEF CrearExistente, CrearSinEspacio, CrearDirectorio, CrearParticiones, Registrar, BuscarTabla, TomarMutexTabla
<1>2. CASE LeerMemTable(p) \/ AbrirArchivo(p) \/ LeerBloques(p) \/ Describir(p) \/ EmpezarDrop(p)
  BY <1>2 DEF LeerMemTable, AbrirArchivo, LeerBloques, Describir, EmpezarDrop
<1>3. CASE Unir(p) \/ LiberarBloques(p) \/ EliminarContenido(p) \/ BorrarMetadata(p) \/ BorrarDirectorio(p)
  BY <1>3 DEF Unir, LiberarBloques, EliminarContenido, BorrarMetadata, BorrarDirectorio
<1> QED
  BY <1>1, <1>2, <1>3 DEF Pedido

LEMMA PedidoQuietoDump ==
  ASSUME NEW p \in Pedidos, Pedido(p)
  PROVE  dump' = dump /\ perdidas \subseteq perdidas'
<1>1. CASE CrearExistente(p) \/ CrearSinEspacio(p) \/ CrearDirectorio(p) \/ CrearParticiones(p) \/ Registrar(p) \/ BuscarMemTable(p) \/ Insertar(p)
  BY <1>1 DEF CrearExistente, CrearSinEspacio, CrearDirectorio, CrearParticiones, Registrar, BuscarMemTable, Insertar
<1>2. CASE BuscarTabla(p) \/ TomarMutexTabla(p) \/ LeerMemTable(p) \/ AbrirArchivo(p) \/ LeerBloques(p)
  BY <1>2 DEF BuscarTabla, TomarMutexTabla, LeerMemTable, AbrirArchivo, LeerBloques
<1>3. CASE Describir(p) \/ EmpezarDrop(p) \/ Unir(p) \/ LiberarBloques(p) \/ EliminarContenido(p)
  BY <1>3 DEF Describir, EmpezarDrop, Unir, LiberarBloques, EliminarContenido
<1>4. CASE BorrarMetadata(p) \/ Olvidar(p) \/ BorrarDirectorio(p)
  BY <1>4 DEF BorrarMetadata, Olvidar, BorrarDirectorio
<1> QED
  BY <1>1, <1>2, <1>3, <1>4 DEF Pedido

LEMMA CompQuieto ==
  ASSUME Orden, NEW t \in Tablas, Compactacion(t)
  PROVE  /\ UNCHANGED <<mem, dump, dirs, metadata>> /\ perdidas \subseteq perdidas'
         /\ \A p \in Pedidos : Tipo[p] # "SELECT" => ped'[p] = ped[p]
         /\ \A u \in Tablas \ {t} : comp'[u] = comp[u]
<1>1. comp \in [Tablas -> TComp]
  BY DEF Orden, Tipos
<1>2. CASE Renombrar(t)
  <2>1. UNCHANGED <<mem, dump, dirs, metadata, perdidas>> /\ ped' = Avisar(t)
    BY <1>2 DEF Renombrar
  <2>2. \A u \in Tablas \ {t} : comp'[u] = comp[u]
    BY <1>1, <1>2 DEF Renombrar
  <2> QED
    BY <2>1, <2>2, AvisarTipo, ZenonT(60) DEF Orden
<1>3. CASE Arrancar(t) \/ Salir(t) \/ DescargarBloque(t) \/ RecrearBloqueVacio(t)
  BY <1>1, <1>3 DEF Arrancar, Salir, DescargarBloque, RecrearBloqueVacio, disk
<1>4. CASE VaciarParticion(t) \/ ActualizarBloque(t) \/ BorrarTmpc(t) \/ Reservar(t) \/ Guardar(t)
  BY <1>1, <1>4 DEF VaciarParticion, ActualizarBloque, BorrarTmpc, Reservar, Guardar, disk
<1> QED
  BY <1>2, <1>3, <1>4 DEF Compactacion

LEMMA DumpAjeno ==
  ASSUME Dump
  PROVE  UNCHANGED <<dirs, metadata, comp, ped, esperaTabla>> /\ perdidas \subseteq perdidas'
BY DEF Dump, DumpSinBloques, Volcar, Contar, disk

(* A DROP never comes back. *)
LEMMA DropSigue ==
  ASSUME Orden, [Next]_vars
  PROVE  \A t : EnDrop(t) => EnDrop(t)'
<1> SUFFICES ASSUME NEW q \in Pedidos, Tipo[q] = "DROP", ped[q].paso \notin {"nuevo", "rechazado"}
             PROVE  ped'[q].paso \notin {"nuevo", "rechazado"}
  BY DEF EnDrop
<1>1. ped \in [Pedidos -> TPed]
  BY DEF Orden, Tipos
<1>2. CASE Caer \/ UNCHANGED vars
  BY <1>2 DEF Caer, vars
<1>3. CASE Dump
  BY <1>3, DumpAjeno
<1>4. ASSUME NEW t \in Tablas, Compactacion(t) PROVE ped'[q].paso \notin {"nuevo", "rechazado"}
  BY <1>4, CompQuieto
<1>5. ASSUME NEW p \in Pedidos, Pedido(p), p # q PROVE ped'[q].paso \notin {"nuevo", "rechazado"}
  BY <1>5, UnPedido
<1>6. ASSUME Pedido(q) PROVE ped'[q].paso \notin {"nuevo", "rechazado"}
  <2>1. CASE LiberarBloques(q)
    BY <1>1, <2>1, ABorrarTipo DEF LiberarBloques, Orden, TPed
  <2>2. CASE EliminarContenido(q)
    BY <1>1, <2>2 DEF EliminarContenido, Borrando, TPed
  <2>3. CASE Unir(q) \/ BorrarMetadata(q) \/ Olvidar(q) \/ BorrarDirectorio(q)
    BY <1>1, <2>3 DEF Unir, BorrarMetadata, Olvidar, BorrarDirectorio, Ir, TPed
  <2>4. ~EmpezarDrop(q)
    BY DEF EmpezarDrop, En
  <2>5. CASE CrearExistente(q) \/ CrearSinEspacio(q) \/ CrearDirectorio(q) \/ CrearParticiones(q) \/ Registrar(q) \/ BuscarMemTable(q) \/ Insertar(q) \/ Describir(q)
    BY <2>5 DEF CrearExistente, CrearSinEspacio, CrearDirectorio, CrearParticiones, Registrar, BuscarMemTable, Insertar, Describir, En
  <2>6. CASE BuscarTabla(q) \/ TomarMutexTabla(q) \/ LeerMemTable(q) \/ AbrirArchivo(q) \/ LeerBloques(q)
    BY <2>6 DEF BuscarTabla, TomarMutexTabla, LeerMemTable, AbrirArchivo, BuscandoEnArchivos, LeerBloques, En
  <2> QED
    BY <1>6, <2>1, <2>2, <2>3, <2>4, <2>5, <2>6 DEF Pedido
<1> QED
  BY <1>2, <1>3, <1>4, <1>5, <1>6 DEF Next

(* A memtable keeps its table and the request that made it, and no other   *)
(* appears but in BuscarMemTable.                                          *)
LEMMA MemSigue ==
  ASSUME Orden, [Next]_vars, \A p \in Pedidos : ~BuscarMemTable(p)
  PROVE  \A i \in DOMAIN mem' : i \in DOMAIN mem /\ mem'[i].nombre = mem[i].nombre /\ mem'[i].id = mem[i].id
<1>1. \A i \in DOMAIN mem : mem[i] \in TNodo
  BY MemTipo DEF Orden
<1>2. DOMAIN <<>> = {}
  OBVIOUS
<1>3. CASE mem' = mem \/ mem' = <<>>
  BY <1>2, <1>3
<1>4. CASE Volcar
  BY <1>1, <1>4 DEF Volcar, TNodo
<1>5. CASE DumpSinBloques \/ Contar
  BY <1>3, <1>5 DEF DumpSinBloques, Contar
<1>6. ASSUME NEW p \in Pedidos, Insertar(p)
      PROVE  \A i \in DOMAIN mem' : i \in DOMAIN mem /\ mem'[i].nombre = mem[i].nombre /\ mem'[i].id = mem[i].id
  BY <1>1, <1>6 DEF Insertar, TNodo
<1>7. ASSUME NEW p \in Pedidos, Pedido(p), ~Insertar(p)
      PROVE  mem' = mem \/ mem' = <<>>
  BY <1>7, MismoMem DEF Olvidar
<1>8. CASE \E t \in Tablas : Compactacion(t)
  BY <1>3, <1>8, CompQuieto
<1>9. CASE Caer \/ UNCHANGED vars
  BY <1>3, <1>9 DEF Caer, vars
<1> QED
  BY <1>3, <1>4, <1>5, <1>6, <1>7, <1>8, <1>9 DEF Next, Dump

(* The requests that a step lets alone. *)
LEMMA PedSigue ==
  ASSUME Orden, [Next]_vars, NEW p \in Pedidos, Tipo[p] # "SELECT"
  PROVE  ped'[p] = ped[p] \/ Pedido(p)
BY DumpAjeno, CompQuieto, UnPedido DEF Caer, vars, Next

LEMMA PasoNodos ==
  ASSUME Orden, Orden', Nodos, [Next]_vars
  PROVE  Nodos'
<1>1. ped \in [Pedidos -> TPed]
  BY DEF Orden, Tipos
<1>2. ASSUME NEW p \in Pedidos, BuscarMemTable(p)
      PROVE  /\ \A i \in DOMAIN mem' : mem'[i].nombre = Tabla[mem'[i].id]
             /\ ped'[p].paso = "insertar" => ped'[p].nodo \in Pedidos /\ Tabla[ped'[p].nodo] = Tabla[p]
  <2>1. PICK t : t = Tabla[p]
    OBVIOUS
  <2>2. CASE t \notin dirs
    BY <1>1, <1>2, <2>1, <2>2 DEF BuscarMemTable, Ir, TPed, Nodos
  <2>3. CASE t \in dirs /\ NodosDe(t) = {}
    <3>1. PICK x : x = [id |-> p, nombre |-> t, regs |-> <<>>]
      OBVIOUS
    <3>2. mem' = Append(mem, x) /\ ped'[p].nodo = p
      BY <1>1, <1>2, <2>1, <2>3, <3>1 DEF BuscarMemTable, TPed
    <3>3. /\ Len(Append(mem, x)) = Len(mem) + 1 /\ Append(mem, x)[Len(mem) + 1] = x
          /\ \A i \in 1..Len(mem) : Append(mem, x)[i] = mem[i]
          /\ Append(mem, x) \in Seq(TNodo \cup {x})
      BY LenProperties, SeqDef, AppendProperties DEF Orden, Tipos
    <3>4. DOMAIN Append(mem, x) = 1..(Len(mem) + 1) /\ DOMAIN mem = 1..Len(mem) /\ Len(mem) \in Nat
      BY <3>3, LenProperties DEF Orden, Tipos
    <3>5. \A i \in DOMAIN mem' : i = Len(mem) + 1 \/ i \in DOMAIN mem
      BY <3>2, <3>4
    <3>6. \A i \in DOMAIN mem' : mem'[i] = x \/ (i \in DOMAIN mem /\ mem'[i] = mem[i])
      BY <3>2, <3>3, <3>4, <3>5
    <3>7. x.nombre = Tabla[x.id]
      BY <2>1, <3>1
    <3> QED
      BY <2>1, <3>2, <3>6, <3>7 DEF Nodos
  <2>4. CASE t \in dirs /\ NodosDe(t) # {}
    <3>1. PICK m : m = Min(NodosDe(t))
      OBVIOUS
    <3>2. m \in DOMAIN mem /\ mem[m].nombre = t /\ mem[m] \in TNodo
      BY <2>4, <3>1, NodosTipo, MemTipo DEF NodosDe, Orden
    <3>3. mem' = mem /\ ped'[p].nodo = mem[m].id
      BY <1>1, <1>2, <2>1, <2>4, <3>1 DEF BuscarMemTable, TPed
    <3> QED
      BY <2>1, <3>2, <3>3 DEF Nodos, TNodo
  <2> QED
    BY <2>2, <2>3, <2>4
<1>3. \A i \in DOMAIN mem' : mem'[i].nombre = Tabla[mem'[i].id]
  BY <1>2, MemSigue DEF Nodos
<1>4. ASSUME NEW p \in Pedidos, Tipo[p] = "INSERT", ped'[p].paso = "insertar"
      PROVE  ped'[p].nodo \in Pedidos /\ Tabla[ped'[p].nodo] = Tabla[p]
  <2>1. CASE ped'[p] = ped[p]
    BY <1>4, <2>1 DEF Nodos
  <2>2. CASE BuscarMemTable(p)
    BY <1>2, <1>4, <2>2
  <2>3. CASE Insertar(p)
    BY <1>1, <1>4, <2>3 DEF Insertar, Ir, TPed
  <2>4. CASE CrearExistente(p) \/ CrearSinEspacio(p) \/ CrearDirectorio(p) \/ CrearParticiones(p) \/ Registrar(p) \/ Describir(p) \/ EmpezarDrop(p) \/ Unir(p)
             \/ LiberarBloques(p) \/ EliminarContenido(p) \/ BorrarMetadata(p) \/ Olvidar(p) \/ BorrarDirectorio(p)
    BY <1>4, <2>4 DEF CrearExistente, CrearSinEspacio, CrearDirectorio, CrearParticiones, Registrar, Describir, EmpezarDrop, Unir, LiberarBloques,
         EliminarContenido, BorrarMetadata, Olvidar, BorrarDirectorio, Borrando, En
  <2>5. CASE BuscarTabla(p) \/ TomarMutexTabla(p) \/ LeerMemTable(p) \/ AbrirArchivo(p) \/ LeerBloques(p)
    BY <1>4, <2>5 DEF BuscarTabla, TomarMutexTabla, LeerMemTable, AbrirArchivo, BuscandoEnArchivos, LeerBloques, En
  <2> QED
    BY <1>4, <2>1, <2>2, <2>3, <2>4, <2>5, PedSigue DEF Pedido
<1> QED
  BY <1>3, <1>4 DEF Nodos

LEMMA PasoVolcados ==
  ASSUME Orden, Orden', Volcados, [Next]_vars
  PROVE  Volcados'
<1>1. dump \in TDump /\ Len(mem) \in Nat /\ DOMAIN mem = 1..Len(mem) /\ \A i \in DOMAIN mem : mem[i] \in TNodo
  BY MemTipo DEF Orden, Tipos
<1>2. CASE dump' = dump /\ mem' = mem
  BY <1>2 DEF Volcados
<1>3. CASE dump' = dump /\ dump.paso = "dormido"
  BY <1>3 DEF Volcados
<1>4. CASE Volcar
  BY <1>1, <1>4, LugarTipo DEF Volcar, Orden, TNodo, Lugar, Volcados
<1>5. CASE Contar
  BY <1>1, <1>5 DEF Contar, Volcados, TDump
<1>6. CASE DumpSinBloques
  <2>1. dump'.paso = "dormido"
    BY <1>1, <1>6 DEF DumpSinBloques, TDump
  <2> QED
    BY <2>1 DEF Volcados
<1>7. ASSUME NEW p \in Pedidos, Pedido(p) PROVE Volcados'
  <2>1. dump' = dump
    BY <1>7, PedidoQuietoDump
  <2>2. mem' = mem \/ dump.paso = "dormido"
    BY <1>7, MismoMem DEF BuscarMemTable, Insertar, Olvidar, OlvidarCae, BusquedaLibre, InsertsLibre
  <2> QED
    BY <1>2, <1>3, <2>1, <2>2
<1>8. CASE \E t \in Tablas : Compactacion(t)
  BY <1>2, <1>8, CompQuieto
<1>9. CASE Caer \/ UNCHANGED vars
  BY <1>2, <1>9 DEF Caer, vars
<1> QED
  BY <1>4, <1>5, <1>6, <1>7, <1>8, <1>9 DEF Next, Dump

(* What the rename does to the compaction. *)
LEMMA RenombrarComp ==
  ASSUME Orden, NEW t \in Tablas, Renombrar(t)
  PROVE  /\ \A u \in Tablas \ {t} : comp'[u] = comp[u]
         /\ comp'[t].vaciar = comp[t].vaciar /\ comp'[t].bs = comp[t].bs
         /\ IF Renombrables(t) = 1 .. (LaTabla(t).contador - 1)
            THEN comp'[t].paso = "descargar" /\ comp'[t].i = 1 /\ comp'[t].j = 1 /\ comp'[t].almacen = [k \in 1..Particiones |-> <<>>]
            ELSE comp'[t].paso \in {"dormido", "fin"} /\ comp'[t].almacen = comp[t].almacen
<1> DEFINE uno == 1
           alm == [k \in 1..Particiones |-> <<>>]
           sigue == Dormir(t)
           c == comp[t]
           c1 == [c EXCEPT !.paso = "descargar", !.i = uno, !.j = uno, !.almacen = alm]
           c2 == [c EXCEPT !.paso = sigue]
           todos == Renombrables(t) = 1 .. (LaTabla(t).contador - 1)
<1>1. comp \in [Tablas -> TComp] /\ c \in TComp
  BY DEF Orden, Tipos
<1>2. comp' = IF todos THEN [comp EXCEPT ![t] = c1] ELSE [comp EXCEPT ![t] = c2]
  BY DEF Renombrar
<1>3. sigue \in {"dormido", "fin"}
  BY DormirTipo
<1>4. uno = 1
  OBVIOUS
<1> HIDE DEF uno, alm, sigue, c, todos
<1>5. /\ c1.vaciar = c.vaciar /\ c1.bs = c.bs /\ c1.paso = "descargar" /\ c1.i = uno /\ c1.j = uno /\ c1.almacen = alm
      /\ c2.vaciar = c.vaciar /\ c2.bs = c.bs /\ c2.paso = sigue /\ c2.almacen = c.almacen
  BY <1>1 DEF TComp
<1> HIDE DEF c1, c2
<1>6. (\A u \in Tablas \ {t} : comp'[u] = comp[u]) /\ comp'[t] = IF todos THEN c1 ELSE c2
  BY <1>1, <1>2
<1>7. CASE todos
  BY <1>4, <1>5, <1>6, <1>7 DEF todos, alm, c
<1>8. CASE ~todos
  BY <1>3, <1>5, <1>6, <1>8 DEF todos, c
<1> QED
  BY <1>7, <1>8

(* The blocks that are about to be emptied, and the bits. *)
LEMMA LimpiosCalma ==
  ASSUME Orden, Orden', Limpios, NEW bs,
         \A t \in Tablas : comp'[t].vaciar \in {comp[t].vaciar, Nadie},
         \A p \in Pedidos : Tipo[p] = "DROP" => ped'[p].bs \in {ped[p].bs, Nadie},
         ocupados' \subseteq ocupados \cup bs, perdidas \subseteq perdidas', Pisa(bs) \subseteq perdidas'
  PROVE  Limpios'
<1> DEFINE Borran == {q \in Pedidos : Tipo[q] = "DROP" /\ ped[q].bs # Nadie}
<1>1. PorVaciar' \subseteq PorVaciar \cup {Nadie}
  BY DEF PorVaciar
<1>2. Nadie \notin ocupados'
  BY NadieAssumption DEF Orden, Tipos, Sectores
<1>3. ASSUME perdidas' = {} PROVE PorVaciar' \cap ocupados' = {}
  BY <1>1, <1>2, <1>3 DEF Pisa, Limpios
<1> QED
  BY <1>3 DEF Limpios

LEMMA PasoLimpios ==
  ASSUME Orden, Orden', Limpios, [Next]_vars
  PROVE  Limpios'
<1>1. ped \in [Pedidos -> TPed] /\ comp \in [Tablas -> TComp]
  BY DEF Orden, Tipos
<1>2. Pisa({}) = {}
  BY DEF Pisa
<1>3. CASE UNCHANGED <<comp, ped, ocupados>> /\ perdidas \subseteq perdidas'
  BY <1>2, <1>3, LimpiosCalma
<1>4. CASE Volcar
  BY <1>4, LimpiosCalma DEF Volcar, Marcar
<1>5. CASE DumpSinBloques \/ Contar
  BY <1>3, <1>5 DEF DumpSinBloques, Contar, disk
<1>6. ASSUME NEW t \in Tablas, Reservar(t) PROVE Limpios'
  BY <1>1, <1>6, LimpiosCalma DEF Reservar, Marcar, TComp
<1>7. ASSUME NEW t \in Tablas,
             \/ Arrancar(t) \/ Salir(t) \/ Renombrar(t) \/ RecrearBloqueVacio(t) \/ VaciarParticion(t)
             \/ ActualizarBloque(t) \/ BorrarTmpc(t) \/ Guardar(t)
      PROVE  Limpios'
  <2>1. \A u \in Tablas : comp'[u].vaciar \in {comp[u].vaciar, Nadie}
    <3>1. CASE Arrancar(t) \/ Salir(t)
      BY <1>1, <3>1 DEF Arrancar, Salir, TComp
    <3>7. CASE RecrearBloqueVacio(t)
      BY <1>1, <3>7 DEF RecrearBloqueVacio, TComp
    <3>2. CASE ActualizarBloque(t)
      BY <1>1, <3>2 DEF ActualizarBloque, TComp
    <3>3. CASE Renombrar(t)
      BY <3>3, RenombrarComp
    <3>4. CASE VaciarParticion(t)
      BY <1>1, <3>4 DEF VaciarParticion, TComp
    <3>5. CASE BorrarTmpc(t)
      BY <1>1, <3>5 DEF BorrarTmpc, TComp
    <3>6. CASE Guardar(t)
      BY <1>1, <3>6 DEF Guardar, TComp
    <3> QED
      BY <1>7, <3>1, <3>2, <3>3, <3>4, <3>5, <3>6, <3>7
  <2>2. ocupados' \subseteq ocupados /\ perdidas' = perdidas
    BY <1>7 DEF Arrancar, Salir, Renombrar, RecrearBloqueVacio, VaciarParticion, ActualizarBloque, BorrarTmpc, Guardar, disk
  <2>3. \A p \in Pedidos : Tipo[p] = "DROP" => ped'[p] = ped[p]
    BY <1>7, CompQuieto DEF Compactacion
  <2> QED
    BY <1>2, <2>1, <2>2, <2>3, LimpiosCalma
<1>8. ASSUME NEW t \in Tablas, DescargarBloque(t) PROVE Limpios'
  <2>1. PICK b : b = archivos[LaParticion(t)][comp[t].j]
    OBVIOUS
  <2>2. /\ comp'[t].vaciar = b /\ \A u \in Tablas \ {t} : comp'[u] = comp[u]
        /\ ocupados' = ocupados \ {b} /\ UNCHANGED <<ped, perdidas>>
    BY <1>1, <1>8, <2>1 DEF DescargarBloque, TComp
  <2>3. PorVaciar' \subseteq PorVaciar \cup {b}
    BY <2>2 DEF PorVaciar
  <2> QED
    BY <2>2, <2>3 DEF Limpios
<1>9. ASSUME NEW p \in Pedidos, LiberarBloques(p) PROVE Limpios'
  BY <1>1, <1>9 DEF LiberarBloques, TPed, PorVaciar, Limpios
<1>10. ASSUME NEW p \in Pedidos, CrearParticiones(p) PROVE Limpios'
  <2>1. PICK bs : bs = Primeros(Particiones)
    OBVIOUS
  <2>2. /\ ocupados' = ocupados \cup bs /\ perdidas \subseteq perdidas' /\ Pisa(bs) \subseteq perdidas'
        /\ \A q \in Pedidos : ped'[q].bs = ped[q].bs
    BY <1>1, <1>10, <2>1 DEF CrearParticiones, Marcar, Ir, TPed
  <2>3. \A u \in Tablas : comp'[u].vaciar = comp[u].vaciar
    BY <1>1, <1>10 DEF CrearParticiones, TComp
  <2> QED
    BY <2>2, <2>3, LimpiosCalma
<1>11. ASSUME NEW p \in Pedidos, Pedido(p), ~LiberarBloques(p), ~CrearParticiones(p) PROVE Limpios'
  <2>1. ocupados' = ocupados /\ comp' = comp /\ (Tipo[p] = "DROP" => ped'[p].bs \in {ped[p].bs, Nadie})
    <3>1. CASE CrearExistente(p) \/ CrearSinEspacio(p) \/ CrearDirectorio(p) \/ Registrar(p) \/ BuscarMemTable(p) \/ Insertar(p)
      BY <3>1 DEF CrearExistente, CrearSinEspacio, CrearDirectorio, Registrar, BuscarMemTable, Insertar, En, disk
    <3>2. CASE BuscarTabla(p) \/ TomarMutexTabla(p) \/ LeerMemTable(p) \/ AbrirArchivo(p) \/ LeerBloques(p)
      <4>1. Tipo[p] = "SELECT"
        BY <3>2 DEF LeerMemTable, En, BuscarTabla, TomarMutexTabla, AbrirArchivo, BuscandoEnArchivos, LeerBloques
      <4> QED
        BY <3>2, <4>1 DEF BuscarTabla, TomarMutexTabla, LeerMemTable, AbrirArchivo, LeerBloques, disk
    <3>3. CASE Describir(p) \/ EmpezarDrop(p) \/ Unir(p) \/ BorrarMetadata(p) \/ Olvidar(p) \/ BorrarDirectorio(p)
      BY <1>1, <3>3 DEF Describir, EmpezarDrop, Unir, BorrarMetadata, Olvidar, BorrarDirectorio, Ir, TPed, disk
    <3>4. CASE EliminarContenido(p)
      BY <1>1, <3>4 DEF EliminarContenido, TPed
    <3> QED
      BY <1>11, <3>1, <3>2, <3>3, <3>4 DEF Pedido
  <2>2. \A q \in Pedidos : Tipo[q] = "DROP" => ped'[q].bs \in {ped[q].bs, Nadie}
    BY <1>11, <2>1, UnPedido
  <2>3. perdidas \subseteq perdidas'
    BY <1>11, PedidoQuietoDump
  <2> QED
    BY <1>2, <2>1, <2>2, <2>3, LimpiosCalma
<1>12. CASE Caer \/ UNCHANGED vars
  BY <1>3, <1>12 DEF Caer, vars, disk
<1> QED
  BY <1>4, <1>5, <1>6, <1>7, <1>8, <1>9, <1>10, <1>11, <1>12 DEF Next, Dump, Compactacion

(* The partitions of a table appear with its CREATE, and a compaction of   *)
(* it may put back one that was lost.                                      *)
LEMMA BinNuevo ==
  ASSUME Orden, [Next]_vars, NEW f \in DOMAIN archivos', f \notin DOMAIN archivos, f[2] = "bin"
  PROVE  (\E p \in Pedidos : CrearParticiones(p) /\ f[1] = Tabla[p]) \/ (\E t \in Tablas : Guardar(t) /\ f[1] = t)
<1>1. CASE Volcar
  BY <1>1 DEF Volcar, ConArchivo
<1>2. CASE DumpSinBloques \/ Contar \/ Caer \/ UNCHANGED vars
  BY <1>2 DEF DumpSinBloques, Contar, Caer, vars, disk
<1>3. ASSUME NEW t \in Tablas, Renombrar(t) PROVE FALSE
  <2>1. Registrada(t)
    BY <1>3, TablaActiva DEF Orden, Renombrar, Comp, Activa
  <2>2. f \in {<<t, "tmpc", k>> : k \in Renombrables(t)}
    BY <1>3, <2>1, RenombradosTipo DEF Renombrar, Orden
  <2> QED
    BY <2>2
<1>4. ASSUME NEW t \in Tablas, Guardar(t) PROVE f[1] = t
  BY <1>4 DEF Guardar, ConArchivo
<1>5. ASSUME NEW t \in Tablas, Compactacion(t), ~Renombrar(t), ~Guardar(t) PROVE FALSE
  <2>1. DOMAIN archivos' \subseteq DOMAIN archivos
    BY <1>5 DEF Compactacion, Arrancar, Salir, DescargarBloque, RecrearBloqueVacio, VaciarParticion, ActualizarBloque,
         BorrarTmpc, Reservar, disk
  <2> QED
    BY <2>1
<1>6. ASSUME NEW p \in Pedidos, CrearParticiones(p) PROVE f[1] = Tabla[p]
  BY <1>6 DEF CrearParticiones
<1>7. ASSUME NEW p \in Pedidos, Pedido(p), ~CrearParticiones(p) PROVE FALSE
  <2>1. CASE CrearExistente(p) \/ CrearSinEspacio(p) \/ CrearDirectorio(p) \/ Registrar(p) \/ BuscarMemTable(p) \/ Insertar(p) \/ BuscarTabla(p) \/ TomarMutexTabla(p)
    BY <2>1 DEF CrearExistente, CrearSinEspacio, CrearDirectorio, Registrar, BuscarMemTable, Insertar, BuscarTabla, TomarMutexTabla, disk
  <2>2. CASE LeerMemTable(p) \/ AbrirArchivo(p) \/ LeerBloques(p) \/ Describir(p) \/ EmpezarDrop(p) \/ Unir(p)
    BY <2>2 DEF LeerMemTable, AbrirArchivo, LeerBloques, Describir, EmpezarDrop, Unir, disk
  <2>3. CASE LiberarBloques(p) \/ EliminarContenido(p) \/ BorrarMetadata(p) \/ Olvidar(p) \/ BorrarDirectorio(p)
    BY <2>3 DEF LiberarBloques, EliminarContenido, BorrarMetadata, Olvidar, BorrarDirectorio, disk
  <2> QED
    BY <1>7, <2>1, <2>2, <2>3 DEF Pedido
<1> QED
  BY <1>1, <1>2, <1>3, <1>4, <1>5, <1>6, <1>7 DEF Next, Dump

LEMMA PasoVacias ==
  ASSUME Orden, Orden', Vacias, [Next]_vars
  PROVE  Vacias'
<1>1. ped \in [Pedidos -> TPed]
  BY DEF Orden, Tipos
<1> SUFFICES ASSUME NEW t \in Tablas, ~EnDrop(t)', SinCrear(t)', NEW f \in DOMAIN archivos', f[1] = t, f[2] = "bin"
             PROVE  FALSE
  BY DEF Vacias
<1>2. ~EnDrop(t)
  BY DropSigue
<1>3. SinCrear(t)
  <2>1. CASE t \notin dirs
    BY <2>1 DEF SinCrear
  <2>2. CASE t \in dirs /\ t \notin dirs'
    <3>1. ASSUME NEW p \in Pedidos, BorrarDirectorio(p), t = Tabla[p] PROVE FALSE
      BY <1>1, <3>1 DEF BorrarDirectorio, En, Ir, TPed, EnDrop
    <3>2. \A u \in Tablas : Compactacion(u) => dirs' = dirs
      BY CompQuieto
    <3>3. Dump => dirs' = dirs
      BY DumpAjeno
    <3>4. Caer \/ UNCHANGED vars => dirs' = dirs
      BY DEF Caer, vars, disk
    <3>5. ASSUME NEW p \in Pedidos, Pedido(p), ~BorrarDirectorio(p) PROVE dirs \subseteq dirs'
      <4>1. CASE CrearExistente(p) \/ CrearSinEspacio(p) \/ CrearDirectorio(p) \/ CrearParticiones(p) \/ Registrar(p) \/ BuscarMemTable(p) \/ Insertar(p) \/ BuscarTabla(p) \/ TomarMutexTabla(p)
        BY <4>1 DEF CrearExistente, CrearSinEspacio, CrearDirectorio, CrearParticiones, Registrar, BuscarMemTable, Insertar, BuscarTabla, TomarMutexTabla, disk
      <4>2. CASE LeerMemTable(p) \/ AbrirArchivo(p) \/ LeerBloques(p) \/ Describir(p) \/ EmpezarDrop(p) \/ Unir(p)
        BY <4>2 DEF LeerMemTable, AbrirArchivo, LeerBloques, Describir, EmpezarDrop, Unir, disk
      <4>3. CASE LiberarBloques(p) \/ EliminarContenido(p) \/ BorrarMetadata(p) \/ Olvidar(p)
        BY <4>3 DEF LiberarBloques, EliminarContenido, BorrarMetadata, Olvidar, disk
      <4> QED
        BY <3>5, <4>1, <4>2, <4>3 DEF Pedido
    <3>6. ASSUME NEW p \in Pedidos, BorrarDirectorio(p) PROVE t = Tabla[p]
      BY <2>2, <3>6 DEF BorrarDirectorio
    <3> QED
      BY <2>2, <3>1, <3>2, <3>3, <3>4, <3>5, <3>6 DEF Next
  <2>3. CASE t \in dirs /\ t \in dirs'
    <3>1. PICK p \in Pedidos : Tipo[p] = "CREATE" /\ Tabla[p] = t /\ ped'[p].paso = "particiones"
      BY <2>3 DEF SinCrear
    <3>2. CASE ped[p].paso = "particiones"
      BY <3>1, <3>2 DEF SinCrear
    <3>3. CASE ped[p].paso # "particiones"
      <4>1. Pedido(p)
        BY <3>1, <3>3, PedSigue
      <4>2. ~(CrearExistente(p) \/ CrearSinEspacio(p) \/ CrearDirectorio(p))
        BY <1>1, <2>3, <3>1, <3>3 DEF CrearExistente, CrearSinEspacio, CrearDirectorio, Ir, TPed
      <4>3. CASE CrearParticiones(p) \/ Registrar(p)
        BY <1>1, <3>1, <4>3 DEF CrearParticiones, Registrar, Ir, TPed
      <4>4. CASE LeerMemTable(p)
        BY <3>1, <4>4 DEF LeerMemTable, En
      <4> QED
        BY <3>1, <4>1, <4>2, <4>3, <4>4 DEF Pedido, BuscarMemTable, Insertar, BuscarTabla, TomarMutexTabla, AbrirArchivo,
           BuscandoEnArchivos, LeerBloques, Describir, EmpezarDrop, Unir, LiberarBloques, EliminarContenido, Borrando,
           BorrarMetadata, Olvidar, BorrarDirectorio, En
    <3> QED
      BY <3>2, <3>3
  <2> QED
    BY <2>1, <2>2, <2>3
<1>4. f \notin DOMAIN archivos
  BY <1>2, <1>3 DEF Vacias
<1>5. ASSUME NEW p \in Pedidos, CrearParticiones(p), t = Tabla[p] PROVE FALSE
  <2>1. Creando(p) /\ t \in dirs /\ dirs' = dirs /\ ped'[p].paso = "registrar" /\ \A q \in Pedidos \ {p} : ped'[q] = ped[q]
    <3>1. Creando(p)
      BY <1>5 DEF CrearParticiones, En, Creando
    <3>2. t \in dirs
      BY <1>5, <3>1 DEF Orden, Vidas, VidaDeCreate
    <3> QED
      BY <1>1, <1>5, <3>1, <3>2 DEF CrearParticiones, Ir, TPed
  <2>2. PICK q \in Pedidos : Tipo[q] = "CREATE" /\ Tabla[q] = t /\ ped'[q].paso = "particiones"
    BY <2>1 DEF SinCrear
  <2>3. q # p /\ Creando(q)
    BY <2>1, <2>2 DEF Creando
  <2> QED
    BY <1>5, <2>1, <2>2, <2>3 DEF Orden, Vidas
<1>6. ASSUME Guardar(t) PROVE FALSE
  <2>1. Activa(t) /\ Registrada(t)
    BY <1>6 DEF Guardar, Comp, Activa, Orden, Vidas
  <2>2. t \in dirs
    BY <2>1 DEF Registrada, Orden, Vidas
  <2>3. PICK q \in Pedidos : Tipo[q] = "CREATE" /\ Tabla[q] = t /\ ped[q].paso = "particiones"
    BY <1>3, <2>2 DEF SinCrear
  <2>4. ~Registrada(t)
    BY <2>3 DEF Creando, Orden, Vidas, VidaDeCreate
  <2> QED
    BY <2>1, <2>4
<1> QED
  BY <1>4, <1>5, <1>6, BinNuevo

-----------------------------------------------------------------------------
(* The records go from one place to another.                               *)

(* What is written in blocks enough is in them. *)
LEMMA EscribirCabe ==
  ASSUME Tipos, NEW bs \in Seq(Sectores), NEW regs \in Seq(Pedidos), Len(regs) <= Len(bs) * Cap,
         \A i, j \in DOMAIN bs : bs[i] = bs[j] => i = j
  PROVE  \A r \in ToSet(regs) : \E b \in ToSet(bs) : r \in ToSet(Escribir(bs, regs)[b])
<1> SUFFICES ASSUME NEW m \in DOMAIN regs PROVE \E b \in ToSet(bs) : regs[m] \in ToSet(Escribir(bs, regs)[b])
  BY DEF ToSet
<1> DEFINE L == Len(regs)
           q == (m - 1) \div Cap
           p == q * Cap
           j == q + 1
           b == bs[j]
           a == p + 1
           h == IF p + Cap < L THEN p + Cap ELSE L
           s == SubSeq(regs, a, h)
<1>1. Cap \in Nat \ {0} /\ L \in Nat /\ m \in 1..L /\ Len(bs) \in Nat /\ DOMAIN bs = 1..Len(bs) /\ \A i \in 1..L : regs[i] \in Pedidos
  BY FSAssumption, LenProperties, ElementOfSeq
<1>2. q \in Nat /\ Cap * q <= m - 1 /\ m - 1 < Cap * q + Cap
  <2>1. PICK k \in Nat : k = m - 1
    BY <1>1
  <2>2. k \div Cap \in Nat /\ Cap * (k \div Cap) <= k /\ k < Cap * (k \div Cap) + Cap
    BY <1>1
  <2> QED
    BY <2>1, <2>2
<1> HIDE DEF q
<1>3. p \in Nat /\ p = Cap * q /\ (j - 1) * Cap = p /\ j * Cap = p + Cap
  BY <1>1, <1>2
<1>4. p <= m - 1 /\ m - 1 < p + Cap
  BY <1>2, <1>3
<1>5. j \in 1..Len(bs)
  <2>1. ASSUME q >= Len(bs) PROVE q * Cap >= Len(bs) * Cap
    <3>1. PICK e \in Nat : q = Len(bs) + e
      <4>1. q - Len(bs) \in Nat /\ q = Len(bs) + (q - Len(bs))
        BY <1>1, <1>2, <2>1
      <4> QED
        BY <4>1
    <3>2. q * Cap = Len(bs) * Cap + e * Cap /\ e * Cap \in Nat /\ Len(bs) * Cap \in Nat
      BY <1>1, <3>1
    <3> QED
      BY <3>2
  <2> DEFINE x == Len(bs) * Cap
  <2>2. x \in Nat /\ L <= x
    BY <1>1
  <2> HIDE DEF x
  <2>3. ~(p >= x)
    BY <1>1, <1>3, <1>4, <2>2
  <2>4. ~(q >= Len(bs))
    BY <2>1, <2>3 DEF x
  <2> QED
    BY <1>1, <1>2, <2>4
<1> HIDE DEF p
<1>6. h \in Nat /\ a \in Nat \ {0} /\ a <= m /\ m <= h /\ h <= L
  BY <1>1, <1>3, <1>4
<1>7. b \in Sectores /\ b \in ToSet(bs)
  BY <1>1, <1>5, ElementOfSeq DEF ToSet
<1>8. (CHOOSE i \in DOMAIN bs : bs[i] = b) = j
  BY <1>1, <1>5
<1>9. Escribir(bs, regs)[b] = disco[b] \o s
  BY <1>1, <1>3, <1>5, <1>7, <1>8 DEF Contains, Tipos, Escribir
<1> HIDE DEF a, h, b, j, L
<1>10. \A i \in a..h : regs[i] \in Pedidos
  BY <1>1, <1>6
<1>11. s \in Seq(Pedidos) /\ Len(s) = h - a + 1 /\ \A i \in 1..(h - a + 1) : s[i] = regs[a + i - 1]
  BY <1>1, <1>6, <1>10, SubSeqProperties
<1> HIDE DEF s
<1>12. m - a + 1 \in 1..(h - a + 1) /\ s[m - a + 1] = regs[m]
  BY <1>1, <1>6, <1>11
<1>13. disco[b] \in Seq(Pedidos) /\ Len(disco[b]) \in Nat
  BY <1>7, LenProperties DEF Tipos
<1> DEFINE d == disco[b]
           e == d \o s
           k == Len(d) + (m - a + 1)
<1>14. /\ e \in Seq(Pedidos) /\ Len(e) = Len(d) + Len(s)
       /\ \A i \in 1..(Len(d) + Len(s)) : e[i] = IF i <= Len(d) THEN d[i] ELSE s[i - Len(d)]
  BY <1>11, <1>13, ConcatProperties, ZenonT(60)
<1>15. k \in 1..(Len(d) + Len(s)) /\ ~(k <= Len(d)) /\ k - Len(d) = m - a + 1
  BY <1>11, <1>12, <1>13
<1>16. k \in DOMAIN e /\ e[k] = regs[m]
  BY <1>12, <1>14, <1>15, LenProperties
<1> QED
  BY <1>7, <1>9, <1>16 DEF ToSet

LEMMA SectoresSeq ==
  ASSUME NEW s \in Seq(Bloques)
  PROVE  s \in Seq(Sectores)
BY LenProperties, SeqDef DEF Sectores

(* A file that no DROP has in its hands, before a step and after it. *)
LEMMA EnManosDrop ==
  ASSUME NEW f
  PROVE  (EnManos(f) => EnDrop(f[1])) /\ (EnManos(f)' => EnDrop(f[1])')
BY DEF EnManos, EnDrop, Soltando, Colgado

LEMMA EnManosFinPrima ==
  ASSUME Orden', NEW f, comp'[f[1]].paso # "fin"
  PROVE  ~EnManos(f)'
<1> SUFFICES ASSUME NEW p \in Pedidos, f[1] = Tabla[p], (Soltando(p) \/ Colgado(p))' PROVE FALSE
  BY DEF EnManos
<1>1. EnCurso(p)' /\ ped'[p].paso \in Bajando
  BY DEF Soltando, Colgado, EnCurso, Bajando
<1>2. VidaDeDrop(p)'
  BY <1>1 DEF Orden, Vidas
<1> QED
  BY <1>1, <1>2 DEF VidaDeDrop

LEMMA TieneLibre ==
  ASSUME NEW f \in Archivo
  PROVE  /\ ~EnManos(f) => Tiene(f) = IF f \in DOMAIN archivos THEN Quedan(comp[f[1]], f, archivos[f]) ELSE {}
         /\ ~EnManos(f)' => Tiene(f)' = IF f \in DOMAIN archivos' THEN Quedan(comp'[f[1]], f, archivos'[f]) ELSE {}
BY DuenioTipo DEF Tiene, Posee

(* No block that is taken loses a record. *)
LEMMA DiscoSigue ==
  ASSUME Orden, Orden', Limpios, [Next]_vars, perdidas = {}
  PROVE  \A b \in ocupados \cap ocupados' : ToSet(disco[b]) \subseteq ToSet(disco'[b])
<1>1. disco \in [Sectores -> Seq(Pedidos)] /\ ocupados \subseteq Bloques /\ Bloques \subseteq Sectores /\ ocupados \cap PorVaciar = {}
  BY DEF Orden, Tipos, Limpios, Sectores
<1>2. CASE disco' = disco
  BY <1>2
<1>3. CASE Volcar
  <2>1. PICK bs : bs = Primeros(Enteros(Len(mem[Lugar].regs)))
    OBVIOUS
  <2>2. PICK s : s = Ordenados(bs)
    OBVIOUS
  <2>3. PICK regs : regs = mem[Lugar].regs
    OBVIOUS
  <2>4. disco' = Escribir(s, regs)
    BY <1>3, <2>1, <2>2, <2>3 DEF Volcar
  <2>5. regs \in Seq(Pedidos)
    BY <1>3, <2>3, LugarTipo DEF Volcar, Orden, TNodo
  <2>6. bs \in SUBSET Bloques /\ IsFiniteSet(bs)
    BY <2>1, <2>5, PrimerosTipo, EnterosTipo, LenProperties, <2>3
  <2>7. s \in Seq(Sectores)
    BY <2>2, <2>6, OrdenadosTipo, SectoresSeq
  <2> QED
    BY <1>1, <2>4, <2>5, <2>7, EscribirTipo DEF Orden
<1>4. ASSUME NEW t \in Tablas, Reservar(t)
      PROVE  \A b \in ocupados \cap ocupados' : ToSet(disco[b]) \subseteq ToSet(disco'[b])
  <2>1. PICK regs : regs = comp[t].almacen[comp[t].i]
    OBVIOUS
  <2>2. PICK n : n = Enteros(Len(regs))
    OBVIOUS
  <2>3. PICK bs : bs = Primeros(n)
    OBVIOUS
  <2>4. disco' = Escribir(LosDeReservar(bs, n), regs)
    BY <1>4, <2>1, <2>2, <2>3 DEF Reservar, LosDeReservar
  <2>5. regs \in Seq(Pedidos) /\ n \in Nat
    BY <1>4, <2>1, <2>2, ReservarTipo, EnterosTipo DEF Reservar, Comp, Orden
  <2>6. bs \in SUBSET Bloques /\ IsFiniteSet(bs)
    BY <2>3, <2>5, PrimerosTipo
  <2>7. LosDeReservar(bs, n) \in Seq(Sectores)
    BY <2>5, <2>6, LosDeReservarTipo
  <2> QED
    BY <1>1, <2>4, <2>5, <2>7, EscribirTipo DEF Orden
<1>5. ASSUME NEW t \in Tablas, RecrearBloqueVacio(t)
      PROVE  \A b \in ocupados \cap ocupados' : ToSet(disco[b]) \subseteq ToSet(disco'[b])
  BY <1>1, <1>5 DEF RecrearBloqueVacio, PorVaciar
<1>6. ASSUME NEW t \in Tablas, ActualizarBloque(t)
      PROVE  \A b \in ocupados \cap ocupados' : ToSet(disco[b]) \subseteq ToSet(disco'[b])
  BY <1>1, <1>6 DEF ActualizarBloque
<1>7. ASSUME NEW p \in Pedidos, EliminarContenido(p)
      PROVE  \A b \in ocupados \cap ocupados' : ToSet(disco[b]) \subseteq ToSet(disco'[b])
  <2>1. PICK s : s = ped[p].bs
    OBVIOUS
  <2>2. Tipo[p] = "DROP" /\ s # Nadie
    BY <1>7, <2>1 DEF EliminarContenido, Borrando
  <2>3. ToSet(s) \subseteq PorVaciar
    BY <2>1, <2>2 DEF PorVaciar
  <2>4. disco' = [b \in DOMAIN disco |-> IF Contains(s, b) THEN <<>> ELSE disco[b]]
    BY <1>7, <2>1 DEF EliminarContenido
  <2>5. \A b : Contains(s, b) => b \in ToSet(s)
    BY DEF Contains, ToSet
  <2> QED
    BY <1>1, <2>3, <2>4, <2>5
<1>8. ASSUME NEW t \in Tablas, Compactacion(t), ~Reservar(t), ~RecrearBloqueVacio(t), ~ActualizarBloque(t)
      PROVE  disco' = disco
  BY <1>8 DEF Compactacion, Arrancar, Salir, Renombrar, DescargarBloque, VaciarParticion, BorrarTmpc, Guardar, disk
<1>9. ASSUME NEW p \in Pedidos, Pedido(p), ~EliminarContenido(p) PROVE disco' = disco
  <2>1. CASE CrearExistente(p) \/ CrearSinEspacio(p) \/ CrearDirectorio(p) \/ CrearParticiones(p) \/ Registrar(p) \/ BuscarMemTable(p) \/ Insertar(p) \/ BuscarTabla(p) \/ TomarMutexTabla(p)
    BY <2>1 DEF CrearExistente, CrearSinEspacio, CrearDirectorio, CrearParticiones, Registrar, BuscarMemTable, Insertar, BuscarTabla, TomarMutexTabla, disk
  <2>2. CASE LeerMemTable(p) \/ AbrirArchivo(p) \/ LeerBloques(p) \/ Describir(p) \/ EmpezarDrop(p) \/ Unir(p)
    BY <2>2 DEF LeerMemTable, AbrirArchivo, LeerBloques, Describir, EmpezarDrop, Unir, disk
  <2>3. CASE LiberarBloques(p) \/ BorrarMetadata(p) \/ Olvidar(p) \/ BorrarDirectorio(p)
    BY <2>3 DEF LiberarBloques, BorrarMetadata, Olvidar, BorrarDirectorio, disk
  <2> QED
    BY <1>9, <2>1, <2>2, <2>3 DEF Pedido
<1>10. CASE DumpSinBloques \/ Contar \/ Caer \/ UNCHANGED vars
  BY <1>2, <1>10 DEF DumpSinBloques, Contar, Caer, vars, disk
<1> QED
  BY <1>2, <1>3, <1>4, <1>5, <1>6, <1>7, <1>8, <1>9, <1>10 DEF Next, Dump

(* A step that is not the compaction of t, nor creates its partitions nor  *)
(* deletes one of its files.                                               *)
Ajena(t) ==
  ~Compactacion(t) /\ \A p \in Pedidos : Tabla[p] = t => ~CrearParticiones(p) /\ ~EliminarContenido(p)

LEMMA CompSigue ==
  ASSUME Orden, [Next]_vars, NEW t \in Tablas, Ajena(t)
  PROVE  comp'[t] = comp[t]
<1>1. comp \in [Tablas -> TComp]
  BY DEF Orden, Tipos
<1>2. CASE Caer \/ UNCHANGED vars
  BY <1>2 DEF Caer, vars
<1>3. CASE Dump
  BY <1>3, DumpAjeno
<1>4. ASSUME NEW u \in Tablas, Compactacion(u) PROVE comp'[t] = comp[t]
  BY <1>4, CompQuieto DEF Ajena
<1>5. ASSUME NEW p \in Pedidos, CrearParticiones(p) PROVE comp'[t] = comp[t]
  BY <1>1, <1>5 DEF CrearParticiones, Ajena
<1>6. ASSUME NEW p \in Pedidos, Pedido(p), ~CrearParticiones(p) PROVE comp'[t] = comp[t]
  <2>1. CASE CrearExistente(p) \/ CrearSinEspacio(p) \/ CrearDirectorio(p) \/ Registrar(p) \/ BuscarMemTable(p) \/ Insertar(p) \/ BuscarTabla(p) \/ TomarMutexTabla(p)
    BY <2>1 DEF CrearExistente, CrearSinEspacio, CrearDirectorio, Registrar, BuscarMemTable, Insertar, BuscarTabla, TomarMutexTabla
  <2>2. CASE LeerMemTable(p) \/ AbrirArchivo(p) \/ LeerBloques(p) \/ Describir(p) \/ EmpezarDrop(p) \/ Unir(p)
    BY <2>2 DEF LeerMemTable, AbrirArchivo, LeerBloques, Describir, EmpezarDrop, Unir
  <2>3. CASE LiberarBloques(p) \/ EliminarContenido(p) \/ BorrarMetadata(p) \/ Olvidar(p) \/ BorrarDirectorio(p)
    BY <2>3 DEF LiberarBloques, EliminarContenido, BorrarMetadata, Olvidar, BorrarDirectorio
  <2> QED
    BY <1>6, <2>1, <2>2, <2>3 DEF Pedido
<1> QED
  BY <1>2, <1>3, <1>4, <1>5, <1>6 DEF Next

(* The file that a dump writes. *)
DelDump == <<mem[Lugar].nombre, "tmp", tablas[Lugar].contador>>

LEMMA ArchivoSigue ==
  ASSUME Orden, [Next]_vars, NEW f \in Archivo, Ajena(f[1]), Volcar => f # DelDump
  PROVE  (f \in DOMAIN archivos' <=> f \in DOMAIN archivos) /\ (f \in DOMAIN archivos => archivos'[f] = archivos[f])
<1> DEFINE Igual == (f \in DOMAIN archivos' <=> f \in DOMAIN archivos) /\ (f \in DOMAIN archivos => archivos'[f] = archivos[f])
<1>1. CASE archivos' = archivos
  BY <1>1
<1>2. CASE Volcar
  BY <1>2 DEF Volcar, DelDump, ConArchivo
<1>3. ASSUME NEW u \in Tablas, u # f[1], Renombrar(u) PROVE Igual
  <2>1. Registrada(u)
    BY <1>3, TablaActiva DEF Orden, Renombrar, Comp, Activa
  <2>2. \A k : f # <<u, "tmp", k>> /\ f # <<u, "tmpc", k>>
    BY <1>3
  <2>3. archivos' = Renombrados(u)
    BY <1>3 DEF Renombrar
  <2> HIDE DEF Igual
  <2>4. /\ f \in DOMAIN archivos' => f \in DOMAIN archivos /\ archivos'[f] = archivos[f]
        /\ f \in DOMAIN archivos => f \in DOMAIN archivos'
    BY <2>1, <2>2, <2>3, RenombradosTipo DEF Orden
  <2> QED
    BY <2>4 DEF Igual
<1>4. ASSUME NEW u \in Tablas, u # f[1], VaciarParticion(u) PROVE Igual
  BY <1>4 DEF VaciarParticion, LaParticion
<1>5. ASSUME NEW u \in Tablas, u # f[1], BorrarTmpc(u) PROVE Igual
  BY <1>5 DEF BorrarTmpc
<1>6. ASSUME NEW u \in Tablas, u # f[1], Guardar(u) PROVE Igual
  BY <1>6 DEF Guardar, ConArchivo
<1>7. ASSUME NEW u \in Tablas, Compactacion(u), ~Renombrar(u), ~VaciarParticion(u), ~BorrarTmpc(u), ~Guardar(u)
      PROVE  archivos' = archivos
  BY <1>7 DEF Compactacion, Arrancar, Salir, DescargarBloque, RecrearBloqueVacio, ActualizarBloque, Reservar, disk
<1>8. ASSUME NEW p \in Pedidos, Tabla[p] # f[1], CrearParticiones(p) PROVE Igual
  BY <1>8 DEF CrearParticiones
<1>9. ASSUME NEW p \in Pedidos, Tabla[p] # f[1], EliminarContenido(p) PROVE Igual
  BY <1>9 DEF EliminarContenido
<1>10. ASSUME NEW p \in Pedidos, Pedido(p), ~CrearParticiones(p), ~EliminarContenido(p) PROVE archivos' = archivos
  <2>1. CASE CrearExistente(p) \/ CrearSinEspacio(p) \/ CrearDirectorio(p) \/ Registrar(p) \/ BuscarMemTable(p) \/ Insertar(p) \/ BuscarTabla(p) \/ TomarMutexTabla(p)
    BY <2>1 DEF CrearExistente, CrearSinEspacio, CrearDirectorio, Registrar, BuscarMemTable, Insertar, BuscarTabla, TomarMutexTabla, disk
  <2>2. CASE LeerMemTable(p) \/ AbrirArchivo(p) \/ LeerBloques(p) \/ Describir(p) \/ EmpezarDrop(p) \/ Unir(p)
    BY <2>2 DEF LeerMemTable, AbrirArchivo, LeerBloques, Describir, EmpezarDrop, Unir, disk
  <2>3. CASE LiberarBloques(p) \/ BorrarMetadata(p) \/ Olvidar(p) \/ BorrarDirectorio(p)
    BY <2>3 DEF LiberarBloques, BorrarMetadata, Olvidar, BorrarDirectorio, disk
  <2> QED
    BY <1>10, <2>1, <2>2, <2>3 DEF Pedido
<1>11. CASE DumpSinBloques \/ Contar \/ Caer \/ UNCHANGED vars
  BY <1>1, <1>11 DEF DumpSinBloques, Contar, Caer, vars, disk
<1>12. CASE Dump
  BY <1>2, <1>11, <1>12 DEF Dump
<1>13. ASSUME NEW u \in Tablas, Compactacion(u) PROVE Igual
  BY <1>1, <1>3, <1>4, <1>5, <1>6, <1>7, <1>13 DEF Ajena
<1>14. ASSUME NEW p \in Pedidos, Pedido(p) PROVE Igual
  BY <1>1, <1>8, <1>9, <1>10, <1>14 DEF Ajena
<1> QED
  BY <1>11, <1>12, <1>13, <1>14 DEF Next

LEMMA PerdidasSigue ==
  ASSUME Orden, [Next]_vars
  PROVE  perdidas \subseteq perdidas'
BY DumpAjeno, CompQuieto, PedidoQuietoDump DEF Caer, vars, Next

LEMMA TieneSigue ==
  ASSUME Orden, Orden', [Next]_vars, NEW f \in Archivo, Ajena(f[1]), Volcar => f # DelDump, ~EnManos(f), ~EnManos(f)'
  PROVE  Tiene(f)' = Tiene(f)
<1>1. f[1] \in Tablas
  BY DuenioTipo
<1> QED
  BY <1>1, TieneLibre, CompSigue, ArchivoSigue

(* The records of the blocks that a file had and has. *)
LEMMA DeSigue ==
  ASSUME Orden, Orden', Duenios, Duenios', Limpios, [Next]_vars, perdidas = {}, NEW d \in Duenio, NEW e \in Duenio, NEW bs,
         bs \subseteq Tiene(d), bs \subseteq Tiene(e)'
  PROVE  De(bs) \subseteq De(Tiene(e))'
BY DiscoSigue DEF Duenios, UnDuenio, De

(* The files of a table whose compaction runs. *)
LEMMA TieneActiva ==
  ASSUME Orden, Orden', NEW t \in Tablas, comp[t].paso # "fin", comp'[t].paso # "fin"
  PROVE  /\ \A f \in Archivo : f[1] = t => Tiene(f) = IF f \in DOMAIN archivos THEN Quedan(comp[t], f, archivos[f]) ELSE {}
         /\ \A f \in Archivo : f[1] = t => Tiene(f)' = IF f \in DOMAIN archivos' THEN Quedan(comp'[t], f, archivos'[f]) ELSE {}
BY EnManosFin, EnManosFinPrima, TieneLibre

LEMMA ClaseTipo ==
  ASSUME NEW t \in Tablas, NEW k \in Nat \ {0}
  PROVE  /\ <<t, "bin", k>> \in Archivo /\ <<t, "bin", k>>[1] = t /\ <<t, "bin", k>>[2] = "bin" /\ <<t, "bin", k>>[3] = k
         /\ <<t, "tmp", k>> \in Archivo /\ <<t, "tmp", k>>[1] = t /\ <<t, "tmp", k>>[2] = "tmp" /\ <<t, "tmp", k>>[3] = k
         /\ <<t, "tmpc", k>> \in Archivo /\ <<t, "tmpc", k>>[1] = t /\ <<t, "tmpc", k>>[2] = "tmpc" /\ <<t, "tmpc", k>>[3] = k
BY DEF Archivo

LEMMA BinTipo ==
  ASSUME NEW t \in Tablas, NEW k \in 1..Particiones
  PROVE  <<t, "bin", k>> \in Archivo /\ <<t, "bin", k>>[1] = t /\ <<t, "bin", k>>[2] = "bin" /\ <<t, "bin", k>>[3] = k
<1>1. k \in Nat \ {0}
  BY FSAssumption
<1> QED
  BY <1>1, ClaseTipo

LEMMA LaBin ==
  ASSUME NEW t \in Tablas, NEW k \in 1..Particiones
  PROVE  \E f \in Archivo : f = <<t, "bin", k>> /\ f[1] = t /\ f[2] = "bin" /\ f[3] = k
<1>1. <<t, "bin", k>> \in Archivo
  BY BinTipo
<1> WITNESS <<t, "bin", k>> \in Archivo
<1> QED
  BY BinTipo

LEMMA QuedanBin ==
  ASSUME NEW c, NEW f, NEW s, f[2] = "bin", c.paso # "descargar" \/ f[3] # c.i
  PROVE  Quedan(c, f, s) = Utiles(s)
BY DEF Quedan

LEMMA CompactadaAjena ==
  ASSUME Orden, Orden', Duenios, Duenios', Limpios, [Next]_vars, NEW t \in Tablas, Ajena(t), Compactada(t)
  PROVE  Compactada(t)'
<1>1. PICK c : c = comp[t]
  OBVIOUS
<1>2. comp'[t] = c
  BY <1>1, CompSigue
<1>3. CASE c.paso \notin {"descargar", "actualizar", "reservar", "guardar"}
  BY <1>2, <1>3 DEF Compactada, Vaciada
<1>4. CASE c.paso \in {"descargar", "actualizar", "reservar", "guardar"}
  <2>1. c.paso # "fin" /\ c.i \in Nat
    BY <1>1, <1>4 DEF Orden, Tipos, TComp
  <2>2. ASSUME NEW f \in Archivo, f[1] = t, f[2] # "tmp" PROVE Tiene(f)' = Tiene(f)
    BY <1>1, <1>2, <2>1, <2>2, EnManosFin, EnManosFinPrima, TieneSigue DEF DelDump
  <2>3. ASSUME NEW f \in Archivo, f[1] = t, f[2] # "tmp", f \in DOMAIN archivos PROVE archivos'[f] = archivos[f]
    BY <2>3, ArchivoSigue DEF DelDump
  <2>4. ASSUME c.paso = "actualizar" PROVE ToSet(c.bs) \subseteq ToSet(archivos'[<<t, "tmpc", c.i>>])
    BY <1>1, <2>3, <2>4, TmpcActual, TieneDe DEF Orden, Compactada
  <2>5. \A k \in 1..Particiones : Vaciada(c, k) => Tiene(<<t, "bin", k>>)' = {}
    BY <1>1, <2>2, BinTipo DEF Compactada
  <2>6. ASSUME perdidas' = {}, c.paso \in {"reservar", "guardar"}, NEW k \in 1..Particiones, k < c.i
        PROVE  ToSet(c.almacen[k]) \subseteq De(Tiene(<<t, "bin", k>>))'
    BY <1>1, <2>2, <2>6, PerdidasSigue, LaBin, DuenioTipo, DeSigue DEF Compactada
  <2>7. ASSUME perdidas' = {}, c.paso = "guardar" PROVE ToSet(c.almacen[c.i]) \subseteq De(Reservados(t))'
    BY <1>1, <1>2, <2>7, PerdidasSigue, DuenioTipo, TieneReservados, DeSigue DEF Reservados, Compactada
  <2> QED
    BY <1>2, <2>4, <2>5, <2>6, <2>7 DEF Compactada
<1> QED
  BY <1>3, <1>4

(* What a compaction does not disturb of the partitions.                   *)
LEMMA CompactadaFuera ==
  ASSUME Orden, NEW t \in Tablas, comp'[t].paso \notin {"actualizar", "reservar", "guardar"},
         comp'[t].paso = "descargar" => comp'[t].i = 1
  PROVE  Compactada(t)'
BY DEF Vaciada, Compactada

LEMMA DescargarCompactada ==
  ASSUME Orden, Orden', NEW t \in Tablas, Compactada(t), DescargarBloque(t) \/ RecrearBloqueVacio(t)
  PROVE  Compactada(t)'
<1>1. PICK c : c = comp[t]
  OBVIOUS
<1>2. comp \in [Tablas -> TComp] /\ c.paso = "descargar" /\ archivos' = archivos /\ c.i \in 1..Particiones
  BY <1>1 DEF DescargarBloque, RecrearBloqueVacio, Comp, Orden, Tipos, EnRango
<1>3. comp'[t].paso = c.paso /\ comp'[t].i = c.i
  <2>1. CASE DescargarBloque(t)
    BY <1>1, <1>2, <2>1 DEF DescargarBloque, TComp
  <2>2. CASE RecrearBloqueVacio(t)
    BY <1>1, <1>2, <2>2 DEF RecrearBloqueVacio, TComp
  <2> QED
    BY <2>1, <2>2
<1>4. ASSUME NEW k \in 1..Particiones, k < c.i PROVE Tiene(<<t, "bin", k>>)' = {}
  BY <1>1, <1>2, <1>3, <1>4, LaBin, QuedanBin, TieneActiva DEF Compactada, Vaciada
<1> QED
  BY <1>2, <1>3, <1>4 DEF Compactada, Vaciada

LEMMA VaciarCompactada ==
  ASSUME Orden, Orden', NEW t \in Tablas, Compactada(t), VaciarParticion(t)
  PROVE  Compactada(t)'
<1>1. PICK c : c = comp[t]
  OBVIOUS
<1>2. comp \in [Tablas -> TComp] /\ c \in TComp /\ c.paso = "descargar" /\ c.i \in 1..Particiones /\ Particiones \in Nat
  BY <1>1, FSAssumption DEF VaciarParticion, Comp, Orden, Tipos, EnRango
<1>8. PICK i \in 1..Particiones : i = c.i
  BY <1>2
<1>9. PICK f0 \in Archivo : f0 = <<t, "bin", i>> /\ f0[1] = t /\ f0[2] = "bin" /\ f0[3] = i
  BY LaBin
<1>3. f0 = <<t, "bin", c.i>> /\ f0[3] = c.i
  BY <1>8, <1>9
<1>4. archivos' = [archivos EXCEPT ![f0] = <<>>]
  BY <1>1, <1>3 DEF VaciarParticion, LaParticion
<1>5. PICK s : s = archivos[<<t, "tmpc", 1>>]
  OBVIOUS
<1>6. CASE c.i < Particiones
  <2> DEFINE c1 == [c EXCEPT !.i = @ + 1, !.j = 1]
  <2>1. comp' = [comp EXCEPT ![t] = c1]
    BY <1>1, <1>6 DEF VaciarParticion
  <2>2. c1.paso = "descargar" /\ c1.i = c.i + 1
    BY <1>2 DEF TComp
  <2> HIDE DEF c1
  <2>3. comp'[t].paso = "descargar" /\ comp'[t].i = c.i + 1
    BY <1>2, <2>1, <2>2
  <2>4. ASSUME NEW k \in 1..Particiones, k < c.i + 1 PROVE Tiene(<<t, "bin", k>>)' = {}
    <3>1. PICK f \in Archivo : f = <<t, "bin", k>> /\ f[1] = t /\ f[2] = "bin" /\ f[3] = k
      BY LaBin
    <3>2. k # c.i + 1
      BY <1>2, <2>4
    <3>3. Quedan(comp'[t], f, archivos'[f]) = Utiles(archivos'[f])
      BY <2>3, <3>1, <3>2, QuedanBin
    <3>4. Tiene(f)' = IF f \in DOMAIN archivos' THEN Utiles(archivos'[f]) ELSE {}
      BY <1>1, <1>2, <2>3, <3>1, <3>3, TieneActiva
    <3>5. CASE k = c.i
      <4>1. f = f0
        BY <1>3, <3>1, <3>5
      <4>2. f \in DOMAIN archivos' => archivos'[f] = <<>>
        BY <1>4, <4>1
      <4>3. Utiles(<<>>) = {}
        BY DEF Utiles, ToSet
      <4> QED
        BY <3>1, <3>4, <4>2, <4>3
    <3>6. CASE k < c.i
      <4>1. f # f0 /\ k # c.i
        BY <1>2, <1>3, <3>1, <3>6
      <4>2. Quedan(comp[t], f, archivos[f]) = Utiles(archivos[f])
        BY <1>1, <3>1, <4>1, QuedanBin
      <4>3. Tiene(f) = IF f \in DOMAIN archivos THEN Utiles(archivos[f]) ELSE {}
        BY <1>1, <1>2, <2>3, <3>1, <4>2, TieneActiva
      <4>4. Tiene(f)' = Tiene(f)
        BY <1>4, <3>4, <4>1, <4>3
      <4>5. Tiene(f) = {}
        BY <1>1, <1>2, <3>1, <3>6 DEF Compactada, Vaciada
      <4> QED
        BY <3>1, <4>4, <4>5
    <3> QED
      BY <1>2, <2>4, <3>5, <3>6
  <2> QED
    BY <2>3, <2>4 DEF Compactada, Vaciada
<1>7. CASE ~(c.i < Particiones)
  <2> DEFINE c1 == [c EXCEPT !.paso = "actualizar", !.i = 1, !.bs = s]
  <2>1. comp' = [comp EXCEPT ![t] = c1]
    BY <1>1, <1>5, <1>7 DEF VaciarParticion
  <2>2. c1.paso = "actualizar" /\ c1.i = 1 /\ c1.bs = s
    BY <1>2 DEF TComp
  <2> HIDE DEF c1
  <2>3. comp'[t].paso = "actualizar" /\ comp'[t].i = 1 /\ comp'[t].bs = s
    BY <1>2, <2>1, <2>2
  <2>4. archivos'[<<t, "tmpc", 1>>] = s
    BY <1>1, <1>2, <1>3, <1>4, <1>5, TablaActiva, TablaDe DEF Activa, Orden, CadenaDe, TTabla
  <2>5. ASSUME NEW k \in 1..Particiones PROVE Tiene(<<t, "bin", k>>)' = {}
    <3>1. PICK f \in Archivo : f = <<t, "bin", k>> /\ f[1] = t /\ f[2] = "bin" /\ f[3] = k
      BY LaBin
    <3>3. Quedan(comp'[t], f, archivos'[f]) = Utiles(archivos'[f])
      BY <2>3, <3>1, QuedanBin
    <3>4. Tiene(f)' = IF f \in DOMAIN archivos' THEN Utiles(archivos'[f]) ELSE {}
      BY <1>1, <1>2, <2>3, <3>1, <3>3, TieneActiva
    <3>5. CASE k = c.i
      <4>1. f = f0
        BY <1>3, <3>1, <3>5
      <4>2. f \in DOMAIN archivos' => archivos'[f] = <<>>
        BY <1>4, <4>1
      <4>3. Utiles(<<>>) = {}
        BY DEF Utiles, ToSet
      <4> QED
        BY <3>1, <3>4, <4>2, <4>3
    <3>6. CASE k # c.i
      <4>1. f # f0 /\ k < c.i
        BY <1>2, <1>3, <1>7, <3>1, <3>6
      <4>2. Quedan(comp[t], f, archivos[f]) = Utiles(archivos[f])
        BY <1>1, <3>1, <3>6, QuedanBin
      <4>3. Tiene(f) = IF f \in DOMAIN archivos THEN Utiles(archivos[f]) ELSE {}
        BY <1>1, <1>2, <2>3, <3>1, <4>2, TieneActiva
      <4>4. Tiene(f)' = Tiene(f)
        BY <1>4, <3>4, <4>1, <4>3
      <4>5. Tiene(f) = {}
        BY <1>1, <1>2, <3>1, <4>1 DEF Compactada, Vaciada
      <4> QED
        BY <3>1, <4>4, <4>5
    <3> QED
      BY <3>5, <3>6
  <2>6. ToSet(comp'[t].bs) \subseteq ToSet(archivos'[<<t, "tmpc", comp'[t].i>>])
    BY <2>3, <2>4
  <2> QED
    BY <2>3, <2>5, <2>6 DEF Compactada, Vaciada
<1> QED
  BY <1>6, <1>7

LEMMA ActualizarCompactada ==
  ASSUME Orden, Orden', NEW t \in Tablas, Compactada(t), ActualizarBloque(t)
  PROVE  Compactada(t)'
<1>1. PICK c : c = comp[t]
  OBVIOUS
<1>2. comp \in [Tablas -> TComp] /\ c \in TComp /\ c.paso = "actualizar" /\ archivos' = archivos /\ c.bs # <<>> /\ c.bs \in Seq(Sectores)
  BY <1>1 DEF ActualizarBloque, Comp, Orden, Tipos, TComp
<1>3. PICK x : x = Tail(c.bs)
  OBVIOUS
<1>4. comp'[t].paso = "actualizar" /\ comp'[t].i = c.i /\ comp'[t].bs = x
  BY <1>1, <1>2, <1>3 DEF ActualizarBloque, TComp
<1>5. ToSet(x) \subseteq ToSet(c.bs)
  BY <1>2, <1>3, HeadTailProperties, LenProperties DEF ToSet
<1>6. ASSUME NEW k \in 1..Particiones PROVE Tiene(<<t, "bin", k>>)' = {}
  <2>1. PICK f \in Archivo : f = <<t, "bin", k>> /\ f[1] = t /\ f[2] = "bin" /\ f[3] = k
    BY LaBin
  <2>2. Quedan(comp[t], f, archivos[f]) = Utiles(archivos[f]) /\ Quedan(comp'[t], f, archivos[f]) = Utiles(archivos[f])
    BY <1>1, <1>2, <1>4, <2>1, QuedanBin
  <2>3. Tiene(f)' = Tiene(f)
    BY <1>1, <1>2, <1>4, <2>1, <2>2, TieneActiva, ZenonT(40)
  <2>4. Tiene(f) = {}
    BY <1>1, <1>2, <2>1 DEF Compactada, Vaciada
  <2> QED
    BY <2>1, <2>3, <2>4
<1>7. ToSet(comp'[t].bs) \subseteq ToSet(archivos'[<<t, "tmpc", comp'[t].i>>])
  BY <1>1, <1>2, <1>4, <1>5 DEF Compactada
<1> QED
  BY <1>4, <1>6, <1>7 DEF Compactada, Vaciada

LEMMA BorrarCompactada ==
  ASSUME Orden, Orden', NEW t \in Tablas, Compactada(t), BorrarTmpc(t)
  PROVE  Compactada(t)'
<1>1. PICK c : c = comp[t]
  OBVIOUS
<1>2. comp \in [Tablas -> TComp] /\ c \in TComp /\ c.paso = "actualizar"
  BY <1>1 DEF BorrarTmpc, Comp, Orden, Tipos
<1>3. /\ LaTabla(t).compactados \in Nat /\ c.i \in 1..(LaTabla(t).compactados - 1)
      /\ \A k \in 1..(LaTabla(t).compactados - 1) : k >= c.i <=> <<t, "tmpc", k>> \in DOMAIN archivos
  BY <1>1, <1>2, TmpcActual
<1>4. PICK f0 : f0 = <<t, "tmpc", c.i>>
  OBVIOUS
<1>5. archivos' = [f \in DOMAIN archivos \ {f0} |-> archivos[f]]
  BY <1>1, <1>4 DEF BorrarTmpc
<1>6. PICK s : s = archivos[<<t, "tmpc", c.i + 1>>]
  OBVIOUS
<1> DEFINE ultimo == c.i + 1 = LaTabla(t).compactados
           uno == 1
           c1 == [c EXCEPT !.paso = "reservar", !.i = uno]
           c2 == [c EXCEPT !.i = c.i + 1, !.bs = s]
<1>7. comp' = IF ultimo THEN [comp EXCEPT ![t] = c1] ELSE [comp EXCEPT ![t] = c2]
  BY <1>1, <1>6 DEF BorrarTmpc
<1> HIDE DEF uno
<1>8. c1.paso = "reservar" /\ c1.i = uno /\ c2.paso = "actualizar" /\ c2.i = c.i + 1 /\ c2.bs = s
  BY <1>2 DEF TComp
<1> HIDE DEF c1, c2, ultimo
<1>9. comp'[t] = IF ultimo THEN c1 ELSE c2
  BY <1>2, <1>7
<1>10. comp'[t].paso \in {"reservar", "actualizar"}
  BY <1>8, <1>9
<1>11. ASSUME NEW k \in 1..Particiones PROVE Tiene(<<t, "bin", k>>)' = {}
  <2>1. PICK f \in Archivo : f = <<t, "bin", k>> /\ f[1] = t /\ f[2] = "bin" /\ f[3] = k
    BY LaBin
  <2>2. f # f0
    BY <1>4, <2>1
  <2>3. Quedan(comp[t], f, archivos[f]) = Utiles(archivos[f]) /\ Quedan(comp'[t], f, archivos'[f]) = Utiles(archivos'[f])
    BY <1>1, <1>2, <1>10, <2>1, QuedanBin
  <2>4. (f \in DOMAIN archivos' <=> f \in DOMAIN archivos) /\ (f \in DOMAIN archivos => archivos'[f] = archivos[f])
    BY <1>5, <2>2
  <2>5. Tiene(f)' = Tiene(f)
    BY <1>1, <1>2, <1>10, <2>1, <2>3, <2>4, TieneActiva
  <2>6. Tiene(f) = {}
    BY <1>1, <1>2, <2>1 DEF Compactada, Vaciada
  <2> QED
    BY <2>1, <2>5, <2>6
<1>12. CASE ultimo
  BY <1>8, <1>9, <1>11, <1>12 DEF uno, Compactada
<1>13. CASE ~ultimo
  <2>1. comp'[t].paso = "actualizar" /\ comp'[t].i = c.i + 1 /\ comp'[t].bs = s
    BY <1>8, <1>9, <1>13
  <2>2. PICK j : j = c.i + 1
    OBVIOUS
  <2>3. j \in 1..(LaTabla(t).compactados - 1) /\ j >= c.i /\ j # c.i
    BY <1>3, <1>13, <2>2 DEF ultimo
  <2>4. <<t, "tmpc", j>> \in DOMAIN archivos /\ <<t, "tmpc", j>> # f0
    BY <1>3, <1>4, <2>3
  <2>5. archivos'[<<t, "tmpc", j>>] = s
    BY <1>5, <1>6, <2>2, <2>4
  <2>6. ToSet(comp'[t].bs) \subseteq ToSet(archivos'[<<t, "tmpc", comp'[t].i>>])
    BY <2>1, <2>2, <2>5
  <2> QED
    BY <1>11, <2>1, <2>6 DEF Compactada
<1> QED
  BY <1>12, <1>13

LEMMA PorCap ==
  ASSUME NEW l \in Nat, NEW n \in Nat, NEW m \in Nat, l <= n * Cap, m >= n
  PROVE  l <= m * Cap
<1>1. Cap \in Nat
  BY FSAssumption
<1>2. PICK e \in Nat : m = n + e
  OBVIOUS
<1>3. m * Cap = n * Cap + e * Cap /\ e * Cap \in Nat /\ n * Cap \in Nat
  BY <1>1, <1>2
<1> QED
  BY <1>3

(* The records that a compaction puts in the blocks it reserves. *)
LEMMA ReservarEscribe ==
  ASSUME Orden, NEW t \in Tablas, Reservar(t), perdidas' = {}
  PROVE  /\ perdidas = {}
         /\ ToSet(comp[t].almacen[comp[t].i]) \subseteq De(Reservados(t))'
         /\ comp'[t].paso = "guardar" /\ comp'[t].i = comp[t].i /\ comp'[t].almacen = comp[t].almacen
<1>1. PICK regs : regs = comp[t].almacen[comp[t].i]
  OBVIOUS
<1>2. PICK n : n = Enteros(Len(regs))
  OBVIOUS
<1>3. PICK bs : bs = Primeros(n)
  OBVIOUS
<1>4. PICK s : s = LosDeReservar(bs, n)
  OBVIOUS
<1>5. comp \in [Tablas -> TComp]
  BY DEF Orden, Tipos
<1>6. /\ disco' = Escribir(s, regs) /\ perdidas' = perdidas \cup Falta(bs, n) \cup Pisa(bs)
      /\ comp' = [comp EXCEPT ![t].paso = "guardar", ![t].bs = s]
  BY <1>1, <1>2, <1>3, <1>4 DEF Reservar, LosDeReservar
<1>7. comp'[t].paso = "guardar" /\ comp'[t].i = comp[t].i /\ comp'[t].almacen = comp[t].almacen /\ comp'[t].bs = s
  BY <1>5, <1>6 DEF TComp
<1>8. regs \in Seq(Pedidos) /\ Len(regs) \in Nat
  BY <1>1, ReservarTipo DEF Reservar, Comp, Orden
<1>9. n \in Nat /\ Len(regs) <= n * Cap
  BY <1>2, <1>8, EnterosTipo
<1>10. bs \in SUBSET Bloques /\ IsFiniteSet(bs) /\ Cardinality(bs) \in Nat
  BY <1>3, <1>9, PrimerosTipo, FS_CardinalityType
<1>11. Cardinality(bs) >= n
  BY <1>6, <1>9, <1>10, SMTT(30) DEF Falta
<1>12. s = Ordenados(bs)
  BY <1>4, <1>9, <1>10, <1>11, LosDeReservarTipo
<1>13. /\ s \in Seq(Bloques) /\ Len(s) = Cardinality(bs) /\ ToSet(s) \subseteq Bloques
       /\ \A i, j \in DOMAIN s : s[i] = s[j] => i = j
  BY <1>10, <1>12, OrdenadosTipo
<1>14. s \in Seq(Sectores)
  BY <1>13, SectoresSeq
<1>15. Len(regs) <= Len(s) * Cap
  BY <1>8, <1>9, <1>10, <1>11, <1>13, PorCap
<1>16. \A r \in ToSet(regs) : \E b \in ToSet(s) : r \in ToSet(Escribir(s, regs)[b])
  BY <1>8, <1>13, <1>14, <1>15, EscribirCabe DEF Orden
<1>17. Reservados(t)' = ToSet(s)
  BY <1>7, <1>13, SinBloqueLibre DEF Reservados, Orden
<1>19. ToSet(regs) \subseteq De(Reservados(t))'
  BY <1>6, <1>16, <1>17 DEF De
<1> QED
  BY <1>1, <1>6, <1>7, <1>19

LEMMA ReservarCompactada ==
  ASSUME Orden, Orden', Duenios, Duenios', Limpios, [Next]_vars, NEW t \in Tablas, Compactada(t), Reservar(t)
  PROVE  Compactada(t)'
<1>1. PICK c : c = comp[t]
  OBVIOUS
<1>2. comp \in [Tablas -> TComp] /\ c.paso = "reservar" /\ archivos' = archivos /\ c.i \in 1..Particiones
  BY <1>1 DEF Reservar, Comp, Orden, Tipos, EnRango
<1>3. comp'[t].paso = "guardar" /\ comp'[t].i = c.i /\ comp'[t].almacen = c.almacen
  BY <1>1, <1>2 DEF Reservar, TComp
<1>4. ASSUME NEW f \in Archivo, f[1] = t, f[2] = "bin" PROVE Tiene(f)' = Tiene(f)
  <2>1. Quedan(comp[t], f, archivos[f]) = Utiles(archivos[f]) /\ Quedan(comp'[t], f, archivos[f]) = Utiles(archivos[f])
    BY <1>1, <1>2, <1>3, <1>4, QuedanBin
  <2> QED
    BY <1>1, <1>2, <1>3, <1>4, <2>1, TieneActiva, ZenonT(60)
<1>5. \A k \in 1..Particiones : k >= c.i => Tiene(<<t, "bin", k>>)' = {}
  BY <1>1, <1>2, <1>4, BinTipo DEF Compactada, Vaciada
<1>6. ASSUME perdidas' = {}, NEW k \in 1..Particiones, k < c.i
      PROVE  ToSet(c.almacen[k]) \subseteq De(Tiene(<<t, "bin", k>>))'
  <2>1. perdidas = {}
    BY <1>6, PerdidasSigue
  <2>2. PICK f \in Archivo : f = <<t, "bin", k>> /\ f[1] = t /\ f[2] = "bin"
    BY LaBin
  <2>3. Tiene(f)' = Tiene(f) /\ f \in Duenio
    BY <1>4, <2>2, DuenioTipo
  <2>4. De(Tiene(f)) \subseteq De(Tiene(f))'
    BY <2>1, <2>3, DeSigue
  <2>5. ToSet(c.almacen[k]) \subseteq De(Tiene(f))
    BY <1>1, <1>2, <1>6, <2>1, <2>2 DEF Compactada
  <2> QED
    BY <2>2, <2>4, <2>5
<1>7. ASSUME perdidas' = {} PROVE ToSet(c.almacen[c.i]) \subseteq De(Reservados(t))'
  BY <1>1, <1>7, ReservarEscribe
<1> QED
  BY <1>3, <1>5, <1>6, <1>7 DEF Compactada, Vaciada

(* The files of a table before and after a step of its compaction. *)
LEMMA TieneCompactando ==
  ASSUME Orden, NEW t \in Tablas, Compactacion(t)
  PROVE  /\ comp[t].paso # "fin"
         /\ \A f \in Archivo : f[1] = t => Tiene(f) = IF f \in DOMAIN archivos THEN Quedan(comp[t], f, archivos[f]) ELSE {}
         /\ \A f \in Archivo : f[1] = t => Tiene(f)' = IF f \in DOMAIN archivos' THEN Quedan(comp'[t], f, archivos'[f]) ELSE {}
<1>1. comp[t].paso # "fin"
  BY DEF Compactacion, Arrancar, Salir, Renombrar, DescargarBloque, RecrearBloqueVacio, VaciarParticion, ActualizarBloque,
     BorrarTmpc, Reservar, Guardar, Comp
<1>2. \A f : EnManos(f)' <=> EnManos(f)
  BY CompQuieto, MismosEnManos
<1>3. \A f \in Archivo : f[1] = t => ~EnManos(f) /\ ~EnManos(f)'
  BY <1>1, <1>2, EnManosFin
<1> QED
  BY <1>1, <1>3, TieneLibre

(* The file that a compaction writes takes the blocks it had reserved. *)
LEMMA GuardarTiene ==
  ASSUME Orden, NEW t \in Tablas, Guardar(t)
  PROVE  \E i \in 1..Particiones :
           /\ comp[t].i = i /\ comp[t].almacen \in Listas
           /\ \A f \in Archivo : f[1] = t /\ f # <<t, "bin", i>> =>
                /\ Tiene(f)' = Tiene(f)
                /\ f \in DOMAIN archivos' <=> f \in DOMAIN archivos
           /\ Tiene(<<t, "bin", i>>)' = Reservados(t)
           /\ <<t, "bin", i>> \in DOMAIN archivos'
           /\ IF i = Particiones THEN comp'[t].paso \in {"dormido", "fin"} /\ comp'[t].almacen = <<>>
              ELSE comp'[t].paso = "reservar" /\ comp'[t].i = i + 1 /\ comp'[t].almacen = comp[t].almacen
<1>1. PICK c : c = comp[t]
  OBVIOUS
<1>2. comp \in [Tablas -> TComp] /\ c \in TComp /\ c.paso = "guardar" /\ c.i \in 1..Particiones /\ c.almacen \in Listas
  BY <1>1 DEF Guardar, Comp, Orden, Tipos, EnRango
<1>3. PICK i \in 1..Particiones : i = c.i
  BY <1>2
<1>4. PICK f0 \in Archivo : f0 = <<t, "bin", i>> /\ f0[1] = t
  BY LaBin
<1>5. archivos' = ConArchivo(f0, c.bs)
  BY <1>1, <1>3, <1>4 DEF Guardar
<1>6. PICK sigue : sigue = Dormir(t)
  OBVIOUS
<1>7. sigue \in {"dormido", "fin"}
  BY <1>6, DormirTipo
<1> DEFINE c1 == [c EXCEPT !.paso = sigue, !.bs = <<>>, !.almacen = <<>>, !.i = 0]
           c2 == [c EXCEPT !.paso = "reservar", !.bs = <<>>, !.i = i + 1]
<1>8. comp' = IF i = Particiones THEN [comp EXCEPT ![t] = c1] ELSE [comp EXCEPT ![t] = c2]
  BY <1>1, <1>3, <1>6 DEF Guardar
<1>9. c1.paso = sigue /\ c1.almacen = <<>> /\ c2.paso = "reservar" /\ c2.i = i + 1 /\ c2.almacen = c.almacen
  BY <1>2 DEF TComp
<1> HIDE DEF c1, c2
<1>10. comp'[t] = IF i = Particiones THEN c1 ELSE c2
  BY <1>2, <1>8
<1>11. /\ comp'[t].paso \notin {"descargar", "actualizar"}
       /\ IF i = Particiones THEN comp'[t].paso \in {"dormido", "fin"} /\ comp'[t].almacen = <<>>
          ELSE comp'[t].paso = "reservar" /\ comp'[t].i = i + 1 /\ comp'[t].almacen = c.almacen
  BY <1>7, <1>9, <1>10
<1>13. /\ f0 \in DOMAIN archivos' /\ archivos'[f0] = c.bs
       /\ \A f \in Archivo \ {f0} : (f \in DOMAIN archivos' <=> f \in DOMAIN archivos) /\ (f \in DOMAIN archivos => archivos'[f] = archivos[f])
  BY <1>5 DEF ConArchivo
<1>14. Compactacion(t)
  BY DEF Compactacion
<1>15. ASSUME NEW f \in Archivo, f[1] = t
       PROVE  /\ Tiene(f)' = IF f \in DOMAIN archivos' THEN Utiles(archivos'[f]) ELSE {}
              /\ Tiene(f) = IF f \in DOMAIN archivos THEN Utiles(archivos[f]) ELSE {}
  BY <1>1, <1>2, <1>11, <1>14, <1>15, QuedanUtiles, TieneCompactando
<1>16. \A f \in Archivo : f[1] = t /\ f # f0 => Tiene(f)' = Tiene(f) /\ (f \in DOMAIN archivos' <=> f \in DOMAIN archivos)
  BY <1>13, <1>15
<1>17. Tiene(f0)' = Reservados(t)
  BY <1>1, <1>2, <1>4, <1>13, <1>15 DEF Reservados, Utiles
<1> QED
  BY <1>1, <1>2, <1>3, <1>4, <1>11, <1>13, <1>16, <1>17

LEMMA GuardarCompactada ==
  ASSUME Orden, Orden', Duenios, Duenios', Limpios, [Next]_vars, NEW t \in Tablas, Compactada(t), Guardar(t)
  PROVE  Compactada(t)'
<1>1. PICK c : c = comp[t]
  OBVIOUS
<1>2. c.paso = "guardar" /\ c.i \in 1..Particiones /\ Particiones \in Nat /\ disco' = disco /\ perdidas' = perdidas
  BY <1>1, GuardarTiene, FSAssumption DEF Guardar, Comp
<1>3. CASE c.i = Particiones
  BY <1>1, <1>3, GuardarTiene, CompactadaFuera
<1>4. CASE c.i # Particiones
  <2>1. comp'[t].paso = "reservar" /\ comp'[t].i = c.i + 1 /\ comp'[t].almacen = c.almacen
    BY <1>1, <1>4, GuardarTiene
  <2>2. ASSUME NEW k \in 1..Particiones, k # c.i PROVE Tiene(<<t, "bin", k>>)' = Tiene(<<t, "bin", k>>)
    <3>1. PICK f \in Archivo : f = <<t, "bin", k>> /\ f[1] = t /\ f[3] = k
      BY LaBin
    <3>2. f # <<t, "bin", c.i>>
      BY <2>2, <3>1
    <3> QED
      BY <1>1, <3>1, <3>2, GuardarTiene
  <2>3. ASSUME NEW k \in 1..Particiones, k >= c.i + 1 PROVE Tiene(<<t, "bin", k>>)' = {}
    BY <1>1, <1>2, <2>2, <2>3 DEF Compactada, Vaciada
  <2>4. ASSUME perdidas = {}, NEW k \in 1..Particiones, k < c.i + 1
        PROVE  ToSet(c.almacen[k]) \subseteq De(Tiene(<<t, "bin", k>>))'
    <3>1. CASE k = c.i
      <4>1. Tiene(<<t, "bin", k>>)' = Reservados(t)
        BY <1>1, <3>1, GuardarTiene
      <4>2. ToSet(c.almacen[k]) \subseteq De(Reservados(t))
        BY <1>1, <1>2, <2>4, <3>1 DEF Compactada
      <4> QED
        BY <1>2, <4>1, <4>2 DEF De
    <3>2. CASE k # c.i
      BY <1>1, <1>2, <2>2, <2>4, <3>2 DEF Compactada, De
    <3> QED
      BY <3>1, <3>2
  <2> QED
    BY <1>2, <2>1, <2>3, <2>4 DEF Compactada, Vaciada
<1> QED
  BY <1>3, <1>4

LEMMA PasoCompactadas ==
  ASSUME Orden, Orden', Duenios, Duenios', Limpios, Compactadas, [Next]_vars
  PROVE  Compactadas'
<1> SUFFICES ASSUME NEW t \in Tablas PROVE Compactada(t)'
  BY DEF Compactadas
<1>1. Compactada(t) /\ comp \in [Tablas -> TComp]
  BY DEF Compactadas, Orden, Tipos
<1>2. CASE Ajena(t)
  BY <1>1, <1>2, CompactadaAjena
<1>3. ASSUME NEW p \in Pedidos, Tabla[p] = t, CrearParticiones(p) PROVE Compactada(t)'
  BY <1>1, <1>3, CompactadaFuera DEF CrearParticiones, TComp
<1>4. ASSUME NEW p \in Pedidos, Tabla[p] = t, EliminarContenido(p) PROVE Compactada(t)'
  BY <1>4, CompactadaFuera DEF EliminarContenido, Borrando, EnCurso, Bajando, Orden, Vidas, VidaDeDrop
<1>5. CASE Arrancar(t) \/ Salir(t)
  <2>1. comp'[t].paso \in {"dormido", "fin"}
    BY <1>1, <1>5 DEF Arrancar, Salir, TComp
  <2> QED
    BY <2>1, CompactadaFuera
<1>6. CASE Renombrar(t)
  BY <1>6, RenombrarComp, CompactadaFuera
<1>7. CASE Compactacion(t)
  BY <1>1, <1>5, <1>6, <1>7, DescargarCompactada, VaciarCompactada, ActualizarCompactada, BorrarCompactada, ReservarCompactada,
     GuardarCompactada DEF Compactacion
<1> QED
  BY <1>2, <1>3, <1>4, <1>7 DEF Ajena

-----------------------------------------------------------------------------
(* No step takes a record from a table without leaving one no older.       *)
Firme == Orden /\ Duenios /\ Cuentas /\ Nodos /\ Volcados /\ Limpios /\ Vacias /\ Compactadas

Conserva(t) == \A r \in Seguros(t) : \E z \in Seguros(t)' : Cubre(z, r)

LEMMA SegurosTipo ==
  ASSUME Orden, Duenios, NEW t \in Tablas
  PROVE  Seguros(t) \subseteq Pedidos
<1>1. ASSUME NEW i \in DOMAIN mem PROVE ToSet(mem[i].regs) \subseteq Pedidos
  BY MemTipo, LenProperties, ElementOfSeq DEF Orden, TNodo, ToSet
<1>2. EnMem(t) \subseteq Pedidos
  BY <1>1 DEF EnMem, NodosDe
<1>3. ASSUME NEW f \in DOMAIN archivos PROVE De(Tiene(f)) \subseteq Pedidos
  BY TieneDe, DuenioTipo, LenProperties, ElementOfSeq DEF Orden, Duenios, UnDuenio, Tipos, Sectores, ToSet, De
<1>4. EnArchivos(t) \subseteq Pedidos
  BY <1>3 DEF EnArchivos
<1>5. EnAlmacen(t) \subseteq Pedidos
  <2>1. comp[t].almacen = <<>> \/ comp[t].almacen \in Listas
    BY DEF Orden, Tipos, TComp
  <2>2. ASSUME NEW alm \in Listas, NEW k \in 1..Particiones PROVE ToSet(alm[k]) \subseteq Pedidos
    BY LenProperties, ElementOfSeq DEF Listas, ToSet
  <2> QED
    BY <2>1, <2>2 DEF EnAlmacen, EnListas
<1> QED
  BY <1>2, <1>4, <1>5 DEF Seguros

LEMMA ConservaPorPartes ==
  ASSUME Orden, Duenios, NEW t \in Tablas,
         \A r \in EnMem(t) : r \in Seguros(t)',
         \A f \in DOMAIN archivos : f[1] = t /\ Cierto(f) =>
            \A r \in De(Tiene(f)) \cap Cabe(f) : r \in Seguros(t)' \/ \E z \in Seguros(t)' : Cubre(z, r),
         \A r \in EnAlmacen(t) : r \in Seguros(t)' \/ \E z \in Seguros(t)' : Cubre(z, r)
  PROVE  Conserva(t)
BY SegurosTipo, CubreOrden DEF Conserva, EnArchivos, Seguros

(* What stays in a file that a SELECT reads. *)
LEMMA SigueEnArchivo ==
  ASSUME Firme, Firme', [Next]_vars, perdidas = {}, NEW t \in Tablas, NEW f \in Archivo, NEW g \in DOMAIN archivos',
         g[1] = t, Cierto(g)', NEW bs, bs \subseteq Tiene(f), bs \subseteq Tiene(g)', Cabe(f) \subseteq Cabe(g)
  PROVE  De(bs) \cap Cabe(f) \subseteq Seguros(t)'
<1>1. g \in Archivo
  BY DEF Firme, Orden, Tipos
<1>2. f \in Duenio /\ g \in Duenio
  BY <1>1, DuenioTipo
<1>3. De(bs) \subseteq De(Tiene(g))'
  BY <1>2, DeSigue DEF Firme
<1>4. Cabe(g)' = Cabe(g)
  BY DEF Cabe
<1>5. (De(Tiene(g)) \cap Cabe(g))' \subseteq EnArchivos(t)'
  BY DEF EnArchivos
<1> QED
  BY <1>3, <1>4, <1>5 DEF Seguros

(* The counters of a table. *)
LEMMA CuentaDe ==
  ASSUME NEW t
  PROVE  /\ ~Registrada(t) => Cuenta(t, "tmp") = 1 /\ Cuenta(t, "tmpc") = 1
         /\ ~Registrada(t)' => Cuenta(t, "tmp")' = 1 /\ Cuenta(t, "tmpc")' = 1
         /\ Orden => \A i \in DOMAIN tablas : tablas[i].nombre = t =>
              Cuenta(t, "tmp") = tablas[i].contador /\ Cuenta(t, "tmpc") = tablas[i].compactados /\ LaTabla(t) = tablas[i]
         /\ Orden' => \A i \in DOMAIN tablas' : tablas'[i].nombre = t =>
              Cuenta(t, "tmp")' = tablas'[i].contador /\ Cuenta(t, "tmpc")' = tablas'[i].compactados
BY DEF Cuenta, Registrada, Indice, Orden, Vidas, Unicas, LaTabla

(* They do not go back. *)
CuentasSiguen(t) ==
  \A i \in DOMAIN tablas : tablas[i].nombre = t =>
    \E j \in DOMAIN tablas' : /\ tablas'[j].nombre = t /\ tablas'[j].contador >= tablas[i].contador
                              /\ tablas'[j].compactados >= tablas[i].compactados

LEMMA CiertoSigue ==
  ASSUME Orden, Orden', NEW f \in Archivo, CuentasSiguen(f[1]), Cierto(f), f # PorContar \/ PorContar' = PorContar
  PROVE  Cierto(f)'
<1>1. PICK t, k, n : t = f[1] /\ k = f[2] /\ n = f[3]
  OBVIOUS
<1>2. t \in Tablas /\ k \in {"bin", "tmp", "tmpc"} /\ n \in Nat \ {0}
  BY <1>1, DuenioTipo
<1>3. CASE k = "bin"
  BY <1>1, <1>3 DEF Cierto
<1>4. CASE f = PorContar
  BY <1>4 DEF Cierto
<1>5. CASE k # "bin" /\ f # PorContar
  <2>1. n < Cuenta(t, k) /\ k \in {"tmp", "tmpc"}
    BY <1>1, <1>2, <1>5 DEF Cierto
  <2>2. Registrada(t)
    BY <1>2, <2>1, CuentaDe
  <2>3. PICK i \in DOMAIN tablas : tablas[i].nombre = t
    BY <2>2 DEF Registrada
  <2>4. PICK j \in DOMAIN tablas' : /\ tablas'[j].nombre = t /\ tablas'[j].contador >= tablas[i].contador
                                    /\ tablas'[j].compactados >= tablas[i].compactados
    BY <1>1, <2>3 DEF CuentasSiguen
  <2>5. tablas[i].contador \in Nat /\ tablas[i].compactados \in Nat
    BY TablasTipo DEF Orden, TTabla
  <2>6. tablas'[j].contador \in Nat /\ tablas'[j].compactados \in Nat
    <3>1. PICK s : s = tablas'
      OBVIOUS
    <3>2. s \in Seq(TTabla)
      BY <3>1 DEF Orden, Tipos, TTabla
    <3>3. s[j] \in TTabla
      BY <2>4, <3>1, <3>2, LenProperties, ElementOfSeq
    <3> QED
      BY <3>1, <3>3 DEF TTabla
  <2>7. CASE k = "tmp"
    <3>1. Cuenta(t, "tmp") = tablas[i].contador /\ Cuenta(t, "tmp")' = tablas'[j].contador
      BY <2>3, <2>4, CuentaDe
    <3>2. n < Cuenta(t, "tmp")'
      BY <1>2, <2>1, <2>4, <2>5, <2>6, <2>7, <3>1
    <3> QED
      BY <1>1, <2>7, <3>2 DEF Cierto
  <2>8. CASE k = "tmpc"
    <3>1. Cuenta(t, "tmpc") = tablas[i].compactados /\ Cuenta(t, "tmpc")' = tablas'[j].compactados
      BY <2>3, <2>4, CuentaDe
    <3>2. n < Cuenta(t, "tmpc")'
      BY <1>2, <2>1, <2>4, <2>5, <2>6, <2>8, <3>1
    <3> QED
      BY <1>1, <2>8, <3>2 DEF Cierto
  <2> QED
    BY <2>1, <2>7, <2>8
<1> QED
  BY <1>3, <1>4, <1>5

LEMMA PorContarSigue ==
  ASSUME Orden, [Next]_vars, ~Dump
  PROVE  PorContar' = PorContar
<1>1. ASSUME dump' = dump, mem' = mem \/ dump.paso = "dormido" PROVE PorContar' = PorContar
  BY <1>1 DEF PorContar
<1>2. CASE Caer \/ UNCHANGED vars
  BY <1>1, <1>2 DEF Caer, vars
<1>3. CASE \E t \in Tablas : Compactacion(t)
  BY <1>1, <1>3, CompQuieto
<1>4. ASSUME NEW p \in Pedidos, Pedido(p) PROVE PorContar' = PorContar
  BY <1>1, <1>4, PedidoQuietoDump, MismoMem DEF BuscarMemTable, Insertar, Olvidar, OlvidarCae, BusquedaLibre, InsertsLibre
<1> QED
  BY <1>2, <1>3, <1>4 DEF Next

LEMMA CuentasAjenas ==
  ASSUME Orden, [Next]_vars, NEW t \in Tablas, ~EnDrop(t)', ~Compactacion(t)
  PROVE  CuentasSiguen(t)
<1>1. /\ tablas \in Seq(TTabla) /\ Len(tablas) \in Nat /\ DOMAIN tablas = 1..Len(tablas) /\ \A i \in DOMAIN tablas : tablas[i] \in TTabla
      /\ ped \in [Pedidos -> TPed]
  BY TablasTipo DEF Orden, Tipos
<1>2. ASSUME DOMAIN tablas \subseteq DOMAIN tablas',
             \A i \in DOMAIN tablas : tablas[i].nombre = t =>
               tablas'[i].nombre = t /\ tablas'[i].contador >= tablas[i].contador /\ tablas'[i].compactados >= tablas[i].compactados
      PROVE  CuentasSiguen(t)
  BY <1>2 DEF CuentasSiguen
<1>3. \A i \in DOMAIN tablas : tablas[i].contador >= tablas[i].contador /\ tablas[i].compactados >= tablas[i].compactados
  BY <1>1 DEF TTabla
<1>4. CASE tablas' = tablas
  BY <1>2, <1>3, <1>4
<1>5. CASE Contar
  BY <1>1, <1>2, <1>3, <1>5 DEF Contar, UnoMas, TTabla
<1>6. ASSUME NEW p \in Pedidos, TomarMutexTabla(p) \/ LeerMemTable(p) \/ EmpezarDrop(p) PROVE CuentasSiguen(t)
  <2>1. PICK i : i = Indice(Tabla[p])
    OBVIOUS
  <2>2. \/ tablas' = [tablas EXCEPT ![i].mutex = p] \/ tablas' = [tablas EXCEPT ![i].mutex = Nadie]
        \/ tablas' = [tablas EXCEPT ![i].vivo = FALSE] \/ tablas' = tablas
    BY <1>6, <2>1 DEF TomarMutexTabla, LeerMemTable, EmpezarDrop
  <2>3. DOMAIN tablas' = DOMAIN tablas
    BY <2>2
  <2>5. \A j \in DOMAIN tablas : /\ tablas'[j].nombre = tablas[j].nombre /\ tablas'[j].contador = tablas[j].contador
                                 /\ tablas'[j].compactados = tablas[j].compactados
    <3>1. CASE tablas' = [tablas EXCEPT ![i].mutex = p]
      BY <1>1, <3>1 DEF TTabla
    <3>2. CASE tablas' = [tablas EXCEPT ![i].mutex = Nadie]
      BY <1>1, <3>2 DEF TTabla
    <3>3. CASE tablas' = [tablas EXCEPT ![i].vivo = FALSE]
      BY <1>1, <3>3 DEF TTabla
    <3> QED
      BY <2>2, <3>1, <3>2, <3>3
  <2> QED
    BY <1>2, <1>3, <2>3, <2>5
<1>7. ASSUME NEW p \in Pedidos, Registrar(p) PROVE CuentasSiguen(t)
  <2>1. PICK x \in TTabla : tablas' = Append(tablas, x)
    <3>1. Tabla0(Tabla[p]) \in TTabla
      BY <1>7, FSAssumption DEF Tabla0, TTabla
    <3> QED
      BY <1>7, <3>1 DEF Registrar
  <2>2. /\ Append(tablas, x) \in Seq(TTabla) /\ Len(Append(tablas, x)) = Len(tablas) + 1
        /\ \A i \in 1..Len(tablas) : Append(tablas, x)[i] = tablas[i]
    BY <1>1, <2>1, AppendProperties
  <2>3. DOMAIN Append(tablas, x) = 1..(Len(tablas) + 1)
    BY <2>2, LenProperties
  <2>4. 1..Len(tablas) \subseteq 1..(Len(tablas) + 1)
    BY <1>1
  <2> QED
    BY <1>1, <1>2, <1>3, <2>1, <2>2, <2>3, <2>4
<1>8. ASSUME NEW p \in Pedidos, Olvidar(p) PROVE CuentasSiguen(t)
  <2>1. Tipo[p] = "DROP" /\ ped'[p].paso = "rmdir" /\ ped[p].paso = "olvidar"
    BY <1>1, <1>8 DEF Olvidar, En, Ir, TPed
  <2>2. Tabla[p] # t
    BY <2>1 DEF EnDrop
  <2>3. VidaDeDrop(p)
    BY <2>1 DEF EnCurso, Bajando, Orden, Vidas
  <2>4. Registrada(Tabla[p])
    BY <2>1, <2>3 DEF VidaDeDrop
  <2>5. PICK i : i = Indice(Tabla[p])
    OBVIOUS
  <2>6. i \in DOMAIN tablas /\ tablas[i].nombre = Tabla[p]
    BY <2>4, <2>5, TablaDe DEF Orden
  <2>7. tablas' = RemoveAt(tablas, i)
    BY <1>8, <2>5 DEF Olvidar
  <2>8. /\ DOMAIN tablas' = 1..(Len(tablas) - 1)
        /\ \A j \in 1..(Len(tablas) - 1) : tablas'[j] = IF j < i THEN tablas[j] ELSE tablas[j + 1]
    BY <1>1, <2>6, <2>7, RemoveAtElementos
  <2>9. ASSUME NEW j \in DOMAIN tablas, tablas[j].nombre = t PROVE \E m \in DOMAIN tablas' : tablas'[m] = tablas[j]
    <3>1. j # i
      BY <2>2, <2>6, <2>9
    <3>2. CASE j < i
      BY <1>1, <2>6, <2>8, <3>2
    <3>3. CASE ~(j < i)
      <4>1. PICK m : m = j - 1
        OBVIOUS
      <4>2. m \in 1..(Len(tablas) - 1) /\ ~(m < i) /\ m + 1 = j
        BY <1>1, <2>6, <3>1, <3>3, <4>1
      <4> QED
        BY <2>8, <4>2
    <3> QED
      BY <3>2, <3>3
  <2> QED
    BY <1>3, <2>9 DEF CuentasSiguen
<1>9. ASSUME NEW u \in Tablas, u # t, Renombrar(u) \/ BorrarTmpc(u) PROVE CuentasSiguen(t)
  BY <1>2, <1>3, <1>9, TablaActiva, TablaDe DEF Orden, Renombrar, BorrarTmpc, Comp, Activa
<1>10. ASSUME NEW u \in Tablas, Compactacion(u), ~Renombrar(u), ~BorrarTmpc(u) PROVE tablas' = tablas
  BY <1>10 DEF Compactacion, Arrancar, Salir, DescargarBloque, RecrearBloqueVacio, VaciarParticion, ActualizarBloque, Reservar, Guardar
<1>11. ASSUME NEW p \in Pedidos, Pedido(p), ~TomarMutexTabla(p), ~LeerMemTable(p), ~EmpezarDrop(p), ~Registrar(p), ~Olvidar(p)
       PROVE  tablas' = tablas
  <2>1. CASE CrearExistente(p) \/ CrearSinEspacio(p) \/ CrearDirectorio(p) \/ CrearParticiones(p) \/ BuscarMemTable(p) \/ Insertar(p) \/ BuscarTabla(p) \/ AbrirArchivo(p)
    BY <2>1 DEF CrearExistente, CrearSinEspacio, CrearDirectorio, CrearParticiones, BuscarMemTable, Insertar, BuscarTabla, AbrirArchivo
  <2>2. CASE LeerBloques(p) \/ Describir(p) \/ Unir(p) \/ LiberarBloques(p) \/ EliminarContenido(p) \/ BorrarMetadata(p) \/ BorrarDirectorio(p)
    BY <2>2 DEF LeerBloques, Describir, Unir, LiberarBloques, EliminarContenido, BorrarMetadata, BorrarDirectorio
  <2> QED
    BY <1>11, <2>1, <2>2 DEF Pedido
<1>12. CASE Caer \/ UNCHANGED vars \/ DumpSinBloques \/ Volcar
  BY <1>4, <1>12 DEF Caer, vars, DumpSinBloques, Volcar
<1>13. ASSUME NEW u \in Tablas, Compactacion(u) PROVE CuentasSiguen(t)
  BY <1>4, <1>9, <1>10, <1>13
<1>14. ASSUME NEW p \in Pedidos, Pedido(p) PROVE CuentasSiguen(t)
  BY <1>4, <1>6, <1>7, <1>8, <1>11, <1>14
<1> QED
  BY <1>5, <1>12, <1>13, <1>14 DEF Next, Dump

(* A memtable loses no record but to a dump. *)
LEMMA AppendGuarda ==
  ASSUME NEW s \in Seq(Pedidos), NEW r \in Pedidos
  PROVE  ToSet(s) \subseteq ToSet(Append(s, r)) /\ r \in ToSet(Append(s, r))
BY AppendProperties, LenProperties DEF ToSet

LEMMA InsertarMem ==
  ASSUME Orden, Nodos, NEW p \in Pedidos, Insertar(p)
  PROVE  (\A t : EnMem(t) \subseteq EnMem(t)') /\ p \in EnMem(Tabla[p])' /\ Tipo[p] = "INSERT"
<1>1. PICK n : n = Nodo(ped[p].nodo)
  OBVIOUS
<1>2. Tipo[p] = "INSERT" /\ ped[p].paso = "insertar" /\ HayNodo(ped[p].nodo) /\ mem' = [mem EXCEPT ![n].regs = Append(@, p)]
  BY <1>1 DEF Insertar, InsertarCae, En
<1>3. n \in DOMAIN mem /\ mem[n].id = ped[p].nodo
  BY <1>1, <1>2 DEF HayNodo, Nodo
<1>4. mem[n].nombre = Tabla[p]
  BY <1>2, <1>3 DEF Nodos
<1>5. \A i \in DOMAIN mem : mem[i] \in TNodo
  BY MemTipo DEF Orden
<1>6. PICK s : s = mem[n].regs
  OBVIOUS
<1>7. s \in Seq(Pedidos)
  BY <1>3, <1>5, <1>6 DEF TNodo
<1>8. DOMAIN mem' = DOMAIN mem /\ mem'[n].nombre = mem[n].nombre /\ mem'[n].regs = Append(s, p) /\ \A i \in DOMAIN mem \ {n} : mem'[i] = mem[i]
  BY <1>2, <1>3, <1>5, <1>6 DEF TNodo
<1>9. \A i \in DOMAIN mem : mem'[i].nombre = mem[i].nombre /\ ToSet(mem[i].regs) \subseteq ToSet(mem'[i].regs)
  BY <1>6, <1>7, <1>8, AppendGuarda
<1>10. \A t : EnMem(t) \subseteq EnMem(t)'
  BY <1>8, <1>9 DEF EnMem, NodosDe
<1>11. p \in ToSet(mem'[n].regs)
  BY <1>7, <1>8, AppendGuarda
<1>12. PICK t : t = Tabla[p]
  OBVIOUS
<1>13. p \in EnMem(t)'
  BY <1>3, <1>4, <1>8, <1>11, <1>12 DEF EnMem, NodosDe
<1> QED
  BY <1>2, <1>10, <1>12, <1>13

LEMMA MemAjena ==
  ASSUME Orden, Nodos, [Next]_vars, ~Dump, perdidas' = {}, NEW t \in Tablas, ~EnDrop(t)'
  PROVE  EnMem(t) \subseteq EnMem(t)'
<1>1. CASE mem' = mem
  BY <1>1 DEF EnMem, NodosDe
<1>2. ASSUME NEW p \in Pedidos, BuscarMemTable(p) PROVE EnMem(t) \subseteq EnMem(t)'
  <2>1. PICK x : x = [id |-> p, nombre |-> Tabla[p], regs |-> <<>>]
    OBVIOUS
  <2>2. mem' = mem \/ mem' = Append(mem, x)
    BY <1>2, <2>1 DEF BuscarMemTable
  <2>3. x \in TNodo
    BY <2>1, FSAssumption, VaciaEsSeq DEF TNodo
  <2>4. /\ \A i \in 1..Len(mem) : Append(mem, x)[i] = mem[i]
        /\ Append(mem, x) \in Seq(TNodo) /\ Len(Append(mem, x)) = Len(mem) + 1 /\ Len(mem) \in Nat /\ DOMAIN mem = 1..Len(mem)
    BY <2>3, AppendProperties, LenProperties DEF Orden, Tipos
  <2>5. DOMAIN Append(mem, x) = 1..(Len(mem) + 1)
    BY <2>4, LenProperties
  <2>6. \A i \in DOMAIN mem : i \in 1..(Len(mem) + 1)
    BY <2>4
  <2>7. CASE mem' = Append(mem, x)
    BY <2>4, <2>5, <2>6, <2>7 DEF EnMem, NodosDe
  <2> QED
    BY <1>1, <2>2, <2>7
<1>3. ASSUME NEW p \in Pedidos, Olvidar(p) PROVE EnMem(t) \subseteq EnMem(t)'
  <2>1. Tipo[p] = "DROP" /\ ped'[p].paso = "rmdir"
    BY <1>3 DEF Olvidar, En, Ir, Orden, Tipos, TPed
  <2>2. Tabla[p] # t
    BY <2>1 DEF EnDrop
  <2>3. CASE mem' = mem
    BY <1>1, <2>3
  <2>4. CASE mem' # mem
    <3>1. ~(\E i \in DOMAIN mem : mem[i].nombre # Tabla[p] /\ mem[i].regs # <<>>)
      BY <1>3, <2>4 DEF Olvidar
    <3>2. \A i \in NodosDe(t) : mem[i].regs = <<>>
      BY <2>2, <3>1 DEF NodosDe
    <3>3. ToSet(<<>>) = {}
      BY DEF ToSet
    <3> QED
      BY <3>2, <3>3 DEF EnMem
  <2> QED
    BY <2>3, <2>4
<1>4. ASSUME NEW p \in Pedidos, Pedido(p) PROVE EnMem(t) \subseteq EnMem(t)'
  BY <1>1, <1>2, <1>3, <1>4, MismoMem, InsertarMem
<1>5. CASE \E u \in Tablas : Compactacion(u)
  BY <1>1, <1>5, CompQuieto
<1>6. CASE Caer \/ UNCHANGED vars
  BY <1>1, <1>6 DEF Caer, vars
<1> QED
  BY <1>4, <1>5, <1>6 DEF Next

LEMMA ConservaQuieta ==
  ASSUME Firme, Firme', [Next]_vars, perdidas = {}, NEW t \in Tablas,
         comp'[t].almacen = comp[t].almacen, EnMem(t) \subseteq Seguros(t)',
         \A f \in DOMAIN archivos : f[1] = t /\ Cierto(f) =>
           Tiene(f) = {} \/ (f \in DOMAIN archivos' /\ Cierto(f)' /\ Tiene(f) \subseteq Tiene(f)')
  PROVE  Conserva(t)
<1>1. EnAlmacen(t)' = EnAlmacen(t)
  BY DEF EnAlmacen
<1>2. EnAlmacen(t) \subseteq Seguros(t)'
  BY <1>1 DEF Seguros
<1>3. ASSUME NEW f \in DOMAIN archivos, f[1] = t, Cierto(f) PROVE De(Tiene(f)) \cap Cabe(f) \subseteq Seguros(t)'
  BY <1>3, SigueEnArchivo DEF Firme, Orden, Tipos, De
<1> QED
  BY <1>2, <1>3, ConservaPorPartes DEF Firme

LEMMA ConservaAjena ==
  ASSUME Firme, Firme', [Next]_vars, perdidas = {}, NEW t \in Tablas, ~EnDrop(t)', Ajena(t), EnMem(t) \subseteq Seguros(t)',
         \A f \in DOMAIN archivos : f[1] = t /\ Cierto(f) => Cierto(f)' /\ (Volcar => f # DelDump)
  PROVE  Conserva(t)
BY DropSigue, CompSigue, EnManosDrop, TieneSigue, ArchivoSigue, ConservaQuieta DEF Firme, Orden, Tipos

LEMMA DumpAjena ==
  ASSUME Orden, Volcar \/ Contar
  PROVE  \A t \in Tablas : Ajena(t)
BY CompQuieto, PedidoQuietoDump DEF Volcar, Volcando, Contar, Ajena, Pedido

LEMMA ArchivoNoVacio ==
  ASSUME NEW f \in Archivo
  PROVE  f # <<>>
BY DuenioTipo

LEMMA ConservaVolcar ==
  ASSUME Firme, Firme', [Next]_vars, perdidas' = {}, NEW t \in Tablas, ~EnDrop(t)', Volcar
  PROVE  Conserva(t)
<1>1. PICK l : l = Lugar
  OBVIOUS
<1>2. l \in DOMAIN mem /\ mem[l] \in TNodo /\ l \in DOMAIN tablas /\ tablas[l] \in TTabla
  BY <1>1, LugarTipo DEF Volcar, Firme, Orden
<1>3. PICK u, regs, n, numero : u = mem[l].nombre /\ regs = mem[l].regs /\ n = Enteros(Len(regs)) /\ numero = tablas[l].contador
  OBVIOUS
<1>4. PICK bs : bs = Primeros(n)
  OBVIOUS
<1>5. PICK s : s = Ordenados(bs)
  OBVIOUS
<1>6. PICK f0 : f0 = <<u, "tmp", numero>>
  OBVIOUS
<1>7. /\ archivos' = ConArchivo(f0, s) /\ disco' = Escribir(s, regs) /\ dump' = [paso |-> "contar", i |-> l, numero |-> numero]
      /\ perdidas' = perdidas \cup Falta(bs, n) \cup Pisa(bs) \cup (IF tablas[l].nombre = u THEN {} ELSE {"descuadre"})
      /\ mem' = [mem EXCEPT ![l].regs = <<>>] /\ tablas' = tablas
  BY <1>1, <1>3, <1>4, <1>5, <1>6 DEF Volcar
<1>8. perdidas = {} /\ tablas[l].nombre = u /\ Falta(bs, n) = {}
  BY <1>7
<1>9. f0 \in Archivo /\ f0[1] = u /\ f0[2] = "tmp" /\ f0[3] = numero /\ f0 = DelDump /\ u \in Tablas
  BY <1>1, <1>2, <1>3, <1>6 DEF Archivo, TNodo, TTabla, DelDump
<1>10. regs \in Seq(Pedidos) /\ Len(regs) \in Nat
  BY <1>2, <1>3, LenProperties DEF TNodo
<1>11. n \in Nat /\ Len(regs) <= n * Cap
  BY <1>3, <1>10, EnterosTipo
<1>12. bs \in SUBSET Bloques /\ IsFiniteSet(bs) /\ Cardinality(bs) \in Nat
  BY <1>4, PrimerosTipo, FS_CardinalityType
<1>13. Cardinality(bs) >= n
  BY <1>8, <1>11, <1>12 DEF Falta
<1>14. /\ s \in Seq(Bloques) /\ Len(s) = Cardinality(bs) /\ ToSet(s) \subseteq Bloques
       /\ \A i, j \in DOMAIN s : s[i] = s[j] => i = j
  BY <1>5, <1>12, OrdenadosTipo
<1>15. s \in Seq(Sectores) /\ Len(regs) <= Len(s) * Cap
  BY <1>10, <1>11, <1>12, <1>13, <1>14, SectoresSeq, PorCap
<1>16. \A r \in ToSet(regs) : \E b \in ToSet(s) : r \in ToSet(disco'[b])
  BY <1>7, <1>10, <1>14, <1>15, EscribirCabe DEF Firme, Orden
<1>17. PorContar = <<>>
  BY DEF Volcar, Volcando, PorContar
<1>18. DOMAIN mem' = DOMAIN mem /\ mem'[l].nombre = u /\ \A i \in DOMAIN mem \ {l} : mem'[i] = mem[i]
  BY <1>2, <1>3, <1>7 DEF TNodo
<1>19. PorContar' = f0
  BY <1>6, <1>7, <1>18 DEF PorContar
<1>20. ASSUME NEW f \in DOMAIN archivos, f[1] = t, Cierto(f) PROVE Cierto(f)' /\ f # DelDump
  <2>1. f \in Archivo /\ f # PorContar
    BY <1>17, ArchivoNoVacio DEF Firme, Orden, Tipos
  <2>2. CuentasSiguen(t)
    BY DumpAjena, CuentasAjenas DEF Ajena, Firme
  <2>3. Cierto(f)'
    BY <1>20, <2>1, <2>2, CiertoSigue DEF Firme
  <2>4. ~Cierto(f0)
    BY <1>2, <1>3, <1>8, <1>9, <1>17, CuentaDe, ArchivoNoVacio DEF Firme, TTabla, Cierto
  <2> QED
    BY <1>9, <1>20, <2>3, <2>4
<1>21. ASSUME u = t, NEW r \in ToSet(regs) PROVE r \in Seguros(t)'
  <2>1. ~EnManos(f0)'
    BY <1>9, <1>21, EnManosDrop
  <2>2. f0 \in DOMAIN archivos' /\ archivos'[f0] = s
    BY <1>7 DEF ConArchivo
  <2>3. Quedan(comp'[u], f0, s) = Utiles(s)
    BY <1>9, QuedanUtiles
  <2>10. SinBloque \notin Bloques
    BY SinBloqueLibre DEF Firme, Orden
  <2>11. Utiles(s) = ToSet(s)
    BY <1>14, <2>10 DEF Utiles
  <2>4. Tiene(f0)' = ToSet(s)
    BY <1>9, <2>1, <2>2, <2>3, <2>11, TieneLibre
  <2>5. r \in De(Tiene(f0))'
    BY <1>16, <1>21, <2>4 DEF De
  <2>6. r \in Pedidos
    BY <1>10, <1>21, LenProperties, ElementOfSeq DEF ToSet
  <2>7. Cabe(f0)' = Pedidos
    BY <1>9 DEF Cabe
  <2>8. Cierto(f0)'
    BY <1>19 DEF Cierto
  <2>9. r \in EnArchivos(t)'
    BY <1>9, <1>21, <2>2, <2>5, <2>6, <2>7, <2>8 DEF EnArchivos
  <2> QED
    BY <2>9 DEF Seguros
<1>22. ASSUME NEW i \in DOMAIN mem, mem[i].nombre = t, NEW r \in ToSet(mem[i].regs) PROVE r \in Seguros(t)'
  BY <1>3, <1>18, <1>21, <1>22 DEF NodosDe, Seguros, EnMem
<1>23. EnMem(t) \subseteq Seguros(t)'
  BY <1>22 DEF EnMem, NodosDe
<1> QED
  BY <1>8, <1>20, <1>23, DumpAjena, ConservaAjena DEF Firme

LEMMA ConservaContar ==
  ASSUME Firme, Firme', [Next]_vars, perdidas' = {}, NEW t \in Tablas, ~EnDrop(t)', Contar
  PROVE  Conserva(t)
<1>1. PICK l : l = dump.i
  OBVIOUS
<1>2. /\ l \in DOMAIN mem /\ mem[l] \in TNodo /\ l \in DOMAIN tablas /\ tablas[l] \in TTabla /\ dump.paso = "contar"
      /\ DOMAIN mem = 1..Len(mem) /\ Len(mem) \in Nat
  BY <1>1, MemTipo, TablasTipo DEF Contar, Firme, Orden, EnVolcado
<1>3. perdidas = {} /\ tablas[l].contador = dump.numero /\ tablas' = [tablas EXCEPT ![l].contador = @ + 1]
  BY <1>1 DEF Contar, UnoMas
<1>4. tablas[l].nombre = mem[l].nombre
  BY <1>1, <1>2, <1>3 DEF Firme, Cuentas, Contando
<1>5. PICK u, n : u = mem[l].nombre /\ n = dump.numero
  OBVIOUS
<1>6. PorContar = <<u, "tmp", n>> /\ n \in Nat
  BY <1>1, <1>2, <1>3, <1>5 DEF PorContar, TTabla
<1>7. l \in DOMAIN tablas' /\ tablas'[l].nombre = u /\ tablas'[l].contador = n + 1
  BY <1>2, <1>3, <1>4, <1>5 DEF TTabla
<1>8. CuentasSiguen(t)
  BY DumpAjena, CuentasAjenas DEF Ajena, Firme
<1>9. ASSUME NEW f \in DOMAIN archivos, f[1] = t, Cierto(f) PROVE Cierto(f)'
  <2>1. f \in Archivo
    BY DEF Firme, Orden, Tipos
  <2>2. CASE f = PorContar
    BY <1>6, <1>7, <2>2, CuentaDe DEF Firme, Cierto
  <2>3. CASE f # PorContar
    BY <1>8, <1>9, <2>1, <2>3, CiertoSigue DEF Firme
  <2> QED
    BY <2>2, <2>3
<1>10. EnMem(t) \subseteq Seguros(t)'
  <2>1. CASE mem' = mem
    BY <2>1 DEF Seguros, EnMem, NodosDe
  <2>2. CASE mem' # mem
    BY <1>1, <1>2, <2>2 DEF Contar, Firme, Volcados, ToSet, EnMem, NodosDe
  <2> QED
    BY <2>1, <2>2
<1>11. ~Volcar
  BY <1>2 DEF Volcar, Volcando
<1> QED
  BY <1>3, <1>9, <1>10, <1>11, DumpAjena, ConservaAjena DEF Firme

LEMMA MismasTablasCuentan ==
  ASSUME Orden, tablas' = tablas
  PROVE  \A t : CuentasSiguen(t)
BY TablasTipo DEF Orden, TTabla, CuentasSiguen

LEMMA ConservaCrear ==
  ASSUME Firme, Firme', [Next]_vars, perdidas' = {}, NEW t \in Tablas, ~EnDrop(t)', NEW p \in Pedidos, Tabla[p] = t, CrearParticiones(p)
  PROVE  Conserva(t)
<1>1. perdidas = {} /\ ~EnDrop(t) /\ comp \in [Tablas -> TComp]
  BY PerdidasSigue, DropSigue DEF Firme, Orden, Tipos
<1>2. Tipo[p] = "CREATE" /\ ped[p].paso = "particiones" /\ UNCHANGED <<mem, dump, tablas>> /\ comp' = [comp EXCEPT ![t].paso = "esperaTabla"]
  BY DEF CrearParticiones, En
<1>3. comp'[t].paso = "esperaTabla" /\ comp'[t].almacen = comp[t].almacen
  BY <1>1, <1>2 DEF TComp
<1>4. comp[t].paso \in {"nada", "fin"}
  BY <1>2 DEF Firme, Orden, Vidas, VidaDeCreate, Creando
<1>5. EnMem(t) \subseteq Seguros(t)'
  BY <1>2 DEF Seguros, EnMem, NodosDe
<1>6. PICK o : o = Ordenados(Primeros(Particiones))
  OBVIOUS
<1>7. PICK n : n = {<<t, "bin", i>> : i \in DOMAIN o}
  OBVIOUS
<1>8. archivos' = [g \in DOMAIN archivos \cup n |-> IF g \in n THEN <<o[g[3]]>> ELSE archivos[g]]
  BY <1>6, <1>7 DEF CrearParticiones
<1>9. ASSUME NEW f \in DOMAIN archivos, f[1] = t, Cierto(f) PROVE f \in DOMAIN archivos' /\ Cierto(f)' /\ Tiene(f) \subseteq Tiene(f)'
  <2>1. f \in Archivo /\ ~EnManos(f) /\ ~EnManos(f)'
    BY <1>1, <1>9, EnManosDrop DEF Firme, Orden, Tipos
  <2>2. f[2] # "bin"
    BY <1>1, <1>2, <1>9 DEF Firme, Vacias, SinCrear
  <2>3. f \notin n
    BY <1>7, <2>2
  <2>4. f \in DOMAIN archivos' /\ archivos'[f] = archivos[f]
    BY <1>8, <2>3
  <2>5. Quedan(comp'[t], f, archivos[f]) = Utiles(archivos[f]) /\ Quedan(comp[t], f, archivos[f]) = Utiles(archivos[f])
    BY <1>3, <1>4, QuedanUtiles
  <2>6. Tiene(f)' = Tiene(f)
    BY <1>9, <2>1, <2>4, <2>5, TieneLibre
  <2>7. PorContar' = PorContar
    BY <1>2 DEF PorContar
  <2>8. Cierto(f)'
    BY <1>2, <1>9, <2>1, <2>7, MismasTablasCuentan, CiertoSigue DEF Firme
  <2> QED
    BY <2>4, <2>6, <2>8
<1> QED
  BY <1>1, <1>3, <1>5, <1>9, ConservaQuieta

LEMMA CompactandoFuera ==
  ASSUME Orden, NEW t \in Tablas, Compactacion(t)
  PROVE  (\A u : EnMem(u) \subseteq Seguros(u)') /\ PorContar' = PorContar
BY CompQuieto DEF EnMem, NodosDe, Seguros, PorContar

LEMMA QuedanIgual ==
  ASSUME NEW c, NEW d, c.paso = d.paso \/ {c.paso, d.paso} \cap {"descargar", "actualizar"} = {}, c.i = d.i, c.j = d.j, c.bs = d.bs
  PROVE  \A f, s : Quedan(c, f, s) = Quedan(d, f, s)
BY QuedanUtiles DEF Quedan

LEMMA QuedanPrimero ==
  ASSUME NEW c, NEW f, NEW s \in Seq(Sectores), c.paso = "descargar", c.j = 1
  PROVE  Quedan(c, f, s) = Utiles(s)
BY LenProperties DEF ToSet, Quedan, Utiles

(* A step of a compaction that moves no record. *)
LEMMA ConservaCalma ==
  ASSUME Firme, Firme', [Next]_vars, perdidas = {}, NEW t \in Tablas,
         Arrancar(t) \/ Salir(t) \/ RecrearBloqueVacio(t) \/ Reservar(t)
  PROVE  Conserva(t)
<1>1. PICK c : c = comp[t]
  OBVIOUS
<1>2. comp \in [Tablas -> TComp] /\ c \in TComp
  BY <1>1 DEF Firme, Orden, Tipos
<1>3. archivos' = archivos /\ tablas' = tablas
  BY DEF Arrancar, Salir, RecrearBloqueVacio, Reservar, disk
<1>4. Compactacion(t)
  BY DEF Compactacion
<1>5. comp'[t].almacen = c.almacen /\ \A f, s : Quedan(comp'[t], f, s) = Quedan(c, f, s) \/ f[2] = "tmp"
  <2>1. CASE Arrancar(t)
    <3>1. c.paso = "esperaTabla" /\ comp'[t].paso = "dormido" /\ comp'[t].almacen = c.almacen
      BY <1>1, <1>2, <2>1 DEF Arrancar, Comp, TComp
    <3> QED
      BY <3>1, QuedanUtiles
  <2>2. CASE Salir(t)
    <3>1. c.paso = "dormido" /\ comp'[t].paso = "fin" /\ comp'[t].almacen = c.almacen
      BY <1>1, <1>2, <2>2 DEF Salir, Comp, TComp
    <3> QED
      BY <3>1, QuedanUtiles
  <2>3. CASE RecrearBloqueVacio(t)
    <3>1. c.paso = comp'[t].paso /\ comp'[t].i = c.i /\ comp'[t].j = c.j /\ comp'[t].bs = c.bs /\ comp'[t].almacen = c.almacen
      BY <1>1, <1>2, <2>3 DEF RecrearBloqueVacio, TComp
    <3> QED
      BY <3>1, QuedanIgual
  <2>4. CASE Reservar(t)
    <3>1. c.paso = "reservar"
      BY <1>1, <2>4 DEF Reservar, Comp
    <3>2. PICK x : comp' = [comp EXCEPT ![t].paso = "guardar", ![t].bs = x]
      BY <2>4 DEF Reservar
    <3>3. comp'[t].paso = "guardar" /\ comp'[t].almacen = c.almacen
      BY <1>1, <1>2, <3>2 DEF TComp
    <3> QED
      BY <3>1, <3>3, QuedanUtiles
  <2> QED
    BY <2>1, <2>2, <2>3, <2>4
<1>6. ASSUME NEW f \in DOMAIN archivos, f[1] = t, Cierto(f) PROVE f \in DOMAIN archivos' /\ Cierto(f)' /\ Tiene(f) \subseteq Tiene(f)'
  <2>1. f \in Archivo
    BY DEF Firme, Orden, Tipos
  <2>2. Quedan(comp'[t], f, archivos[f]) = Quedan(c, f, archivos[f])
    BY <1>5, QuedanUtiles
  <2>3. Tiene(f)' = Tiene(f)
    BY <1>1, <1>3, <1>4, <1>6, <2>1, <2>2, TieneCompactando DEF Firme
  <2>4. Cierto(f)'
    BY <1>3, <1>4, <1>6, <2>1, MismasTablasCuentan, CompactandoFuera, CiertoSigue DEF Firme
  <2> QED
    BY <1>3, <2>3, <2>4
<1> QED
  BY <1>1, <1>4, <1>5, <1>6, CompactandoFuera, ConservaQuieta DEF Firme

LEMMA ConservaVaciar ==
  ASSUME Firme, Firme', [Next]_vars, perdidas = {}, NEW t \in Tablas, VaciarParticion(t)
  PROVE  Conserva(t)
<1>1. PICK c : c = comp[t]
  OBVIOUS
<1>2. /\ comp \in [Tablas -> TComp] /\ c \in TComp /\ c.paso = "descargar" /\ c.i \in 1..Particiones /\ Particiones \in Nat /\ tablas' = tablas
      /\ c.j \in Nat
  BY <1>1, FSAssumption DEF VaciarParticion, Comp, Firme, Orden, Tipos, EnRango, TComp
<1>3. PICK f0 : f0 = <<t, "bin", c.i>>
  OBVIOUS
<1>4. archivos' = [archivos EXCEPT ![f0] = <<>>] /\ c.j > Len(archivos[f0])
  BY <1>1, <1>3 DEF VaciarParticion, LaParticion
<1>5. PICK s : s = archivos[<<t, "tmpc", 1>>]
  OBVIOUS
<1>6. Compactacion(t)
  BY DEF Compactacion
<1>7. /\ comp'[t].almacen = c.almacen
      /\ \/ comp'[t].paso = "descargar" /\ comp'[t].j = 1
         \/ comp'[t].paso = "actualizar" /\ comp'[t].i = 1 /\ comp'[t].bs = s
  BY <1>1, <1>2, <1>5 DEF VaciarParticion, TComp
<1>8. ASSUME NEW f \in DOMAIN archivos, f[1] = t, Cierto(f)
      PROVE  Tiene(f) = {} \/ (f \in DOMAIN archivos' /\ Cierto(f)' /\ Tiene(f) \subseteq Tiene(f)')
  <2>1. f \in Archivo /\ archivos[f] \in Seq(Sectores) /\ f = <<f[1], f[2], f[3]>>
    BY DuenioTipo DEF Firme, Orden, Tipos
  <2>2. CASE f = f0
    <3>1. DOMAIN archivos[f] = 1..Len(archivos[f]) /\ Len(archivos[f]) \in Nat
      BY <2>1, LenProperties
    <3>2. {l \in DOMAIN archivos[f] : l >= c.j} = {}
      BY <1>2, <1>4, <2>2, <3>1
    <3>3. f[2] = "bin" /\ f[3] = c.i
      BY <1>3, <2>2
    <3>4. Quedan(c, f, archivos[f]) = {}
      BY <1>2, <3>2, <3>3 DEF Quedan
    <3> QED
      BY <1>1, <1>6, <1>8, <2>1, <3>4, TieneCompactando DEF Firme
  <2>3. CASE f # f0
    <3>1. f \in DOMAIN archivos' /\ archivos'[f] = archivos[f]
      BY <1>4, <2>3
    <3>2. f[2] # "bin" \/ f[3] # c.i
      BY <1>3, <1>8, <2>1, <2>3
    <3>3. Quedan(c, f, archivos[f]) = Utiles(archivos[f])
      BY <1>2, <3>2, QuedanOtro
    <3>4. Quedan(comp'[t], f, archivos[f]) = Utiles(archivos[f])
      BY <1>5, <1>7, <1>8, <2>1, QuedanPrimero, QuedanOtro
    <3>5. Tiene(f)' = Tiene(f)
      BY <1>1, <1>6, <1>8, <2>1, <3>1, <3>3, <3>4, TieneCompactando DEF Firme
    <3>6. Cierto(f)'
      BY <1>2, <1>6, <1>8, <2>1, MismasTablasCuentan, CompactandoFuera, CiertoSigue DEF Firme
    <3> QED
      BY <3>1, <3>5, <3>6
  <2> QED
    BY <2>2, <2>3
<1> QED
  BY <1>1, <1>6, <1>7, <1>8, CompactandoFuera, ConservaQuieta DEF Firme

LEMMA ConservaBorrar ==
  ASSUME Firme, Firme', [Next]_vars, perdidas = {}, NEW t \in Tablas, BorrarTmpc(t)
  PROVE  Conserva(t)
<1>1. PICK c : c = comp[t]
  OBVIOUS
<1>2. comp \in [Tablas -> TComp] /\ c \in TComp /\ c.paso = "actualizar" /\ c.bs = <<>>
  BY <1>1 DEF BorrarTmpc, Comp, Firme, Orden, Tipos
<1>3. /\ Registrada(t) /\ LaTabla(t).compactados \in Nat /\ c.i \in 1..(LaTabla(t).compactados - 1)
      /\ \A k \in 1..(LaTabla(t).compactados - 1) : k >= c.i <=> <<t, "tmpc", k>> \in DOMAIN archivos
  BY <1>1, <1>2, TmpcActual DEF Firme
<1>4. PICK f0 : f0 = <<t, "tmpc", c.i>>
  OBVIOUS
<1>5. archivos' = [f \in DOMAIN archivos \ {f0} |-> archivos[f]]
  BY <1>1, <1>4 DEF BorrarTmpc
<1>6. PICK s : s = archivos[<<t, "tmpc", c.i + 1>>]
  OBVIOUS
<1>7. PICK h : h = Indice(t)
  OBVIOUS
<1>8. h \in DOMAIN tablas /\ tablas[h].nombre = t /\ LaTabla(t) = tablas[h] /\ tablas[h] \in TTabla
  BY <1>3, <1>7, TablaDe DEF Firme, Orden
<1> DEFINE ultimo == c.i + 1 = LaTabla(t).compactados
           uno == 1
           c1 == [c EXCEPT !.paso = "reservar", !.i = uno]
           c2 == [c EXCEPT !.i = c.i + 1, !.bs = s]
<1>9. comp' = IF ultimo THEN [comp EXCEPT ![t] = c1] ELSE [comp EXCEPT ![t] = c2]
  BY <1>1, <1>6 DEF BorrarTmpc
<1>10. tablas' = IF ultimo THEN [tablas EXCEPT ![h].compactados = uno] ELSE tablas
  BY <1>1, <1>7 DEF BorrarTmpc
<1> HIDE DEF uno
<1>11. /\ c1.paso = "reservar" /\ c1.almacen = c.almacen
       /\ c2.paso = "actualizar" /\ c2.i = c.i + 1 /\ c2.bs = s /\ c2.almacen = c.almacen
  BY <1>2 DEF TComp
<1> HIDE DEF c1, c2
<1>12. comp'[t] = IF ultimo THEN c1 ELSE c2
  BY <1>2, <1>9
<1>13. Compactacion(t)
  BY DEF Compactacion
<1>14. ASSUME NEW f \in DOMAIN archivos, f[1] = t, f # f0, Cierto(f) PROVE Cierto(f)'
  <2>1. f \in Archivo /\ f = <<f[1], f[2], f[3]>> /\ f[2] \in {"bin", "tmp", "tmpc"} /\ f[3] \in Nat \ {0}
    BY DuenioTipo DEF Firme, Orden, Tipos
  <2>2. CASE ~ultimo
    <3>1. tablas' = tablas
      BY <1>10, <2>2
    <3> QED
      BY <1>13, <1>14, <2>1, <3>1, MismasTablasCuentan, CompactandoFuera, CiertoSigue DEF Firme
  <2>3. CASE ultimo
    <3>1. h \in DOMAIN tablas' /\ tablas'[h].nombre = t /\ tablas'[h].contador = tablas[h].contador
      BY <1>8, <1>10, <2>3 DEF TTabla
    <3>2. /\ Cuenta(t, "tmp") = tablas[h].contador /\ Cuenta(t, "tmp")' = tablas[h].contador
          /\ Cuenta(t, "tmpc") = tablas[h].compactados
      BY <1>8, <3>1, CuentaDe DEF Firme
    <3>3. CASE f[2] = "bin"
      BY <3>3 DEF Cierto
    <3>4. CASE f = PorContar
      BY <1>13, <3>4, CompactandoFuera DEF Cierto, Firme
    <3>5. CASE f[2] = "tmp" /\ f # PorContar
      BY <1>14, <3>2, <3>5 DEF Cierto
    <3>6. CASE f[2] = "tmpc" /\ f # PorContar
      <4>1. f[3] < Cuenta(t, "tmpc")
        BY <1>14, <3>6 DEF Cierto
      <4>2. PICK k, m \in Nat : k = f[3] /\ m = LaTabla(t).compactados
        BY <1>3, <2>1
      <4>3. k \in 1..(m - 1) /\ c.i = m - 1 /\ k < m
        BY <1>3, <1>8, <2>1, <2>3, <3>2, <4>1, <4>2
      <4>4. k >= c.i
        BY <1>3, <1>14, <2>1, <3>6, <4>2, <4>3
      <4>5. k = c.i
        BY <4>2, <4>3, <4>4
      <4> QED
        BY <1>4, <1>14, <2>1, <3>6, <4>2, <4>5
    <3> QED
      BY <2>1, <3>3, <3>4, <3>5, <3>6
  <2> QED
    BY <2>2, <2>3
<1>15. ASSUME NEW f \in DOMAIN archivos, f[1] = t, Cierto(f)
       PROVE  Tiene(f) = {} \/ (f \in DOMAIN archivos' /\ Cierto(f)' /\ Tiene(f) \subseteq Tiene(f)')
  <2>1. f \in Archivo /\ f = <<f[1], f[2], f[3]>>
    BY DuenioTipo DEF Firme, Orden, Tipos
  <2>2. CASE f = f0
    <3>1. f[2] = "tmpc" /\ f[3] = c.i
      BY <1>4, <2>2
    <3>2. Utiles(<<>>) = {}
      BY DEF Utiles, ToSet
    <3>3. Quedan(c, f, archivos[f]) = {}
      BY <1>2, <3>1, <3>2 DEF Quedan
    <3> QED
      BY <1>1, <1>13, <1>15, <2>1, <3>3, TieneCompactando DEF Firme
  <2>3. CASE f # f0
    <3>1. f \in DOMAIN archivos' /\ archivos'[f] = archivos[f]
      BY <1>5, <2>3
    <3>2. f[2] # "tmpc" \/ f[3] # c.i
      BY <1>4, <1>15, <2>1, <2>3
    <3>3. Quedan(c, f, archivos[f]) = Utiles(archivos[f])
      BY <1>2, <3>2, QuedanOtro
    <3>4. Quedan(comp'[t], f, archivos[f]) = Utiles(archivos[f])
      BY <1>6, <1>11, <1>12, <1>15, <2>1, QuedanUtiles, QuedanOtro
    <3>5. Tiene(f)' = Tiene(f)
      BY <1>1, <1>13, <1>15, <2>1, <3>1, <3>3, <3>4, TieneCompactando DEF Firme
    <3> QED
      BY <1>14, <1>15, <2>3, <3>1, <3>5
  <2> QED
    BY <2>2, <2>3
<1>16. comp'[t].almacen = comp[t].almacen
  BY <1>1, <1>11, <1>12
<1> QED
  BY <1>13, <1>15, <1>16, CompactandoFuera, ConservaQuieta DEF Firme

(* While no record has gone astray, a compaction renames every file that   *)
(* is counted, and counts as many.                                         *)
LEMMA RenombrarTodos ==
  ASSUME Orden, Orden', Cuentas, perdidas = {}, NEW t \in Tablas, Renombrar(t)
  PROVE  /\ \E n \in Nat \ {0} :
              /\ Renombrables(t) = 1..(n - 1)
              /\ Cuenta(t, "tmp") = n /\ Cuenta(t, "tmpc") = 1
              /\ Cuenta(t, "tmp")' = 1 /\ Cuenta(t, "tmpc")' = n
         /\ comp[t].paso = "dormido" /\ comp[t].almacen = <<>> /\ Registrada(t)
         /\ comp'[t].paso = "descargar" /\ comp'[t].i = 1 /\ comp'[t].j = 1
         /\ comp'[t].almacen = [k \in 1..Particiones |-> <<>>]
<1>1. /\ comp \in [Tablas -> TComp] /\ comp[t].paso = "dormido" /\ Registrada(t) /\ comp[t].almacen = <<>>
  BY TablaActiva DEF Orden, Tipos, Renombrar, Comp, Activa, EnRango
<1>2. PICK h : h = Indice(t)
  OBVIOUS
<1>3. /\ h \in DOMAIN tablas /\ tablas[h].nombre = t /\ LaTabla(t) = tablas[h] /\ tablas[h] \in TTabla
      /\ tablas[h].contador # 1 /\ tablas[h].mutex = Nadie
  BY <1>1, <1>2, TablaDe DEF Orden, Renombrar, MutexLibre
<1>4. PICK n : n = tablas[h].contador
  OBVIOUS
<1>5. n \in Nat \ {0} /\ n - 1 \in Nat /\ 1 + (n - 1) = n
  BY <1>3, <1>4 DEF TTabla
<1>6. Renombrables(t) = 1..(n - 1)
  BY <1>1, <1>3, <1>4, <1>5, ActivaIntacta DEF Cuentas, Completas, Contados, Renombrables
<1>7. tablas[h].compactados = 1
  BY <1>1, <1>3, NadieAssumption DEF Orden, Cadena, CadenaDe
<1>8. Cardinality(Renombrables(t)) = n - 1
  BY <1>5, <1>6, FS_Interval
<1> DEFINE uno == 1
<1>9. tablas' = [tablas EXCEPT ![h].contador = uno, ![h].compactados = n]
  <2>1. LaTabla(t).compactados + Cardinality(Renombrables(t)) = n
    BY <1>3, <1>5, <1>7, <1>8
  <2> QED
    BY <1>2, <1>3, <1>4, <1>6, <2>1 DEF Renombrar
<1>10. uno = 1
  OBVIOUS
<1> HIDE DEF uno
<1>11. h \in DOMAIN tablas' /\ tablas'[h].nombre = t /\ tablas'[h].contador = uno /\ tablas'[h].compactados = n
  BY <1>3, <1>9 DEF TTabla
<1>12. /\ Cuenta(t, "tmp") = n /\ Cuenta(t, "tmpc") = 1
       /\ Cuenta(t, "tmp")' = 1 /\ Cuenta(t, "tmpc")' = n
  BY <1>3, <1>4, <1>7, <1>10, <1>11, CuentaDe
<1>13. Renombrables(t) = 1 .. (LaTabla(t).contador - 1)
  BY <1>3, <1>4, <1>6
<1>14. /\ comp'[t].paso = "descargar" /\ comp'[t].i = 1 /\ comp'[t].j = 1
       /\ comp'[t].almacen = [k \in 1..Particiones |-> <<>>]
  BY <1>13, RenombrarComp
<1> QED
  BY <1>1, <1>5, <1>6, <1>12, <1>14

LEMMA ConservaRenombrar ==
  ASSUME Firme, Firme', [Next]_vars, perdidas = {}, NEW t \in Tablas, Renombrar(t)
  PROVE  Conserva(t)
<1>1. PICK n \in Nat \ {0} :
        /\ Renombrables(t) = 1..(n - 1)
        /\ Cuenta(t, "tmp") = n /\ Cuenta(t, "tmpc") = 1
        /\ Cuenta(t, "tmp")' = 1 /\ Cuenta(t, "tmpc")' = n
  BY RenombrarTodos DEF Firme
<1>2. /\ comp[t].paso = "dormido" /\ comp[t].almacen = <<>> /\ Registrada(t)
      /\ comp'[t].paso = "descargar" /\ comp'[t].i = 1 /\ comp'[t].j = 1
  BY RenombrarTodos DEF Firme
<1>3. PICK N : N = {<<t, "tmpc", k>> : k \in 1..(n - 1)}
  OBVIOUS
<1>4. /\ DOMAIN archivos' = (DOMAIN archivos \ {<<t, "tmp", k>> : k \in 1..(n - 1)}) \cup N
      /\ \A k \in 1..(n - 1) : archivos'[<<t, "tmpc", k>>] = archivos[<<t, "tmp", k>>]
      /\ \A f \in DOMAIN archivos' \ N : f \in DOMAIN archivos /\ archivos'[f] = archivos[f]
  <2>1. PICK ks : ks = Renombrables(t)
    OBVIOUS
  <2>2. PICK tmp : tmp = {<<t, "tmp", k>> : k \in ks}
    OBVIOUS
  <2>3. archivos' = Renombrados(t)
    BY DEF Renombrar
  <2>4. /\ DOMAIN archivos' = (DOMAIN archivos \ tmp) \cup {<<t, "tmpc", k>> : k \in ks}
        /\ \A k \in ks : archivos'[<<t, "tmpc", k>>] = archivos[<<t, "tmp", k>>]
        /\ \A f \in DOMAIN archivos' \ {<<t, "tmpc", k>> : k \in ks} : f \in DOMAIN archivos /\ archivos'[f] = archivos[f]
    BY <1>2, <2>1, <2>2, <2>3, RenombradosTipo DEF Firme, Orden
  <2>5. ks = 1..(n - 1)
    BY <1>1, <2>1
  <2> QED
    BY <1>3, <2>2, <2>4, <2>5
<1>5. Compactacion(t)
  BY DEF Compactacion
<1>6. PorContar' = PorContar /\ EnMem(t) \subseteq Seguros(t)'
  BY <1>5, CompactandoFuera DEF Firme
<1>7. EnAlmacen(t) = {}
  BY <1>2 DEF EnAlmacen
<1>8. \A f \in Archivo : f[1] = t => Tiene(f) = IF f \in DOMAIN archivos THEN Utiles(archivos[f]) ELSE {}
  BY <1>2, <1>5, TieneCompactando, QuedanUtiles DEF Firme
<1>9. \A g \in DOMAIN archivos' : g[1] = t => Tiene(g)' = Utiles(archivos'[g])
  BY <1>2, <1>5, QuedanPrimero, TieneCompactando DEF Firme, Orden, Tipos
<1>10. ASSUME NEW f \in DOMAIN archivos, f[1] = t, Cierto(f)
       PROVE  \E g \in DOMAIN archivos' : g[1] = t /\ Cierto(g)' /\ archivos'[g] = archivos[f] /\ Cabe(f) \subseteq Cabe(g)
  <2>1. f \in Archivo /\ f[2] \in {"bin", "tmp", "tmpc"} /\ f[3] \in Nat \ {0} /\ f = <<f[1], f[2], f[3]>>
    BY DuenioTipo DEF Firme, Orden, Tipos
  <2>2. CASE f[2] = "bin"
    BY <1>3, <1>4, <1>10, <2>2 DEF Cierto
  <2>3. CASE f[2] = "tmp" /\ f[3] < n
    <3>1. PICK k : k = f[3]
      OBVIOUS
    <3>2. k \in 1..(n - 1) /\ f = <<t, "tmp", k>>
      BY <1>10, <2>1, <2>3, <3>1
    <3>3. PICK g : g = <<t, "tmpc", k>>
      OBVIOUS
    <3>4. g \in DOMAIN archivos' /\ archivos'[g] = archivos[f]
      BY <1>3, <1>4, <3>2, <3>3
    <3>5. g[1] = t /\ g[2] = "tmpc" /\ g[3] < Cuenta(t, "tmpc")'
      BY <1>1, <2>3, <3>1, <3>3
    <3>6. Cierto(g)'
      BY <3>5 DEF Cierto
    <3>7. Cabe(f) \subseteq Cabe(g)
      BY <2>3, <3>5 DEF Cabe
    <3> QED
      BY <3>4, <3>5, <3>6, <3>7
  <2>4. CASE f[2] = "tmp" /\ ~(f[3] < n)
    BY <1>1, <1>3, <1>4, <1>6, <1>10, <2>4 DEF Cierto
  <2>5. CASE f[2] = "tmpc"
    BY <1>1, <1>10, <2>1, <2>5 DEF PorContar, Cierto
  <2> QED
    BY <2>1, <2>2, <2>3, <2>4, <2>5
<1>11. ASSUME NEW f \in DOMAIN archivos, f[1] = t, Cierto(f), NEW r \in De(Tiene(f)) \cap Cabe(f)
       PROVE  r \in Seguros(t)'
  <2>1. PICK g \in DOMAIN archivos' : g[1] = t /\ Cierto(g)' /\ archivos'[g] = archivos[f] /\ Cabe(f) \subseteq Cabe(g)
    BY <1>10, <1>11
  <2>2. f \in Archivo
    BY DEF Firme, Orden, Tipos
  <2>3. PICK bs : bs = Utiles(archivos[f])
    OBVIOUS
  <2>4. Tiene(f) = bs /\ Tiene(g)' = bs
    BY <1>8, <1>9, <1>11, <2>1, <2>2, <2>3
  <2>5. De(bs) \cap Cabe(f) \subseteq Seguros(t)'
    BY <2>1, <2>2, <2>4, SigueEnArchivo
  <2>6. r \in De(bs) \cap Cabe(f)
    BY <1>11, <2>4 DEF De
  <2> QED
    BY <2>5, <2>6
<1>12. \A f \in DOMAIN archivos : f[1] = t /\ Cierto(f) =>
          \A r \in De(Tiene(f)) \cap Cabe(f) : r \in Seguros(t)' \/ \E z \in Seguros(t)' : Cubre(z, r)
  BY <1>11
<1> QED
  BY <1>6, <1>7, <1>12, ConservaPorPartes DEF Firme

(* A list of the compaction grows by the records of a block. *)
LEMMA EnListasCrece ==
  ASSUME NEW alm \in Listas, NEW i \in 1..Particiones, NEW s \in Seq(Pedidos)
  PROVE  LET nuevo == [alm EXCEPT ![i] = @ \o s] IN
         /\ nuevo \in Listas
         /\ EnListas(alm) \subseteq EnListas(nuevo)
         /\ {r \in ToSet(s) : ParticionDe(Clave[r]) = i} \subseteq EnListas(nuevo)
<1> DEFINE nuevo == [alm EXCEPT ![i] = @ \o s]
<1>1. alm[i] \in Seq(Pedidos) /\ alm[i] \o s \in Seq(Pedidos)
  BY ConcatProperties DEF Listas
<1>2. nuevo \in Listas /\ nuevo[i] = alm[i] \o s /\ \A k \in 1..Particiones \ {i} : nuevo[k] = alm[k]
  BY <1>1 DEF Listas
<1>3. PICK a : a = alm[i]
  OBVIOUS
<1>4. ToSet(a) \subseteq ToSet(a \o s) /\ ToSet(s) \subseteq ToSet(a \o s)
  <2>1. a \in Seq(Pedidos) /\ Len(a) \in Nat /\ DOMAIN a = 1..Len(a) /\ Len(s) \in Nat /\ DOMAIN s = 1..Len(s)
    BY <1>1, <1>3, LenProperties
  <2>2. /\ a \o s \in Seq(Pedidos) /\ Len(a \o s) = Len(a) + Len(s)
        /\ \A k \in 1..(Len(a) + Len(s)) : (a \o s)[k] = IF k <= Len(a) THEN a[k] ELSE s[k - Len(a)]
    BY <2>1, ConcatProperties
  <2>3. DOMAIN (a \o s) = 1..(Len(a) + Len(s))
    BY <2>2, LenProperties
  <2>4. \A k \in DOMAIN a : k \in DOMAIN (a \o s) /\ (a \o s)[k] = a[k]
    BY <2>1, <2>2, <2>3
  <2>5. ASSUME NEW k \in DOMAIN s PROVE \E l \in DOMAIN (a \o s) : (a \o s)[l] = s[k]
    <3>1. PICK l : l = k + Len(a)
      OBVIOUS
    <3>2. l \in 1..(Len(a) + Len(s)) /\ ~(l <= Len(a)) /\ l - Len(a) = k
      BY <2>1, <3>1
    <3> QED
      BY <2>2, <2>3, <3>2
  <2> QED
    BY <2>4, <2>5 DEF ToSet
<1>5. \A k \in 1..Particiones : ToSet(alm[k]) \subseteq ToSet(nuevo[k])
  BY <1>2, <1>3, <1>4
<1>6. ToSet(s) \subseteq ToSet(nuevo[i])
  BY <1>2, <1>3, <1>4
<1> HIDE DEF nuevo
<1>7. EnListas(alm) \subseteq EnListas(nuevo) /\ {r \in ToSet(s) : ParticionDe(Clave[r]) = i} \subseteq EnListas(nuevo)
  BY <1>5, <1>6, SMTT(30) DEF EnListas
<1> QED
  BY <1>2, <1>7 DEF nuevo

(* The records of a partition are in its list before its block is given    *)
(* back.                                                                   *)
LEMMA ConservaDescargar ==
  ASSUME Firme, Firme', [Next]_vars, perdidas = {}, NEW t \in Tablas, DescargarBloque(t)
  PROVE  Conserva(t)
<1>1. PICK c : c = comp[t]
  OBVIOUS
<1>2. PICK f0 : f0 = <<t, "bin", c.i>>
  OBVIOUS
<1>3. PICK b : b = archivos[f0][c.j]
  OBVIOUS
<1>4. /\ comp \in [Tablas -> TComp] /\ c \in TComp /\ c.paso = "descargar" /\ c.i \in 1..Particiones /\ tablas' = tablas
      /\ archivos' = archivos /\ disco' = disco /\ disco \in [Sectores -> Seq(Pedidos)]
      /\ c.j \in Nat /\ c.almacen \in Listas /\ c.j \in DOMAIN archivos[f0] /\ b \in Sectores /\ f0 \in DOMAIN archivos
  BY <1>1, <1>2, <1>3, DescargarBloqueTipo DEF DescargarBloque, Comp, Firme, Orden, Tipos, TComp, LaParticion
<1>5. Compactacion(t)
  BY DEF Compactacion
<1>6. PICK i : i = c.i
  OBVIOUS
<1>7. PICK s : s = disco[b]
  OBVIOUS
<1>8. s \in Seq(Pedidos)
  BY <1>4, <1>7
<1> DEFINE alm == [c.almacen EXCEPT ![i] = @ \o s]
           c1 == [c EXCEPT !.almacen = alm, !.vaciar = b, !.j = c.j + 1]
<1>9. comp' = [comp EXCEPT ![t] = c1]
  BY <1>1, <1>2, <1>3, <1>4, <1>6, <1>7 DEF DescargarBloque, LaParticion, TComp
<1>10. c1.almacen = alm /\ c1.paso = "descargar" /\ c1.i = i /\ c1.j = c.j + 1
  BY <1>4, <1>6 DEF TComp
<1> HIDE DEF c1
<1>11. comp'[t].almacen = alm /\ comp'[t].paso = "descargar" /\ comp'[t].i = i /\ comp'[t].j = c.j + 1
  BY <1>4, <1>9, <1>10
<1>12. /\ alm \in Listas
       /\ EnListas(c.almacen) \subseteq EnListas(alm)
       /\ {r \in ToSet(s) : ParticionDe(Clave[r]) = i} \subseteq EnListas(alm)
  BY <1>4, <1>6, <1>8, EnListasCrece
<1> HIDE DEF alm
<1>13. EnListas(alm) \subseteq Seguros(t)'
  <2>1. alm # <<>>
    <3>1. DOMAIN alm # {}
      BY <1>4, <1>12 DEF Listas
    <3> QED
      BY <3>1
  <2>2. EnAlmacen(t)' = EnListas(alm)
    BY <1>11, <2>1 DEF EnAlmacen, EnListas
  <2> QED
    BY <2>2 DEF Seguros
<1>14. \A r \in EnAlmacen(t) : r \in Seguros(t)'
  BY <1>1, <1>12, <1>13 DEF EnAlmacen
<1>15. EnMem(t) \subseteq Seguros(t)'
  BY <1>5, CompactandoFuera DEF Firme
<1>16. ASSUME NEW f \in DOMAIN archivos, f[1] = t, Cierto(f), NEW r \in De(Tiene(f)) \cap Cabe(f)
       PROVE  r \in Seguros(t)'
  <2>1. f \in Archivo /\ archivos[f] \in Seq(Sectores) /\ f = <<f[1], f[2], f[3]>>
    BY DuenioTipo DEF Firme, Orden, Tipos
  <2>2. Cierto(f)'
    BY <1>4, <1>5, <1>16, <2>1, MismasTablasCuentan, CompactandoFuera, CiertoSigue DEF Firme
  <2>3. PICK B : B = Tiene(f)
    OBVIOUS
  <2>4. B = Quedan(c, f, archivos[f]) /\ Tiene(f)' = Quedan(comp'[t], f, archivos[f])
    BY <1>1, <1>4, <1>5, <1>16, <2>1, <2>3, TieneCompactando DEF Firme
  <2>5. B \subseteq Tiene(f)' \cup {b}  /\ (f # f0 => B \subseteq Tiene(f)')
    <3>1. CASE f = f0
      <4>1. f[2] = "bin" /\ f[3] = i
        BY <1>2, <1>6, <3>1
      <4>2. /\ B = {archivos[f][k] : k \in {l \in DOMAIN archivos[f] : l >= c.j}} \ {SinBloque}
            /\ Tiene(f)' = {archivos[f][k] : k \in {l \in DOMAIN archivos[f] : l >= c.j + 1}} \ {SinBloque}
        BY <1>4, <1>6, <1>11, <2>4, <4>1 DEF Quedan
      <4>3. DOMAIN archivos[f] = 1..Len(archivos[f]) /\ Len(archivos[f]) \in Nat
        BY <2>1, LenProperties
      <4>4. \A l \in DOMAIN archivos[f] : l >= c.j => l >= c.j + 1 \/ l = c.j
        BY <1>4, <4>3
      <4> QED
        BY <1>3, <3>1, <4>2, <4>4
    <3>2. CASE f # f0
      <4>1. f[2] # "bin" \/ f[3] # i
        BY <1>2, <1>6, <1>16, <2>1, <3>2
      <4>2. Quedan(c, f, archivos[f]) = Utiles(archivos[f]) /\ Quedan(comp'[t], f, archivos[f]) = Utiles(archivos[f])
        BY <1>4, <1>6, <1>11, <4>1, QuedanOtro
      <4> QED
        BY <2>4, <4>2
    <3> QED
      BY <3>1, <3>2
  <2>6. PICK x \in B : r \in ToSet(disco[x])
    BY <1>16, <2>3 DEF De
  <2>7. CASE x \in Tiene(f)'
    <3>1. De({x}) \cap Cabe(f) \subseteq Seguros(t)'
      BY <1>4, <1>16, <2>1, <2>2, <2>3, <2>6, <2>7, SigueEnArchivo
    <3>2. r \in De({x})
      BY <2>6 DEF De
    <3> QED
      BY <1>16, <3>1, <3>2
  <2>8. CASE x = b /\ f = f0
    <3>1. ParticionDe(Clave[r]) = i
      BY <1>2, <1>6, <1>16, <2>8 DEF Cabe
    <3> QED
      BY <1>7, <1>12, <1>13, <2>6, <2>8, <3>1
  <2> QED
    BY <2>5, <2>6, <2>7, <2>8
<1>17. \A f \in DOMAIN archivos : f[1] = t /\ Cierto(f) =>
          \A r \in De(Tiene(f)) \cap Cabe(f) : r \in Seguros(t)' \/ \E z \in Seguros(t)' : Cubre(z, r)
  BY <1>16
<1> QED
  BY <1>14, <1>15, <1>17, ConservaPorPartes DEF Firme

(* And so is every record of a .tmpc, or a newer one of its key, before    *)
(* its block is given back.                                                *)
LEMMA ConservaActualizar ==
  ASSUME Firme, Firme', [Next]_vars, perdidas = {}, NEW t \in Tablas, ActualizarBloque(t)
  PROVE  Conserva(t)
<1>1. PICK c : c = comp[t]
  OBVIOUS
<1>2. PICK f0 : f0 = <<t, "tmpc", c.i>>
  OBVIOUS
<1>3. PICK b : b = Head(c.bs)
  OBVIOUS
<1>4. /\ comp \in [Tablas -> TComp] /\ c \in TComp /\ c.paso = "actualizar" /\ tablas' = tablas
      /\ archivos' = archivos /\ disco \in [Sectores -> Seq(Pedidos)]
      /\ c.bs \in Seq(Sectores) /\ c.bs # <<>> /\ c.almacen \in Listas
  BY <1>1 DEF ActualizarBloque, Comp, Firme, Orden, Tipos, TComp, EnRango
<1>5. Compactacion(t)
  BY DEF Compactacion
<1>6. b \in Sectores /\ Tail(c.bs) \in Seq(Sectores) /\ ToSet(c.bs) \subseteq {b} \cup ToSet(Tail(c.bs))
  <2>1. PICK s : s = c.bs
    OBVIOUS
  <2>2. s \in Seq(Sectores) /\ s # <<>> /\ Len(s) \in Nat /\ DOMAIN s = 1..Len(s)
    BY <1>4, <2>1, LenProperties
  <2>3. Head(s) = s[1] /\ Tail(s) \in Seq(Sectores) /\ Len(Tail(s)) = Len(s) - 1
        /\ \A k \in 1..Len(Tail(s)) : Tail(s)[k] = s[k + 1]
    BY <2>2, HeadTailProperties
  <2>4. Len(s) # 0
    BY <2>2, EmptySeq
  <2>5. 1 \in DOMAIN s
    BY <2>2, <2>4
  <2>6. DOMAIN Tail(s) = 1..(Len(s) - 1)
    BY <2>2, <2>3, <2>4, LenProperties
  <2>7. ASSUME NEW k \in DOMAIN s, k # 1 PROVE s[k] \in ToSet(Tail(s))
    <3>1. PICK l : l = k - 1
      OBVIOUS
    <3>2. l \in 1..(Len(s) - 1) /\ k = l + 1
      BY <2>2, <2>7, <3>1
    <3> QED
      BY <2>3, <2>6, <3>2 DEF ToSet
  <2>8. ToSet(s) \subseteq {s[1]} \cup ToSet(Tail(s))
    BY <2>7 DEF ToSet
  <2>9. s[1] \in Sectores
    BY <2>2, <2>5, ElementOfSeq
  <2> QED
    BY <1>3, <2>1, <2>3, <2>8, <2>9
<1>7. PICK s : s = disco[b]
  OBVIOUS
<1>8. s \in Seq(Pedidos)
  BY <1>4, <1>6, <1>7
<1> DEFINE alm == ActualizarTodos(c.almacen, s)
           c1 == [c EXCEPT !.bs = Tail(c.bs), !.almacen = alm]
<1>9. comp' = [comp EXCEPT ![t] = c1]
  BY <1>1, <1>3, <1>4, <1>7 DEF ActualizarBloque, TComp
<1> HIDE DEF alm
<1>10. c1.almacen = alm /\ c1.paso = "actualizar" /\ c1.i = c.i /\ c1.bs = Tail(c.bs)
  BY <1>4 DEF TComp
<1> HIDE DEF c1
<1>11. comp'[t].almacen = alm /\ comp'[t].paso = "actualizar" /\ comp'[t].i = c.i /\ comp'[t].bs = Tail(c.bs)
  BY <1>4, <1>9, <1>10
<1>12. alm \in Listas /\ \A q \in EnListas(c.almacen) \cup ToSet(s) : \E z \in EnListas(alm) : Cubre(z, q)
  BY <1>4, <1>8, ActualizarTodosCubre DEF alm
<1>13. EnListas(alm) \subseteq Seguros(t)'
  BY <1>11, <1>12, FSAssumption DEF Listas, EnAlmacen, EnListas, Seguros
<1>14. \A r \in EnAlmacen(t) : \E z \in Seguros(t)' : Cubre(z, r)
  BY <1>1, <1>12, <1>13 DEF EnAlmacen
<1>15. EnMem(t) \subseteq Seguros(t)'
  BY <1>5, CompactandoFuera DEF Firme
<1>16. ASSUME NEW f \in DOMAIN archivos, f[1] = t, Cierto(f), NEW r \in De(Tiene(f)) \cap Cabe(f)
       PROVE  r \in Seguros(t)' \/ \E z \in Seguros(t)' : Cubre(z, r)
  <2>1. f \in Archivo /\ archivos[f] \in Seq(Sectores) /\ f = <<f[1], f[2], f[3]>>
    BY DuenioTipo DEF Firme, Orden, Tipos
  <2>2. Cierto(f)'
    BY <1>4, <1>5, <1>16, <2>1, MismasTablasCuentan, CompactandoFuera, CiertoSigue DEF Firme
  <2>3. PICK B : B = Tiene(f)
    OBVIOUS
  <2>4. B = Quedan(c, f, archivos[f]) /\ Tiene(f)' = Quedan(comp'[t], f, archivos[f])
    BY <1>1, <1>4, <1>5, <1>16, <2>1, <2>3, TieneCompactando DEF Firme
  <2>5. B \subseteq Tiene(f)' \cup {b}
    <3>1. CASE f = f0
      BY <1>2, <1>4, <1>6, <1>11, <2>4, <3>1 DEF Quedan, Utiles
    <3>2. CASE f # f0
      <4>1. f[2] # "tmpc" \/ f[3] # c.i
        BY <1>2, <1>16, <2>1, <3>2
      <4>2. Quedan(c, f, archivos[f]) = Utiles(archivos[f]) /\ Quedan(comp'[t], f, archivos[f]) = Utiles(archivos[f])
        BY <1>4, <1>11, <4>1, QuedanOtro
      <4> QED
        BY <2>4, <4>2
    <3> QED
      BY <3>1, <3>2
  <2>6. PICK x \in B : r \in ToSet(disco[x])
    BY <1>16, <2>3 DEF De
  <2>7. CASE x \in Tiene(f)'
    <3>1. De({x}) \cap Cabe(f) \subseteq Seguros(t)'
      BY <1>4, <1>16, <2>1, <2>2, <2>3, <2>6, <2>7, SigueEnArchivo
    <3>2. r \in De({x})
      BY <2>6 DEF De
    <3> QED
      BY <1>16, <3>1, <3>2
  <2>8. CASE x = b
    <3>1. r \in ToSet(s)
      BY <1>7, <2>6, <2>8
    <3> QED
      BY <1>12, <1>13, <3>1
  <2> QED
    BY <2>5, <2>6, <2>7, <2>8
<1>17. \A f \in DOMAIN archivos : f[1] = t /\ Cierto(f) =>
          \A r \in De(Tiene(f)) \cap Cabe(f) : r \in Seguros(t)' \/ \E z \in Seguros(t)' : Cubre(z, r)
  BY <1>16
<1> QED
  BY <1>14, <1>15, <1>17, ConservaPorPartes DEF Firme

(* When a compaction ends, the records of its lists are in the partitions. *)
LEMMA ConservaGuardar ==
  ASSUME Firme, Firme', [Next]_vars, perdidas = {}, NEW t \in Tablas, Guardar(t)
  PROVE  Conserva(t)
<1>1. PICK i \in 1..Particiones :
         /\ comp[t].i = i /\ comp[t].almacen \in Listas
         /\ \A f \in Archivo : f[1] = t /\ f # <<t, "bin", i>> =>
              /\ Tiene(f)' = Tiene(f)
              /\ f \in DOMAIN archivos' <=> f \in DOMAIN archivos
         /\ Tiene(<<t, "bin", i>>)' = Reservados(t)
         /\ <<t, "bin", i>> \in DOMAIN archivos'
         /\ IF i = Particiones THEN comp'[t].paso \in {"dormido", "fin"} /\ comp'[t].almacen = <<>>
            ELSE comp'[t].paso = "reservar" /\ comp'[t].i = i + 1 /\ comp'[t].almacen = comp[t].almacen
  BY GuardarTiene DEF Firme
<1>2. PICK f0 : f0 = <<t, "bin", i>>
  OBVIOUS
<1>3. /\ f0 \in Archivo /\ i \in Nat \ {0} /\ Particiones \in Nat /\ comp[t].paso = "guardar" /\ tablas' = tablas /\ disco' = disco
  BY <1>1, <1>2, FSAssumption DEF Guardar, Comp, Archivo
<1>4. Compactada(t)
  BY DEF Firme, Compactadas
<1>5. Tiene(f0) = {}
  BY <1>1, <1>2, <1>3, <1>4 DEF Compactada, Vaciada
<1>6. Compactacion(t)
  BY DEF Compactacion
<1>7. EnMem(t) \subseteq Seguros(t)' /\ PorContar' = PorContar
  BY <1>6, CompactandoFuera DEF Firme
<1>8. ASSUME NEW f \in DOMAIN archivos, f[1] = t, Cierto(f)
      PROVE  Tiene(f) = {} \/ (f \in DOMAIN archivos' /\ Cierto(f)' /\ Tiene(f) \subseteq Tiene(f)')
  <2>1. f \in Archivo
    BY DEF Firme, Orden, Tipos
  <2>2. CASE f = f0
    BY <1>5, <2>2
  <2>3. CASE f # f0
    <3>1. Cierto(f)'
      BY <1>3, <1>7, <1>8, <2>1, MismasTablasCuentan, CiertoSigue DEF Firme
    <3> QED
      BY <1>1, <1>2, <1>8, <2>1, <2>3, <3>1
  <2> QED
    BY <2>2, <2>3
<1>9. CASE i # Particiones
  BY <1>1, <1>7, <1>8, <1>9, ConservaQuieta DEF Firme
<1>10. CASE i = Particiones
  <2>1. ASSUME NEW f \in DOMAIN archivos, f[1] = t, Cierto(f), NEW r \in De(Tiene(f)) \cap Cabe(f)
        PROVE  r \in Seguros(t)'
    BY <1>8, <2>1, SigueEnArchivo DEF Firme, Orden, Tipos, De
  <2>2. \A f \in DOMAIN archivos : f[1] = t /\ Cierto(f) =>
          \A r \in De(Tiene(f)) \cap Cabe(f) : r \in Seguros(t)' \/ \E z \in Seguros(t)' : Cubre(z, r)
    BY <2>1
  <2>3. PICK alm : alm = comp[t].almacen
    OBVIOUS
  <2>4. ASSUME NEW r \in EnAlmacen(t) PROVE r \in Seguros(t)'
    <3>1. PICK k \in 1..Particiones : r \in ToSet(alm[k]) /\ ParticionDe(Clave[r]) = k
      BY <1>1, <2>3, <2>4 DEF EnAlmacen, EnListas
    <3>2. alm[k] \in Seq(Pedidos)
      BY <1>1, <2>3 DEF Listas
    <3>3. r \in Pedidos
      BY <3>1, <3>2, LenProperties, ElementOfSeq DEF ToSet
    <3>4. PICK f : f = <<t, "bin", k>>
      OBVIOUS
    <3>5. f \in Archivo /\ f[1] = t /\ f[2] = "bin" /\ f[3] = k /\ r \in Cabe(f)
      BY <1>3, <3>1, <3>3, <3>4 DEF Archivo, Cabe
    <3>6. Cierto(f)'
      BY <3>5 DEF Cierto
    <3>7. CASE k = i
      <4>1. ToSet(alm[k]) \subseteq De(Reservados(t))
        BY <1>1, <1>3, <1>4, <2>3, <3>7 DEF Compactada
      <4>2. PICK B : B = Reservados(t)
        OBVIOUS
      <4>3. f = f0 /\ f \in DOMAIN archivos' /\ Tiene(f)' = B
        BY <1>1, <1>2, <3>4, <3>7, <4>2
      <4>4. PICK x \in B : r \in ToSet(disco[x])
        BY <3>1, <4>1, <4>2 DEF De
      <4>5. x \in Tiene(f)' /\ r \in ToSet(disco'[x])
        BY <1>3, <4>3, <4>4
      <4>6. r \in De(Tiene(f))'
        BY <4>5 DEF De
      <4>7. r \in EnArchivos(t)'
        BY <3>5, <3>6, <4>3, <4>6 DEF EnArchivos, Cabe
      <4> QED
        BY <4>7 DEF Seguros
    <3>8. CASE k # i
      <4>1. k < i
        BY <1>10, <3>8
      <4>2. ToSet(alm[k]) \subseteq De(Tiene(f))
        BY <1>1, <1>3, <1>4, <2>3, <3>4, <4>1 DEF Compactada
      <4>3. r \in De(Tiene(f))
        BY <3>1, <4>2
      <4>4. f \in DOMAIN archivos
        BY <3>5, <4>3 DEF De, Tiene
      <4> QED
        BY <2>1, <3>5, <4>3, <4>4 DEF Cierto
    <3> QED
      BY <3>7, <3>8
  <2> QED
    BY <1>7, <2>2, <2>4, ConservaPorPartes DEF Firme
<1> QED
  BY <1>9, <1>10

LEMMA ConservaCompactar ==
  ASSUME Firme, Firme', [Next]_vars, perdidas = {}, NEW t \in Tablas, Compactacion(t)
  PROVE  Conserva(t)
<1>1. CASE Arrancar(t) \/ Salir(t) \/ RecrearBloqueVacio(t) \/ Reservar(t)
  BY <1>1, ConservaCalma
<1>2. CASE Renombrar(t)
  BY <1>2, ConservaRenombrar
<1>3. CASE DescargarBloque(t)
  BY <1>3, ConservaDescargar
<1>4. CASE VaciarParticion(t)
  BY <1>4, ConservaVaciar
<1>5. CASE ActualizarBloque(t)
  BY <1>5, ConservaActualizar
<1>6. CASE BorrarTmpc(t)
  BY <1>6, ConservaBorrar
<1>7. CASE Guardar(t)
  BY <1>7, ConservaGuardar
<1> QED
  BY <1>1, <1>2, <1>3, <1>4, <1>5, <1>6, <1>7 DEF Compactacion

(* No step loses what a table keeps, unless the table is dropped. *)
LEMMA ConservaPaso ==
  ASSUME Firme, Firme', [Next]_vars, perdidas' = {}, NEW t \in Tablas, ~EnDrop(t)'
  PROVE  Conserva(t)
<1>1. perdidas = {}
  BY PerdidasSigue DEF Firme
<1>2. CASE Dump
  <2>1. ~DumpSinBloques
    BY DEF DumpSinBloques
  <2> QED
    BY <1>2, <2>1, ConservaVolcar, ConservaContar DEF Dump
<1>3. CASE Compactacion(t)
  BY <1>1, <1>3, ConservaCompactar
<1>4. ASSUME NEW p \in Pedidos, Tabla[p] = t, CrearParticiones(p) PROVE Conserva(t)
  BY <1>4, ConservaCrear
<1>5. ASSUME NEW p \in Pedidos, Tabla[p] = t PROVE ~EliminarContenido(p)
  BY <1>5, DropSigue DEF Firme, EliminarContenido, Borrando, EnDrop
<1>6. CASE ~Dump /\ Ajena(t)
  <2>1. EnMem(t) \subseteq Seguros(t)'
    BY <1>6, MemAjena DEF Firme, Seguros
  <2>2. PorContar' = PorContar
    BY <1>6, PorContarSigue DEF Firme
  <2>3. CuentasSiguen(t)
    BY <1>6, CuentasAjenas DEF Firme, Ajena
  <2>4. ASSUME NEW f \in DOMAIN archivos, f[1] = t, Cierto(f) PROVE Cierto(f)'
    BY <2>2, <2>3, <2>4, CiertoSigue DEF Firme, Orden, Tipos
  <2> QED
    BY <1>1, <1>6, <2>1, <2>4, ConservaAjena DEF Dump
<1> QED
  BY <1>2, <1>3, <1>4, <1>5, <1>6 DEF Ajena

LEMMA SegurosDePedidos == Orden /\ Duenios => \A t \in Tablas : Seguros(t) \subseteq Pedidos
BY SegurosTipo

LEMMA SegurosTipoPrima == (Orden /\ Duenios => \A t \in Tablas : Seguros(t) \subseteq Pedidos)'
BY SegurosDePedidos, PTL

LEMMA PasoGuardado ==
  ASSUME Firme, Firme', Guardado, [Next]_vars
  PROVE  Guardado'
<1> SUFFICES ASSUME perdidas' = {}, NEW p \in Pedidos, Tipo[p] = "INSERT", ped'[p].paso = "fin", ~EnDrop(Tabla[p])'
             PROVE  \E r \in Seguros(Tabla[p])' : Cubre(r, p)
  BY DEF Guardado
<1>1. PICK t : t = Tabla[p]
  OBVIOUS
<1>2. t \in Tablas /\ perdidas = {} /\ ~EnDrop(t) /\ ~EnDrop(t)'
  BY <1>1, PerdidasSigue, DropSigue, FSAssumption DEF Firme
<1>3. CASE ped[p].paso = "fin"
  BY <1>1, <1>2, <1>3, ConservaPaso, SegurosTipo, SegurosTipoPrima, CubreOrden DEF Guardado, Conserva, Firme
<1>4. CASE ped[p].paso # "fin"
  <2>1. Pedido(p)
    BY <1>4, PedSigue DEF Firme
  <2>2. Insertar(p)
    <3>1. ped \in [Pedidos -> TPed]
      BY DEF Firme, Orden, Tipos
    <3>2. ~BuscarMemTable(p)
      BY <3>1 DEF BuscarMemTable, Ir, TPed
    <3> QED
      BY <2>1, <3>2 DEF Pedido, En, CrearExistente, CrearSinEspacio, CrearDirectorio, CrearParticiones, Registrar, BuscarTabla, TomarMutexTabla, LeerMemTable,
           AbrirArchivo, BuscandoEnArchivos, LeerBloques, Describir, EmpezarDrop, Unir, LiberarBloques, Borrando, EliminarContenido,
           BorrarMetadata, Olvidar, BorrarDirectorio
  <2>3. p \in EnMem(t)'
    BY <1>1, <2>2, InsertarMem DEF Firme
  <2> QED
    BY <1>1, <2>3, CubreOrden DEF Seguros
<1> QED
  BY <1>3, <1>4

-----------------------------------------------------------------------------
(* At the beginning nothing has been inserted. *)
LEMMA InitFirme ==
  ASSUME Init
  PROVE  Firme /\ Guardado
<1>1. Orden /\ Duenios /\ Cuentas
  BY InitOrden, InitDuenios, InitCuentas
<1>2. /\ mem = <<>> /\ dump.paso = "dormido" /\ \A p \in Pedidos : ped[p].paso = "nuevo" /\ ped[p].bs = Nadie
  BY DEF Init
<1>3. DOMAIN mem = {}
  BY <1>2
<1>4. Nodos /\ Volcados /\ Guardado
  BY <1>2, <1>3 DEF Nodos, Volcados, Guardado
<1>5. \A t \in Tablas : comp[t].paso \in {"dormido", "nada"} /\ comp[t].vaciar = Nadie
  BY DEF Init
<1>6. Limpios
  BY <1>1, <1>2, <1>5, NadieAssumption DEF PorVaciar, Orden, Tipos, Sectores, Limpios
<1>7. Vacias
  BY <1>2 DEF Vacias, SinCrear, Init, ToSet
<1>8. Compactadas
  BY <1>5 DEF Compactadas, Compactada, Vaciada
<1> QED
  BY <1>1, <1>4, <1>6, <1>7, <1>8 DEF Firme

LEMMA PasoFirme ==
  ASSUME Firme, Guardado, [Next]_vars
  PROVE  Firme' /\ Guardado'
<1>1. Orden' /\ Duenios' /\ Cuentas'
  BY PasoOrden, PasoDuenios, PasoCuentas DEF Firme
<1>2. Firme'
  BY <1>1, PasoNodos, PasoVolcados, PasoLimpios, PasoVacias, PasoCompactadas DEF Firme
<1> QED
  BY <1>2, PasoGuardado

(* The invariant behind NadaSePierde: what a table keeps, one place at a   *)
(* time, covers every INSERT that was answered.                            *)
THEOREM EnGuarda == Spec => [](Firme /\ Guardado)
<1>1. Init => Firme /\ Guardado
  BY InitFirme
<1>2. Firme /\ Guardado /\ [Next]_vars => Firme' /\ Guardado'
  BY PasoFirme
<1> QED
  BY <1>1, <1>2, PTL DEF Spec

(* A SELECT that nobody disturbs would find it. *)
LEMMA SegurosAlcanzables ==
  ASSUME Firme, NEW t \in Tablas
  PROVE  Seguros(t) \subseteq Alcanzables(t)
<1>1. EnMem(t) \subseteq Alcanzables(t)
  BY DEF EnMem, Alcanzables
<1>2. ASSUME NEW f \in DOMAIN archivos, f[1] = t, Cierto(f) PROVE De(Tiene(f)) \subseteq Contenido(archivos[f])
  <2>1. f \in Archivo /\ archivos[f] \in Seq(Sectores) /\ f = <<f[1], f[2], f[3]>>
    BY DuenioTipo DEF Firme, Orden, Tipos
  <2>2. PICK s : s = archivos[f]
    OBVIOUS
  <2>3. Tiene(f) \subseteq ToSet(s)
    <3>1. Tiene(f) \subseteq Quedan(comp[t], f, s)
      BY <1>2, <2>1, <2>2 DEF Tiene, Posee, Archivo
    <3>2. CASE comp[t].paso = "actualizar" /\ f[2] = "tmpc" /\ f[3] = comp[t].i
      BY <1>2, <2>1, <2>2, <3>1, <3>2 DEF Firme, Compactadas, Compactada, Quedan, Utiles
    <3>3. CASE ~(comp[t].paso = "actualizar" /\ f[2] = "tmpc" /\ f[3] = comp[t].i)
      BY <3>1, <3>3, QuedanUtiles DEF Utiles
    <3> QED
      BY <3>2, <3>3
  <2> QED
    BY <2>2, <2>3 DEF De, Contenido, ToSet
<1>3. EnArchivos(t) \subseteq Alcanzables(t)
  BY <1>2 DEF Cierto, Alcanzables, EnArchivos
<1>4. EnAlmacen(t) \subseteq Alcanzables(t)
  <2> SUFFICES ASSUME comp[t].almacen # <<>> PROVE EnListas(comp[t].almacen) \subseteq Alcanzables(t)
    BY DEF EnAlmacen
  <2>1. comp[t].almacen \in Listas
    BY DEF Firme, Orden, Tipos, TComp
  <2>2. PICK alm : alm = comp[t].almacen
    OBVIOUS
  <2>3. DOMAIN alm = 1..Particiones
    BY <2>1, <2>2 DEF Listas
  <2>4. EnListas(alm) \subseteq UNION {ToSet(alm[i]) : i \in DOMAIN alm}
    BY <2>3 DEF EnListas
  <2>5. UNION {ToSet(alm[i]) : i \in DOMAIN alm} \subseteq Alcanzables(t)
    BY <2>2 DEF Alcanzables
  <2> QED
    BY <2>2, <2>4, <2>5
<1> QED
  BY <1>1, <1>3, <1>4 DEF Seguros

LEMMA OrdenDelResto ==
  ASSUME NEW a \in Nat, NEW b \in Nat, NEW m \in Nat \ {0}, a \div m = b \div m, a % m >= b % m
  PROVE  a >= b
OBVIOUS

(* Of two Comparables, the greater conversion is that of the later one. *)
LEMMA Comparan ==
  ASSUME NEW r \in Pedidos, NEW p \in Pedidos, Comparables(r, p), Entero(r) >= Entero(p)
  PROVE  TS[r] >= TS[p]
<1> DEFINE m == 2 * Medio
<1>1. TS[r] \in Nat /\ TS[p] \in Nat /\ m \in Nat \ {0}
  BY FSAssumption
<1>2. Entero(r) = TS[r] % m /\ Entero(p) = TS[p] % m /\ TS[r] \div m = TS[p] \div m
  BY <1>1, FSAssumption DEF Comparables, Entero
<1> HIDE DEF m
<1> QED
  BY <1>1, <1>2, OrdenDelResto

(* An INSERT that was answered, or one of its key that the code does not   *)
(* take for older, stays where a SELECT finds it, in every interleaving of *)
(* dumps, compactions, CREATEs and DROPs, unless something of perdidas     *)
(* happens.                                                                *)
THEOREM NadaSePierdeNunca == Spec => []NadaSePierde
<1>1. Firme /\ Guardado => NadaSePierde
  <2> SUFFICES ASSUME Firme, Guardado, ~caido, perdidas = {}, NEW p \in Pedidos, Tipo[p] = "INSERT",
                      ped[p].paso = "fin", ~EnDrop(Tabla[p])
               PROVE  \E r \in Alcanzables(Tabla[p]) :
                        /\ Clave[r] = Clave[p] /\ Entero(r) >= Entero(p)
                        /\ Comparables(r, p) => TS[r] >= TS[p]
    BY DEF NadaSePierde
  <2>1. Tabla[p] \in Tablas
    BY TablaDePedido
  <2>2. PICK r \in Seguros(Tabla[p]) : Cubre(r, p)
    BY <2>1 DEF Guardado
  <2>3. r \in Pedidos /\ r \in Alcanzables(Tabla[p])
    BY <2>1, <2>2, SegurosAlcanzables, SegurosTipo DEF Firme
  <2> QED
    BY <2>2, <2>3, Comparan DEF Cubre
<1> QED
  BY <1>1, EnGuarda, PTL

-----------------------------------------------------------------------------
(* A SELECT, and what it has still to read.                                *)

(* A SELECT that has begun, and one that nothing has disturbed: no record  *)
(* has gone astray, and no compaction of its table runs meanwhile.         *)
Busca(p) == Tipo[p] = "SELECT" /\ ped[p].paso \in Leen
Serena(p) == perdidas = {} /\ ~ped[p].ventana /\ ~EnDrop(Tabla[p])

(* A file that it opens, and the one that it has opened. *)
Contada(f) == f[2] = "bin" \/ (f[2] = "tmp" /\ f[3] < Cuenta(f[1], "tmp"))
Leida(p) == <<Tabla[p], ped[p].paso, ped[p].n - 1>>

(* A table has one memtable, which an INSERT made. *)
Distintos == \A i, j \in DOMAIN mem : mem[i].nombre = mem[j].nombre => i = j
DeInsert == \A i \in DOMAIN mem : Tipo[mem[i].id] = "INSERT" /\ ped[mem[i].id].paso # "nuevo"

(* Blocks are listed only while it goes through the files. *)
SinAbrir == \A p \in Pedidos : Tipo[p] = "SELECT" /\ ped[p].paso \notin {"tmp", "tmpc", "bin"} => ped[p].bs = Nadie

(* Undisturbed, it finds its table, no .tmpc, and the blocks it lists are  *)
(* still those of the file.                                                *)
Tranquila(p) ==
  LET t == Tabla[p]
      x == ped[p].nodo
  IN  Busca(p) /\ Serena(p) =>
        /\ Registrada(t) /\ ~Compactando(t)
        /\ ped[p].paso # "tmpc"
        /\ ped[p].hubo => x \in Pedidos /\ Tipo[x] = "INSERT" /\ ped[x].paso # "nuevo"
        /\ ped[p].bs # Nadie => /\ ped[p].paso \in {"tmp", "bin"} /\ Contada(Leida(p))
                                /\ ped[p].bs = <<>> \/ (Leida(p) \in DOMAIN archivos /\ ped[p].bs = archivos[Leida(p)])

Memtables == Distintos /\ DeInsert
Lectoras == SinAbrir /\ \A p \in Pedidos : Tranquila(p)

LEMMA NoNuevo ==
  ASSUME Orden, [Next]_vars, NEW q \in Pedidos, Tipo[q] = "INSERT", ped[q].paso # "nuevo"
  PROVE  ped'[q].paso # "nuevo"
<1>1. ped \in [Pedidos -> TPed]
  BY DEF Orden, Tipos
<1>2. CASE ped'[q] = ped[q]
  BY <1>2
<1>3. CASE BuscarMemTable(q) \/ Insertar(q)
  BY <1>1, <1>3 DEF BuscarMemTable, Insertar, Ir, En, TPed
<1>4. CASE CrearExistente(q) \/ CrearSinEspacio(q) \/ CrearDirectorio(q) \/ CrearParticiones(q) \/ Registrar(q) \/ Describir(q) \/ EmpezarDrop(q) \/ Unir(q)
           \/ LiberarBloques(q) \/ EliminarContenido(q) \/ BorrarMetadata(q) \/ Olvidar(q) \/ BorrarDirectorio(q)
  BY <1>4 DEF CrearExistente, CrearSinEspacio, CrearDirectorio, CrearParticiones, Registrar, Describir, EmpezarDrop, Unir, LiberarBloques,
       EliminarContenido, BorrarMetadata, Olvidar, BorrarDirectorio, Borrando, En
<1>5. CASE BuscarTabla(q) \/ TomarMutexTabla(q) \/ LeerMemTable(q) \/ AbrirArchivo(q) \/ LeerBloques(q)
  BY <1>5 DEF BuscarTabla, TomarMutexTabla, LeerMemTable, AbrirArchivo, BuscandoEnArchivos, LeerBloques, En
<1> QED
  BY <1>2, <1>3, <1>4, <1>5, PedSigue DEF Pedido

LEMMA UnaMemTable ==
  ASSUME Orden, NEW p \in Pedidos, BuscarMemTable(p)
  PROVE  \/ mem' = mem
         \/ /\ NodosDe(Tabla[p]) = {} /\ Len(mem) \in Nat /\ DOMAIN mem = 1..Len(mem) /\ DOMAIN mem' = 1..(Len(mem) + 1)
            /\ mem'[Len(mem) + 1] = [id |-> p, nombre |-> Tabla[p], regs |-> <<>>]
            /\ \A i \in DOMAIN mem : mem'[i] = mem[i]
<1>1. PICK x : x = [id |-> p, nombre |-> Tabla[p], regs |-> <<>>]
  OBVIOUS
<1>2. mem' = mem \/ (mem' = Append(mem, x) /\ NodosDe(Tabla[p]) = {})
  BY <1>1 DEF BuscarMemTable
<1>3. x \in TNodo
  BY <1>1, FSAssumption, VaciaEsSeq DEF TNodo
<1>4. /\ \A i \in 1..Len(mem) : Append(mem, x)[i] = mem[i]
      /\ Append(mem, x)[Len(mem) + 1] = x
      /\ Append(mem, x) \in Seq(TNodo) /\ Len(Append(mem, x)) = Len(mem) + 1 /\ Len(mem) \in Nat /\ DOMAIN mem = 1..Len(mem)
  BY <1>3, AppendProperties, LenProperties DEF Orden, Tipos
<1>5. DOMAIN Append(mem, x) = 1..(Len(mem) + 1)
  BY <1>4, LenProperties
<1> QED
  BY <1>1, <1>2, <1>4, <1>5

LEMMA PasoMemtables ==
  ASSUME Orden, Orden', Memtables, [Next]_vars
  PROVE  Memtables'
<1>1. CASE \A p \in Pedidos : ~BuscarMemTable(p)
  BY <1>1, MemSigue, MemTipo, NoNuevo DEF Orden, TNodo, Memtables, DeInsert, Distintos
<1>2. ASSUME NEW p \in Pedidos, BuscarMemTable(p) PROVE Memtables'
  <2>1. Tipo[p] = "INSERT" /\ ped \in [Pedidos -> TPed]
    BY <1>2 DEF BuscarMemTable, En, Orden, Tipos
  <2>2. ped'[p].paso # "nuevo"
    BY <1>2, <2>1 DEF BuscarMemTable, Ir, TPed
  <2>3. \A i \in DOMAIN mem : mem[i].id \in Pedidos /\ Tipo[mem[i].id] = "INSERT" /\ ped'[mem[i].id].paso # "nuevo"
    BY MemTipo, NoNuevo DEF Orden, TNodo, Memtables, DeInsert
  <2>4. CASE mem' = mem
    BY <2>3, <2>4 DEF Memtables, Distintos, DeInsert
  <2>5. CASE mem' # mem
    <3>1. PICK l : l = Len(mem) + 1
      OBVIOUS
    <3>2. /\ NodosDe(Tabla[p]) = {} /\ \A i \in DOMAIN mem' : i \in DOMAIN mem \/ i = l
          /\ mem'[l] = [id |-> p, nombre |-> Tabla[p], regs |-> <<>>]
          /\ \A i \in DOMAIN mem : mem'[i] = mem[i]
      BY <1>2, <2>5, <3>1, UnaMemTable
    <3>3. \A i \in DOMAIN mem : mem[i].nombre # Tabla[p]
      BY <3>2 DEF NodosDe
    <3>4. mem'[l].id = p /\ mem'[l].nombre = Tabla[p]
      BY <3>2
    <3>5. Distintos'
      BY <3>2, <3>3, <3>4 DEF Memtables, Distintos
    <3>6. DeInsert'
      BY <2>1, <2>2, <2>3, <3>2, <3>4 DEF DeInsert
    <3> QED
      BY <3>5, <3>6 DEF Memtables
  <2> QED
    BY <2>4, <2>5
<1> QED
  BY <1>1, <1>2

(* Who changes a SELECT: itself, and the compaction that it meets. *)
LEMMA SelectSuyo ==
  ASSUME NEW p \in Pedidos, Tipo[p] = "SELECT", Pedido(p)
  PROVE  BuscarTabla(p) \/ TomarMutexTabla(p) \/ LeerMemTable(p) \/ AbrirArchivo(p) \/ LeerBloques(p)
BY DEF Pedido, En, CrearExistente, CrearSinEspacio, CrearDirectorio, CrearParticiones, Registrar, BuscarMemTable, Insertar, Describir, EmpezarDrop, Unir,
     LiberarBloques, Borrando, EliminarContenido, BorrarMetadata, Olvidar, BorrarDirectorio

LEMMA SelectSigue ==
  ASSUME Orden, [Next]_vars, NEW p \in Pedidos, Tipo[p] = "SELECT"
  PROVE  \/ ped'[p] = ped[p]
         \/ Pedido(p)
         \/ Renombrar(Tabla[p]) /\ ped'[p].ventana /\ ped'[p].paso = ped[p].paso /\ ped'[p].bs = ped[p].bs
<1>1. ASSUME NEW q \in Pedidos, Pedido(q) PROVE ped'[p] = ped[p] \/ Pedido(p)
  BY <1>1, UnPedido
<1>2. CASE Dump
  BY <1>2, DumpAjeno
<1>3. ASSUME NEW t \in Tablas, Renombrar(t)
      PROVE  \/ ped'[p] = ped[p]
             \/ t = Tabla[p] /\ ped'[p].ventana /\ ped'[p].paso = ped[p].paso /\ ped'[p].bs = ped[p].bs
  <2>1. ped' = Avisar(t) /\ ped[p] \in TPed
    BY <1>3 DEF Renombrar, Orden, Tipos
  <2>2. ped'[p] = ped[p] \/ (Tabla[p] = t /\ ped'[p] = [ped[p] EXCEPT !.ventana = TRUE])
    BY <2>1, AvisarTipo DEF Orden
  <2> QED
    BY <2>1, <2>2 DEF TPed
<1>4. ASSUME NEW t \in Tablas, Compactacion(t), ~Renombrar(t) PROVE ped' = ped
  BY <1>4 DEF Compactacion, Arrancar, Salir, DescargarBloque, RecrearBloqueVacio, VaciarParticion,
       ActualizarBloque, BorrarTmpc, Reservar, Guardar
<1>5. CASE Caer \/ UNCHANGED vars
  BY <1>5 DEF Caer, vars
<1> QED
  BY <1>1, <1>2, <1>3, <1>4, <1>5 DEF Next

(* A file that is counted stays so, but in the compaction of its table.    *)
LEMMA CuentaCrece ==
  ASSUME Orden, Orden', NEW t \in Tablas, CuentasSiguen(t), Registrada(t)
  PROVE  /\ Registrada(t)'
         /\ Cuenta(t, "tmp") \in Nat /\ Cuenta(t, "tmp")' \in Nat /\ Cuenta(t, "tmp")' >= Cuenta(t, "tmp")
<1>1. PICK i \in DOMAIN tablas : tablas[i].nombre = t
  BY DEF Registrada
<1>2. PICK j \in DOMAIN tablas' : tablas'[j].nombre = t /\ tablas'[j].contador >= tablas[i].contador
  BY <1>1 DEF CuentasSiguen
<1>3. Cuenta(t, "tmp") = tablas[i].contador /\ Cuenta(t, "tmp")' = tablas'[j].contador
  BY <1>1, <1>2, CuentaDe
<1>4. tablas[i].contador \in Nat
  BY TablasTipo DEF Orden, TTabla
<1>5. tablas'[j].contador \in Nat
  <2>1. PICK s : s = tablas'
    OBVIOUS
  <2>2. s \in Seq(TTabla)
    BY <2>1 DEF Orden, Tipos, TTabla
  <2>3. s[j] \in TTabla
    BY <1>2, <2>1, <2>2, LenProperties, ElementOfSeq
  <2> QED
    BY <2>1, <2>3 DEF TTabla
<1>6. Registrada(t)'
  BY <1>2 DEF Registrada
<1> QED
  BY <1>2, <1>3, <1>4, <1>5, <1>6

LEMMA ContadaSigue ==
  ASSUME Orden, Orden', NEW f, f[1] \in Tablas, f[3] \in Nat, CuentasSiguen(f[1]), Registrada(f[1]), Contada(f)
  PROVE  Contada(f)'
BY CuentaCrece DEF Contada

LEMMA CiertoDump ==
  ASSUME Firme, Firme', [Next]_vars, perdidas' = {}, NEW f \in DOMAIN archivos, Cierto(f), CuentasSiguen(f[1])
  PROVE  Cierto(f)' /\ (Volcar => f # DelDump)
<1>1. f \in Archivo /\ f # <<>> /\ perdidas = {}
  BY ArchivoNoVacio, PerdidasSigue DEF Firme, Orden, Tipos
<1>2. CASE f = PorContar /\ Dump
  <2>1. dump.paso = "contar"
    BY <1>1, <1>2 DEF PorContar
  <2>2. Contar /\ ~Volcar
    BY <1>2, <2>1 DEF Dump, DumpSinBloques, Volcar, Volcando
  <2>3. PICK l : l = dump.i
    OBVIOUS
  <2>4. l \in DOMAIN mem /\ mem[l] \in TNodo /\ l \in DOMAIN tablas /\ tablas[l] \in TTabla
    BY <2>1, <2>3, MemTipo, TablasTipo DEF Firme, Orden, EnVolcado
  <2>5. tablas[l].contador = dump.numero /\ tablas' = [tablas EXCEPT ![l].contador = @ + 1]
    BY <2>2, <2>3 DEF Contar, UnoMas
  <2>6. tablas[l].nombre = mem[l].nombre
    BY <1>1, <2>1, <2>3, <2>4, <2>5 DEF Firme, Cuentas, Contando
  <2>7. PICK u, n : u = mem[l].nombre /\ n = dump.numero
    OBVIOUS
  <2>8. f[1] = u /\ f[2] = "tmp" /\ f[3] = n /\ n \in Nat
    BY <1>2, <2>1, <2>3, <2>4, <2>5, <2>7 DEF PorContar, TTabla
  <2>9. l \in DOMAIN tablas' /\ tablas'[l].nombre = u /\ tablas'[l].contador = n + 1
    BY <2>4, <2>5, <2>6, <2>7 DEF TTabla
  <2>10. Cuenta(u, "tmp")' = n + 1
    BY <2>9, CuentaDe DEF Firme
  <2>11. n < n + 1
    BY <2>8
  <2> QED
    BY <2>2, <2>8, <2>10, <2>11 DEF Cierto
<1>3. CASE ~(f = PorContar /\ Dump)
  <2>1. Cierto(f)'
    BY <1>1, <1>3, PorContarSigue, CiertoSigue DEF Firme
  <2>2. ASSUME Volcar PROVE f # DelDump
    <3>1. PICK l : l = Lugar
      OBVIOUS
    <3>2. mem[l] \in TNodo /\ l \in DOMAIN tablas /\ tablas[l] \in TTabla
      BY <2>2, <3>1, LugarTipo DEF Volcar, Firme, Orden
    <3>3. PICK u, n : u = mem[l].nombre /\ n = tablas[l].contador
      OBVIOUS
    <3>4. tablas[l].nombre = u
      BY <2>2, <3>1, <3>3 DEF Volcar
    <3>5. Cuenta(u, "tmp") = n /\ n \in Nat
      BY <3>2, <3>3, <3>4, CuentaDe DEF Firme, TTabla
    <3>6. PorContar = <<>>
      BY <2>2 DEF Volcar, Volcando, PorContar
    <3>7. CASE f = DelDump
      BY <1>1, <3>1, <3>3, <3>5, <3>6, <3>7 DEF DelDump, Cierto
    <3> QED
      BY <3>7
  <2> QED
    BY <2>1, <2>2
<1> QED
  BY <1>2, <1>3

(* What nobody disturbs was not disturbed before.                          *)
LEMMA SerenaAntes ==
  ASSUME Orden, [Next]_vars, NEW p \in Pedidos, Busca(p), Serena(p)'
  PROVE  Serena(p) /\ ~Renombrar(Tabla[p]) /\ Tabla[p] \in Tablas
<1>1. perdidas = {} /\ ~EnDrop(Tabla[p]) /\ Tabla[p] \in Tablas /\ ~ped'[p].ventana /\ Tipo[p] = "SELECT"
  BY PerdidasSigue, DropSigue, TablaDePedido DEF Serena, Busca
<1>2. ped \in [Pedidos -> TPed]
  BY DEF Orden, Tipos
<1>3. ASSUME Renombrar(Tabla[p]) PROVE FALSE
  BY <1>1, <1>2, <1>3 DEF Renombrar, Avisar, TPed
<1>4. ASSUME Pedido(p) PROVE ped'[p].ventana = ped[p].ventana
  <2>1. ~BuscarTabla(p)
    BY DEF Busca, Leen, BuscarTabla, En
  <2>2. CASE TomarMutexTabla(p)
    BY <1>2, <2>2 DEF TomarMutexTabla, Ir, TPed
  <2>3. CASE LeerMemTable(p)
    BY <1>2, <2>3 DEF LeerMemTable, TPed
  <2>4. CASE AbrirArchivo(p)
    BY <1>2, <2>4 DEF AbrirArchivo, TPed
  <2>5. CASE LeerBloques(p)
    BY <1>2, <2>5 DEF LeerBloques, TPed
  <2> QED
    BY <1>1, <1>4, <2>1, <2>2, <2>3, <2>4, <2>5, SelectSuyo
<1> QED
  BY <1>1, <1>3, <1>4, SelectSigue DEF Serena

LEMMA Sosiego ==
  ASSUME Orden, Orden', [Next]_vars, NEW p \in Pedidos, Busca(p), Tranquila(p), Serena(p)', NEW t \in Tablas, t = Tabla[p]
  PROVE  /\ Serena(p) /\ Registrada(t) /\ ~Compactando(t)
         /\ Ajena(t) \/ (UNCHANGED <<tablas, archivos, disco, mem, dump>> /\ comp'[t].paso \in {"dormido", "fin"} /\ ped' = ped)
         /\ CuentasSiguen(t) /\ Registrada(t)' /\ ~Compactando(t)'
<1>1. Serena(p) /\ ~Renombrar(t)
  BY SerenaAntes
<1>2. Registrada(t) /\ ~Compactando(t) /\ ~EnDrop(t) /\ ~EnDrop(t)'
  BY <1>1 DEF Tranquila, Serena
<1>3. comp \in [Tablas -> TComp]
  BY DEF Orden, Tipos
<1>4. CASE Compactacion(t)
  <2>1. Arrancar(t) \/ Salir(t)
    BY <1>1, <1>2, <1>4 DEF Compactacion, Compactando, DescargarBloque, RecrearBloqueVacio, VaciarParticion, ActualizarBloque,
         BorrarTmpc, Reservar, Guardar, Comp
  <2>2. UNCHANGED <<tablas, archivos, disco, mem, dump>> /\ ped' = ped
    BY <2>1 DEF Arrancar, Salir, disk
  <2>3. comp'[t].paso \in {"dormido", "fin"}
    BY <1>3, <2>1 DEF Arrancar, Salir, TComp
  <2>4. Registrada(t)' /\ ~Compactando(t)'
    BY <1>2, <2>2, <2>3 DEF Registrada, Compactando
  <2> QED
    BY <1>1, <1>2, <2>2, <2>3, <2>4, MismasTablasCuentan
<1>5. CASE ~Compactacion(t)
  <2>1. ASSUME NEW q \in Pedidos, Tabla[q] = t, CrearParticiones(q) PROVE FALSE
    BY <1>2, <2>1 DEF CrearParticiones, En, Orden, Vidas, Creando, VidaDeCreate
  <2>2. ASSUME NEW q \in Pedidos, Tabla[q] = t, EliminarContenido(q) PROVE FALSE
    BY <1>2, <2>2 DEF EliminarContenido, Borrando, EnDrop
  <2>3. Ajena(t)
    BY <1>5, <2>1, <2>2 DEF Ajena
  <2>4. CuentasSiguen(t)
    BY <1>2, <1>5, CuentasAjenas
  <2>5. Registrada(t)'
    BY <1>2, <2>4, CuentaCrece
  <2>6. comp'[t] = comp[t]
    BY <2>3, CompSigue
  <2> QED
    BY <1>1, <1>2, <2>3, <2>4, <2>5, <2>6 DEF Compactando
<1> QED
  BY <1>4, <1>5

(* The files that it has still to read stay as they are.                   *)
LEMMA SosiegoArchivo ==
  ASSUME Firme, Firme', [Next]_vars, NEW p \in Pedidos, Busca(p), Tranquila(p), Serena(p)',
         NEW f \in DOMAIN archivos, f[1] = Tabla[p], f[2] \in {"tmp", "bin"}, Cierto(f)
  PROVE  /\ f \in DOMAIN archivos' /\ archivos'[f] = archivos[f]
         /\ Cierto(f)' /\ (Contada(f) => Contada(f)')
         /\ De(Utiles(archivos[f])) \subseteq De(Utiles(archivos[f]))'
<1>1. PICK t \in Tablas : t = Tabla[p]
  BY TablaDePedido
<1>2. /\ Registrada(t) /\ ~Compactando(t) /\ CuentasSiguen(t) /\ ~Compactando(t)' /\ perdidas = {} /\ perdidas' = {}
      /\ ~EnDrop(t) /\ ~EnDrop(t)'
      /\ Ajena(t) \/ UNCHANGED <<tablas, archivos, disco, mem, dump>>
  BY <1>1, Sosiego DEF Firme, Serena
<1>3. f \in Archivo /\ f[1] = t
  BY <1>1 DEF Firme, Orden, Tipos
<1>4. Cierto(f)' /\ (Volcar => f # DelDump)
  BY <1>2, <1>3, CiertoDump
<1>5. Contada(f) => Contada(f)'
  BY <1>2, <1>3, ContadaSigue, DuenioTipo DEF Firme
<1>6. CASE UNCHANGED <<tablas, archivos, disco, mem, dump>>
  BY <1>4, <1>5, <1>6 DEF De
<1>7. CASE Ajena(t)
  <2>1. f \in DOMAIN archivos' /\ archivos'[f] = archivos[f]
    BY <1>3, <1>4, <1>7, ArchivoSigue DEF Firme
  <2>2. ~EnManos(f) /\ ~EnManos(f)'
    BY <1>2, <1>3, EnManosDrop
  <2>3. comp[t].paso \notin {"descargar", "actualizar"} /\ comp'[t] = comp[t]
    BY <1>2, <1>7, CompSigue DEF Compactando, Firme
  <2>4. PICK bs : bs = Utiles(archivos[f])
    OBVIOUS
  <2>5. Tiene(f) = bs
    BY <1>3, <2>2, <2>3, <2>4, TieneLibre, QuedanUtiles
  <2>6. Tiene(f)' = bs
    BY <1>3, <1>4, <1>7, <2>2, <2>5, TieneSigue DEF Firme
  <2>7. De(bs) \subseteq De(Tiene(f))'
    BY <1>2, <1>3, <2>5, <2>6, DeSigue, DuenioTipo DEF Firme
  <2>8. De(bs) \subseteq De(bs)'
    BY <2>6, <2>7 DEF De
  <2>9. Utiles(archivos'[f]) = bs
    BY <2>1, <2>4
  <2> QED
    BY <1>4, <1>5, <2>1, <2>4, <2>8, <2>9 DEF De
<1> QED
  BY <1>2, <1>6, <1>7

(* What a SELECT looks up when it begins. *)
LEMMA BuscarTablaPed ==
  ASSUME Orden, NEW p \in Pedidos, BuscarTabla(p)
  PROVE  /\ ped[p].paso = "nuevo" /\ ped'[p].paso \in {"rechazado", "memtable"}
         /\ ped'[p].bs = ped[p].bs /\ ped'[p].mejor = ped[p].mejor
         /\ ped'[p].paso = "memtable" =>
              /\ Tabla[p] \in dirs /\ Registrada(Tabla[p])
              /\ ped'[p].nodo = IF NodosDe(Tabla[p]) = {} THEN Nadie ELSE mem[Min(NodosDe(Tabla[p]))].id
              /\ ped'[p].hubo = (NodosDe(Tabla[p]) # {} /\ mem[Min(NodosDe(Tabla[p]))].regs # <<>>)
              /\ ped'[p].debe = Max({Entero(q) : q \in Anteriores(p)} \cup {0})
              /\ ped'[p].ventana = Compactando(Tabla[p])
<1>1. ped \in [Pedidos -> TPed] /\ ped[p] \in TPed
  BY DEF Orden, Tipos
<1>2. ped[p].paso = "nuevo"
  BY DEF BuscarTabla, En
<1>3. CASE Tabla[p] \notin dirs
  BY <1>1, <1>2, <1>3 DEF BuscarTabla, TPed
<1>4. CASE Tabla[p] \in dirs
  BY <1>1, <1>2, <1>4 DEF BuscarTabla, BuscarTablaCae, TPed
<1> QED
  BY <1>3, <1>4

LEMMA PasoSinAbrir ==
  ASSUME Orden, SinAbrir, [Next]_vars
  PROVE  SinAbrir'
<1>1. ped \in [Pedidos -> TPed]
  BY DEF Orden, Tipos
<1>2. ASSUME NEW p \in Pedidos, Tipo[p] = "SELECT", ped'[p].paso \notin {"tmp", "tmpc", "bin"} PROVE ped'[p].bs = Nadie
  <2>1. ped[p].paso \notin {"tmp", "tmpc", "bin"} => ped[p].bs = Nadie
    BY <1>2 DEF SinAbrir
  <2>2. CASE ped'[p] = ped[p] \/ (ped'[p].paso = ped[p].paso /\ ped'[p].bs = ped[p].bs)
    BY <1>2, <2>1, <2>2
  <2>3. CASE BuscarTabla(p)
    BY <1>1, <2>1, <2>3, BuscarTablaPed DEF BuscarTabla, En
  <2>4. CASE TomarMutexTabla(p)
    BY <1>1, <2>1, <2>4 DEF TomarMutexTabla, En, Ir, TPed
  <2>5. CASE LeerMemTable(p)
    BY <1>1, <1>2, <2>5 DEF LeerMemTable, TPed
  <2>6. CASE AbrirArchivo(p)
    BY <1>1, <1>2, <2>6, SiguienteArchivoTipo DEF AbrirArchivo, TPed, Orden
  <2>7. CASE LeerBloques(p)
    BY <1>1, <2>7 DEF LeerBloques, TPed
  <2>8. CASE Pedido(p)
    BY <1>2, <2>3, <2>4, <2>5, <2>6, <2>7, <2>8, SelectSuyo
  <2> QED
    BY <1>2, <2>2, <2>8, SelectSigue
<1> QED
  BY <1>2 DEF SinAbrir

(* The memtable that a SELECT has found keeps its records until a dump     *)
(* writes them, or until it is freed.                                      *)
EnNodo(x) == {r \in Pedidos : \E i \in DOMAIN mem : mem[i].id = x /\ r \in ToSet(mem[i].regs)}
Muerto(x) == \A i \in DOMAIN mem : mem[i].id = x => mem[i].regs = <<>> /\ dump.paso # "dormido"

LEMMA NodoSigue ==
  ASSUME Orden, Nodos, Memtables, [Next]_vars, NEW x \in Pedidos, Tipo[x] = "INSERT", ped[x].paso # "nuevo"
  PROVE  /\ EnNodo(x) \subseteq EnNodo(x)' \/ Muerto(x)'
         /\ Muerto(x) => Muerto(x)'
<1>1. ASSUME mem' = mem, dump' = dump PROVE EnNodo(x)' = EnNodo(x) /\ (Muerto(x) => Muerto(x)')
  BY <1>1 DEF EnNodo, Muerto
<1>2. ASSUME mem' = <<>> PROVE Muerto(x)'
  BY <1>2 DEF Muerto
<1>3. mem \in Seq(TNodo) /\ \A i \in DOMAIN mem : mem[i] \in TNodo
  BY MemTipo DEF Orden, Tipos
<1>4. CASE Volcar
  <2>1. PICK l : l = Lugar
    OBVIOUS
  <2>2. l \in DOMAIN mem /\ mem' = [mem EXCEPT ![l].regs = <<>>] /\ dump'.paso # "dormido"
    BY <1>4, <2>1, LugarTipo DEF Volcar, Orden
  <2>3. /\ DOMAIN mem' = DOMAIN mem /\ \A i \in DOMAIN mem : mem'[i].id = mem[i].id
        /\ mem'[l].regs = <<>> /\ \A i \in DOMAIN mem \ {l} : mem'[i] = mem[i]
    BY <1>3, <2>2 DEF TNodo
  <2>4. Muerto(x) => Muerto(x)'
    BY <2>2, <2>3 DEF Muerto
  <2>5. CASE mem[l].id = x
    BY <2>2, <2>3, <2>4, <2>5 DEF Nodos, Memtables, Distintos, Muerto
  <2>6. CASE mem[l].id # x
    BY <2>3, <2>4, <2>6 DEF EnNodo
  <2> QED
    BY <2>5, <2>6
<1>5. CASE DumpSinBloques
  BY <1>2, <1>5 DEF DumpSinBloques
<1>6. CASE Contar
  BY <1>2, <1>6 DEF EnNodo, Muerto, Contar
<1>7. ASSUME NEW q \in Pedidos, Insertar(q) PROVE EnNodo(x) \subseteq EnNodo(x)' /\ (Muerto(x) => Muerto(x)')
  <2>1. PICK n : n = Nodo(ped[q].nodo)
    OBVIOUS
  <2>2. n \in DOMAIN mem
    BY <1>7, <2>1 DEF Insertar, InsertarCae, HayNodo, Nodo
  <2>3. mem' = [mem EXCEPT ![n].regs = Append(@, q)] /\ dump.paso = "dormido"
    BY <1>7, <2>1 DEF Insertar, InsertsLibre
  <2>4. /\ DOMAIN mem' = DOMAIN mem /\ \A i \in DOMAIN mem : mem'[i].id = mem[i].id
        /\ mem'[n].regs = Append(mem[n].regs, q) /\ \A i \in DOMAIN mem \ {n} : mem'[i] = mem[i]
    BY <1>3, <2>2, <2>3 DEF TNodo
  <2>5. ToSet(mem[n].regs) \subseteq ToSet(mem'[n].regs)
    BY <1>3, <2>2, <2>4, AppendGuarda DEF TNodo
  <2>6. \A i \in DOMAIN mem : ToSet(mem[i].regs) \subseteq ToSet(mem'[i].regs)
    BY <2>4, <2>5
  <2>7. EnNodo(x) \subseteq EnNodo(x)'
    BY <2>4, <2>6 DEF EnNodo
  <2>8. Muerto(x) => Muerto(x)'
    BY <2>3, <2>4 DEF Muerto
  <2> QED
    BY <2>7, <2>8
<1>8. ASSUME NEW q \in Pedidos, BuscarMemTable(q) PROVE EnNodo(x) \subseteq EnNodo(x)' /\ (Muerto(x) => Muerto(x)')
  <2>1. CASE mem' = mem
    BY <1>1, <1>8, <2>1 DEF BuscarMemTable
  <2>2. CASE mem' # mem
    <3>1. PICK l : l = Len(mem) + 1
      OBVIOUS
    <3>2. /\ DOMAIN mem \subseteq DOMAIN mem' /\ \A i \in DOMAIN mem' : i \in DOMAIN mem \/ i = l
          /\ mem'[l] = [id |-> q, nombre |-> Tabla[q], regs |-> <<>>]
          /\ \A i \in DOMAIN mem : mem'[i] = mem[i]
      BY <1>8, <2>2, <3>1, UnaMemTable
    <3>3. q # x /\ dump.paso = "dormido"
      BY <1>8, <2>2 DEF BuscarMemTable, En, BusquedaLibre, InsertsLibre
    <3>4. mem'[l].id # x
      BY <3>2, <3>3
    <3>5. EnNodo(x) \subseteq EnNodo(x)'
      BY <3>2 DEF EnNodo
    <3>6. Muerto(x) => Muerto(x)'
      BY <3>2, <3>3, <3>4 DEF Muerto
    <3> QED
      BY <3>5, <3>6
  <2> QED
    BY <2>1, <2>2
<1>9. ASSUME NEW q \in Pedidos, Olvidar(q) PROVE mem' = <<>> \/ (mem' = mem /\ dump' = dump)
  BY <1>9 DEF Olvidar
<1>10. ASSUME NEW q \in Pedidos, Pedido(q), ~Insertar(q), ~BuscarMemTable(q), ~Olvidar(q) PROVE mem' = mem /\ dump' = dump
  BY <1>10, MismoMem, PedidoQuietoDump
<1>11. ASSUME NEW u \in Tablas, Compactacion(u) PROVE mem' = mem /\ dump' = dump
  BY <1>11, CompQuieto
<1>12. CASE Caer \/ UNCHANGED vars
  BY <1>1, <1>12 DEF Caer, vars
<1>13. ASSUME NEW q \in Pedidos, Pedido(q) PROVE (EnNodo(x) \subseteq EnNodo(x)' \/ Muerto(x)') /\ (Muerto(x) => Muerto(x)')
  BY <1>1, <1>2, <1>7, <1>8, <1>9, <1>10, <1>13
<1> QED
  BY <1>1, <1>4, <1>5, <1>6, <1>11, <1>12, <1>13 DEF Next, Dump

(* The file that it opens when no compaction of its table runs.            *)
LEMMA AbrirArchivoPed ==
  ASSUME Orden, NEW p \in Pedidos, Tranquila(p), Busca(p), Serena(p), AbrirArchivo(p), NEW t, t = Tabla[p]
  PROVE  \E f \in Archivo :
           /\ f[1] = t /\ f[2] \in {"tmp", "bin"} /\ Contada(f) /\ ped[p].paso = "tmp" /\ ped[p].bs = Nadie
           /\ f[2] = "tmp" => f[3] = ped[p].n
           /\ f[2] = "bin" => f[3] = ParticionDe(Clave[p]) /\ \A k \in Nat : k >= ped[p].n => ~(k < Cuenta(t, "tmp"))
           /\ f = <<t, ped'[p].paso, ped'[p].n - 1>>
           /\ ped'[p].bs = IF f \in DOMAIN archivos THEN archivos[f] ELSE <<>>
           /\ ped'[p].paso = f[2] /\ ped'[p].n = f[3] + 1
           /\ ped'[p].hubo = ped[p].hubo /\ ped'[p].nodo = ped[p].nodo /\ ped'[p].mejor = ped[p].mejor /\ ped'[p].debe = ped[p].debe
<1>1. PICK f : f = SiguienteArchivo(p)
  OBVIOUS
<1>2. f = <<f[1], f[2], f[3]>> /\ f[1] = t /\ f[2] \in {"tmp", "tmpc", "bin"} /\ f[3] \in Nat \ {0}
  BY <1>1, SiguienteArchivoTipo DEF Orden
<1>3. ped \in [Pedidos -> TPed] /\ ped[p] \in TPed
  BY DEF Orden, Tipos
<1>4. ped[p].bs = Nadie /\ ped[p].paso = "tmp" /\ MutexLibre(t) /\ Registrada(t) /\ ~Compactando(t) /\ t \in Tablas
  BY TablaDePedido DEF AbrirArchivo, BuscandoEnArchivos, Tranquila
<1>5. LaTabla(t) \in TTabla /\ Indice(t) \in DOMAIN tablas /\ tablas[Indice(t)].nombre = t /\ LaTabla(t) = tablas[Indice(t)]
  BY <1>4, TablaDe DEF Orden
<1>6. LaTabla(t).compactados = 1
  BY <1>4, <1>5, NadieAssumption DEF Orden, Cadena, MutexLibre, CadenaDe, Compactando
<1>7. Cuenta(t, "tmp") = LaTabla(t).contador /\ LaTabla(t).contador \in Nat /\ ped[p].n \in Nat
  BY <1>3, <1>4, <1>5 DEF Cuenta, TTabla, TPed
<1>8. \/ f = <<t, "tmp", ped[p].n>> /\ ped[p].n < LaTabla(t).contador
      \/ f = <<t, "bin", ParticionDe(Clave[p])>> /\ ~(ped[p].n < LaTabla(t).contador)
  BY <1>1, <1>4, <1>6, <1>7 DEF SiguienteArchivo
<1>9. PICK b : b = IF f \in DOMAIN archivos THEN archivos[f] ELSE <<>>
  OBVIOUS
<1>10. PICK a, k, x : a = f[2] /\ k = f[3] + 1 /\ x = [ped[p] EXCEPT !.paso = a, !.n = k, !.bs = b]
  OBVIOUS
<1>11. ped' = [ped EXCEPT ![p] = x]
  BY <1>1, <1>9, <1>10 DEF AbrirArchivo
<1>12. /\ x.paso = a /\ x.n = k /\ x.bs = b
       /\ x.hubo = ped[p].hubo /\ x.nodo = ped[p].nodo /\ x.mejor = ped[p].mejor /\ x.debe = ped[p].debe
  BY <1>3, <1>10 DEF TPed
<1>13. ped'[p] = x
  BY <1>3, <1>11
<1>14. f \in Archivo
  BY <1>2, <1>4 DEF Archivo
<1>15. f[2] \in {"tmp", "bin"} /\ (f[2] = "tmp" => f[3] = ped[p].n /\ f[3] < LaTabla(t).contador)
       /\ (f[2] = "bin" => f[3] = ParticionDe(Clave[p]) /\ ~(ped[p].n < LaTabla(t).contador))
  BY <1>8
<1>16. Contada(f)
  BY <1>2, <1>7, <1>15 DEF Contada
<1>17. f[2] = "bin" => \A j \in Nat : j >= ped[p].n => ~(j < Cuenta(t, "tmp"))
  BY <1>7, <1>15
<1>18. k - 1 = f[3]
  BY <1>2, <1>10
<1> QED
  BY <1>2, <1>4, <1>9, <1>10, <1>12, <1>13, <1>14, <1>15, <1>16, <1>17, <1>18

LEMMA TomarMutexTablaPed ==
  ASSUME Orden, NEW p \in Pedidos, TomarMutexTabla(p)
  PROVE  /\ ped[p].paso = "memtable" /\ ped'[p].paso = "leyendo"
         /\ ped'[p].bs = ped[p].bs /\ ped'[p].hubo = ped[p].hubo /\ ped'[p].nodo = ped[p].nodo /\ ped'[p].n = ped[p].n
         /\ ped'[p].mejor = ped[p].mejor /\ ped'[p].debe = ped[p].debe
BY DEF Orden, Tipos, TomarMutexTabla, En, Ir, TPed

LEMMA LeerMemTablePed ==
  ASSUME Orden, NEW p \in Pedidos, LeerMemTable(p)
  PROVE  /\ ped[p].paso = "leyendo" /\ ped'[p].paso = "tmp" /\ ped'[p].n = 1
         /\ ped'[p].bs = ped[p].bs /\ ped'[p].hubo = ped[p].hubo /\ ped'[p].nodo = ped[p].nodo /\ ped'[p].debe = ped[p].debe
         /\ ped'[p].mejor = IF ped[p].hubo THEN Mejor(Clave[p], ped[p].mejor, ToSet(mem[Nodo(ped[p].nodo)].regs)) ELSE ped[p].mejor
BY DEF Orden, Tipos, LeerMemTable, En, TPed

LEMMA LeerBloquesPed ==
  ASSUME Orden, NEW p \in Pedidos, LeerBloques(p)
  PROVE  /\ ped[p].bs # Nadie /\ ped'[p].bs = Nadie
         /\ ped'[p].paso = (IF ped[p].paso = "bin" THEN "fin" ELSE ped[p].paso)
         /\ ped'[p].hubo = ped[p].hubo /\ ped'[p].nodo = ped[p].nodo /\ ped'[p].n = ped[p].n /\ ped'[p].debe = ped[p].debe
         /\ ped'[p].mejor = Mejor(Clave[p], ped[p].mejor, Contenido(ped[p].bs))
BY DEF Orden, Tipos, LeerBloques, TPed

LEMMA TranquilaSigue ==
  ASSUME Firme, Firme', [Next]_vars, NEW p \in Pedidos, Tranquila(p), Busca(p), Serena(p)', NEW f, f = Leida(p)',
         ped'[p].hubo = ped[p].hubo, ped'[p].nodo = ped[p].nodo, ped'[p].paso # "tmpc",
         ped'[p].bs # Nadie => /\ ped'[p].paso \in {"tmp", "bin"} /\ Contada(f)'
                               /\ ped'[p].bs = <<>> \/ (f \in DOMAIN archivos' /\ ped'[p].bs = archivos'[f])
  PROVE  Tranquila(p)'
BY TablaDePedido, Sosiego, NoNuevo DEF Firme, Tranquila

LEMMA LeidaSigue ==
  ASSUME Firme, Firme', [Next]_vars, NEW p \in Pedidos, Tranquila(p), Busca(p), Serena(p)', ped[p].bs # Nadie, NEW f, f = Leida(p)
  PROVE  /\ Contada(f)' /\ (f \in DOMAIN archivos => f \in DOMAIN archivos' /\ archivos'[f] = archivos[f])
<1>1. PICK t \in Tablas : t = Tabla[p]
  BY TablaDePedido
<1>2. Serena(p) /\ Registrada(t) /\ CuentasSiguen(t)
  BY <1>1, Sosiego DEF Firme
<1>3. ped[p].n \in Nat \ {0} /\ ped[p].paso \in {"tmp", "bin"} /\ Contada(f)
  BY <1>2, PedTipo DEF Firme, Orden, TPed, Tranquila
<1>4. f[1] = t /\ f[2] \in {"tmp", "bin"} /\ f[3] \in Nat
  BY <1>1, <1>3 DEF Leida
<1>5. Contada(f)'
  BY <1>2, <1>3, <1>4, ContadaSigue DEF Firme
<1>6. Cierto(f)
  BY <1>3, <1>4 DEF Contada, Cierto
<1>7. f \in DOMAIN archivos => f \in DOMAIN archivos' /\ archivos'[f] = archivos[f]
  BY <1>1, <1>4, <1>6, SosiegoArchivo
<1> QED
  BY <1>5, <1>7

LEMMA PasoTranquila ==
  ASSUME Firme, Firme', Memtables, SinAbrir, [Next]_vars, NEW p \in Pedidos, Tranquila(p)
  PROVE  Tranquila(p)'
<1> SUFFICES ASSUME Busca(p)', Serena(p)' PROVE Tranquila(p)'
  BY DEF Tranquila
<1>1. ped \in [Pedidos -> TPed] /\ Tipo[p] = "SELECT" /\ ped'[p].paso \in Leen /\ Orden
  BY DEF Firme, Orden, Tipos, Busca
<1>2. CASE ped'[p] = ped[p]
  BY <1>1, <1>2, SerenaAntes, LeidaSigue, TranquilaSigue DEF Busca, Leida, Tranquila
<1>3. CASE BuscarTabla(p)
  <2>1. ped[p].paso = "nuevo" /\ ped'[p].paso = "memtable" /\ ped'[p].bs = ped[p].bs
    BY <1>1, <1>3, BuscarTablaPed DEF Leen
  <2>2. PICK t \in Tablas : t = Tabla[p]
    BY TablaDePedido
  <2>3. PICK x : x = ped'[p].nodo
    OBVIOUS
  <2>4. /\ Registrada(t) /\ ped'[p].ventana = Compactando(t)
        /\ x = IF NodosDe(t) = {} THEN Nadie ELSE mem[Min(NodosDe(t))].id
        /\ ped'[p].hubo => NodosDe(t) # {}
    BY <1>1, <1>3, <2>1, <2>2, <2>3, BuscarTablaPed
  <2>5. UNCHANGED <<tablas, comp>>
    BY <1>3 DEF BuscarTabla
  <2>6. Registrada(t)' /\ ~Compactando(t)'
    BY <2>4, <2>5 DEF Registrada, Compactando, Serena
  <2>7. ped'[p].bs = Nadie
    BY <1>1, <2>1 DEF SinAbrir
  <2>8. ped'[p].hubo => x \in Pedidos /\ Tipo[x] = "INSERT" /\ ped[x].paso # "nuevo"
    BY <1>1, <2>4, NodosTipo, MemTipo DEF Orden, Memtables, DeInsert, TNodo
  <2>9. ped'[p].hubo => x \in Pedidos /\ Tipo[x] = "INSERT" /\ ped'[x].paso # "nuevo"
    BY <1>1, <2>8, NoNuevo
  <2> QED
    BY <2>1, <2>2, <2>3, <2>6, <2>7, <2>9 DEF Tranquila
<1>4. CASE TomarMutexTabla(p)
  BY <1>1, <1>4, TomarMutexTablaPed, TranquilaSigue DEF SinAbrir, Busca, Leen
<1>5. CASE LeerMemTable(p)
  BY <1>1, <1>5, LeerMemTablePed, TranquilaSigue DEF SinAbrir, Busca, Leen
<1>6. CASE AbrirArchivo(p)
  <2>1. Busca(p)
    BY <1>1, <1>6 DEF AbrirArchivo, BuscandoEnArchivos, Busca, Leen
  <2>2. Serena(p)
    BY <1>1, <2>1, SerenaAntes
  <2>3. PICK t : t = Tabla[p]
    OBVIOUS
  <2>4. PICK f \in Archivo :
           /\ f[1] = t /\ f[2] \in {"tmp", "bin"} /\ Contada(f)
           /\ f = <<t, ped'[p].paso, ped'[p].n - 1>>
           /\ ped'[p].bs = IF f \in DOMAIN archivos THEN archivos[f] ELSE <<>>
           /\ ped'[p].paso = f[2]
           /\ ped'[p].hubo = ped[p].hubo /\ ped'[p].nodo = ped[p].nodo
    BY <1>1, <1>6, <2>1, <2>2, <2>3, AbrirArchivoPed
  <2>5. UNCHANGED <<tablas, archivos>>
    BY <1>6 DEF AbrirArchivo, disk
  <2>6. f = Leida(p)'
    BY <2>3, <2>4 DEF Leida
  <2>7. Contada(f)'
    BY <2>4, <2>5 DEF Contada, Cuenta, Registrada, LaTabla, Indice
  <2>8. ped'[p].paso \in {"tmp", "bin"} /\ (ped'[p].bs = <<>> \/ (f \in DOMAIN archivos' /\ ped'[p].bs = archivos'[f]))
    BY <2>4, <2>5
  <2> QED
    BY <2>1, <2>4, <2>6, <2>7, <2>8, TranquilaSigue
<1>7. CASE LeerBloques(p)
  BY <1>1, <1>7, LeerBloquesPed, SerenaAntes, TranquilaSigue DEF Leen, Busca, Tranquila
<1>8. CASE Renombrar(Tabla[p]) /\ ped'[p].ventana
  BY <1>8 DEF Serena
<1> QED
  BY <1>1, <1>2, <1>3, <1>4, <1>5, <1>6, <1>7, <1>8, SelectSigue, SelectSuyo

(* A SELECT that nothing disturbs has an answer as new as it owes, or has  *)
(* still to read one: in the memtable that it has found, in a .tmp that is *)
(* counted, in the partition of the key or in the blocks that it listed.   *)
(* If the dump has emptied that memtable, the process falls before it is   *)
(* read.                                                                   *)
Mira(p) == ped[p].paso \in {"memtable", "leyendo"} /\ ped[p].hubo

Pendiente(p, f) ==
  /\ f[1] = Tabla[p]
  /\ \/ f[2] = "tmp" /\ ped[p].paso = "memtable" /\ Cierto(f)
     \/ f[2] = "tmp" /\ ped[p].paso = "leyendo" /\ Contada(f)
     \/ f[2] = "tmp" /\ ped[p].paso = "tmp" /\ Contada(f) /\ f[3] >= ped[p].n
     \/ f[2] = "bin" /\ f[3] = ParticionDe(Clave[p]) /\ ped[p].paso \in {"memtable", "leyendo", "tmp"}
     \/ ped[p].paso \in {"tmp", "bin"} /\ f = Leida(p) /\ ped[p].bs = archivos[f]

Alcanza(p, r) == Clave[r] = Clave[p] /\ Entero(r) >= ped[p].debe
Respuesta(p) == ped[p].debe = 0 \/ (ped[p].mejor # Nadie /\ Entero(ped[p].mejor) >= ped[p].debe)
EnMemoria(p) == Mira(p) /\ (Muerto(ped[p].nodo) \/ \E r \in EnNodo(ped[p].nodo) : Alcanza(p, r))
EnUnArchivo(p) == \E f \in DOMAIN archivos : Pendiente(p, f) /\ \E r \in De(Utiles(archivos[f])) : Alcanza(p, r)

Basta(p) == Respuesta(p) \/ EnMemoria(p) \/ EnUnArchivo(p)

Responde(p) == Tipo[p] = "SELECT" /\ ped[p].paso \in Leen \cup {"fin"} /\ Serena(p) => Basta(p)

LEMMA PendienteCierto ==
  ASSUME Orden, NEW p \in Pedidos, Tranquila(p), Busca(p), Serena(p), NEW f \in DOMAIN archivos, Pendiente(p, f)
  PROVE  f \in Archivo /\ f[1] = Tabla[p] /\ f[2] \in {"tmp", "bin"} /\ Cierto(f)
BY NadieAssumption DEF Orden, Tipos, Pendiente, Tranquila, Contada, Cierto

(* A step that leaves it alone. *)
LEMMA BastaQuieta ==
  ASSUME Firme, Firme', Memtables, [Next]_vars, NEW p \in Pedidos, Tranquila(p), Busca(p), Serena(p)',
         ped'[p] = ped[p], Basta(p)
  PROVE  Basta(p)'
<1>1. Serena(p)
  BY SerenaAntes DEF Firme
<1>2. CASE Respuesta(p)
  BY <1>2 DEF Basta, Respuesta
<1>3. CASE EnMemoria(p)
  BY <1>1, <1>3, NodoSigue DEF EnMemoria, Mira, Tranquila, Firme, Alcanza, Basta
<1>4. CASE EnUnArchivo(p)
  BY <1>1, <1>4, PendienteCierto, SosiegoArchivo DEF EnUnArchivo, Firme, Pendiente, Leida, Alcanza, Basta
<1> QED
  BY <1>2, <1>3, <1>4 DEF Basta

(* It begins: all that was inserted before is kept somewhere. *)
LEMMA BastaBuscar ==
  ASSUME Firme, Guardado, Memtables, [Next]_vars, NEW p \in Pedidos, BuscarTabla(p), ped'[p].paso = "memtable", Serena(p)'
  PROVE  Basta(p)'
<1>1. PICK t \in Tablas : t = Tabla[p]
  BY TablaDePedido
<1>2. /\ Registrada(t) /\ ped'[p].ventana = Compactando(t)
      /\ ped'[p].nodo = IF NodosDe(t) = {} THEN Nadie ELSE mem[Min(NodosDe(t))].id
      /\ ped'[p].hubo = (NodosDe(t) # {} /\ mem[Min(NodosDe(t))].regs # <<>>)
      /\ ped'[p].debe = Max({Entero(q) : q \in Anteriores(p)} \cup {0})
  BY <1>1, BuscarTablaPed DEF Firme
<1>3. UNCHANGED <<tablas, mem, disk, dump, comp, perdidas>>
  BY DEF BuscarTabla
<1>4. perdidas = {} /\ ~EnDrop(t) /\ ~Compactando(t)
  BY <1>1, <1>2, PerdidasSigue, DropSigue DEF Serena, Firme
<1>5. PICK d : d = Max({Entero(q) : q \in Anteriores(p)} \cup {0})
  OBVIOUS
<1>6. d \in {Entero(q) : q \in Anteriores(p)} \cup {0} /\ ped'[p].debe = d
  BY <1>2, <1>5, AnterioresTipo
<1>7. CASE d = 0
  BY <1>6, <1>7 DEF Basta, Respuesta
<1>8. CASE d # 0
  <2>1. PICK q \in Anteriores(p) : d = Entero(q)
    BY <1>6, <1>8
  <2>2. q \in Pedidos /\ Tipo[q] = "INSERT" /\ ped[q].paso = "fin" /\ Tabla[q] = t /\ Clave[q] = Clave[p]
    BY <1>1, <2>1 DEF Anteriores
  <2>3. PICK r \in Seguros(t) : Cubre(r, q)
    BY <1>4, <2>2 DEF Guardado
  <2>4. r \in Pedidos /\ Alcanza(p, r)' /\ Clave[r] = Clave[p]
    BY <1>6, <2>1, <2>2, <2>3, SegurosTipo DEF Cubre, Alcanza, Firme
  <2>5. CASE r \in EnMem(t)
    <3>1. PICK i \in NodosDe(t) : r \in ToSet(mem[i].regs)
      BY <2>5 DEF EnMem
    <3>2. Min(NodosDe(t)) \in NodosDe(t)
      BY <3>1, NodosTipo DEF Firme, Orden
    <3>3. Min(NodosDe(t)) = i /\ i \in DOMAIN mem
      BY <3>1, <3>2 DEF NodosDe, Memtables, Distintos
    <3>4. mem[i].regs # <<>>
      BY <3>1 DEF ToSet
    <3>5. PICK x : x = mem[i].id
      OBVIOUS
    <3>6. ped'[p].nodo = x /\ ped'[p].hubo
      BY <1>2, <3>1, <3>3, <3>4, <3>5
    <3>7. r \in EnNodo(x)'
      BY <1>3, <2>4, <3>1, <3>3, <3>5 DEF EnNodo
    <3> QED
      BY <2>4, <3>6, <3>7 DEF Basta, EnMemoria, Mira
  <2>6. CASE r \in EnArchivos(t)
    <3>1. PICK f \in DOMAIN archivos : f[1] = t /\ Cierto(f) /\ r \in De(Tiene(f)) \cap Cabe(f)
      BY <2>6 DEF EnArchivos
    <3>2. f \in Archivo /\ ~EnManos(f) /\ comp[t].paso \notin {"descargar", "actualizar"}
      BY <1>4, <3>1, EnManosDrop DEF Firme, Orden, Tipos, Compactando
    <3>3. Tiene(f) = Utiles(archivos[f])
      BY <3>1, <3>2, TieneLibre, QuedanUtiles
    <3>4. r \in De(Utiles(archivos[f]))'
      BY <1>3, <3>1, <3>3 DEF De, disk
    <3>5. Cierto(f)' /\ f \in DOMAIN archivos'
      BY <1>3, <3>1 DEF Cierto, Cuenta, Registrada, LaTabla, Indice, PorContar, disk
    <3>6. f[2] # "tmpc"
      <4>1. LaTabla(t) \in TTabla /\ Indice(t) \in DOMAIN tablas /\ LaTabla(t) = tablas[Indice(t)] /\ LaTabla(t).nombre = t
        BY <1>2, TablaDe DEF Firme, Orden
      <4>2. LaTabla(t).mutex # t
        BY <1>4, <4>1 DEF Firme, Cuentas, Completas
      <4>3. CadenaDe(LaTabla(t), comp[t])
        BY <4>1 DEF Firme, Orden, Cadena
      <4>4. Cuenta(t, "tmpc") = 1
        BY <1>2, <3>2, <4>1, <4>2, <4>3 DEF CadenaDe, Cuenta
      <4>5. ASSUME f[2] = "tmpc" PROVE f # PorContar
        BY <3>2, <4>5, ArchivoNoVacio DEF PorContar
      <4>6. f[3] \in Nat \ {0}
        BY <3>2, DuenioTipo
      <4> QED
        BY <3>1, <4>4, <4>5, <4>6 DEF Cierto
    <3>7. Pendiente(p, f)'
      BY <1>1, <2>4, <3>1, <3>2, <3>5, <3>6, DuenioTipo DEF Pendiente, Cabe
    <3> QED
      BY <2>4, <3>4, <3>5, <3>7 DEF Basta, EnUnArchivo
  <2>7. CASE r \in EnAlmacen(t)
    BY <1>4, <2>7 DEF Firme, Orden, Tipos, EnRango, Compactando, EnAlmacen
  <2> QED
    BY <2>3, <2>5, <2>6, <2>7 DEF Seguros
<1> QED
  BY <1>7, <1>8

(* It reads: what it owes is in what it reads, or in what it reads next.   *)
LEMMA BastaTomar ==
  ASSUME Firme, Firme', [Next]_vars, NEW p \in Pedidos, Tranquila(p), Busca(p), Serena(p)', TomarMutexTabla(p), Basta(p)
  PROVE  Basta(p)'
<1>1. /\ ped[p].paso = "memtable" /\ ped'[p].paso = "leyendo"
      /\ ped'[p].hubo = ped[p].hubo /\ ped'[p].nodo = ped[p].nodo
      /\ ped'[p].mejor = ped[p].mejor /\ ped'[p].debe = ped[p].debe
  BY TomarMutexTablaPed DEF Firme
<1>2. Serena(p) /\ mem' = mem /\ dump.paso = "dormido" /\ ~SelectCae(p)
  BY SerenaAntes DEF TomarMutexTabla, BusquedaLibre, InsertsLibre, Firme
<1>3. CASE Respuesta(p)
  BY <1>1, <1>3 DEF Basta, Respuesta
<1>4. CASE EnMemoria(p)
  <2>1. PICK x : x = ped[p].nodo
    OBVIOUS
  <2>2. \E i \in DOMAIN mem : mem[i].id = x
    BY <1>1, <1>2, <1>4, <2>1 DEF EnMemoria, Mira, SelectCae, NodoVivo, HayNodo, TomarMutexTabla, En, Leen
  <2>3. ~Muerto(x)
    BY <1>2, <2>2 DEF Muerto
  <2>4. PICK r \in EnNodo(x) : Alcanza(p, r)
    BY <1>4, <2>1, <2>3 DEF EnMemoria
  <2>5. r \in EnNodo(x)' /\ Alcanza(p, r)' /\ Mira(p)'
    BY <1>1, <1>2, <1>4, <2>4 DEF EnNodo, Alcanza, EnMemoria, Mira
  <2> QED
    BY <1>1, <2>1, <2>5 DEF Basta, EnMemoria
<1>5. CASE EnUnArchivo(p)
  <2>1. PICK f \in DOMAIN archivos : Pendiente(p, f) /\ \E r \in De(Utiles(archivos[f])) : Alcanza(p, r)
    BY <1>5 DEF EnUnArchivo
  <2>2. PICK r \in De(Utiles(archivos[f])) : Alcanza(p, r)
    BY <2>1
  <2>3. f \in Archivo /\ f[1] = Tabla[p] /\ f[2] \in {"tmp", "bin"} /\ Cierto(f)
    BY <1>2, <2>1, PendienteCierto DEF Firme
  <2>4. /\ f \in DOMAIN archivos' /\ archivos'[f] = archivos[f]
        /\ (Contada(f) => Contada(f)')
        /\ De(Utiles(archivos[f])) \subseteq De(Utiles(archivos[f]))'
    BY <2>3, SosiegoArchivo
  <2>5. Contada(f)
    BY <1>2, <2>3, ArchivoNoVacio DEF PorContar, Cierto, Contada
  <2>6. Pendiente(p, f)'
    BY <1>1, <2>1, <2>3, <2>4, <2>5 DEF Pendiente
  <2>7. r \in De(Utiles(archivos[f]))' /\ Alcanza(p, r)'
    BY <1>1, <2>2, <2>4 DEF Alcanza
  <2> QED
    BY <2>4, <2>6, <2>7 DEF Basta, EnUnArchivo
<1> QED
  BY <1>3, <1>4, <1>5 DEF Basta

LEMMA MejorRespuesta ==
  ASSUME Orden, NEW p \in Pedidos, NEW regs \in SUBSET Pedidos, NEW m, m = Mejor(Clave[p], ped[p].mejor, regs),
         Respuesta(p) \/ \E r \in regs : Alcanza(p, r)
  PROVE  ped[p].debe = 0 \/ (m # Nadie /\ Entero(m) >= ped[p].debe)
<1>1. ped[p] \in TPed
  BY PedTipo DEF Orden
<1>2. PICK h : h = ped[p].mejor
  OBVIOUS
<1>3. PICK d : d = ped[p].debe
  OBVIOUS
<1>4. h \in Pedidos \cup {Nadie} /\ d \in Nat
  BY <1>1, <1>2, <1>3 DEF TPed
<1>5. /\ m \in Pedidos \cup {Nadie}
      /\ h # Nadie => m # Nadie /\ Entero(m) >= Entero(h)
      /\ \A r \in regs : Clave[r] = Clave[p] /\ Entero(r) # 0 => m # Nadie /\ Entero(m) >= Entero(r)
  BY <1>2, <1>4, MejorTipo
<1>6. \A q \in Pedidos : Entero(q) \in Nat
  BY EnteroNat
<1>7. CASE Respuesta(p)
  BY <1>2, <1>3, <1>4, <1>5, <1>6, <1>7 DEF Respuesta
<1>8. CASE \E r \in regs : Alcanza(p, r)
  BY <1>3, <1>4, <1>5, <1>6, <1>8 DEF Alcanza
<1> QED
  BY <1>7, <1>8

LEMMA BastaLeer ==
  ASSUME Firme, Firme', Memtables, [Next]_vars, NEW p \in Pedidos, Tranquila(p), Busca(p), Serena(p)', LeerMemTable(p), Basta(p)
  PROVE  Basta(p)'
<1>1. /\ ped[p].paso = "leyendo" /\ ped'[p].paso = "tmp" /\ ped'[p].n = 1
      /\ ped'[p].debe = ped[p].debe
      /\ ped'[p].mejor = IF ped[p].hubo THEN Mejor(Clave[p], ped[p].mejor, ToSet(mem[Nodo(ped[p].nodo)].regs)) ELSE ped[p].mejor
  BY LeerMemTablePed DEF Firme
<1>2. Serena(p) /\ mem' = mem /\ ~SelectCae(p)
  BY SerenaAntes DEF LeerMemTable, Firme
<1>3. ASSUME ped[p].hubo
      PROVE  LET i == Nodo(ped[p].nodo)
             IN  i \in DOMAIN mem /\ mem[i].id = ped[p].nodo /\ mem[i].regs # <<>> /\ ToSet(mem[i].regs) \in SUBSET Pedidos
  <2>1. \E i \in DOMAIN mem : mem[i].id = ped[p].nodo
    BY <1>1, <1>2, <1>3 DEF SelectCae, NodoVivo, HayNodo, LeerMemTable, En, Leen
  <2>2. PICK i : i = Nodo(ped[p].nodo)
    OBVIOUS
  <2>3. i \in DOMAIN mem /\ mem[i].id = ped[p].nodo
    BY <2>1, <2>2 DEF Nodo
  <2>4. mem[i].regs # <<>>
    BY <1>1, <1>2, <1>3, <2>2 DEF SelectCae, NodoVivo, LeerMemTable, En, Leen
  <2>5. ToSet(mem[i].regs) \in SUBSET Pedidos
    BY <2>3, MemTipo, ToSetTipo DEF Firme, Orden, TNodo
  <2> QED
    BY <2>2, <2>3, <2>4, <2>5
<1>4. CASE Respuesta(p)
  BY <1>1, <1>3, <1>4, MejorRespuesta DEF Firme, Basta, Respuesta
<1>5. CASE EnMemoria(p)
  <2>1. ped[p].hubo
    BY <1>5 DEF EnMemoria, Mira
  <2>2. PICK i : i = Nodo(ped[p].nodo)
    OBVIOUS
  <2>3. i \in DOMAIN mem /\ mem[i].id = ped[p].nodo /\ mem[i].regs # <<>> /\ ToSet(mem[i].regs) \in SUBSET Pedidos
    BY <1>3, <2>1, <2>2
  <2>4. ~Muerto(ped[p].nodo)
    BY <2>3 DEF Muerto
  <2>5. PICK r \in EnNodo(ped[p].nodo) : Alcanza(p, r)
    BY <1>5, <2>4 DEF EnMemoria
  <2>6. PICK j \in DOMAIN mem : mem[j].id = ped[p].nodo /\ r \in ToSet(mem[j].regs)
    BY <2>5 DEF EnNodo
  <2>7. j = i
    BY <2>3, <2>6 DEF Firme, Nodos, Memtables, Distintos
  <2>8. PICK regs \in SUBSET Pedidos : regs = ToSet(mem[i].regs)
    BY <2>3
  <2>9. PICK m : m = Mejor(Clave[p], ped[p].mejor, regs)
    OBVIOUS
  <2>10. ped[p].debe = 0 \/ (m # Nadie /\ Entero(m) >= ped[p].debe)
    BY <2>5, <2>6, <2>7, <2>8, <2>9, MejorRespuesta DEF Firme
  <2> QED
    BY <1>1, <2>1, <2>2, <2>8, <2>9, <2>10 DEF Basta, Respuesta
<1>6. CASE EnUnArchivo(p)
  BY <1>1, <1>2, <1>6, PendienteCierto, SosiegoArchivo, DuenioTipo DEF EnUnArchivo, Firme, Pendiente, Alcanza, Basta
<1> QED
  BY <1>4, <1>5, <1>6 DEF Basta

LEMMA BastaAbrir ==
  ASSUME Firme, Firme', [Next]_vars, NEW p \in Pedidos, Tranquila(p), Busca(p), Serena(p)', AbrirArchivo(p), Basta(p)
  PROVE  Basta(p)'
<1>1. Serena(p)
  BY SerenaAntes DEF Firme
<1>2. PICK t : t = Tabla[p]
  OBVIOUS
<1>3. PICK f0 \in Archivo :
        /\ f0[1] = t /\ f0[2] \in {"tmp", "bin"} /\ ped[p].paso = "tmp" /\ ped[p].bs = Nadie
        /\ f0[2] = "tmp" => f0[3] = ped[p].n
        /\ f0[2] = "bin" => f0[3] = ParticionDe(Clave[p]) /\ \A k \in Nat : k >= ped[p].n => ~(k < Cuenta(t, "tmp"))
        /\ f0 = <<t, ped'[p].paso, ped'[p].n - 1>>
        /\ ped'[p].bs = IF f0 \in DOMAIN archivos THEN archivos[f0] ELSE <<>>
        /\ ped'[p].paso = f0[2] /\ ped'[p].n = f0[3] + 1
        /\ ped'[p].mejor = ped[p].mejor /\ ped'[p].debe = ped[p].debe
  BY <1>1, <1>2, AbrirArchivoPed DEF Firme
<1>4. CASE Respuesta(p)
  BY <1>3, <1>4 DEF Basta, Respuesta
<1>5. CASE EnMemoria(p)
  BY <1>3, <1>5 DEF EnMemoria, Mira
<1>6. CASE EnUnArchivo(p)
  <2>1. PICK f \in DOMAIN archivos : Pendiente(p, f) /\ \E r \in De(Utiles(archivos[f])) : Alcanza(p, r)
    BY <1>6 DEF EnUnArchivo
  <2>2. PICK r \in De(Utiles(archivos[f])) : Alcanza(p, r)
    BY <2>1
  <2>3. f \in Archivo /\ f[1] = t /\ f[2] \in {"tmp", "bin"} /\ Cierto(f)
    BY <1>1, <1>2, <2>1, PendienteCierto DEF Firme
  <2>4. /\ f \in DOMAIN archivos' /\ archivos'[f] = archivos[f]
        /\ (Contada(f) => Contada(f)')
        /\ De(Utiles(archivos[f])) \subseteq De(Utiles(archivos[f]))'
    BY <1>2, <2>3, SosiegoArchivo
  <2>5. archivos[f] # Nadie
    BY <2>1, NadieAssumption DEF Firme, Orden, Tipos
  <2>6. (f[2] = "tmp" /\ Contada(f) /\ f[3] >= ped[p].n) \/ (f[2] = "bin" /\ f[3] = ParticionDe(Clave[p]))
    BY <1>3, <2>1, <2>5 DEF Pendiente
  <2>7. f[3] \in Nat /\ ped[p].n \in Nat /\ f = <<f[1], f[2], f[3]>> /\ f0 = <<f0[1], f0[2], f0[3]>> /\ f0[3] \in Nat
    BY <1>3, <2>3, DuenioTipo, PedTipo DEF Firme, Orden, TPed
  <2>8. ASSUME f = f0 PROVE Pendiente(p, f)'
    BY <1>2, <1>3, <2>1, <2>3, <2>4, <2>8 DEF Leida, Pendiente
  <2>9. ASSUME f # f0 PROVE Pendiente(p, f)'
    <3>1. CASE f[2] = "tmp"
      <4>1. f0[2] = "tmp"
        BY <1>3, <2>3, <2>6, <2>7, <3>1 DEF Contada
      <4>2. f[3] # ped[p].n
        BY <1>3, <2>3, <2>7, <2>9, <3>1, <4>1
      <4>3. ped'[p].n = ped[p].n + 1 /\ ped'[p].paso = "tmp"
        BY <1>3, <4>1
      <4>4. f[3] >= ped'[p].n
        BY <2>6, <2>7, <3>1, <4>2, <4>3
      <4> QED
        BY <1>2, <2>3, <2>4, <2>6, <3>1, <4>3, <4>4 DEF Pendiente
    <3>2. CASE f[2] = "bin"
      BY <1>2, <1>3, <2>3, <2>6, <2>7, <2>9, <3>2 DEF Pendiente
    <3> QED
      BY <2>3, <3>1, <3>2
  <2>10. Pendiente(p, f)'
    BY <2>8, <2>9
  <2>11. r \in De(Utiles(archivos[f]))' /\ Alcanza(p, r)'
    BY <1>3, <2>2, <2>4 DEF Alcanza
  <2> QED
    BY <2>4, <2>10, <2>11 DEF Basta, EnUnArchivo
<1> QED
  BY <1>4, <1>5, <1>6 DEF Basta

LEMMA BastaLeerBloques ==
  ASSUME Firme, Firme', SinAbrir, [Next]_vars, NEW p \in Pedidos, Tranquila(p), Busca(p), Serena(p)', LeerBloques(p), Basta(p)
  PROVE  Basta(p)'
<1>1. /\ ped[p].bs # Nadie
      /\ ped'[p].paso = (IF ped[p].paso = "bin" THEN "fin" ELSE ped[p].paso)
      /\ ped'[p].n = ped[p].n /\ ped'[p].debe = ped[p].debe
      /\ ped'[p].mejor = Mejor(Clave[p], ped[p].mejor, Contenido(ped[p].bs))
  BY LeerBloquesPed DEF Firme
<1>2. Serena(p) /\ ped[p].paso \in {"tmp", "bin"}
  BY <1>1, SerenaAntes DEF Tranquila, Firme
<1>3. PICK bs \in Seq(Sectores) : bs = ped[p].bs
  BY <1>1, PedTipo DEF Firme, Orden, TPed
<1>4. PICK regs \in SUBSET Pedidos : regs = Contenido(bs)
  BY ContenidoTipo DEF Firme, Orden
<1>5. PICK m : m = Mejor(Clave[p], ped[p].mejor, regs)
  OBVIOUS
<1>6. ASSUME Respuesta(p) \/ \E r \in regs : Alcanza(p, r) PROVE Basta(p)'
  BY <1>1, <1>3, <1>4, <1>5, <1>6, MejorRespuesta DEF Firme, Basta, Respuesta
<1>7. CASE EnMemoria(p)
  BY <1>2, <1>7 DEF EnMemoria, Mira
<1>8. CASE EnUnArchivo(p)
  <2>1. PICK f \in DOMAIN archivos : Pendiente(p, f) /\ \E r \in De(Utiles(archivos[f])) : Alcanza(p, r)
    BY <1>8 DEF EnUnArchivo
  <2>2. PICK r \in De(Utiles(archivos[f])) : Alcanza(p, r)
    BY <2>1
  <2>3. CASE ped[p].bs = archivos[f]
    BY <1>3, <1>4, <1>6, <2>2, <2>3 DEF De, Utiles, ToSet, Contenido
  <2>4. CASE ped[p].bs # archivos[f]
    BY <1>1, <1>2, <2>1, <2>2, <2>4, PendienteCierto, SosiegoArchivo DEF Firme, Pendiente, Alcanza, Basta, EnUnArchivo
  <2> QED
    BY <2>3, <2>4
<1> QED
  BY <1>6, <1>7, <1>8 DEF Basta

LEMMA AlFinal ==
  ASSUME NEW p, ped[p].paso = "fin"
  PROVE  Basta(p) <=> Respuesta(p)
BY DEF Basta, EnMemoria, Mira, EnUnArchivo, Pendiente

LEMMA PasoResponde ==
  ASSUME Firme, Firme', Guardado, Memtables, SinAbrir, [Next]_vars, NEW p \in Pedidos, Tranquila(p), Responde(p)
  PROVE  Responde(p)'
<1> SUFFICES ASSUME Tipo[p] = "SELECT", ped'[p].paso \in Leen \cup {"fin"}, Serena(p)' PROVE Basta(p)'
  BY DEF Responde
<1>1. ped \in [Pedidos -> TPed] /\ Orden
  BY DEF Firme, Orden, Tipos
<1>2. ASSUME Busca(p) PROVE Serena(p) /\ Basta(p)
  <2>1. Serena(p)
    BY <1>1, <1>2, SerenaAntes
  <2> QED
    BY <1>2, <2>1 DEF Responde, Busca
<1>3. CASE ped'[p] = ped[p]
  BY <1>1, <1>2, <1>3, BastaQuieta, PerdidasSigue, DropSigue, AlFinal DEF Serena, Responde, Basta, Respuesta, Busca
<1>4. CASE BuscarTabla(p)
  BY <1>1, <1>4, BuscarTablaPed, BastaBuscar DEF Leen
<1>5. CASE TomarMutexTabla(p)
  <2>1. Busca(p)
    BY <1>5 DEF TomarMutexTabla, En, Busca, Leen
  <2> QED
    BY <1>2, <1>5, <2>1, BastaTomar
<1>6. CASE LeerMemTable(p)
  <2>1. Busca(p)
    BY <1>6 DEF LeerMemTable, En, Busca, Leen
  <2> QED
    BY <1>2, <1>6, <2>1, BastaLeer
<1>7. CASE AbrirArchivo(p)
  <2>1. Busca(p)
    BY <1>7 DEF AbrirArchivo, BuscandoEnArchivos, Busca, Leen
  <2> QED
    BY <1>2, <1>7, <2>1, BastaAbrir
<1>8. CASE LeerBloques(p)
  BY <1>2, <1>8, BastaLeerBloques DEF LeerBloques, SinAbrir, Busca, Leen
<1>9. CASE Renombrar(Tabla[p]) /\ ped'[p].ventana
  BY <1>9 DEF Serena
<1> QED
  BY <1>1, <1>3, <1>4, <1>5, <1>6, <1>7, <1>8, <1>9, SelectSigue, SelectSuyo

Respuestas == \A p \in Pedidos : Responde(p)

LEMMA InitLectoras ==
  ASSUME Init
  PROVE  Memtables /\ Lectoras /\ Respuestas
<1>1. Memtables
  BY DEF Init, Memtables, Distintos, DeInsert
<1>2. \A p \in Pedidos : ped[p].paso = "nuevo" /\ ped[p].bs = Nadie
  BY DEF Init
<1>3. Lectoras
  BY <1>2 DEF Lectoras, SinAbrir, Tranquila, Busca, Leen
<1>4. Respuestas
  BY <1>2 DEF Respuestas, Responde, Leen
<1> QED
  BY <1>1, <1>3, <1>4

(* Whatever dumps and compactions do meanwhile, a SELECT that no           *)
(* compaction of its table disturbs has what it owes, or has it still to   *)
(* read (consolaLissandra.c:539-669).                                      *)
THEOREM EnLectura == Spec => [](Firme /\ Guardado /\ Memtables /\ Lectoras /\ Respuestas)
<1>1. Init => Memtables /\ Lectoras /\ Respuestas
  BY InitLectoras
<1>2. (Firme /\ Guardado) /\ (Firme /\ Guardado)' /\ (Memtables /\ Lectoras /\ Respuestas) /\ [Next]_vars => (Memtables /\ Lectoras /\ Respuestas)'
  BY PasoMemtables, PasoSinAbrir, PasoTranquila, PasoResponde DEF Firme, Lectoras, Respuestas
<1> QED
  BY <1>1, <1>2, EnGuarda, PTL DEF Spec

(* A SELECT answers no less than what had been inserted when it began,     *)
(* though a dump moves the records under it (consolaLissandra.c:539-669).  *)
THEOREM LaLecturaEsVigente == Spec => []LecturaVigente
<1>1. ASSUME Firme, Respuestas PROVE LecturaVigente
  <2>1. ASSUME NEW p \in Pedidos, perdidas = {}, Tipo[p] = "SELECT", ped[p].paso = "fin", ~ped[p].ventana, ~EnDrop(Tabla[p])
        PROVE  IF ped[p].mejor = Nadie THEN ped[p].debe = 0 ELSE Entero(ped[p].mejor) >= ped[p].debe
    BY <1>1, <2>1, AlFinal, PedTipo, EnteroNat DEF Respuestas, Responde, Serena, Firme, Orden, TPed, Respuesta
  <2> QED
    BY <2>1 DEF LecturaVigente
<1>2. Firme /\ Respuestas => LecturaVigente
  BY <1>1
<1> QED
  BY <1>2, EnLectura, PTL
====
