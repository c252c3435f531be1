------------------------- MODULE PoolMemorias_proofs -------------------------
(***************************************************************************)
(* Proofs about PoolMemorias, for any requests, keys, tables and frames.   *)
(***************************************************************************)
EXTENDS PoolMemorias, Integers, SequencesExt, SequenceTheorems, FiniteSetTheorems, WellFoundedInduction, TLAPS

-----------------------------------------------------------------------------
(* Facts about sequences and finite sets of numbers.                       *)

(* RemoveAt drops one entry of a sequence and keeps the order of the rest. *)
LEMMA RemoveAtElementos ==
  ASSUME NEW S, NEW s \in Seq(S), NEW k \in DOMAIN s
  PROVE  /\ RemoveAt(s, k) \in Seq(S)
         /\ Len(RemoveAt(s, k)) = Len(s) - 1
         /\ DOMAIN RemoveAt(s, k) = 1..(Len(s) - 1)
         /\ \A j \in 1..(Len(s) - 1) :
              RemoveAt(s, k)[j] = IF j < k THEN s[j] ELSE s[j + 1]
<1> DEFINE izq == SubSeq(s, 1, k - 1)
           der == SubSeq(s, k + 1, Len(s))
<1>1. /\ Len(s) \in Nat /\ DOMAIN s = 1..Len(s) /\ k \in 1..Len(s)
      /\ \A i \in 1..Len(s) : s[i] \in S
  BY LenProperties
<1>2. /\ izq \in Seq(S)
      /\ Len(izq) = k - 1
      /\ \A i \in 1..(k - 1) : izq[i] = s[i]
  BY <1>1, SubSeqProperties
<1>3. /\ der \in Seq(S)
      /\ Len(der) = Len(s) - k
      /\ \A i \in 1..(Len(s) - k) : der[i] = s[k + i]
  <2>1. /\ der \in Seq(S)
        /\ Len(der) = IF k + 1 <= Len(s) THEN Len(s) - (k + 1) + 1 ELSE 0
        /\ \A i \in 1..(Len(s) - (k + 1) + 1) : der[i] = s[(k + 1) + i - 1]
    BY <1>1, SubSeqProperties
  <2> HIDE DEF der
  <2>2. Len(s) - (k + 1) + 1 = Len(s) - k
    BY <1>1
  <2>3. Len(der) = Len(s) - k
    BY <1>1, <2>1
  <2>4. ASSUME NEW i \in 1..(Len(s) - k) PROVE der[i] = s[k + i]
    <3>1. (k + 1) + i - 1 = k + i
      BY <1>1
    <3> QED
      BY <2>1, <2>2, <3>1
  <2> QED
    BY <2>1, <2>3, <2>4
<1> HIDE DEF izq, der
<1>4. /\ izq \o der \in Seq(S)
      /\ Len(izq \o der) = Len(s) - 1
      /\ \A i \in 1..(Len(s) - 1) :
           (izq \o der)[i] = IF i <= k - 1 THEN izq[i] ELSE der[i - (k - 1)]
  <2>1. /\ izq \o der \in Seq(S)
        /\ Len(izq \o der) = Len(izq) + Len(der)
        /\ \A i \in 1..(Len(izq) + Len(der)) :
             (izq \o der)[i] = IF i <= Len(izq) THEN izq[i] ELSE der[i - Len(izq)]
    BY <1>2, <1>3, ConcatProperties
  <2>2. Len(izq) + Len(der) = Len(s) - 1
    BY <1>1, <1>2, <1>3
  <2> QED
    BY <1>2, <2>1, <2>2
<1>5. ASSUME NEW j \in 1..(Len(s) - 1)
      PROVE  (izq \o der)[j] = IF j < k THEN s[j] ELSE s[j + 1]
  <2>1. CASE j < k
    BY <1>1, <1>2, <1>4, <2>1
  <2>2. CASE ~(j < k)
    <3>1. j - (k - 1) \in 1..(Len(s) - k) /\ ~(j <= k - 1) /\ k + (j - (k - 1)) = j + 1
      BY <1>1, <2>2
    <3>2. (izq \o der)[j] = der[j - (k - 1)]
      BY <1>4, <3>1
    <3> QED
      BY <1>3, <2>2, <3>1, <3>2
  <2> QED
    BY <2>1, <2>2
<1>6. DOMAIN (izq \o der) = 1..(Len(s) - 1)
  BY <1>4, LenProperties
<1> QED
  BY <1>4, <1>5, <1>6 DEF RemoveAt, izq, der

(* Replacing every entry of a sequence gives a sequence as long. *)
LEMMA MapaEsSeq ==
  ASSUME NEW S, NEW U, NEW s \in Seq(S), NEW t,
         t \in [DOMAIN s -> U]
  PROVE  t \in Seq(U) /\ Len(t) = Len(s) /\ DOMAIN t = DOMAIN s
<1>1. Len(s) \in Nat /\ DOMAIN s = 1..Len(s)
  BY LenProperties
<1>2. t \in Seq(U)
  BY <1>1, SeqDef
<1> QED
  BY <1>1, <1>2

(* The least element of a set of numbers: what lets an induction be made   *)
(* over the least counterexample.                                          *)
LEMMA MinimoNat ==
  ASSUME NEW S \in SUBSET Nat, S # {}
  PROVE  \E x \in S : \A y \in S : x <= y
<1> DEFINE U == {1..n : n \in S}
           R == StrictSubsetOrdering(Nat)
<1>1. U \subseteq FiniteSubsetsOf(Nat)
  <2> SUFFICES ASSUME NEW n \in S PROVE 1..n \in FiniteSubsetsOf(Nat)
    OBVIOUS
  <2> QED
    BY FS_Interval DEF FiniteSubsetsOf
<1>2. U # {}
  OBVIOUS
<1>3. IsWellFoundedOn(R, FiniteSubsetsOf(Nat))
  BY FS_StrictSubsetOrderingWellFounded
<1>4. PICK A \in U : \A B \in U : <<B, A>> \notin R
  <2> HIDE DEF U, R
  <2> QED
    BY <1>1, <1>2, <1>3, WFMin
<1>5. PICK x \in S : A = 1..x
  OBVIOUS
<1>6. ASSUME NEW y \in S, y < x PROVE FALSE
  <2>1. 1..y \subseteq 1..x /\ x \in 1..x /\ x \notin 1..y
    BY <1>6
  <2>2. 1..y \in SUBSET Nat /\ 1..x \in SUBSET Nat
    BY <1>6
  <2>3. <<1..y, 1..x>> \in R
    BY <2>1, <2>2 DEF StrictSubsetOrdering
  <2> QED
    BY <1>4, <1>5, <2>3
<1> QED
  BY <1>6

LEMMA MinEsElemento ==
  ASSUME NEW S \in SUBSET Nat, S # {}
  PROVE  Min(S) \in S /\ \A y \in S : Min(S) <= y
<1>1. PICK x \in S : \A y \in S : x <= y
  BY MinimoNat
<1> QED
  BY <1>1 DEF Min

(* The numbers a sequence lists are bounded. *)
LEMMA ListaAcotada ==
  ASSUME NEW m \in Nat, NEW f \in [1..m -> Nat]
  PROVE  \E b \in Nat : \A i \in 1..m : f[i] <= b
<1> DEFINE A == {k \in 0..m : \E b \in Nat : \A i \in 1..k : f[i] <= b}
           B == (0..m) \ A
<1>1. 0 \in A
  <2>1. \A i \in 1..0 : f[i] <= 0
    OBVIOUS
  <2> QED
    BY <2>1
<1>2. ASSUME B # {} PROVE FALSE
  <2>1. B \in SUBSET Nat
    OBVIOUS
  <2>2. PICK k \in B : \A j \in B : k <= j
    BY <1>2, <2>1, MinimoNat
  <2>3. k \in 1..m /\ k - 1 \in 0..m /\ k - 1 \notin B
    <3> HIDE DEF A
    <3>1. k \in 0..m /\ k # 0
      BY <1>1, <2>2
    <3>2. k \in 1..m /\ k - 1 \in 0..m /\ ~(k <= k - 1)
      BY <3>1
    <3> HIDE DEF B
    <3> QED
      BY <2>2, <3>2
  <2>4. PICK b \in Nat : \A i \in 1..(k - 1) : f[i] <= b
    BY <2>3
  <2> DEFINE c == IF f[k] <= b THEN b ELSE f[k]
  <2>5. c \in Nat /\ b <= c /\ f[k] <= c
    BY <2>3
  <2> HIDE DEF c
  <2>6. ASSUME NEW i \in 1..k PROVE f[i] <= c
    <3>1. f[i] \in Nat
      BY <2>3
    <3>2. CASE i = k
      BY <2>5, <3>2
    <3>3. CASE i # k
      <4>1. f[i] <= b
        BY <2>3, <2>4, <3>3
      <4> QED
        BY <2>5, <3>1, <4>1
    <3> QED
      BY <3>2, <3>3
  <2>7. k \in A
    BY <2>2, <2>5, <2>6
  <2> QED
    BY <2>2, <2>7
<1>3. m \in A
  <2> HIDE DEF A
  <2> QED
    BY <1>2
<1> QED
  BY <1>3

LEMMA MaxEsElemento ==
  ASSUME NEW S \in SUBSET Nat, S # {}, IsFiniteSet(S)
  PROVE  Max(S) \in S /\ \A y \in S : y <= Max(S)
<1>1. PICK m \in Nat : ExistsSurjection(1..m, S)
  BY FS_NatSurjection
<1>2. PICK f \in Surjection(1..m, S) : TRUE
  BY <1>1 DEF ExistsSurjection
<1>3. f \in [1..m -> Nat] /\ \A x \in S : \E i \in 1..m : f[i] = x
  BY <1>2 DEF Surjection
<1>4. PICK b \in Nat : \A i \in 1..m : f[i] <= b
  BY <1>3, ListaAcotada
<1> DEFINE N == {n \in Nat : \A x \in S : x <= n}
<1>5. b \in N
  BY <1>3, <1>4
<1>6. PICK n \in N : \A k \in N : n <= k
  <2>1. N \in SUBSET Nat /\ N # {}
    BY <1>5
  <2> QED
    BY <2>1, MinimoNat
<1>7. n \in S
  <2> SUFFICES ASSUME n \notin S PROVE FALSE
    OBVIOUS
  <2>1. n \in Nat /\ \A x \in S : x \in Nat /\ x < n
    BY <1>6
  <2>2. n - 1 \in Nat
    <3>1. PICK x \in S : TRUE
      OBVIOUS
    <3>2. n \in Nat /\ x \in Nat /\ x < n
      BY <2>1
    <3> QED
      BY <3>2
  <2>3. n - 1 \in N
    BY <2>1, <2>2
  <2> QED
    BY <1>6, <2>1, <2>3
<1>8. \E x \in S : \A y \in S : x >= y
  BY <1>6, <1>7
<1>9. Max(S) \in S /\ \A y \in S : Max(S) >= y
  BY <1>8 DEF Max
<1> QED
  BY <1>9

LEMMA FinitaImagen ==
  ASSUME NEW S, IsFiniteSet(S), NEW f, DOMAIN f = S
  PROVE  IsFiniteSet({f[x] : x \in S})
<1> DEFINE I == {f[x] : x \in S}
<1>1. [x \in S |-> f[x]] \in Surjection(S, I)
  BY DEF Surjection
<1> QED
  BY <1>1, FS_Surjection

LEMMA FinitosLosDeUnaSeq ==
  ASSUME NEW S, NEW s \in Seq(S)
  PROVE  IsFiniteSet(ToSet(s)) /\ \A x \in ToSet(s) : x \in S /\ \E i \in DOMAIN s : s[i] = x
<1>1. Len(s) \in Nat /\ DOMAIN s = 1..Len(s) /\ \A i \in 1..Len(s) : s[i] \in S
  BY LenProperties, ElementOfSeq
<1>2. IsFiniteSet(1..Len(s))
  BY <1>1, FS_Interval
<1>3. IsFiniteSet({s[i] : i \in 1..Len(s)})
  BY <1>1, <1>2, FinitaImagen
<1> QED
  BY <1>1, <1>3 DEF ToSet

(* The steps of a request whose first, or second, search of a segment is   *)
(* behind it: none of them leads back.                                     *)
Despues(vez) ==
  IF vez = 1 THEN Pasos \ {"porLlegar", "consultar", "enLFS", "segmento"}
             ELSE {"remarco", "crear", "limpiar", "fin"}

(* A segment's pointer is made once: no segment comes back with it. *)
Usado(id) == hilos[id[1]].paso \in Despues(id[2])

IdsUsados ==
  /\ \A t \in Tablas : segmentos[t] # Nadie => Usado(segmentos[t].id)
  /\ \A p \in Pedidos : hilos[p].segmento # Nadie => Usado(hilos[p].segmento)

(* A request that has made its page makes no other. *)
Hecha(q) == q \in Pedidos /\ hilos[q].paso \in {"limpiar", "fin"}

(* A page is in the list of its table, once. *)
PaginasUnicas ==
  \A t \in Tablas : \A i \in DOMAIN PaginasDe(t) :
    /\ Hecha(PaginasDe(t)[i].id)
    /\ Tabla[Clave[PaginasDe(t)[i].id]] = t
    /\ \A j \in DOMAIN PaginasDe(t) : PaginasDe(t)[i].id = PaginasDe(t)[j].id => i = j

(* What a thread remembers of a page: the frame of its victim, which no    *)
(* INSERT modifies; the key of the page it has to mark.                    *)
VictimaFiel ==
  \A p \in Pedidos : hilos[p].paso = "victima" =>
    /\ Hecha(hilos[p].pagina)
    /\ \A t \in Tablas : \A i \in DOMAIN PaginasDe(t) :
         PaginasDe(t)[i].id = hilos[p].pagina =>
           PaginasDe(t)[i].marco = hilos[p].marco /\ ~PaginasDe(t)[i].modificada

SoloUnoVacia == \A p \in Pedidos : hilos[p].paso = "vaciar" => mSegmento = p

(* The steps of the thread of each kind of request. *)
PasosDe(tipo) ==
  CASE tipo = "JOURNAL" -> {"porLlegar", "pedirJournal", "journal", "vaciar", "fin"}
    [] tipo = "DROP" -> {"porLlegar", "borrar", "fin"}
    [] tipo = "INSERT" -> Pasos \ {"limpiar"}
    [] OTHER -> Pasos

PasoDelTipo == \A p \in Pedidos : hilos[p].paso \in PasosDe(Tipo[p])

(* The frame of a page has been written. *)
Escritas ==
  \A t \in Tablas : \A i \in DOMAIN PaginasDe(t) : marcos[PaginasDe(t)[i].marco] \in Contenido

(* What holds until a freed pointer is used. *)
Punteria == IdsUsados /\ PaginasUnicas /\ VictimaFiel /\ SoloUnoVacia /\ PasoDelTipo /\ Escritas

-----------------------------------------------------------------------------
(* A thread about to make its page in a segment that is still there. *)
Vivo(p) == p \in ConMarco /\ SegmentoVivo(p)

(* Each frame has one owner. *)
Duenios ==
  /\ \A t, u \in Tablas : \A i \in DOMAIN PaginasDe(t), j \in DOMAIN PaginasDe(u) :
       PaginasDe(t)[i].marco = PaginasDe(u)[j].marco => t = u /\ i = j
  /\ \A p, q \in Pedidos : Vivo(p) /\ Vivo(q) /\ hilos[p].marco = hilos[q].marco => p = q
  /\ \A p \in Pedidos : Vivo(p) =>
       \A t \in Tablas : \A i \in DOMAIN PaginasDe(t) : PaginasDe(t)[i].marco # hilos[p].marco

(* The bitmap has the frames of the owners, and else only those of threads *)
(* whose segment was freed.                                                *)
Bitmap ==
  /\ \A t \in Tablas : \A i \in DOMAIN PaginasDe(t) : PaginasDe(t)[i].marco \in ocupados
  /\ \A p \in Pedidos : Vivo(p) => hilos[p].marco \in ocupados
  /\ \A f \in ocupados : \/ \E t \in Tablas : \E i \in DOMAIN PaginasDe(t) : PaginasDe(t)[i].marco = f
                         \/ \E p \in ConMarco : hilos[p].marco = f

(* A page keeps its key, and is modified if no SELECT asks for it. *)
ClaveFija ==
  /\ \A t \in Tablas : \A i \in DOMAIN PaginasDe(t) :
       /\ marcos[PaginasDe(t)[i].marco].clave = Clave[PaginasDe(t)[i].id]
       /\ Clave[PaginasDe(t)[i].id] \in SoloInsertadas => PaginasDe(t)[i].modificada
  /\ \A p \in Pedidos : hilos[p].paso = "limpiar" =>
       hilos[p].pagina \in Pedidos /\ Clave[hilos[p].pagina] = Clave[p]

EnPagina(k, v) ==
  \E t \in Tablas : \E i \in DOMAIN PaginasDe(t) :
    PaginasDe(t)[i].modificada /\ marcos[PaginasDe(t)[i].marco] = [clave |-> k, valor |-> v]

Guardada ==
  /\ \A k \in SoloInsertadas : ultimo[k] # Nadie =>
       ultimo[k] \in lfs[k] \/ EnPagina(k, ultimo[k])
  /\ \A p \in Pedidos : hilos[p].paso = "vaciar" =>
       \A k \in SoloInsertadas : ultimo[k] # Nadie => ultimo[k] \in lfs[k]

(* What holds until a replacement removes another node. *)
Contabilidad == Duenios /\ Bitmap /\ ClaveFija /\ Guardada

IInv ==
  /\ TypeOK
  /\ ~indefinido => Punteria
  /\ ~indefinido /\ ~corrida => Contabilidad

-----------------------------------------------------------------------------
(* What the types say. *)

LEMMA Paginado ==
  ASSUME TypeOK, NEW t \in Tablas
  PROVE  /\ PaginasDe(t) \in Seq(Pagina)
         /\ Len(PaginasDe(t)) \in Nat
         /\ DOMAIN PaginasDe(t) = 1..Len(PaginasDe(t))
         /\ \A i \in DOMAIN PaginasDe(t) : PaginasDe(t)[i] \in Pagina
<1>1. PaginasDe(t) \in Seq(Pagina)
  <2>1. CASE segmentos[t] = Nadie
    BY <2>1, EmptySeq DEF PaginasDe
  <2>2. CASE segmentos[t] # Nadie
    <3>1. segmentos[t] \in Segmento
      BY <2>2 DEF TypeOK
    <3> QED
      BY <2>2, <3>1 DEF PaginasDe, Segmento
  <2> QED
    BY <2>1, <2>2
<1> QED
  BY <1>1, LenProperties, ElementOfSeq

LEMMA AhoraNat ==
  ASSUME TypeOK
  PROVE  Ahora \in Nat
<1>1. IsFiniteSet(Tablas)
  BY PoolAssumption, FinitaImagen DEF Tablas, Claves
<1>2. IsFiniteSet(Paginas)
  <2> DEFINE F == [t \in Tablas |-> ToSet(PaginasDe(t))]
  <2>1. IsFiniteSet({F[t] : t \in Tablas})
    BY <1>1, FinitaImagen
  <2>2. \A T0 \in {F[t] : t \in Tablas} : IsFiniteSet(T0)
    BY Paginado, FinitosLosDeUnaSeq
  <2>3. IsFiniteSet(UNION {F[t] : t \in Tablas})
    BY <2>1, <2>2, FS_UNION
  <2>4. Paginas = UNION {F[t] : t \in Tablas}
    BY DEF Paginas
  <2> QED
    BY <2>3, <2>4
<1>3. \A g \in Paginas : g.uso \in Nat
  <2> SUFFICES ASSUME NEW t \in Tablas, NEW g \in ToSet(PaginasDe(t)) PROVE g.uso \in Nat
    BY DEF Paginas
  <2>1. g \in Pagina
    BY Paginado, FinitosLosDeUnaSeq
  <2> QED
    BY <2>1 DEF Pagina
<1> DEFINE U == {0} \cup {g.uso : g \in Paginas}
<1>4. IsFiniteSet({g.uso : g \in Paginas})
  <2> DEFINE G == [g \in Paginas |-> g.uso]
  <2>1. IsFiniteSet({G[g] : g \in Paginas})
    BY <1>2, FinitaImagen
  <2>2. {G[g] : g \in Paginas} = {g.uso : g \in Paginas}
    OBVIOUS
  <2> QED
    BY <2>1, <2>2
<1>5. IsFiniteSet(U) /\ U \in SUBSET Nat /\ U # {}
  <2>1. IsFiniteSet({0})
    BY FS_Singleton
  <2>2. IsFiniteSet(U)
    <3> DEFINE V == {g.uso : g \in Paginas}
    <3>1. IsFiniteSet(V)
      BY <1>4
    <3> HIDE DEF V
    <3>2. IsFiniteSet({0} \cup V)
      BY <2>1, <3>1, FS_Union
    <3> QED
      BY <3>2 DEF V
  <2> QED
    BY <1>3, <2>2
<1>6. Max(U) \in Nat
  <2> HIDE DEF U
  <2> QED
    BY <1>5, MaxEsElemento
<1> QED
  BY <1>6 DEF Ahora

(* A thread moves. *)
LEMMA Mueve ==
  ASSUME TypeOK, NEW p \in Pedidos, NEW h \in Hilo, hilos' = [hilos EXCEPT ![p] = h]
  PROVE  /\ hilos' \in [Pedidos -> Hilo]
         /\ hilos'[p] = h
         /\ \A q \in Pedidos : q # p => hilos'[q] = hilos[q]
BY DEF TypeOK

LEMMA IrEs ==
  ASSUME TypeOK, NEW p \in Pedidos, NEW paso \in Pasos, Ir(p, paso)
  PROVE  \E h \in Hilo :
           /\ hilos' = [hilos EXCEPT ![p] = h]
           /\ h.paso = paso /\ h.segmento = hilos[p].segmento
           /\ h.marco = hilos[p].marco /\ h.pagina = hilos[p].pagina
<1>1. hilos[p] \in Hilo
  BY DEF TypeOK
<1> DEFINE h == [hilos[p] EXCEPT !.paso = paso]
<1>2. /\ h \in Hilo /\ h.paso = paso /\ h.segmento = hilos[p].segmento
      /\ h.marco = hilos[p].marco /\ h.pagina = hilos[p].pagina
  BY <1>1 DEF Hilo
<1>3. hilos' = [hilos EXCEPT ![p] = h]
  BY DEF Ir
<1> QED
  BY <1>2, <1>3

LEMMA SoltarEs ==
  ASSUME TypeOK, NEW p \in Pedidos, NEW paso \in Pasos, Soltar(p, paso)
  PROVE  \E h \in Hilo :
           /\ hilos' = [hilos EXCEPT ![p] = h]
           /\ h.paso = paso /\ h.segmento = Nadie /\ h.marco = SinMarco /\ h.pagina = Nadie
<1> DEFINE h == [Hilo0 EXCEPT !.paso = paso]
<1>1. h \in Hilo /\ h.paso = paso /\ h.segmento = Nadie /\ h.marco = SinMarco /\ h.pagina = Nadie
  BY DEF Hilo0, Hilo
<1>2. hilos' = [hilos EXCEPT ![p] = h]
  BY DEF Soltar
<1> QED
  BY <1>1, <1>2

(* The thread of an INSERT ends, that of a SELECT has to mark page id. *)
LEMMA ConPaginaEs ==
  ASSUME TypeOK, NEW p \in Pedidos, NEW id \in Pedidos, ConPagina(p, id)
  PROVE  \E h \in Hilo :
           /\ hilos' = [hilos EXCEPT ![p] = h]
           /\ h.paso \in {"limpiar", "fin"} /\ h.segmento = Nadie
           /\ h.paso = "limpiar" => Tipo[p] # "INSERT" /\ h.pagina = id
<1> DEFINE h == IF Tipo[p] = "INSERT" THEN [Hilo0 EXCEPT !.paso = "fin"]
                ELSE [Hilo0 EXCEPT !.paso = "limpiar", !.pagina = id]
<1>1. /\ h \in Hilo /\ h.paso \in {"limpiar", "fin"} /\ h.segmento = Nadie
      /\ h.paso = "limpiar" => Tipo[p] # "INSERT" /\ h.pagina = id
  BY DEF Hilo0, Hilo, Pasos
<1>2. hilos' = [hilos EXCEPT ![p] = h]
  BY DEF ConPagina
<1> QED
  BY <1>1, <1>2

(* The list of pages of one table changes. *)
LEMMA CambiaLista ==
  ASSUME TypeOK, NEW t0 \in Tablas, segmentos[t0] # Nadie, NEW s \in Seq(Pagina),
         segmentos' = [segmentos EXCEPT ![t0].paginas = s]
  PROVE  /\ segmentos' \in [Tablas -> Segmento \cup {Nadie}]
         /\ PaginasDe(t0)' = s
         /\ \A t \in Tablas : t # t0 => PaginasDe(t)' = PaginasDe(t)
         /\ \A t \in Tablas : segmentos'[t] # Nadie =>
              segmentos[t] # Nadie /\ segmentos'[t].id = segmentos[t].id
<1> DEFINE x == [segmentos[t0] EXCEPT !.paginas = s]
<1>1. segmentos[t0] \in Segmento
  BY DEF TypeOK
<1>2. x \in Segmento /\ x.id = segmentos[t0].id /\ x.paginas = s
  BY <1>1 DEF Segmento
<1>3. x # Nadie
  BY <1>2, NadieAssumption
<1>4. segmentos' = [segmentos EXCEPT ![t0] = x]
  OBVIOUS
<1> HIDE DEF x
<1>5. segmentos' \in [Tablas -> Segmento \cup {Nadie}]
  BY <1>2, <1>4 DEF TypeOK
<1>6. segmentos'[t0] = x /\ \A t \in Tablas : t # t0 => segmentos'[t] = segmentos[t]
  BY <1>4 DEF TypeOK
<1> QED
  BY <1>2, <1>3, <1>5, <1>6 DEF PaginasDe

-----------------------------------------------------------------------------
(* Steps that leave every list of pages as it was.                         *)

(* No step revives a thread whose segment was freed: the pointer of a new  *)
(* segment is not that of any thread.                                      *)
LEMMA NoRevive ==
  ASSUME TypeOK, IdsUsados, NEW q \in Pedidos, hilos'[q] = hilos[q],
         \A t \in Tablas : segmentos'[t] # Nadie =>
           \/ segmentos[t] # Nadie /\ segmentos'[t].id = segmentos[t].id
           \/ segmentos'[t].id \in Punteros /\ ~Usado(segmentos'[t].id)
  PROVE  Vivo(q)' => Vivo(q)
<1> SUFFICES ASSUME Vivo(q)' PROVE Vivo(q)
  OBVIOUS
<1>1. q \in ConMarco
  BY DEF Vivo, ConMarco
<1>2. T(q) \in Tablas
  BY PoolAssumption DEF T, Tablas
<1>3. segmentos'[T(q)] # Nadie /\ segmentos'[T(q)].id = hilos[q].segmento
  BY DEF Vivo, SegmentoVivo
<1>4. CASE segmentos[T(q)] # Nadie /\ segmentos'[T(q)].id = segmentos[T(q)].id
  BY <1>1, <1>3, <1>4 DEF Vivo, SegmentoVivo
<1>5. CASE segmentos'[T(q)].id \in Punteros /\ ~Usado(segmentos'[T(q)].id)
  <2>1. hilos[q].segmento # Nadie
    BY <1>3, <1>5, NadieAssumption
  <2> QED
    BY <1>3, <1>5, <2>1 DEF IdsUsados
<1> QED
  BY <1>2, <1>3, <1>4, <1>5

(* The step of one thread keeps what is said of the pointers. *)
LEMMA IdsPaso ==
  ASSUME TypeOK, IdsUsados, NEW p \in Pedidos, NEW h \in Hilo, hilos' = [hilos EXCEPT ![p] = h],
         \A v \in {1, 2} : hilos[p].paso \in Despues(v) => h.paso \in Despues(v),
         \A t \in Tablas : segmentos'[t] # Nadie =>
           \/ segmentos[t] # Nadie /\ segmentos'[t].id = segmentos[t].id
           \/ hilos'[segmentos'[t].id[1]].paso \in Despues(segmentos'[t].id[2]),
         \/ h.segmento \in {Nadie, hilos[p].segmento}
         \/ hilos'[h.segmento[1]].paso \in Despues(h.segmento[2])
  PROVE  IdsUsados'
<1>1. hilos'[p] = h /\ \A q \in Pedidos : q # p => hilos'[q] = hilos[q]
  BY Mueve
<1>2. ASSUME NEW id \in Punteros, Usado(id)
      PROVE  hilos'[id[1]].paso \in Despues(id[2])
  <2>1. id[1] \in Pedidos /\ id[2] \in {1, 2}
    BY DEF Punteros
  <2>2. CASE id[1] = p
    BY <1>1, <1>2, <2>1, <2>2 DEF Usado
  <2>3. CASE id[1] # p
    BY <1>1, <1>2, <2>1, <2>3 DEF Usado
  <2> QED
    BY <2>2, <2>3
<1>3. IdsUsados'
  <2>1. ASSUME NEW t \in Tablas, segmentos'[t] # Nadie
        PROVE  hilos'[segmentos'[t].id[1]].paso \in Despues(segmentos'[t].id[2])
    <3>1. CASE segmentos[t] # Nadie /\ segmentos'[t].id = segmentos[t].id
      <4>1. segmentos[t] \in Segmento
        BY <3>1 DEF TypeOK
      <4>2. segmentos[t].id \in Punteros /\ Usado(segmentos[t].id)
        BY <3>1, <4>1 DEF Segmento, IdsUsados
      <4> QED
        BY <1>2, <3>1, <4>2
    <3> QED
      BY <2>1, <3>1
  <2>2. ASSUME NEW q \in Pedidos, hilos'[q].segmento # Nadie
        PROVE  hilos'[hilos'[q].segmento[1]].paso \in Despues(hilos'[q].segmento[2])
    <3>1. CASE hilos'[q].segmento = hilos[q].segmento
      <4>1. hilos[q] \in Hilo
        BY DEF TypeOK
      <4>2. hilos[q].segmento \in Punteros /\ Usado(hilos[q].segmento)
        BY <2>2, <3>1, <4>1 DEF Hilo, IdsUsados
      <4> QED
        BY <1>2, <3>1, <4>2
    <3>2. CASE hilos'[q].segmento # hilos[q].segmento
      BY <1>1, <2>2, <3>2
    <3> QED
      BY <3>1, <3>2
  <2> QED
    BY <2>1, <2>2 DEF IdsUsados, Usado
<1> QED
  BY <1>3

LEMMA PunteriaIguales ==
  ASSUME TypeOK, Punteria, NEW p \in Pedidos, NEW h \in Hilo, hilos' = [hilos EXCEPT ![p] = h],
         \A t \in Tablas : PaginasDe(t)' = PaginasDe(t), UNCHANGED marcos,
         hilos[p].paso \in {"limpiar", "fin"} => h.paso \in {"limpiar", "fin"},
         h.paso \in PasosDe(Tipo[p]),
         \A v \in {1, 2} : hilos[p].paso \in Despues(v) => h.paso \in Despues(v),
         \A t \in Tablas : segmentos'[t] # Nadie =>
           \/ segmentos[t] # Nadie /\ segmentos'[t].id = segmentos[t].id
           \/ hilos'[segmentos'[t].id[1]].paso \in Despues(segmentos'[t].id[2]),
         segmentos \in [Tablas -> Segmento \cup {Nadie}],
         \/ h.segmento \in {Nadie, hilos[p].segmento}
         \/ hilos'[h.segmento[1]].paso \in Despues(h.segmento[2]),
         h.paso = "victima" =>
           /\ h.pagina \in Pedidos /\ h.pagina # p /\ hilos[h.pagina].paso \in {"limpiar", "fin"}
           /\ \A t \in Tablas : \A i \in DOMAIN PaginasDe(t) :
                PaginasDe(t)[i].id = h.pagina => PaginasDe(t)[i].marco = h.marco /\ ~PaginasDe(t)[i].modificada,
         \A q \in Pedidos : hilos'[q].paso = "vaciar" => mSegmento' = q
  PROVE  Punteria'
<1>1. hilos'[p] = h /\ \A q \in Pedidos : q # p => hilos'[q] = hilos[q]
  BY Mueve
<1>3. IdsUsados'
  BY IdsPaso DEF Punteria
<1>4. \A q : Hecha(q) => Hecha(q)'
  BY <1>1 DEF Hecha
<1>5. PaginasUnicas'
  BY <1>4 DEF Punteria, PaginasUnicas
<1>6. VictimaFiel'
  <2> SUFFICES ASSUME NEW q \in Pedidos, hilos'[q].paso = "victima"
               PROVE  /\ hilos'[q].pagina \in Pedidos
                      /\ hilos'[hilos'[q].pagina].paso \in {"limpiar", "fin"}
                      /\ \A t \in Tablas : \A i \in DOMAIN PaginasDe(t) :
                           PaginasDe(t)[i].id = hilos'[q].pagina =>
                             PaginasDe(t)[i].marco = hilos'[q].marco /\ ~PaginasDe(t)[i].modificada
    BY DEF VictimaFiel, Hecha
  <2>1. CASE q = p
    BY <1>1, <2>1
  <2>2. CASE q # p
    <3>1. hilos'[q] = hilos[q]
      BY <1>1, <2>2
    <3> QED
      BY <1>4, <3>1 DEF Punteria, VictimaFiel, Hecha
  <2> QED
    BY <2>1, <2>2
<1>7. SoloUnoVacia'
  BY DEF SoloUnoVacia
<1>8. PasoDelTipo'
  BY <1>1 DEF Punteria, PasoDelTipo
<1>9. Escritas'
  BY DEF Punteria, Escritas
<1> QED
  BY <1>3, <1>5, <1>6, <1>7, <1>8, <1>9 DEF Punteria

(* Their owners and contents, if no thread comes to have a frame. *)
LEMMA ContabilidadIguales ==
  ASSUME TypeOK, Punteria, Contabilidad,
         NEW p \in Pedidos, NEW h \in Hilo, hilos' = [hilos EXCEPT ![p] = h],
         \A t \in Tablas : PaginasDe(t)' = PaginasDe(t),
         UNCHANGED <<marcos, ocupados, lfs, ultimo>>,
         \A q \in Pedidos : q # p => (Vivo(q)' => Vivo(q)),
         hilos[p].paso # "crear", h.paso \notin {"limpiar", "vaciar"},
         h.paso = "crear" => h.marco = SinMarco
  PROVE  Contabilidad'
<1>1. hilos'[p] = h /\ \A q \in Pedidos : q # p => hilos'[q] = hilos[q]
  BY Mueve
<1>2. ~Vivo(p)'
  BY <1>1 DEF Vivo, ConMarco
<1>3. \A q \in Pedidos : Vivo(q)' => Vivo(q) /\ hilos'[q] = hilos[q]
  BY <1>1, <1>2
<1>4. Duenios'
  BY <1>3 DEF Contabilidad, Duenios
<1>5. ConMarco' = ConMarco
  BY <1>1 DEF ConMarco
<1>6. \A q \in ConMarco : hilos'[q] = hilos[q]
  BY <1>1 DEF ConMarco
<1>7. Bitmap'
  BY <1>3, <1>5, <1>6 DEF Contabilidad, Bitmap
<1>8. ClaveFija'
  BY <1>1 DEF Contabilidad, ClaveFija
<1>9. \A k, v : EnPagina(k, v)' <=> EnPagina(k, v)
  BY DEF EnPagina
<1>10. Guardada'
  BY <1>1, <1>9 DEF Contabilidad, Guardada
<1> QED
  BY <1>4, <1>7, <1>8, <1>10 DEF Contabilidad

(* A step of a thread that changes nothing but what the thread knows. *)
LEMMA SoloHilo ==
  ASSUME IInv, TypeOK', ~indefinido,
         NEW p \in Pedidos, NEW h \in Hilo, hilos' = [hilos EXCEPT ![p] = h],
         UNCHANGED <<segmentos, marcos, ocupados, mSegmento, lfs, indefinido, ultimo, corrida>>,
         hilos[p].paso \notin {"limpiar", "fin", "crear"}, h.paso \notin {"limpiar", "vaciar"},
         h.paso \in PasosDe(Tipo[p]),
         h.paso = "crear" => h.marco = SinMarco,
         \A v \in {1, 2} : hilos[p].paso \in Despues(v) => h.paso \in Despues(v),
         h.segmento \in {Nadie, hilos[p].segmento},
         h.paso = "victima" =>
           /\ h.pagina \in Pedidos /\ hilos[h.pagina].paso \in {"limpiar", "fin"}
           /\ \A t \in Tablas : \A i \in DOMAIN PaginasDe(t) :
                PaginasDe(t)[i].id = h.pagina => PaginasDe(t)[i].marco = h.marco /\ ~PaginasDe(t)[i].modificada
  PROVE  IInv'
<1>1. TypeOK /\ Punteria
  BY DEF IInv
<1>2. hilos'[p] = h /\ \A q \in Pedidos : q # p => hilos'[q] = hilos[q]
  BY <1>1, Mueve
<1>3. \A t \in Tablas : PaginasDe(t)' = PaginasDe(t)
  BY DEF PaginasDe
<1>4. segmentos \in [Tablas -> Segmento \cup {Nadie}]
  BY <1>1 DEF TypeOK
<1>5. \A q \in Pedidos : hilos'[q].paso = "vaciar" => mSegmento' = q
  BY <1>1, <1>2 DEF Punteria, SoloUnoVacia
<1>6. h.paso = "victima" => h.pagina # p
  OBVIOUS
<1>7. \A t \in Tablas : segmentos'[t] # Nadie => segmentos[t] # Nadie /\ segmentos'[t].id = segmentos[t].id
  OBVIOUS
<1>8. Punteria'
  BY <1>1, <1>3, <1>4, <1>5, <1>6, <1>7, PunteriaIguales
<1>9. \A q \in Pedidos : q # p => (Vivo(q)' => Vivo(q))
  BY <1>1, <1>2, <1>7, NoRevive DEF Punteria
<1>10. ASSUME ~corrida PROVE Contabilidad'
  BY <1>1, <1>3, <1>9, <1>10, ContabilidadIguales DEF IInv
<1> QED
  BY <1>8, <1>10 DEF IInv

LEMMA ConsultarEnMemoriaIInv ==
  ASSUME IInv, NEW p \in Pedidos, ConsultarEnMemoria(p)
  PROVE  IInv'
<1>1. TypeOK /\ Punteria /\ ~indefinido /\ hilos[p].paso = "consultar"
  BY DEF IInv, ConsultarEnMemoria, En
<1>2. Ir(p, "fin") /\ "fin" \in Pasos
  BY DEF ConsultarEnMemoria, Pasos
<1>3. PICK h \in Hilo : /\ hilos' = [hilos EXCEPT ![p] = h]
                       /\ h.paso = "fin" /\ h.segmento = hilos[p].segmento
                       /\ h.marco = hilos[p].marco /\ h.pagina = hilos[p].pagina
  BY <1>1, <1>2, IrEs
<1>4. TypeOK'
  BY <1>1, <1>3, Mueve DEF TypeOK, ConsultarEnMemoria
<1>5. "fin" \in PasosDe(Tipo[p])
  BY <1>1, PoolAssumption DEF Punteria, PasoDelTipo, PasosDe, Pasos
<1>6. \A v \in {1, 2} : hilos[p].paso \in Despues(v) => h.paso \in Despues(v)
  BY <1>1, <1>3 DEF Despues, Pasos
<1> QED
  BY <1>1, <1>3, <1>4, <1>5, <1>6, SoloHilo DEF ConsultarEnMemoria

LEMMA ConsultarEnLFSIInv ==
  ASSUME IInv, NEW p \in Pedidos, ConsultarEnLFS(p)
  PROVE  IInv'
<1>1. TypeOK /\ Punteria /\ ~indefinido /\ hilos[p].paso = "consultar"
  BY DEF IInv, ConsultarEnLFS, En
<1>2. Ir(p, "enLFS") /\ "enLFS" \in Pasos
  BY DEF ConsultarEnLFS, Pasos
<1>3. PICK h \in Hilo : /\ hilos' = [hilos EXCEPT ![p] = h]
                       /\ h.paso = "enLFS" /\ h.segmento = hilos[p].segmento
                       /\ h.marco = hilos[p].marco /\ h.pagina = hilos[p].pagina
  BY <1>1, <1>2, IrEs
<1>4. TypeOK'
  BY <1>1, <1>3, Mueve DEF TypeOK, ConsultarEnLFS
<1>5. "enLFS" \in PasosDe(Tipo[p])
  BY <1>1, PoolAssumption DEF Punteria, PasoDelTipo, PasosDe, Pasos
<1>6. \A v \in {1, 2} : hilos[p].paso \in Despues(v) => h.paso \in Despues(v)
  BY <1>1, <1>3 DEF Despues, Pasos
<1> QED
  BY <1>1, <1>3, <1>4, <1>5, <1>6, SoloHilo DEF ConsultarEnLFS

LEMMA FaltaPaginaIInv ==
  ASSUME IInv, NEW p \in Pedidos, FaltaPagina(p)
  PROVE  IInv'
<1>1. TypeOK /\ Punteria /\ ~indefinido /\ hilos[p].paso = "pagina"
  BY DEF IInv, FaltaPagina, En
<1>2. Ir(p, "marco") /\ "marco" \in Pasos
  BY DEF FaltaPagina, Pasos
<1>3. PICK h \in Hilo : /\ hilos' = [hilos EXCEPT ![p] = h]
                       /\ h.paso = "marco" /\ h.segmento = hilos[p].segmento
                       /\ h.marco = hilos[p].marco /\ h.pagina = hilos[p].pagina
  BY <1>1, <1>2, IrEs
<1>4. TypeOK'
  BY <1>1, <1>3, Mueve DEF TypeOK, FaltaPagina
<1>5. "marco" \in PasosDe(Tipo[p])
  BY <1>1, PoolAssumption DEF Punteria, PasoDelTipo, PasosDe, Pasos
<1>6. \A v \in {1, 2} : hilos[p].paso \in Despues(v) => h.paso \in Despues(v)
  BY <1>1, <1>3 DEF Despues, Pasos
<1> QED
  BY <1>1, <1>3, <1>4, <1>5, <1>6, SoloHilo DEF FaltaPagina

LEMMA EsperarJournalIInv ==
  ASSUME IInv, NEW p \in Pedidos, EsperarJournal(p)
  PROVE  IInv'
<1>1. TypeOK /\ Punteria /\ ~indefinido /\ hilos[p].paso = "lleno"
  BY DEF IInv, EsperarJournal, En
<1>2. Ir(p, "pedirJournal") /\ "pedirJournal" \in Pasos
  BY DEF EsperarJournal, Pasos
<1>3. PICK h \in Hilo : /\ hilos' = [hilos EXCEPT ![p] = h]
                       /\ h.paso = "pedirJournal" /\ h.segmento = hilos[p].segmento
                       /\ h.marco = hilos[p].marco /\ h.pagina = hilos[p].pagina
  BY <1>1, <1>2, IrEs
<1>4. TypeOK'
  BY <1>1, <1>3, Mueve DEF TypeOK, EsperarJournal
<1>5. "pedirJournal" \in PasosDe(Tipo[p])
  BY <1>1, PoolAssumption DEF Punteria, PasoDelTipo, PasosDe, Pasos
<1>6. \A v \in {1, 2} : hilos[p].paso \in Despues(v) => h.paso \in Despues(v)
  BY <1>1, <1>3 DEF Despues, Pasos
<1> QED
  BY <1>1, <1>3, <1>4, <1>5, <1>6, SoloHilo DEF EsperarJournal

LEMMA TomarMJournalIInv ==
  ASSUME IInv, NEW p \in Pedidos, TomarMJournal(p)
  PROVE  IInv'
<1>1. TypeOK /\ Punteria /\ ~indefinido /\ hilos[p].paso = "pedirJournal"
  BY DEF IInv, TomarMJournal, En
<1>2. Ir(p, "journal") /\ "journal" \in Pasos
  BY DEF TomarMJournal, Pasos
<1>3. PICK h \in Hilo : /\ hilos' = [hilos EXCEPT ![p] = h]
                       /\ h.paso = "journal" /\ h.segmento = hilos[p].segmento
                       /\ h.marco = hilos[p].marco /\ h.pagina = hilos[p].pagina
  BY <1>1, <1>2, IrEs
<1>4. TypeOK'
  BY <1>1, <1>3, Mueve DEF TypeOK, TomarMJournal
<1>5. "journal" \in PasosDe(Tipo[p])
  BY <1>1, PoolAssumption DEF Punteria, PasoDelTipo, PasosDe, Pasos
<1>6. \A v \in {1, 2} : hilos[p].paso \in Despues(v) => h.paso \in Despues(v)
  BY <1>1, <1>3 DEF Despues, Pasos
<1> QED
  BY <1>1, <1>3, <1>4, <1>5, <1>6, SoloHilo DEF TomarMJournal

LEMMA RecibirIInv ==
  ASSUME IInv, NEW p \in Pedidos, Recibir(p)
  PROVE  IInv'
<1> DEFINE paso == CASE Tipo[p] = "SELECT" -> "consultar" [] Tipo[p] = "INSERT" -> "segmento"
                     [] Tipo[p] = "DROP" -> "borrar" [] Tipo[p] = "JOURNAL" -> "pedirJournal"
<1>1. TypeOK /\ ~indefinido /\ hilos[p].paso = "porLlegar"
  BY DEF IInv, Recibir, En
<1>2. /\ paso \in Pasos /\ paso \notin {"limpiar", "vaciar", "crear", "victima"}
      /\ paso \in PasosDe(Tipo[p])
  BY PoolAssumption DEF Pasos, PasosDe
<1>3. Ir(p, paso)
  BY DEF Recibir
<1> HIDE DEF paso
<1>4. PICK h \in Hilo : /\ hilos' = [hilos EXCEPT ![p] = h]
                       /\ h.paso = paso /\ h.segmento = hilos[p].segmento
                       /\ h.marco = hilos[p].marco /\ h.pagina = hilos[p].pagina
  BY <1>1, <1>2, <1>3, IrEs
<1>5. TypeOK'
  BY <1>1, <1>4, Mueve DEF TypeOK, Recibir
<1>6. \A v \in {1, 2} : hilos[p].paso \notin Despues(v)
  BY <1>1 DEF Despues
<1> QED
  BY <1>1, <1>2, <1>4, <1>5, <1>6, SoloHilo DEF Recibir

LEMMA ResponderLFSIInv ==
  ASSUME IInv, NEW p \in Pedidos, ResponderLFS(p)
  PROVE  IInv'
<1> DEFINE paso == IF Clave[p] \in EnLFS \/ lfs[Clave[p]] # {} THEN "segmento" ELSE "fin"
<1>1. TypeOK /\ Punteria /\ ~indefinido /\ hilos[p].paso = "enLFS"
  BY DEF IInv, ResponderLFS, En
<1>2. paso \in Pasos /\ paso \in {"segmento", "fin"}
  BY DEF Pasos
<1>3. Ir(p, paso)
  BY DEF ResponderLFS
<1> HIDE DEF paso
<1>4. PICK h \in Hilo : /\ hilos' = [hilos EXCEPT ![p] = h]
                       /\ h.paso = paso /\ h.segmento = hilos[p].segmento
                       /\ h.marco = hilos[p].marco /\ h.pagina = hilos[p].pagina
  BY <1>1, <1>2, <1>3, IrEs
<1>5. TypeOK'
  BY <1>1, <1>4, Mueve DEF TypeOK, ResponderLFS
<1>6. h.paso \in PasosDe(Tipo[p])
  BY <1>1, <1>2, <1>4, PoolAssumption DEF Punteria, PasoDelTipo, PasosDe, Pasos
<1>7. \A v \in {1, 2} : hilos[p].paso \notin Despues(v)
  BY <1>1 DEF Despues
<1> QED
  BY <1>1, <1>2, <1>4, <1>5, <1>6, <1>7, SoloHilo DEF ResponderLFS

(* A value that is too long ends the thread without an answer. *)
LEMMA ValorExcedidoIInv ==
  ASSUME IInv, NEW p \in Pedidos, ValorExcedido(p)
  PROVE  IInv'
<1> DEFINE paso == IF Tipo[p] = "INSERT" THEN "sinRespuesta" ELSE "fin"
<1>1. TypeOK /\ Punteria /\ ~indefinido /\ hilos[p].paso = "segmento"
  BY DEF IInv, ValorExcedido, En
<1>2. (Tipo[p] # "INSERT" => paso = "fin") /\ paso \in Pasos /\ paso \in {"sinRespuesta", "fin"}
  BY DEF Pasos
<1>3. Ir(p, paso)
  BY DEF ValorExcedido
<1> HIDE DEF paso
<1>4. PICK h \in Hilo : /\ hilos' = [hilos EXCEPT ![p] = h]
                       /\ h.paso = paso /\ h.segmento = hilos[p].segmento
                       /\ h.marco = hilos[p].marco /\ h.pagina = hilos[p].pagina
  BY <1>1, <1>2, <1>3, IrEs
<1>5. TypeOK'
  BY <1>1, <1>4, Mueve DEF TypeOK, ValorExcedido
<1>6. h.paso \in PasosDe(Tipo[p])
  BY <1>1, <1>2, <1>4, PoolAssumption DEF Punteria, PasoDelTipo, PasosDe, Pasos
<1>7. \A v \in {1, 2} : hilos[p].paso \notin Despues(v)
  BY <1>1 DEF Despues
<1> QED
  BY <1>1, <1>2, <1>4, <1>5, <1>6, <1>7, SoloHilo DEF ValorExcedido

(* The victim is a page that was not modified. *)
LEMMA ElegirVictimaIInv ==
  ASSUME IInv, NEW p \in Pedidos, ElegirVictima(p)
  PROVE  IInv'
<1>1. TypeOK /\ Punteria /\ ~indefinido /\ hilos[p].paso = "lru"
  BY DEF IInv, ElegirVictima, En
<1> PICK t \in Tablas : \E i \in DOMAIN PaginasDe(t) :
        /\ PaginasDe(t)[i] \in Reemplazables
        /\ hilos' = [hilos EXCEPT ![p].pagina = PaginasDe(t)[i].id, ![p].marco = PaginasDe(t)[i].marco,
                                  ![p].indice = i, ![p].paso = "victima"]
  BY DEF ElegirVictima
<1>2. PICK i \in DOMAIN PaginasDe(t) :
        /\ PaginasDe(t)[i] \in Reemplazables
        /\ hilos' = [hilos EXCEPT ![p].pagina = PaginasDe(t)[i].id, ![p].marco = PaginasDe(t)[i].marco,
                                  ![p].indice = i, ![p].paso = "victima"]
  OBVIOUS
<1> DEFINE g == PaginasDe(t)[i]
           h == [hilos[p] EXCEPT !.pagina = g.id, !.marco = g.marco, !.indice = i, !.paso = "victima"]
<1>3. g \in Pagina /\ i \in Nat /\ ~g.modificada
  BY <1>1, <1>2, Paginado DEF Reemplazables
<1>4. hilos[p] \in Hilo /\ g.id \in Pedidos /\ g.marco \in Marcos
  BY <1>1, <1>3 DEF TypeOK, Pagina
<1>5. h \in Hilo /\ h.paso = "victima" /\ h.pagina = g.id /\ h.marco = g.marco
      /\ h.segmento = hilos[p].segmento
  <2> HIDE DEF g
  <2> QED
    BY <1>3, <1>4 DEF Hilo, Pasos
<1>6. hilos' = [hilos EXCEPT ![p] = h]
  BY <1>2
<1> HIDE DEF h
<1>7. hilos[g.id].paso \in {"limpiar", "fin"}
  BY <1>1, <1>2 DEF Punteria, PaginasUnicas, Hecha
<1>8. ASSUME NEW u \in Tablas, NEW j \in DOMAIN PaginasDe(u), PaginasDe(u)[j].id = g.id
      PROVE  PaginasDe(u)[j].marco = g.marco /\ ~PaginasDe(u)[j].modificada
  <2>1. u = t
    BY <1>1, <1>2, <1>8 DEF Punteria, PaginasUnicas
  <2>2. j = i
    BY <1>1, <1>2, <1>8, <2>1 DEF Punteria, PaginasUnicas
  <2> QED
    BY <1>3, <2>1, <2>2
<1>9. TypeOK'
  BY <1>1, <1>5, <1>6, Mueve DEF TypeOK, ElegirVictima
<1>10. h.paso \in PasosDe(Tipo[p])
  BY <1>1, <1>5, PoolAssumption DEF Punteria, PasoDelTipo, PasosDe, Pasos
<1>11. \A v \in {1, 2} : hilos[p].paso \in Despues(v) => h.paso \in Despues(v)
  BY <1>1, <1>5 DEF Despues, Pasos
<1>12. UNCHANGED <<segmentos, marcos, ocupados, mSegmento, lfs, indefinido, ultimo, corrida>>
  BY DEF ElegirVictima
<1> HIDE DEF g
<1>13. /\ h.pagina \in Pedidos /\ hilos[h.pagina].paso \in {"limpiar", "fin"}
       /\ \A u \in Tablas : \A j \in DOMAIN PaginasDe(u) :
            PaginasDe(u)[j].id = h.pagina => PaginasDe(u)[j].marco = h.marco /\ ~PaginasDe(u)[j].modificada
  BY <1>4, <1>5, <1>7, <1>8
<1>14. /\ hilos[p].paso \notin {"limpiar", "fin", "crear"} /\ h.paso \notin {"limpiar", "vaciar", "crear"}
       /\ h.segmento \in {Nadie, hilos[p].segmento}
  BY <1>1, <1>5
<1> QED
  BY <1>1, <1>5, <1>6, <1>9, <1>10, <1>11, <1>12, <1>13, <1>14, SoloHilo

LEMMA SinVictimaIInv ==
  ASSUME IInv, NEW p \in Pedidos, SinVictima(p)
  PROVE  IInv'
<1>1. TypeOK /\ Punteria /\ ~indefinido /\ hilos[p].paso = "lru"
  BY DEF IInv, SinVictima, En
<1>2. PICK paso \in {"lleno", "pedirJournal"} : Soltar(p, paso)
  BY DEF SinVictima
<1>3. paso \in Pasos
  BY DEF Pasos
<1>4. PICK h \in Hilo : /\ hilos' = [hilos EXCEPT ![p] = h]
                       /\ h.paso = paso /\ h.segmento = Nadie /\ h.marco = SinMarco /\ h.pagina = Nadie
  BY <1>1, <1>2, <1>3, SoltarEs
<1>5. TypeOK'
  <2>1. porForzar' \in Nat
    BY <1>1 DEF TypeOK, SinVictima
  <2> QED
    BY <1>1, <1>4, <2>1, Mueve DEF TypeOK, SinVictima
<1>6. h.paso \in PasosDe(Tipo[p])
  BY <1>1, <1>2, <1>4, PoolAssumption DEF Punteria, PasoDelTipo, PasosDe, Pasos
<1>7. \A v \in {1, 2} : hilos[p].paso \in Despues(v) => h.paso \in Despues(v)
  BY <1>1, <1>2, <1>4 DEF Despues, Pasos
<1> QED
  BY <1>1, <1>2, <1>4, <1>5, <1>6, <1>7, SoloHilo DEF SinVictima

LEMMA ForzarJournalIInv ==
  ASSUME IInv, ForzarJournal
  PROVE  IInv'
<1>1. TypeOK'
  BY DEF IInv, TypeOK, ForzarJournal
<1>2. UNCHANGED <<segmentos, marcos, ocupados, mSegmento, hilos, lfs, indefinido, ultimo, corrida>>
  BY DEF ForzarJournal
<1>3. /\ \A t \in Tablas : PaginasDe(t)' = PaginasDe(t)
      /\ \A p \in Pedidos : Vivo(p)' <=> Vivo(p)
      /\ ConMarco' = ConMarco
      /\ \A k, v : EnPagina(k, v)' <=> EnPagina(k, v)
  BY <1>2 DEF PaginasDe, Vivo, ConMarco, SegmentoVivo, EnPagina
<1>4. Punteria => Punteria'
  BY <1>2, <1>3 DEF Punteria, IdsUsados, Usado, PaginasUnicas, Hecha, VictimaFiel, SoloUnoVacia, PasoDelTipo, Escritas
<1>5. Contabilidad => Contabilidad'
  BY <1>2, <1>3 DEF Contabilidad, Duenios, Bitmap, ClaveFija, Guardada
<1> QED
  BY <1>1, <1>2, <1>4, <1>5 DEF IInv

LEMMA InsertarIndefinidoIInv ==
  ASSUME IInv, NEW p \in Pedidos, InsertarIndefinido(p)
  PROVE  IInv'
<1>1. TypeOK /\ "fin" \in Pasos /\ Soltar(p, "fin") /\ indefinido' = TRUE
  BY DEF IInv, Pasos, InsertarIndefinido, UsarLiberado
<1>2. PICK h \in Hilo : hilos' = [hilos EXCEPT ![p] = h]
  BY <1>1, SoltarEs
<1>3. TypeOK'
  BY <1>1, <1>2, Mueve DEF TypeOK, InsertarIndefinido, UsarLiberado
<1> QED
  BY <1>1, <1>3 DEF IInv

LEMMA ConSegmentoIInv ==
  ASSUME IInv, ~indefinido, NEW p \in Pedidos, NEW vez \in {1, 2}, ConSegmento(p, vez),
         hilos[p].paso = IF vez = 1 THEN "segmento" ELSE "resegmento"
  PROVE  IInv'
<1> DEFINE nuevo == [id |-> <<p, vez>>, paginas |-> <<>>]
           seg == segmentos'[T(p)].id
           h == [hilos[p] EXCEPT !.segmento = seg, !.paso = IF vez = 1 THEN "pagina" ELSE "remarco"]
<1>1. TypeOK /\ Punteria /\ T(p) \in Tablas /\ hilos[p] \in Hilo
  BY PoolAssumption DEF IInv, TypeOK, T, Tablas
<1>2. nuevo \in Segmento /\ nuevo # Nadie
  <2>1. <<>> \in Seq(Pagina) /\ <<p, vez>> \in Punteros
    BY EmptySeq DEF Punteros
  <2>2. nuevo \in Segmento
    BY <2>1 DEF Segmento
  <2> HIDE DEF nuevo
  <2> QED
    BY <2>2, NadieAssumption
<1>3. segmentos' = [segmentos EXCEPT ![T(p)] = IF segmentos[T(p)] = Nadie THEN nuevo ELSE segmentos[T(p)]]
  BY DEF ConSegmento
<1>4. /\ segmentos' \in [Tablas -> Segmento \cup {Nadie}]
      /\ segmentos'[T(p)] = IF segmentos[T(p)] = Nadie THEN nuevo ELSE segmentos[T(p)]
      /\ \A t \in Tablas : t # T(p) => segmentos'[t] = segmentos[t]
  <2> HIDE DEF nuevo
  <2> QED
    BY <1>1, <1>2, <1>3 DEF TypeOK
<1>5. ASSUME NEW t \in Tablas PROVE PaginasDe(t)' = PaginasDe(t)
  BY <1>2, <1>4 DEF PaginasDe
<1>6. segmentos'[T(p)] \in Segmento /\ seg \in Punteros
  <2>1. segmentos'[T(p)] \in Segmento
    <3> HIDE DEF nuevo
    <3> QED
      BY <1>1, <1>2, <1>4 DEF TypeOK
  <2> QED
    BY <2>1 DEF Segmento
<1>7. UNCHANGED <<marcos, ocupados, mSegmento, lfs, indefinido, ultimo, corrida>>
  BY DEF ConSegmento
<1>8. hilos' = [hilos EXCEPT ![p] = h]
  <2>1. hilos' = [hilos EXCEPT ![p].segmento = seg, ![p].paso = IF vez = 1 THEN "pagina" ELSE "remarco"]
    BY DEF ConSegmento
  <2> HIDE DEF seg
  <2> QED
    BY <2>1
<1>9. /\ h \in Hilo /\ h.segmento = seg
      /\ h.paso = IF vez = 1 THEN "pagina" ELSE "remarco"
  <2> HIDE DEF seg
  <2> QED
    BY <1>1, <1>6 DEF Hilo, Pasos
<1>10. ~Usado(<<p, vez>>)
  BY DEF Usado, Despues
<1>11. hilos'[p] = h
  BY <1>1, <1>8, <1>9, Mueve
<1>12. h.paso \in Despues(vez)
  BY <1>9 DEF Despues, Pasos
<1> HIDE DEF h
<1>13. ASSUME NEW t \in Tablas, segmentos'[t] # Nadie
       PROVE  \/ segmentos[t] # Nadie /\ segmentos'[t].id = segmentos[t].id
              \/ t = T(p) /\ segmentos'[t].id = <<p, vez>>
  <2>1. CASE t # T(p) \/ segmentos[t] # Nadie
    BY <1>4, <1>13, <2>1
  <2>2. CASE t = T(p) /\ segmentos[t] = Nadie
    BY <1>4, <2>2
  <2> QED
    BY <2>1, <2>2
<1>14. ASSUME NEW t \in Tablas, segmentos'[t] # Nadie
       PROVE  \/ segmentos[t] # Nadie /\ segmentos'[t].id = segmentos[t].id
              \/ hilos'[segmentos'[t].id[1]].paso \in Despues(segmentos'[t].id[2])
  BY <1>11, <1>12, <1>13, <1>14
<1>15. hilos'[h.segmento[1]].paso \in Despues(h.segmento[2])
  <2>1. CASE segmentos[T(p)] = Nadie
    BY <1>4, <1>9, <1>11, <1>12, <2>1
  <2>2. CASE segmentos[T(p)] # Nadie
    <3>1. Usado(seg) /\ h.segmento = seg
      BY <1>1, <1>4, <1>9, <2>2 DEF Punteria, IdsUsados
    <3> HIDE DEF seg
    <3>2. seg[1] \in Pedidos /\ seg[2] \in {1, 2}
      BY <1>6 DEF Punteros
    <3>3. CASE seg[1] = p
      <4>1. seg[2] = 1 /\ vez = 2
        BY <1>10, <3>1, <3>2, <3>3 DEF Usado, Despues
      <4>2. h.paso \in Despues(1)
        BY <1>9, <4>1 DEF Despues, Pasos
      <4> QED
        BY <1>11, <3>1, <3>3, <4>1, <4>2
    <3>4. CASE seg[1] # p
      <4>1. hilos'[seg[1]] = hilos[seg[1]]
        BY <1>1, <1>8, <1>9, <3>2, <3>4, Mueve
      <4> QED
        BY <3>1, <4>1 DEF Usado
    <3> QED
      BY <3>3, <3>4
  <2> QED
    BY <2>1, <2>2
<1>16. TypeOK'
  BY <1>1, <1>4, <1>8, <1>9, Mueve DEF TypeOK, ConSegmento
<1>17. /\ h.paso \in PasosDe(Tipo[p])
       /\ \A v \in {1, 2} : hilos[p].paso \in Despues(v) => h.paso \in Despues(v)
       /\ hilos[p].paso \notin {"limpiar", "fin", "crear"}
       /\ h.paso \notin {"victima", "vaciar", "limpiar", "crear"}
  <2>1. h.paso \in PasosDe(Tipo[p])
    BY <1>1, <1>9, PoolAssumption DEF Punteria, PasoDelTipo, PasosDe, Pasos
  <2>2. \A v \in {1, 2} : hilos[p].paso \in Despues(v) => h.paso \in Despues(v)
    BY <1>9 DEF Despues, Pasos
  <2> QED
    BY <1>9, <2>1, <2>2
<1>18. \A q \in Pedidos : hilos'[q].paso = "vaciar" => mSegmento' = q
  BY <1>1, <1>7, <1>8, <1>9, <1>17, Mueve DEF Punteria, SoloUnoVacia
<1>19. segmentos \in [Tablas -> Segmento \cup {Nadie}]
  BY <1>1 DEF TypeOK
<1>20. Punteria'
  BY <1>1, <1>5, <1>7, <1>8, <1>9, <1>14, <1>15, <1>17, <1>18, <1>19, PunteriaIguales
<1>21. ASSUME NEW q \in Pedidos, q # p PROVE Vivo(q)' => Vivo(q)
  <2>1. hilos'[q] = hilos[q]
    BY <1>1, <1>8, <1>9, <1>21, Mueve
  <2>2. <<p, vez>> \in Punteros
    BY DEF Punteros
  <2>3. ASSUME NEW t \in Tablas, segmentos'[t] # Nadie
        PROVE  \/ segmentos[t] # Nadie /\ segmentos'[t].id = segmentos[t].id
               \/ segmentos'[t].id \in Punteros /\ ~Usado(segmentos'[t].id)
    <3>1. CASE segmentos[t] # Nadie /\ segmentos'[t].id = segmentos[t].id
      BY <3>1
    <3>2. CASE t = T(p) /\ segmentos'[t].id = <<p, vez>>
      BY <1>10, <2>2, <3>2
    <3> QED
      BY <1>13, <2>3, <3>1, <3>2
  <2> QED
    BY <1>1, <2>1, <2>3, NoRevive DEF Punteria
<1>22. ASSUME ~corrida PROVE Contabilidad'
  BY <1>1, <1>5, <1>7, <1>8, <1>9, <1>17, <1>21, <1>22, ContabilidadIguales DEF IInv
<1> QED
  BY <1>7, <1>16, <1>20, <1>22 DEF IInv

LEMMA BuscarSegmentoIInv ==
  ASSUME IInv, NEW p \in Pedidos, BuscarSegmento(p)
  PROVE  IInv'
BY ConSegmentoIInv DEF BuscarSegmento, En

-----------------------------------------------------------------------------
(* A free frame has no owner. *)
LEMMA TomarMarcoIInv ==
  ASSUME IInv, NEW p \in Pedidos, TomarMarco(p)
  PROVE  IInv'
<1> DEFINE hay == MarcosLibres # {}
           f == Min(MarcosLibres)
           paso == IF hay \/ hilos[p].paso = "remarco" THEN "crear" ELSE "lru"
           h == [hilos[p] EXCEPT !.marco = IF hay THEN f ELSE SinMarco, !.paso = paso]
<1>1. /\ TypeOK /\ Punteria /\ ~indefinido /\ hilos[p] \in Hilo
      /\ hilos[p].paso \in {"marco", "remarco"}
  BY DEF IInv, TypeOK, TomarMarco, En
<1>2. hay => f \in Marcos /\ f \notin ocupados
  <2>1. MarcosLibres \in SUBSET Nat
    BY PoolAssumption DEF MarcosLibres, Marcos
  <2>2. hay => f \in MarcosLibres
    BY <2>1, MinEsElemento
  <2> HIDE DEF f
  <2> QED
    BY <2>2 DEF MarcosLibres
<1>3. ocupados' = IF hay THEN ocupados \cup {f} ELSE ocupados
  BY DEF TomarMarco
<1>4. hilos' = [hilos EXCEPT ![p] = h]
  BY DEF TomarMarco
<1>5. UNCHANGED <<segmentos, marcos, mSegmento, lfs, indefinido, ultimo, corrida>>
  BY DEF TomarMarco
<1> HIDE DEF f, hay
<1>6. /\ h \in Hilo /\ h.marco = (IF hay THEN f ELSE SinMarco) /\ h.paso = paso
      /\ h.segmento = hilos[p].segmento
  BY <1>1, <1>2 DEF Hilo, Pasos
<1> HIDE DEF h
<1>7. hilos'[p] = h /\ \A q \in Pedidos : q # p => hilos'[q] = hilos[q]
  BY <1>1, <1>4, <1>6, Mueve
<1>8. TypeOK'
  <2>1. hilos' \in [Pedidos -> Hilo]
    BY <1>1, <1>4, <1>6, Mueve
  <2>2. ocupados' \subseteq Marcos
    BY <1>1, <1>2, <1>3 DEF TypeOK
  <2> QED
    BY <1>1, <2>1, <2>2 DEF TypeOK, TomarMarco
<1>9. /\ h.paso \in PasosDe(Tipo[p])
      /\ \A v \in {1, 2} : hilos[p].paso \in Despues(v) => h.paso \in Despues(v)
  <2>1. h.paso \in PasosDe(Tipo[p])
    BY <1>1, <1>6, PoolAssumption DEF Punteria, PasoDelTipo, PasosDe, Pasos
  <2>2. ASSUME NEW v \in {1, 2}, hilos[p].paso \in Despues(v) PROVE h.paso \in Despues(v)
    BY <1>1, <1>6, <2>2 DEF Despues, Pasos
  <2> QED
    BY <2>1, <2>2
<1>10. /\ \A t \in Tablas : PaginasDe(t)' = PaginasDe(t)
       /\ \A q \in Pedidos : SegmentoVivo(q)' <=> segmentos[T(q)] # Nadie /\ segmentos[T(q)].id = hilos'[q].segmento
  BY <1>5 DEF PaginasDe, SegmentoVivo
<1>11. CASE ~hay
  <2>1. UNCHANGED ocupados
    BY <1>3, <1>11
  <2>2. h.paso \notin {"limpiar", "vaciar", "victima"} /\ (h.paso = "crear" => h.marco = SinMarco)
    BY <1>6, <1>11
  <2> QED
    BY <1>1, <1>4, <1>5, <1>6, <1>8, <1>9, <2>1, <2>2, SoloHilo
<1>12. CASE hay
  <2>1. h.paso = "crear" /\ h.marco = f /\ ocupados' = ocupados \cup {f}
    BY <1>3, <1>6, <1>12
  <2>2. Punteria'
    <3>1. \A q \in Pedidos : hilos'[q].paso = "vaciar" => mSegmento' = q
      BY <1>1, <1>5, <1>7, <2>1 DEF Punteria, SoloUnoVacia
    <3>2. \A t \in Tablas : segmentos'[t] # Nadie => segmentos[t] # Nadie /\ segmentos'[t].id = segmentos[t].id
      BY <1>5
    <3>3. segmentos \in [Tablas -> Segmento \cup {Nadie}]
      BY <1>1 DEF TypeOK
    <3>4. h.paso \notin {"limpiar", "fin", "victima"} /\ hilos[p].paso \notin {"limpiar", "fin"}
          /\ h.segmento \in {Nadie, hilos[p].segmento}
      BY <1>1, <1>6, <2>1
    <3> QED
      BY <1>1, <1>4, <1>5, <1>6, <1>9, <1>10, <3>1, <3>2, <3>3, <3>4, PunteriaIguales
  <2>3. ASSUME ~corrida PROVE Contabilidad'
    <3>1. Contabilidad
      BY <1>1, <2>3 DEF IInv
    <3>2. ASSUME NEW q \in Pedidos, q # p PROVE Vivo(q)' <=> Vivo(q)
      BY <1>7, <1>10, <3>2 DEF Vivo, ConMarco, SegmentoVivo
    <3>3. ~Vivo(p) /\ p \notin ConMarco
      BY <1>1 DEF Vivo, ConMarco
    <3>4. ConMarco' = ConMarco \cup {p}
      <4>1. p \in ConMarco'
        BY <1>2, <1>7, <1>12, <2>1 DEF ConMarco, Marcos, SinMarco
      <4> QED
        BY <1>7, <4>1 DEF ConMarco
    <3>5. Duenios'
      <4>1. ASSUME NEW q \in Pedidos, NEW r \in Pedidos, Vivo(q)', Vivo(r)',
                   hilos'[q].marco = hilos'[r].marco
            PROVE  q = r
        <5>1. \A o \in Pedidos : o # p /\ Vivo(o)' => hilos'[o].marco \in ocupados
          BY <1>7, <3>1, <3>2 DEF Contabilidad, Bitmap
        <5>2. CASE q # p /\ r # p
          BY <1>7, <3>1, <3>2, <4>1, <5>2 DEF Contabilidad, Duenios
        <5>3. CASE q = p \/ r = p
          BY <1>2, <1>7, <1>12, <2>1, <4>1, <5>1, <5>3
        <5> QED
          BY <5>2, <5>3
      <4>2. ASSUME NEW q \in Pedidos, Vivo(q)', NEW t \in Tablas, NEW i \in DOMAIN PaginasDe(t)
            PROVE  PaginasDe(t)[i].marco # hilos'[q].marco
        <5>1. CASE q = p
          BY <1>2, <1>7, <1>12, <2>1, <3>1, <5>1 DEF Contabilidad, Bitmap
        <5>2. CASE q # p
          BY <1>7, <3>1, <3>2, <4>2, <5>2 DEF Contabilidad, Duenios
        <5> QED
          BY <5>1, <5>2
      <4>3. \A t, u \in Tablas : \A i \in DOMAIN PaginasDe(t), j \in DOMAIN PaginasDe(u) :
              PaginasDe(t)[i].marco = PaginasDe(u)[j].marco => t = u /\ i = j
        BY <3>1 DEF Contabilidad, Duenios
      <4> QED
        BY <1>10, <4>1, <4>2, <4>3 DEF Duenios
    <3>6. Bitmap'
      <4>1. \A t \in Tablas : \A i \in DOMAIN PaginasDe(t) : PaginasDe(t)[i].marco \in ocupados'
        BY <2>1, <3>1 DEF Contabilidad, Bitmap
      <4>2. \A q \in Pedidos : Vivo(q)' => hilos'[q].marco \in ocupados'
        BY <1>7, <2>1, <3>1, <3>2 DEF Contabilidad, Bitmap
      <4>3. ASSUME NEW x \in ocupados'
            PROVE  \/ \E t \in Tablas : \E i \in DOMAIN PaginasDe(t) : PaginasDe(t)[i].marco = x
                   \/ \E q \in ConMarco' : hilos'[q].marco = x
        <5>1. CASE x = f
          BY <1>7, <2>1, <3>4, <5>1
        <5>2. CASE x \in ocupados
          <6>1. \A q \in ConMarco : hilos'[q] = hilos[q]
            BY <1>7, <3>3 DEF ConMarco
          <6> QED
            BY <3>1, <3>4, <5>2, <6>1 DEF Contabilidad, Bitmap
        <5> QED
          BY <2>1, <5>1, <5>2
      <4> QED
        BY <1>10, <4>1, <4>2, <4>3 DEF Bitmap
    <3>7. ClaveFija'
      BY <1>5, <1>7, <1>10, <2>1, <3>1 DEF Contabilidad, ClaveFija
    <3>8. \A k, v : EnPagina(k, v)' <=> EnPagina(k, v)
      BY <1>5, <1>10 DEF EnPagina
    <3>9. Guardada'
      BY <1>5, <1>7, <2>1, <3>1, <3>8 DEF Contabilidad, Guardada
    <3> QED
      BY <3>5, <3>6, <3>7, <3>9 DEF Contabilidad
  <2> QED
    BY <1>5, <1>8, <2>2, <2>3 DEF IInv
<1> QED
  BY <1>11, <1>12

-----------------------------------------------------------------------------
(* Steps that leave in the lists only pages that were there: E tells where *)
(* each was; it may be less modified than before.                          *)
Quedan(E) ==
  \A t \in Tablas :
    /\ \A i \in DOMAIN PaginasDe(t)' :
         /\ E[t][i] \in DOMAIN PaginasDe(t)
         /\ PaginasDe(t)'[i].id = PaginasDe(t)[E[t][i]].id
         /\ PaginasDe(t)'[i].marco = PaginasDe(t)[E[t][i]].marco
         /\ PaginasDe(t)'[i].modificada => PaginasDe(t)[E[t][i]].modificada
    /\ \A i, j \in DOMAIN PaginasDe(t)' : E[t][i] = E[t][j] => i = j

(* One list changes; e tells where its pages were. *)
LEMMA QuedanEnLista ==
  ASSUME NEW t0 \in Tablas, NEW e,
         \A t \in Tablas : t # t0 => PaginasDe(t)' = PaginasDe(t),
         \A i \in DOMAIN PaginasDe(t0)' :
           /\ e[i] \in DOMAIN PaginasDe(t0)
           /\ PaginasDe(t0)'[i].id = PaginasDe(t0)[e[i]].id
           /\ PaginasDe(t0)'[i].marco = PaginasDe(t0)[e[i]].marco
           /\ PaginasDe(t0)'[i].modificada => PaginasDe(t0)[e[i]].modificada,
         \A i, j \in DOMAIN PaginasDe(t0)' : e[i] = e[j] => i = j
  PROVE  \E E : Quedan(E)
<1> DEFINE E == [t \in Tablas |-> IF t = t0 THEN e ELSE [i \in DOMAIN PaginasDe(t) |-> i]]
<1>1. E[t0] = e
  OBVIOUS
<1>2. \A t \in Tablas : t # t0 => \A i \in DOMAIN PaginasDe(t) : E[t][i] = i
  OBVIOUS
<1> HIDE DEF E
<1>3. Quedan(E)
  <2> SUFFICES ASSUME NEW t \in Tablas
               PROVE  /\ \A i \in DOMAIN PaginasDe(t)' :
                           /\ E[t][i] \in DOMAIN PaginasDe(t)
                           /\ PaginasDe(t)'[i].id = PaginasDe(t)[E[t][i]].id
                           /\ PaginasDe(t)'[i].marco = PaginasDe(t)[E[t][i]].marco
                           /\ PaginasDe(t)'[i].modificada => PaginasDe(t)[E[t][i]].modificada
                      /\ \A i, j \in DOMAIN PaginasDe(t)' : E[t][i] = E[t][j] => i = j
    BY DEF Quedan
  <2>1. CASE t = t0
    BY <1>1, <2>1
  <2>2. CASE t # t0
    BY <1>2, <2>2
  <2> QED
    BY <2>1, <2>2
<1> QED
  BY <1>3

LEMMA PunteriaQuedan ==
  ASSUME TypeOK, Punteria, NEW p \in Pedidos, NEW h \in Hilo, hilos' = [hilos EXCEPT ![p] = h],
         NEW E, Quedan(E),
         \A f \in Marcos : marcos[f] \in Contenido => marcos'[f] \in Contenido,
         hilos[p].paso \in {"limpiar", "fin"} => h.paso \in {"limpiar", "fin"},
         h.paso # "victima", h.paso \in PasosDe(Tipo[p]),
         \A v \in {1, 2} : hilos[p].paso \in Despues(v) => h.paso \in Despues(v),
         \A t \in Tablas : segmentos'[t] # Nadie => segmentos[t] # Nadie /\ segmentos'[t].id = segmentos[t].id,
         h.segmento \in {Nadie, hilos[p].segmento},
         \A q \in Pedidos : hilos'[q].paso = "vaciar" => mSegmento' = q
  PROVE  Punteria'
<1>1. hilos'[p] = h /\ \A q \in Pedidos : q # p => hilos'[q] = hilos[q]
  BY Mueve
<1>2. IdsUsados'
  BY IdsPaso DEF Punteria
<1>3. \A q : Hecha(q) => Hecha(q)'
  BY <1>1 DEF Hecha
<1>4. ASSUME NEW t \in Tablas, NEW i \in DOMAIN PaginasDe(t)'
      PROVE  /\ E[t][i] \in DOMAIN PaginasDe(t)
             /\ PaginasDe(t)'[i].id = PaginasDe(t)[E[t][i]].id
             /\ PaginasDe(t)'[i].marco = PaginasDe(t)[E[t][i]].marco
             /\ PaginasDe(t)'[i].modificada => PaginasDe(t)[E[t][i]].modificada
  BY <1>4 DEF Quedan
<1>5. PaginasUnicas'
  <2> SUFFICES ASSUME NEW t \in Tablas, NEW i \in DOMAIN PaginasDe(t)'
               PROVE  /\ PaginasDe(t)'[i].id \in Pedidos /\ hilos'[PaginasDe(t)'[i].id].paso \in {"limpiar", "fin"}
                      /\ Tabla[Clave[PaginasDe(t)'[i].id]] = t
                      /\ \A j \in DOMAIN PaginasDe(t)' :
                           PaginasDe(t)'[i].id = PaginasDe(t)'[j].id => i = j
    BY DEF PaginasUnicas, Hecha
  <2>1. Hecha(PaginasDe(t)'[i].id) /\ Tabla[Clave[PaginasDe(t)'[i].id]] = t
    BY <1>4 DEF Punteria, PaginasUnicas
  <2>2. ASSUME NEW j \in DOMAIN PaginasDe(t)', PaginasDe(t)'[i].id = PaginasDe(t)'[j].id
        PROVE  i = j
    <3>1. E[t][i] = E[t][j]
      BY <1>4, <2>2 DEF Punteria, PaginasUnicas
    <3> QED
      BY <3>1 DEF Quedan
  <2>3. \A q \in Pedidos : hilos[q].paso \in {"limpiar", "fin"} => hilos'[q].paso \in {"limpiar", "fin"}
    BY <1>1
  <2> QED
    BY <2>1, <2>2, <2>3 DEF Hecha
<1>6. VictimaFiel'
  <2> SUFFICES ASSUME NEW q \in Pedidos, hilos'[q].paso = "victima"
               PROVE  /\ hilos'[q].pagina \in Pedidos
                      /\ hilos'[hilos'[q].pagina].paso \in {"limpiar", "fin"}
                      /\ \A t \in Tablas : \A i \in DOMAIN PaginasDe(t)' :
                           PaginasDe(t)'[i].id = hilos'[q].pagina =>
                             PaginasDe(t)'[i].marco = hilos'[q].marco /\ ~PaginasDe(t)'[i].modificada
    BY DEF VictimaFiel, Hecha
  <2>1. hilos'[q] = hilos[q]
    BY <1>1
  <2>2. Hecha(hilos[q].pagina)
    BY <2>1 DEF Punteria, VictimaFiel
  <2>3. ASSUME NEW t \in Tablas, NEW i \in DOMAIN PaginasDe(t)', PaginasDe(t)'[i].id = hilos[q].pagina
        PROVE  PaginasDe(t)'[i].marco = hilos[q].marco /\ ~PaginasDe(t)'[i].modificada
    BY <1>4, <2>1, <2>3 DEF Punteria, VictimaFiel
  <2>4. \A o \in Pedidos : hilos[o].paso \in {"limpiar", "fin"} => hilos'[o].paso \in {"limpiar", "fin"}
    BY <1>1
  <2> QED
    BY <2>1, <2>2, <2>3, <2>4 DEF Hecha
<1>7. Escritas'
  <2> SUFFICES ASSUME NEW t \in Tablas, NEW i \in DOMAIN PaginasDe(t)'
               PROVE  marcos'[PaginasDe(t)'[i].marco] \in Contenido
    BY DEF Escritas
  <2>1. PaginasDe(t)[E[t][i]].marco \in Marcos
    BY <1>4, Paginado DEF Pagina
  <2> QED
    BY <1>4, <2>1 DEF Punteria, Escritas
<1>8. SoloUnoVacia' /\ PasoDelTipo'
  BY <1>1 DEF SoloUnoVacia, Punteria, PasoDelTipo
<1> QED
  BY <1>2, <1>5, <1>6, <1>7, <1>8 DEF Punteria

(* The owners; the thread that moves may come to own a frame that no page  *)
(* has any more.                                                           *)
LEMMA DueniosQuedan ==
  ASSUME TypeOK, Contabilidad, NEW p \in Pedidos, NEW h \in Hilo, hilos' = [hilos EXCEPT ![p] = h],
         NEW E, Quedan(E),
         \A q \in Pedidos : q # p => (Vivo(q)' => Vivo(q)),
         Vivo(p)' =>
           /\ \A q \in Pedidos : q # p /\ Vivo(q) => hilos[q].marco # h.marco
           /\ \A t \in Tablas : \A i \in DOMAIN PaginasDe(t)' : PaginasDe(t)'[i].marco # h.marco
  PROVE  Duenios'
<1>1. hilos'[p] = h /\ \A q \in Pedidos : q # p => hilos'[q] = hilos[q]
  BY Mueve
<1>2. ASSUME NEW t \in Tablas, NEW i \in DOMAIN PaginasDe(t)'
      PROVE  E[t][i] \in DOMAIN PaginasDe(t) /\ PaginasDe(t)'[i].marco = PaginasDe(t)[E[t][i]].marco
  BY <1>2 DEF Quedan
<1>3. ASSUME NEW t \in Tablas, NEW u \in Tablas,
             NEW i \in DOMAIN PaginasDe(t)', NEW j \in DOMAIN PaginasDe(u)',
             PaginasDe(t)'[i].marco = PaginasDe(u)'[j].marco
      PROVE  t = u /\ i = j
  <2>1. t = u /\ E[t][i] = E[u][j]
    BY <1>2, <1>3 DEF Contabilidad, Duenios
  <2> QED
    BY <2>1 DEF Quedan
<1>4. ASSUME NEW q \in Pedidos, NEW r \in Pedidos, Vivo(q)', Vivo(r)', hilos'[q].marco = hilos'[r].marco
      PROVE  q = r
  <2>1. CASE q # p /\ r # p
    BY <1>1, <1>4, <2>1 DEF Contabilidad, Duenios
  <2>2. CASE q = p \/ r = p
    BY <1>1, <1>4, <2>2
  <2> QED
    BY <2>1, <2>2
<1>5. ASSUME NEW q \in Pedidos, Vivo(q)', NEW t \in Tablas, NEW i \in DOMAIN PaginasDe(t)'
      PROVE  PaginasDe(t)'[i].marco # hilos'[q].marco
  <2>1. CASE q = p
    BY <1>1, <1>5, <2>1
  <2>2. CASE q # p
    BY <1>1, <1>2, <1>5, <2>2 DEF Contabilidad, Duenios
  <2> QED
    BY <2>1, <2>2
<1> QED
  BY <1>3, <1>4, <1>5 DEF Duenios

(* No step but that of a new segment gives a thread a segment. *)
LEMMA NoReviven ==
  ASSUME TypeOK, Punteria, NEW p \in Pedidos, NEW h \in Hilo, hilos' = [hilos EXCEPT ![p] = h],
         \A t \in Tablas : segmentos'[t] # Nadie => segmentos[t] # Nadie /\ segmentos'[t].id = segmentos[t].id
  PROVE  \A q \in Pedidos : q # p => (Vivo(q)' => Vivo(q))
<1> SUFFICES ASSUME NEW q \in Pedidos, q # p PROVE Vivo(q)' => Vivo(q)
  OBVIOUS
<1>1. hilos'[q] = hilos[q]
  BY Mueve
<1> QED
  BY <1>1, NoRevive DEF Punteria

(* The pages keep their places and frames, and no thread has or had one to *)
(* make: the owners are the same.                                          *)
LEMMA MismosDuenios ==
  ASSUME TypeOK, Punteria, Contabilidad, NEW p \in Pedidos, NEW h \in Hilo,
         hilos' = [hilos EXCEPT ![p] = h],
         NEW E, Quedan(E), UNCHANGED ocupados,
         \A t \in Tablas : /\ DOMAIN PaginasDe(t)' = DOMAIN PaginasDe(t)
                           /\ \A i \in DOMAIN PaginasDe(t) : PaginasDe(t)'[i].marco = PaginasDe(t)[i].marco,
         \A t \in Tablas : segmentos'[t] # Nadie => segmentos[t] # Nadie /\ segmentos'[t].id = segmentos[t].id,
         hilos[p].paso # "crear", h.paso # "crear"
  PROVE  Duenios' /\ Bitmap'
<1>1. hilos'[p] = h /\ \A q \in Pedidos : q # p => hilos'[q] = hilos[q]
  BY Mueve
<1>2. ~Vivo(p)'
  BY <1>1 DEF Vivo, ConMarco
<1>3. \A q \in Pedidos : q # p => (Vivo(q)' => Vivo(q))
  BY NoReviven
<1>4. Duenios'
  BY <1>2, <1>3, DueniosQuedan
<1>5. ConMarco' = ConMarco /\ \A q \in ConMarco : hilos'[q] = hilos[q]
  BY <1>1 DEF ConMarco
<1>6. Bitmap'
  <2>1. \A t \in Tablas : \A i \in DOMAIN PaginasDe(t)' : PaginasDe(t)'[i].marco \in ocupados
    BY DEF Contabilidad, Bitmap
  <2>2. \A q \in Pedidos : Vivo(q)' => hilos'[q].marco \in ocupados
    BY <1>1, <1>2, <1>3 DEF Contabilidad, Bitmap
  <2>3. ASSUME NEW f \in ocupados
        PROVE  \/ \E t \in Tablas : \E i \in DOMAIN PaginasDe(t)' : PaginasDe(t)'[i].marco = f
               \/ \E q \in ConMarco' : hilos'[q].marco = f
    BY <1>5 DEF Contabilidad, Bitmap
  <2> QED
    BY <2>1, <2>2, <2>3 DEF Bitmap
<1> QED
  BY <1>4, <1>6

(* The page of the key is overwritten: its frame had that key, and only    *)
(* that page has that frame.                                               *)
LEMMA ActualizarPaginaIInv ==
  ASSUME IInv, NEW p \in Pedidos, ActualizarPagina(p)
  PROVE  IInv'
<1> DEFINE i == Min(Lugares(Clave[p]))
           l == PaginasDe(T(p))
           g == l[i]
           nueva == [g EXCEPT !.uso = Ahora]
           s == [l EXCEPT ![i] = nueva]
           c == [clave |-> Clave[p], valor |-> p]
<1>1. /\ TypeOK /\ Punteria /\ ~indefinido /\ hilos[p].paso = "pagina" /\ PaginaLibre
      /\ T(p) \in Tablas /\ Clave[p] \in Claves /\ segmentos[T(p)] # Nadie
  BY PoolAssumption DEF IInv, ActualizarPagina, En, T, Tablas, SegmentoVivo
<1>2. /\ marcos' = [marcos EXCEPT ![g.marco] = c]
      /\ segmentos' = [segmentos EXCEPT ![T(p)].paginas[i].uso = Ahora]
      /\ ConPagina(p, g.id)
      /\ ultimo' = [ultimo EXCEPT ![Clave[p]] = p]
  BY DEF ActualizarPagina
<1>3. /\ l \in Seq(Pagina) /\ Len(l) \in Nat /\ DOMAIN l = 1..Len(l)
      /\ \A j \in DOMAIN l : l[j] \in Pagina
  BY <1>1, Paginado
<1>4. i \in DOMAIN l /\ marcos[g.marco] # Nadie /\ marcos[g.marco].clave = Clave[p]
  <2>1. Lugares(Clave[p]) \in SUBSET Nat
    BY <1>3 DEF Lugares, T
  <2>2. Lugares(Clave[p]) # {}
    BY DEF ActualizarPagina
  <2>3. i \in Lugares(Clave[p])
    BY <2>1, <2>2, MinEsElemento
  <2> HIDE DEF i
  <2> QED
    BY <2>3 DEF Lugares, T
<1>5. UNCHANGED <<ocupados, mJournal, mSegmento, porForzar, esperarJournal, lfs, indefinido, corrida>>
  BY DEF ActualizarPagina
<1> HIDE DEF i
<1>6. g \in Pagina /\ g.id \in Pedidos /\ g.marco \in Marcos
  BY <1>3, <1>4 DEF Pagina
<1>7. /\ nueva \in Pagina /\ nueva.id = g.id /\ nueva.marco = g.marco /\ nueva.modificada = g.modificada
  <2>1. Ahora \in Nat
    BY <1>1, AhoraNat
  <2> HIDE DEF g
  <2> QED
    BY <1>6, <2>1 DEF Pagina
<1>8. s \in Seq(Pagina) /\ DOMAIN s = DOMAIN l /\ s[i] = nueva /\ \A j \in DOMAIN l : j # i => s[j] = l[j]
  <2> HIDE DEF l, nueva
  <2>1. s \in [DOMAIN l -> Pagina]
    BY <1>3, <1>7
  <2>2. s \in Seq(Pagina) /\ DOMAIN s = DOMAIN l
    BY <1>3, <2>1, MapaEsSeq
  <2> QED
    BY <1>4, <2>2
<1>9. segmentos' = [segmentos EXCEPT ![T(p)].paginas = s]
  <2>1. segmentos[T(p)].paginas = l
    BY <1>1 DEF PaginasDe
  <2> HIDE DEF l
  <2> QED
    BY <1>2, <2>1
<1> HIDE DEF s, nueva
<1>10. /\ segmentos' \in [Tablas -> Segmento \cup {Nadie}]
       /\ PaginasDe(T(p))' = s
       /\ \A t \in Tablas : t # T(p) => PaginasDe(t)' = PaginasDe(t)
       /\ \A t \in Tablas : segmentos'[t] # Nadie =>
            segmentos[t] # Nadie /\ segmentos'[t].id = segmentos[t].id
  BY <1>1, <1>8, <1>9, CambiaLista
<1>11. ASSUME NEW t \in Tablas
       PROVE  /\ DOMAIN PaginasDe(t)' = DOMAIN PaginasDe(t)
              /\ \A j \in DOMAIN PaginasDe(t) :
                   /\ PaginasDe(t)'[j].id = PaginasDe(t)[j].id
                   /\ PaginasDe(t)'[j].marco = PaginasDe(t)[j].marco
                   /\ PaginasDe(t)'[j].modificada = PaginasDe(t)[j].modificada
  <2>1. CASE t = T(p)
    <3>1. ASSUME NEW j \in DOMAIN l
          PROVE  s[j].id = l[j].id /\ s[j].marco = l[j].marco /\ s[j].modificada = l[j].modificada
      <4>1. CASE j = i
        BY <1>7, <1>8, <4>1
      <4>2. CASE j # i
        BY <1>8, <4>2
      <4> QED
        BY <4>1, <4>2
    <3> QED
      BY <1>8, <1>10, <2>1, <3>1
  <2>2. CASE t # T(p)
    BY <1>10, <2>2
  <2> QED
    BY <2>1, <2>2
<1>12. PICK E : Quedan(E)
  <2> DEFINE e == [j \in DOMAIN l |-> j]
  <2>1. \A j \in DOMAIN l : e[j] = j
    OBVIOUS
  <2> HIDE DEF e
  <2> QED
    BY <1>1, <1>10, <1>11, <2>1, QuedanEnLista
<1>13. PICK h \in Hilo : /\ hilos' = [hilos EXCEPT ![p] = h]
                         /\ h.paso \in {"limpiar", "fin"} /\ h.segmento = Nadie
                         /\ h.paso = "limpiar" => Tipo[p] # "INSERT" /\ h.pagina = g.id
  BY <1>1, <1>2, <1>6, ConPaginaEs
<1>14. hilos'[p] = h /\ \A q \in Pedidos : q # p => hilos'[q] = hilos[q]
  BY <1>1, <1>13, Mueve
<1>15. c \in Contenido /\ c.clave = Clave[p] /\ c.valor = p
  BY <1>1 DEF Contenido
<1> HIDE DEF c
<1>16. /\ marcos' \in [Marcos -> Contenido \cup {Nadie}]
       /\ marcos'[g.marco] = c
       /\ \A f \in Marcos : f # g.marco => marcos'[f] = marcos[f]
  BY <1>1, <1>2, <1>6, <1>15 DEF TypeOK
<1>17. TypeOK'
  <2>1. ultimo' \in [Claves -> Pedidos \cup {Nadie}]
    BY <1>1, <1>2 DEF TypeOK
  <2>2. hilos' \in [Pedidos -> Hilo]
    BY <1>1, <1>13, Mueve
  <2> QED
    BY <1>1, <1>5, <1>10, <1>16, <2>1, <2>2 DEF TypeOK
<1>18. Punteria'
  <2>1. \A f \in Marcos : marcos[f] \in Contenido => marcos'[f] \in Contenido
    BY <1>15, <1>16
  <2>2. h.paso \in PasosDe(Tipo[p])
    BY <1>1, <1>13, PoolAssumption DEF Punteria, PasoDelTipo, PasosDe, Pasos
  <2>3. \A v \in {1, 2} : h.paso \in Despues(v)
    BY <1>13 DEF Despues, Pasos
  <2>4. \A q \in Pedidos : hilos'[q].paso = "vaciar" => mSegmento' = q
    BY <1>1, <1>5, <1>13, <1>14 DEF Punteria, SoloUnoVacia
  <2> QED
    BY <1>1, <1>10, <1>12, <1>13, <2>1, <2>2, <2>3, <2>4, PunteriaQuedan
<1>19. ASSUME ~corrida PROVE Contabilidad'
  <2>1. Contabilidad
    BY <1>1, <1>19 DEF IInv
  <2>2. Duenios' /\ Bitmap'
    BY <1>1, <1>5, <1>10, <1>11, <1>12, <1>13, <2>1, MismosDuenios
  <2>3. Clave[g.id] = Clave[p] /\ (Clave[p] \in SoloInsertadas => g.modificada)
    BY <1>1, <1>4, <2>1 DEF Contabilidad, ClaveFija
  <2>4. ASSUME NEW t \in Tablas, NEW j \in DOMAIN PaginasDe(t)
        PROVE  \/ t = T(p) /\ j = i /\ PaginasDe(t)[j].marco = g.marco
               \/ marcos'[PaginasDe(t)[j].marco] = marcos[PaginasDe(t)[j].marco]
                  /\ PaginasDe(t)[j].marco # g.marco
    <3>1. PaginasDe(t)[j].marco \in Marcos
      BY <1>1, Paginado DEF Pagina
    <3>2. CASE PaginasDe(t)[j].marco = g.marco
      BY <1>1, <1>4, <2>1, <3>2 DEF Contabilidad, Duenios
    <3>3. CASE PaginasDe(t)[j].marco # g.marco
      BY <1>16, <3>1, <3>3
    <3> QED
      BY <3>2, <3>3
  <2>5. ClaveFija'
    <3>1. ASSUME NEW t \in Tablas, NEW j \in DOMAIN PaginasDe(t)
          PROVE  /\ marcos'[PaginasDe(t)[j].marco].clave = Clave[PaginasDe(t)[j].id]
                 /\ Clave[PaginasDe(t)[j].id] \in SoloInsertadas => PaginasDe(t)[j].modificada
      <4>1. CASE t = T(p) /\ j = i
        BY <1>15, <1>16, <2>3, <4>1
      <4>2. CASE marcos'[PaginasDe(t)[j].marco] = marcos[PaginasDe(t)[j].marco]
        BY <2>1, <4>2 DEF Contabilidad, ClaveFija
      <4>3. Clave[PaginasDe(t)[j].id] \in SoloInsertadas => PaginasDe(t)[j].modificada
        BY <2>1 DEF Contabilidad, ClaveFija
      <4> QED
        BY <2>4, <4>1, <4>2, <4>3
    <3>2. ASSUME NEW q \in Pedidos, hilos'[q].paso = "limpiar"
          PROVE  hilos'[q].pagina \in Pedidos /\ Clave[hilos'[q].pagina] = Clave[q]
      <4>1. CASE q = p
        BY <1>6, <1>13, <1>14, <2>3, <3>2, <4>1
      <4>2. CASE q # p
        BY <1>14, <2>1, <3>2, <4>2 DEF Contabilidad, ClaveFija
      <4> QED
        BY <4>1, <4>2
    <3>3. \A t \in Tablas : \A j \in DOMAIN PaginasDe(t)' :
            /\ marcos'[PaginasDe(t)'[j].marco].clave = Clave[PaginasDe(t)'[j].id]
            /\ Clave[PaginasDe(t)'[j].id] \in SoloInsertadas => PaginasDe(t)'[j].modificada
      BY <1>11, <3>1
    <3> QED
      BY <3>2, <3>3 DEF ClaveFija
  <2>6. Guardada'
    <3>1. \A q \in Pedidos : hilos'[q].paso # "vaciar"
      BY <1>1, <1>13, <1>14 DEF PaginaLibre
    <3>2. ASSUME NEW k \in SoloInsertadas, ultimo'[k] # Nadie
          PROVE  \/ ultimo'[k] \in lfs'[k]
                 \/ \E t \in Tablas : \E j \in DOMAIN PaginasDe(t)' :
                      PaginasDe(t)'[j].modificada
                      /\ marcos'[PaginasDe(t)'[j].marco] = [clave |-> k, valor |-> ultimo'[k]]
      <4>0. k \in Claves
        BY DEF SoloInsertadas
      <4>1. CASE k = Clave[p]
        <5>1. ultimo'[k] = p
          BY <1>1, <1>2, <4>1 DEF TypeOK
        <5>2. marcos'[g.marco] = [clave |-> k, valor |-> ultimo'[k]]
          BY <1>16, <4>1, <5>1 DEF c
        <5>3. i \in DOMAIN PaginasDe(T(p))' /\ PaginasDe(T(p))'[i].modificada
              /\ PaginasDe(T(p))'[i].marco = g.marco
          BY <1>1, <1>4, <1>11, <2>3, <4>1
        <5> QED
          BY <1>1, <5>2, <5>3
      <4>2. CASE k # Clave[p]
        <5>1. ultimo'[k] = ultimo[k]
          BY <1>1, <1>2, <4>0, <4>2 DEF TypeOK
        <5>2. CASE ultimo[k] \in lfs[k]
          BY <1>5, <5>1, <5>2
        <5>3. CASE EnPagina(k, ultimo[k])
          <6> PICK t \in Tablas : \E j \in DOMAIN PaginasDe(t) :
                PaginasDe(t)[j].modificada /\ marcos[PaginasDe(t)[j].marco] = [clave |-> k, valor |-> ultimo[k]]
            BY <5>3 DEF EnPagina
          <6>1. PICK j \in DOMAIN PaginasDe(t) :
                PaginasDe(t)[j].modificada /\ marcos[PaginasDe(t)[j].marco] = [clave |-> k, valor |-> ultimo[k]]
            OBVIOUS
          <6>2. marcos[PaginasDe(t)[j].marco].clave = k
            BY <6>1
          <6>3. PaginasDe(t)[j].marco # g.marco
            BY <1>4, <4>2, <6>2
          <6>4. marcos'[PaginasDe(t)[j].marco] = marcos[PaginasDe(t)[j].marco]
            BY <2>4, <6>3
          <6> QED
            BY <1>11, <5>1, <6>1, <6>4
        <5> QED
          BY <2>1, <5>1, <5>2, <5>3, <3>2 DEF Contabilidad, Guardada
      <4> QED
        BY <4>1, <4>2
    <3> QED
      BY <3>1, <3>2 DEF Guardada, EnPagina
  <2> QED
    BY <2>2, <2>5, <2>6 DEF Contabilidad
<1> QED
  BY <1>5, <1>17, <1>18, <1>19 DEF IInv

(* Only the page of a SELECT is marked: its key is not one of those that   *)
(* only INSERTs put.                                                       *)
LEMMA MarcarLimpiaIInv ==
  ASSUME IInv, NEW p \in Pedidos, MarcarLimpia(p)
  PROVE  IInv'
<1> DEFINE x == hilos[p].pagina
<1>1. TypeOK /\ Punteria /\ ~indefinido /\ hilos[p].paso = "limpiar"
  BY DEF IInv, MarcarLimpia, En
<1>2. PICK t0 \in TablaDePagina(x) :
        segmentos' = [segmentos EXCEPT ![t0].paginas =
          [i \in DOMAIN @ |-> IF @[i].id = x THEN [@[i] EXCEPT !.modificada = FALSE] ELSE @[i]]]
  BY DEF MarcarLimpia
<1> DEFINE l == PaginasDe(t0)
           nueva(i) == IF l[i].id = x THEN [l[i] EXCEPT !.modificada = FALSE] ELSE l[i]
           s == [i \in DOMAIN l |-> nueva(i)]
<1>3. t0 \in Tablas /\ segmentos[t0] # Nadie
  BY <1>2 DEF TablaDePagina, PaginasDe
<1>4. /\ l \in Seq(Pagina) /\ Len(l) \in Nat /\ DOMAIN l = 1..Len(l)
      /\ \A i \in DOMAIN l : l[i] \in Pagina
  BY <1>1, <1>3, Paginado
<1>5. UNCHANGED <<marcos, ocupados, mJournal, mSegmento, porForzar, esperarJournal, lfs, indefinido, ultimo, corrida>>
  BY DEF MarcarLimpia
<1>6. ASSUME NEW i \in DOMAIN l
      PROVE  /\ nueva(i) \in Pagina /\ nueva(i).id = l[i].id /\ nueva(i).marco = l[i].marco
             /\ nueva(i).modificada => l[i].modificada
             /\ l[i].id # x => nueva(i).modificada = l[i].modificada
  <2> DEFINE g == l[i]
  <2>1. g \in Pagina
    BY <1>4
  <2> HIDE DEF g
  <2>2. [g EXCEPT !.modificada = FALSE] \in Pagina
    BY <2>1 DEF Pagina
  <2>3. /\ [g EXCEPT !.modificada = FALSE].id = g.id
        /\ [g EXCEPT !.modificada = FALSE].marco = g.marco
        /\ [g EXCEPT !.modificada = FALSE].modificada = FALSE
    BY <2>1 DEF Pagina
  <2> QED
    BY <2>1, <2>2, <2>3 DEF g
<1>7. s \in Seq(Pagina) /\ DOMAIN s = DOMAIN l /\ \A i \in DOMAIN l : s[i] = nueva(i)
  <2>1. s \in [DOMAIN l -> Pagina]
    BY <1>6
  <2>2. \A i \in DOMAIN l : s[i] = nueva(i)
    OBVIOUS
  <2> HIDE DEF l, s
  <2> QED
    BY <1>4, <2>1, <2>2, MapaEsSeq
<1>8. segmentos' = [segmentos EXCEPT ![t0].paginas = s]
  <2>1. segmentos[t0].paginas = l
    BY <1>3 DEF PaginasDe
  <2> HIDE DEF l
  <2> QED
    BY <1>2, <2>1
<1> HIDE DEF s, nueva
<1>10. /\ segmentos' \in [Tablas -> Segmento \cup {Nadie}]
       /\ PaginasDe(t0)' = s
       /\ \A t \in Tablas : t # t0 => PaginasDe(t)' = PaginasDe(t)
       /\ \A t \in Tablas : segmentos'[t] # Nadie =>
            segmentos[t] # Nadie /\ segmentos'[t].id = segmentos[t].id
  BY <1>1, <1>3, <1>7, <1>8, CambiaLista
<1>11. ASSUME NEW t \in Tablas
       PROVE  /\ DOMAIN PaginasDe(t)' = DOMAIN PaginasDe(t)
              /\ \A j \in DOMAIN PaginasDe(t) :
                   /\ PaginasDe(t)'[j].id = PaginasDe(t)[j].id
                   /\ PaginasDe(t)'[j].marco = PaginasDe(t)[j].marco
                   /\ PaginasDe(t)'[j].modificada => PaginasDe(t)[j].modificada
                   /\ PaginasDe(t)[j].id # x => PaginasDe(t)'[j].modificada = PaginasDe(t)[j].modificada
  <2>1. CASE t = t0
    BY <1>6, <1>7, <1>10, <2>1
  <2>2. CASE t # t0
    BY <1>10, <2>2
  <2> QED
    BY <2>1, <2>2
<1>12. PICK E : Quedan(E)
  <2> DEFINE e == [j \in DOMAIN l |-> j]
  <2>1. \A j \in DOMAIN l : e[j] = j
    OBVIOUS
  <2> HIDE DEF e
  <2>2. \A t \in Tablas : t # t0 => PaginasDe(t)' = PaginasDe(t)
    BY <1>10
  <2>3. \A j \in DOMAIN PaginasDe(t0)' :
          /\ e[j] \in DOMAIN PaginasDe(t0)
          /\ PaginasDe(t0)'[j].id = PaginasDe(t0)[e[j]].id
          /\ PaginasDe(t0)'[j].marco = PaginasDe(t0)[e[j]].marco
          /\ PaginasDe(t0)'[j].modificada => PaginasDe(t0)[e[j]].modificada
    BY <1>3, <1>11, <2>1
  <2>4. \A j, h \in DOMAIN PaginasDe(t0)' : e[j] = e[h] => j = h
    BY <1>3, <1>11, <2>1
  <2> QED
    BY <1>3, <2>2, <2>3, <2>4, QuedanEnLista
<1>13. PICK h \in Hilo : /\ hilos' = [hilos EXCEPT ![p] = h]
                         /\ h.paso = "fin" /\ h.segmento = Nadie /\ h.marco = SinMarco /\ h.pagina = Nadie
  <2>1. Soltar(p, "fin") /\ "fin" \in Pasos
    BY DEF MarcarLimpia, Pasos
  <2> QED
    BY <1>1, <2>1, SoltarEs
<1>14. hilos'[p] = h /\ \A q \in Pedidos : q # p => hilos'[q] = hilos[q]
  BY <1>1, <1>13, Mueve
<1>17. TypeOK'
  <2>1. hilos' \in [Pedidos -> Hilo]
    BY <1>1, <1>13, Mueve
  <2> QED
    BY <1>1, <1>5, <1>10, <2>1 DEF TypeOK
<1>18. Punteria'
  <2>1. \A f \in Marcos : marcos[f] \in Contenido => marcos'[f] \in Contenido
    BY <1>5
  <2>2. h.paso \in PasosDe(Tipo[p])
    BY <1>1, <1>13, PoolAssumption DEF Punteria, PasoDelTipo, PasosDe, Pasos
  <2>3. \A v \in {1, 2} : h.paso \in Despues(v)
    BY <1>13 DEF Despues, Pasos
  <2>4. \A q \in Pedidos : hilos'[q].paso = "vaciar" => mSegmento' = q
    BY <1>1, <1>5, <1>13, <1>14 DEF Punteria, SoloUnoVacia
  <2> QED
    BY <1>1, <1>10, <1>12, <1>13, <2>1, <2>2, <2>3, <2>4, PunteriaQuedan
<1>19. ASSUME ~corrida PROVE Contabilidad'
  <2>1. Contabilidad
    BY <1>1, <1>19 DEF IInv
  <2>2. Duenios' /\ Bitmap'
    BY <1>1, <1>5, <1>10, <1>11, <1>12, <1>13, <2>1, MismosDuenios
  <2>3. x \in Pedidos /\ Clave[x] \notin SoloInsertadas
    <3>1. x \in Pedidos /\ Clave[x] = Clave[p]
      BY <1>1, <2>1 DEF Contabilidad, ClaveFija
    <3>2. Tipo[p] = "SELECT"
      BY <1>1, PoolAssumption DEF Punteria, PasoDelTipo, PasosDe
    <3> QED
      BY <3>1, <3>2 DEF SoloInsertadas
  <2>4. ASSUME NEW t \in Tablas, NEW j \in DOMAIN PaginasDe(t),
               Clave[PaginasDe(t)[j].id] \in SoloInsertadas
        PROVE  PaginasDe(t)'[j].modificada = PaginasDe(t)[j].modificada
    BY <1>11, <2>3, <2>4
  <2>5. ClaveFija'
    <3>1. \A t \in Tablas : \A j \in DOMAIN PaginasDe(t)' :
            /\ marcos'[PaginasDe(t)'[j].marco].clave = Clave[PaginasDe(t)'[j].id]
            /\ Clave[PaginasDe(t)'[j].id] \in SoloInsertadas => PaginasDe(t)'[j].modificada
      BY <1>5, <1>11, <2>1, <2>4 DEF Contabilidad, ClaveFija
    <3>2. \A q \in Pedidos : hilos'[q].paso = "limpiar" =>
            hilos'[q].pagina \in Pedidos /\ Clave[hilos'[q].pagina] = Clave[q]
      BY <1>13, <1>14, <2>1 DEF Contabilidad, ClaveFija
    <3> QED
      BY <3>1, <3>2 DEF ClaveFija
  <2>6. ASSUME NEW k \in SoloInsertadas, NEW v, EnPagina(k, v)
        PROVE  \E t \in Tablas : \E j \in DOMAIN PaginasDe(t)' :
                 PaginasDe(t)'[j].modificada /\ marcos'[PaginasDe(t)'[j].marco] = [clave |-> k, valor |-> v]
    <3> PICK t \in Tablas : \E j \in DOMAIN PaginasDe(t) :
          PaginasDe(t)[j].modificada /\ marcos[PaginasDe(t)[j].marco] = [clave |-> k, valor |-> v]
      BY <2>6 DEF EnPagina
    <3>1. PICK j \in DOMAIN PaginasDe(t) :
          PaginasDe(t)[j].modificada /\ marcos[PaginasDe(t)[j].marco] = [clave |-> k, valor |-> v]
      OBVIOUS
    <3>2. marcos[PaginasDe(t)[j].marco].clave = k
      BY <3>1
    <3>3. Clave[PaginasDe(t)[j].id] = k
      BY <2>1, <3>2 DEF Contabilidad, ClaveFija
    <3> QED
      BY <1>5, <1>11, <2>4, <3>1, <3>3
  <2>7. Guardada'
    <3>1. \A k \in SoloInsertadas : ultimo'[k] # Nadie =>
            \/ ultimo'[k] \in lfs'[k]
            \/ \E t \in Tablas : \E j \in DOMAIN PaginasDe(t)' :
                 PaginasDe(t)'[j].modificada
                 /\ marcos'[PaginasDe(t)'[j].marco] = [clave |-> k, valor |-> ultimo'[k]]
      BY <1>5, <2>1, <2>6 DEF Contabilidad, Guardada
    <3>2. \A q \in Pedidos : hilos'[q].paso = "vaciar" =>
            \A k \in SoloInsertadas : ultimo'[k] # Nadie => ultimo'[k] \in lfs'[k]
      BY <1>5, <1>13, <1>14, <2>1 DEF Contabilidad, Guardada
    <3> QED
      BY <3>1, <3>2 DEF Guardada, EnPagina
  <2> QED
    BY <2>2, <2>5, <2>7 DEF Contabilidad
<1> QED
  BY <1>5, <1>17, <1>18, <1>19 DEF IInv

(* The frame passes from the victim's page to the thread, if the node that *)
(* is removed is the victim's.                                             *)
LEMMA ReemplazarIInv ==
  ASSUME IInv, NEW p \in Pedidos, Reemplazar(p)
  PROVE  IInv'
<1> DEFINE x == hilos[p].pagina
           n == hilos[p].indice
           f == hilos[p].marco
           c == [clave |-> Clave[p], valor |-> p]
<1>1. /\ TypeOK /\ Punteria /\ ~indefinido /\ hilos[p].paso = "victima" /\ PaginaLibre
      /\ Clave[p] \in Claves
  BY PoolAssumption DEF IInv, Reemplazar, En
<1>2. PICK t0 \in TablaDePagina(x) :
        /\ segmentos' = [segmentos EXCEPT ![t0].paginas = QuitarNodo(PaginasDe(t0), n)]
        /\ corrida' = (corrida \/ n \notin DOMAIN PaginasDe(t0) \/ PaginasDe(t0)[n].id # x)
  BY DEF Reemplazar
<1> DEFINE l == PaginasDe(t0)
           s == QuitarNodo(l, n)
           e == [j \in DOMAIN s |-> IF n \in DOMAIN l /\ j >= n THEN j + 1 ELSE j]
<1>3. /\ t0 \in Tablas /\ segmentos[t0] # Nadie
      /\ \E i \in DOMAIN l : l[i].id = x
  BY <1>2 DEF TablaDePagina, PaginasDe
<1>4. /\ l \in Seq(Pagina) /\ Len(l) \in Nat /\ DOMAIN l = 1..Len(l)
      /\ \A i \in DOMAIN l : l[i] \in Pagina
  BY <1>1, <1>3, Paginado
<1>5. /\ UNCHANGED <<ocupados, mJournal, mSegmento, porForzar, esperarJournal, lfs, indefinido, ultimo>>
      /\ marcos' = [marcos EXCEPT ![f] = c]
      /\ Ir(p, "crear") /\ "crear" \in Pasos
  BY DEF Reemplazar, Pasos
<1>6. n \in Nat /\ f \in Marcos /\ Hecha(x) /\ hilos[p] \in Hilo
  <2>1. hilos[p] \in Hilo /\ Hecha(x)
    BY <1>1 DEF TypeOK, Punteria, VictimaFiel
  <2>2. f \in Marcos
    <3>1. PICK i \in DOMAIN l : l[i].id = x
      BY <1>3
    <3>2. l[i].marco = f
      BY <1>1, <1>3, <3>1 DEF Punteria, VictimaFiel
    <3> HIDE DEF f, l
    <3> QED
      BY <1>4, <3>1, <3>2 DEF Pagina
  <2> QED
    BY <2>1, <2>2 DEF Hilo
<1>7. /\ s \in Seq(Pagina) /\ DOMAIN s \subseteq Nat
      /\ \A j \in DOMAIN s : e[j] \in DOMAIN l /\ s[j] = l[e[j]] /\ (n \in DOMAIN l => e[j] # n)
      /\ \A i, j \in DOMAIN s : e[i] = e[j] => i = j
      /\ n \in DOMAIN l => \A i \in DOMAIN l : i # n => \E j \in DOMAIN s : e[j] = i
  <2> HIDE DEF l, n
  <2>1. CASE n \in DOMAIN l
    <3>1. s = RemoveAt(l, n)
      BY <2>1 DEF QuitarNodo
    <3>2. /\ s \in Seq(Pagina) /\ DOMAIN s = 1..(Len(l) - 1)
          /\ \A j \in 1..(Len(l) - 1) : s[j] = IF j < n THEN l[j] ELSE l[j + 1]
      <4>1. l \in Seq(Pagina) /\ n \in DOMAIN l /\ DOMAIN l = 1..Len(l)
        BY <1>4, <2>1
      <4>2. /\ RemoveAt(l, n) \in Seq(Pagina) /\ DOMAIN RemoveAt(l, n) = 1..(Len(l) - 1)
            /\ \A j \in 1..(Len(l) - 1) : RemoveAt(l, n)[j] = IF j < n THEN l[j] ELSE l[j + 1]
        BY <4>1, RemoveAtElementos
      <4> HIDE DEF s
      <4> QED
        BY <3>1, <4>2
    <3> HIDE DEF s
    <3>3. \A j \in DOMAIN s : e[j] = IF j >= n THEN j + 1 ELSE j
      <4>1. \A j \in DOMAIN s : e[j] = IF n \in DOMAIN l /\ j >= n THEN j + 1 ELSE j
        OBVIOUS
      <4> HIDE DEF e
      <4> QED
        BY <2>1, <4>1
    <3> HIDE DEF e
    <3>4. \A j \in DOMAIN s : e[j] \in DOMAIN l /\ s[j] = l[e[j]] /\ e[j] # n
      BY <1>4, <2>1, <3>2, <3>3
    <3>5. \A i, j \in DOMAIN s : e[i] = e[j] => i = j
      BY <1>4, <2>1, <3>2, <3>3
    <3>6. ASSUME NEW i \in DOMAIN l, i # n PROVE \E j \in DOMAIN s : e[j] = i
      <4>1. CASE i < n
        <5>1. i \in DOMAIN s /\ e[i] = i
          BY <1>4, <2>1, <3>2, <3>3, <4>1
        <5> QED
          BY <5>1
      <4>2. CASE i > n
        <5>1. i - 1 \in DOMAIN s /\ e[i - 1] = i
          BY <1>4, <2>1, <3>2, <3>3, <4>2
        <5> QED
          BY <5>1
      <4> QED
        BY <1>4, <2>1, <3>6, <4>1, <4>2
    <3> QED
      BY <1>4, <3>2, <3>4, <3>5, <3>6
  <2>2. CASE n \notin DOMAIN l
    <3>1. s = l
      BY <2>2 DEF QuitarNodo
    <3>2. \A j \in DOMAIN s : e[j] = j
      BY <2>2
    <3> HIDE DEF s, e
    <3> QED
      BY <1>4, <2>2, <3>1, <3>2
  <2> QED
    BY <2>1, <2>2
<1> HIDE DEF s, e
<1>10. /\ segmentos' \in [Tablas -> Segmento \cup {Nadie}]
       /\ PaginasDe(t0)' = s
       /\ \A t \in Tablas : t # t0 => PaginasDe(t)' = PaginasDe(t)
       /\ \A t \in Tablas : segmentos'[t] # Nadie =>
            segmentos[t] # Nadie /\ segmentos'[t].id = segmentos[t].id
  <2>1. segmentos' = [segmentos EXCEPT ![t0].paginas = s]
    BY <1>2 DEF s
  <2> QED
    BY <1>1, <1>3, <1>7, <2>1, CambiaLista
<1>12. PICK E : Quedan(E)
  <2>1. \A j \in DOMAIN PaginasDe(t0)' : e[j] \in DOMAIN PaginasDe(t0) /\ PaginasDe(t0)'[j] = PaginasDe(t0)[e[j]]
    BY <1>7, <1>10
  <2>2. \A i, j \in DOMAIN PaginasDe(t0)' : e[i] = e[j] => i = j
    BY <1>7, <1>10
  <2> QED
    BY <1>3, <1>10, <2>1, <2>2, QuedanEnLista
<1>13. PICK h \in Hilo : /\ hilos' = [hilos EXCEPT ![p] = h]
                         /\ h.paso = "crear" /\ h.segmento = hilos[p].segmento
                         /\ h.marco = f /\ h.pagina = x
  BY <1>1, <1>5, IrEs
<1>14. hilos'[p] = h /\ \A q \in Pedidos : q # p => hilos'[q] = hilos[q]
  BY <1>1, <1>13, Mueve
<1>15. c \in Contenido
  BY <1>1 DEF Contenido
<1> HIDE DEF c, f
<1>16. /\ marcos' \in [Marcos -> Contenido \cup {Nadie}]
       /\ marcos'[f] = c
       /\ \A m \in Marcos : m # f => marcos'[m] = marcos[m]
  BY <1>1, <1>5, <1>6, <1>15 DEF TypeOK
<1>17. TypeOK'
  <2>1. hilos' \in [Pedidos -> Hilo]
    BY <1>1, <1>13, Mueve
  <2>2. corrida' \in BOOLEAN
    BY <1>2
  <2> QED
    BY <1>1, <1>5, <1>10, <1>16, <2>1, <2>2 DEF TypeOK
<1>18. Punteria'
  <2>1. \A m \in Marcos : marcos[m] \in Contenido => marcos'[m] \in Contenido
    BY <1>15, <1>16
  <2>2. h.paso \in PasosDe(Tipo[p])
    BY <1>1, <1>13, PoolAssumption DEF Punteria, PasoDelTipo, PasosDe, Pasos
  <2>3. \A v \in {1, 2} : h.paso \in Despues(v)
    BY <1>13 DEF Despues, Pasos
  <2>4. \A q \in Pedidos : hilos'[q].paso = "vaciar" => mSegmento' = q
    BY <1>1, <1>5, <1>13, <1>14 DEF Punteria, SoloUnoVacia
  <2>5. hilos[p].paso \notin {"limpiar", "fin"} /\ h.paso # "victima"
    BY <1>1, <1>13
  <2> QED
    BY <1>1, <1>10, <1>12, <1>13, <2>1, <2>2, <2>3, <2>4, <2>5, PunteriaQuedan
<1>19. ASSUME ~corrida' PROVE Contabilidad'
  <2>1. Contabilidad /\ n \in DOMAIN l /\ l[n].id = x
    BY <1>1, <1>2, <1>19 DEF IInv
  <2>2. l[n].marco = f /\ ~l[n].modificada
    BY <1>1, <1>3, <2>1 DEF f, Punteria, VictimaFiel
  <2> HIDE DEF l
  <2>3. ASSUME NEW t \in Tablas, NEW j \in DOMAIN PaginasDe(t)'
        PROVE  \E i \in DOMAIN PaginasDe(t) :
                 PaginasDe(t)'[j] = PaginasDe(t)[i] /\ PaginasDe(t)[i].marco # f
    <3>1. CASE t = t0
      <4>1. e[j] \in DOMAIN l /\ s[j] = l[e[j]] /\ e[j] # n
        BY <1>7, <1>10, <2>1, <2>3, <3>1
      <4>2. l[e[j]].marco # f
        BY <1>3, <2>1, <2>2, <4>1 DEF l, Contabilidad, Duenios
      <4> QED
        BY <1>10, <3>1, <4>1, <4>2 DEF l
    <3>2. CASE t # t0
      <4>1. PaginasDe(t)'[j] = PaginasDe(t)[j] /\ j \in DOMAIN PaginasDe(t)
        BY <1>10, <2>3, <3>2
      <4>2. PaginasDe(t)[j].marco # f
        BY <1>3, <2>1, <2>2, <3>2, <4>1 DEF l, Contabilidad, Duenios
      <4> QED
        BY <4>1, <4>2
    <3> QED
      BY <3>1, <3>2
  <2>4. ASSUME NEW t \in Tablas, NEW i \in DOMAIN PaginasDe(t), PaginasDe(t)[i].marco # f
        PROVE  \E j \in DOMAIN PaginasDe(t)' : PaginasDe(t)'[j] = PaginasDe(t)[i]
    <3>1. CASE t = t0
      <4>1. i \in DOMAIN l /\ i # n
        BY <2>2, <2>4, <3>1 DEF l
      <4>2. PICK j \in DOMAIN s : e[j] = i
        BY <1>7, <2>1, <4>1
      <4>3. s[j] = l[i]
        BY <1>7, <4>2
      <4> QED
        BY <1>10, <3>1, <4>3 DEF l
    <3>2. CASE t # t0
      BY <1>10, <3>2
    <3> QED
      BY <3>1, <3>2
  <2>5. \A q \in Pedidos : q # p => (Vivo(q)' => Vivo(q))
    BY <1>1, <1>10, <1>13, NoReviven
  <2>6. Duenios'
    <3>1. \A q \in Pedidos : Vivo(q) => hilos[q].marco # f
      BY <1>3, <2>1, <2>2 DEF l, Contabilidad, Duenios
    <3>2. \A t \in Tablas : \A j \in DOMAIN PaginasDe(t)' : PaginasDe(t)'[j].marco # f
      BY <2>3
    <3> QED
      BY <1>1, <1>12, <1>13, <2>1, <2>5, <3>1, <3>2, DueniosQuedan
  <2>7. Bitmap'
    <3>0. f \in ocupados
      BY <1>3, <2>1, <2>2 DEF l, Contabilidad, Bitmap
    <3>1. \A t \in Tablas : \A j \in DOMAIN PaginasDe(t)' : PaginasDe(t)'[j].marco \in ocupados
      BY <2>1, <2>3 DEF Contabilidad, Bitmap
    <3>2. ASSUME NEW q \in Pedidos, Vivo(q)' PROVE hilos'[q].marco \in ocupados
      <4>1. CASE q = p
        BY <1>13, <1>14, <3>0, <4>1
      <4>2. CASE q # p
        BY <1>14, <2>1, <2>5, <3>2, <4>2 DEF Contabilidad, Bitmap
      <4> QED
        BY <4>1, <4>2
    <3>3. p \in ConMarco' /\ hilos'[p].marco = f
      BY <1>6, <1>13, <1>14 DEF ConMarco, Marcos, SinMarco
    <3>4. \A q \in ConMarco : q \in ConMarco' /\ hilos'[q] = hilos[q]
      BY <1>1, <1>14 DEF ConMarco
    <3>5. ASSUME NEW m \in ocupados
          PROVE  \/ \E t \in Tablas : \E j \in DOMAIN PaginasDe(t)' : PaginasDe(t)'[j].marco = m
                 \/ \E q \in ConMarco' : hilos'[q].marco = m
      <4>1. CASE m = f
        BY <3>3, <4>1
      <4>2. CASE m # f
        <5>1. CASE \E q \in ConMarco : hilos[q].marco = m
          BY <3>4, <5>1
        <5>2. CASE \E t \in Tablas : \E i \in DOMAIN PaginasDe(t) : PaginasDe(t)[i].marco = m
          <6>1. PICK t \in Tablas : \E i \in DOMAIN PaginasDe(t) : PaginasDe(t)[i].marco = m
            BY <5>2
          <6>2. PICK i \in DOMAIN PaginasDe(t) : PaginasDe(t)[i].marco = m
            BY <6>1
          <6>3. \E j \in DOMAIN PaginasDe(t)' : PaginasDe(t)'[j] = PaginasDe(t)[i]
            BY <2>4, <4>2, <6>2
          <6> QED
            BY <6>2, <6>3
        <5> QED
          BY <2>1, <5>1, <5>2 DEF Contabilidad, Bitmap
      <4> QED
        BY <4>1, <4>2
    <3> QED
      BY <1>5, <3>1, <3>2, <3>5 DEF Bitmap
  <2>8. ASSUME NEW t \in Tablas, NEW i \in DOMAIN PaginasDe(t), PaginasDe(t)[i].marco # f
        PROVE  marcos'[PaginasDe(t)[i].marco] = marcos[PaginasDe(t)[i].marco]
    <3>1. PaginasDe(t)[i].marco \in Marcos
      BY <1>1, Paginado DEF Pagina
    <3> QED
      BY <1>16, <2>8, <3>1
  <2>9. ClaveFija'
    <3>1. ASSUME NEW t \in Tablas, NEW j \in DOMAIN PaginasDe(t)'
          PROVE  /\ marcos'[PaginasDe(t)'[j].marco].clave = Clave[PaginasDe(t)'[j].id]
                 /\ Clave[PaginasDe(t)'[j].id] \in SoloInsertadas => PaginasDe(t)'[j].modificada
      <4>1. PICK i \in DOMAIN PaginasDe(t) : PaginasDe(t)'[j] = PaginasDe(t)[i] /\ PaginasDe(t)[i].marco # f
        BY <2>3
      <4> QED
        BY <2>1, <2>8, <4>1 DEF Contabilidad, ClaveFija
    <3>2. \A q \in Pedidos : hilos'[q].paso = "limpiar" =>
            hilos'[q].pagina \in Pedidos /\ Clave[hilos'[q].pagina] = Clave[q]
      BY <1>13, <1>14, <2>1 DEF Contabilidad, ClaveFija
    <3> QED
      BY <3>1, <3>2 DEF ClaveFija
  <2>10. ASSUME NEW k, NEW v, EnPagina(k, v)
         PROVE  \E t \in Tablas : \E j \in DOMAIN PaginasDe(t)' :
                  PaginasDe(t)'[j].modificada /\ marcos'[PaginasDe(t)'[j].marco] = [clave |-> k, valor |-> v]
    <3> PICK t \in Tablas : \E i \in DOMAIN PaginasDe(t) :
          PaginasDe(t)[i].modificada /\ marcos[PaginasDe(t)[i].marco] = [clave |-> k, valor |-> v]
      BY <2>10 DEF EnPagina
    <3>1. PICK i \in DOMAIN PaginasDe(t) :
          PaginasDe(t)[i].modificada /\ marcos[PaginasDe(t)[i].marco] = [clave |-> k, valor |-> v]
      OBVIOUS
    <3>2. PaginasDe(t)[i].marco # f
      BY <1>3, <2>1, <2>2, <3>1 DEF l, Contabilidad, Duenios
    <3>3. PICK j \in DOMAIN PaginasDe(t)' : PaginasDe(t)'[j] = PaginasDe(t)[i]
      BY <2>4, <3>2
    <3> QED
      BY <2>8, <3>1, <3>2, <3>3
  <2>11. Guardada'
    <3>1. \A k \in SoloInsertadas : ultimo'[k] # Nadie =>
            \/ ultimo'[k] \in lfs'[k]
            \/ \E t \in Tablas : \E j \in DOMAIN PaginasDe(t)' :
                 PaginasDe(t)'[j].modificada
                 /\ marcos'[PaginasDe(t)'[j].marco] = [clave |-> k, valor |-> ultimo'[k]]
      BY <1>5, <2>1, <2>10 DEF Contabilidad, Guardada
    <3>2. \A q \in Pedidos : hilos'[q].paso # "vaciar"
      BY <1>1, <1>13, <1>14 DEF PaginaLibre
    <3> QED
      BY <3>1, <3>2 DEF Guardada, EnPagina
  <2> QED
    BY <2>6, <2>7, <2>9, <2>11 DEF Contabilidad
<1> QED
  BY <1>5, <1>17, <1>18, <1>19 DEF IInv

(* The thread's frame passes to its page. *)
LEMMA CrearPaginaIInv ==
  ASSUME IInv, NEW p \in Pedidos, CrearPagina(p)
  PROVE  IInv'
<1> DEFINE f == hilos[p].marco
           c == [clave |-> Clave[p], valor |-> p]
           nueva == [id |-> p, marco |-> f, modificada |-> FlagNueva, uso |-> Ahora]
           l == PaginasDe(T(p))
           s == Append(l, nueva)
           n == Len(l) + 1
<1>1. /\ TypeOK /\ Punteria /\ ~indefinido /\ hilos[p].paso = "crear" /\ PaginaLibre
      /\ T(p) \in Tablas /\ Clave[p] \in Claves /\ segmentos[T(p)] # Nadie
      /\ Vivo(p) /\ f # SinMarco
  BY PoolAssumption DEF IInv, CrearPagina, En, T, Tablas, SegmentoVivo, Vivo, ConMarco
<1>2. /\ marcos' = [marcos EXCEPT ![f] = c]
      /\ segmentos' = [segmentos EXCEPT ![T(p)].paginas = Append(@, nueva)]
      /\ ConPagina(p, p)
      /\ ultimo' = [ultimo EXCEPT ![Clave[p]] = p]
  BY DEF CrearPagina
<1>3. /\ l \in Seq(Pagina) /\ Len(l) \in Nat /\ DOMAIN l = 1..Len(l)
      /\ \A j \in DOMAIN l : l[j] \in Pagina
  BY <1>1, Paginado
<1>5. UNCHANGED <<ocupados, mJournal, mSegmento, porForzar, esperarJournal, lfs, indefinido, corrida>>
  BY DEF CrearPagina
<1>6. f \in Marcos
  <2>1. hilos[p] \in Hilo
    BY <1>1 DEF TypeOK
  <2> QED
    BY <1>1, <2>1 DEF Hilo
<1>7. nueva \in Pagina /\ nueva.id = p /\ nueva.marco = f /\ nueva.modificada = TRUE
  <2>1. Ahora \in Nat
    BY <1>1, AhoraNat
  <2> HIDE DEF f
  <2> QED
    BY <1>6, <2>1 DEF Pagina, FlagNueva
<1> HIDE DEF nueva
<1>8. /\ s \in Seq(Pagina) /\ DOMAIN s = 1..n /\ n \in Nat /\ n \in DOMAIN s /\ s[n] = nueva
      /\ \A j \in DOMAIN l : j \in DOMAIN s /\ j # n /\ s[j] = l[j]
      /\ \A j \in DOMAIN s : j = n \/ j \in DOMAIN l
  <2> HIDE DEF l
  <2>1. s \in Seq(Pagina) /\ Len(s) = n /\ s[n] = nueva /\ \A j \in 1..Len(l) : s[j] = l[j]
    BY <1>3, <1>7, AppendProperties
  <2> HIDE DEF s
  <2>2. DOMAIN s = 1..n
    BY <2>1, LenProperties
  <2> QED
    BY <1>3, <2>1, <2>2
<1>9. segmentos' = [segmentos EXCEPT ![T(p)].paginas = s]
  <2>1. segmentos[T(p)].paginas = l
    BY <1>1 DEF PaginasDe
  <2> HIDE DEF l
  <2> QED
    BY <1>2, <2>1
<1> HIDE DEF s
<1>10. /\ segmentos' \in [Tablas -> Segmento \cup {Nadie}]
       /\ PaginasDe(T(p))' = s
       /\ \A t \in Tablas : t # T(p) => PaginasDe(t)' = PaginasDe(t)
       /\ \A t \in Tablas : segmentos'[t] # Nadie =>
            segmentos[t] # Nadie /\ segmentos'[t].id = segmentos[t].id
  BY <1>1, <1>8, <1>9, CambiaLista
<1> HIDE DEF n
<1>11. /\ \A t \in Tablas : \A j \in DOMAIN PaginasDe(t) :
            j \in DOMAIN PaginasDe(t)' /\ PaginasDe(t)'[j] = PaginasDe(t)[j]
       /\ n \in DOMAIN PaginasDe(T(p))' /\ PaginasDe(T(p))'[n] = nueva
  <2>1. ASSUME NEW t \in Tablas, NEW j \in DOMAIN PaginasDe(t)
        PROVE  j \in DOMAIN PaginasDe(t)' /\ PaginasDe(t)'[j] = PaginasDe(t)[j]
    <3>1. CASE t = T(p)
      BY <1>8, <1>10, <3>1
    <3>2. CASE t # T(p)
      BY <1>10, <3>2
    <3> QED
      BY <3>1, <3>2
  <2> QED
    BY <1>8, <1>10, <2>1
<1>12. ASSUME NEW t \in Tablas, NEW j \in DOMAIN PaginasDe(t)'
       PROVE  \/ t = T(p) /\ j = n /\ PaginasDe(t)'[j] = nueva
              \/ j \in DOMAIN PaginasDe(t) /\ PaginasDe(t)'[j] = PaginasDe(t)[j]
  <2>1. CASE t = T(p)
    BY <1>8, <1>10, <2>1
  <2>2. CASE t # T(p)
    BY <1>10, <2>2
  <2> QED
    BY <2>1, <2>2
<1>13. PICK h \in Hilo : /\ hilos' = [hilos EXCEPT ![p] = h]
                         /\ h.paso \in {"limpiar", "fin"} /\ h.segmento = Nadie
                         /\ h.paso = "limpiar" => Tipo[p] # "INSERT" /\ h.pagina = p
  BY <1>1, <1>2, ConPaginaEs
<1>14. hilos'[p] = h /\ \A q \in Pedidos : q # p => hilos'[q] = hilos[q]
  BY <1>1, <1>13, Mueve
<1>15. c \in Contenido /\ c.clave = Clave[p] /\ c.valor = p
  BY <1>1 DEF Contenido
<1> HIDE DEF c, f
<1>16. /\ marcos' \in [Marcos -> Contenido \cup {Nadie}]
       /\ marcos'[f] = c
       /\ \A m \in Marcos : m # f => marcos'[m] = marcos[m]
  BY <1>1, <1>2, <1>6, <1>15 DEF TypeOK
<1>17. TypeOK'
  <2>1. ultimo' \in [Claves -> Pedidos \cup {Nadie}]
    BY <1>1, <1>2 DEF TypeOK
  <2>2. hilos' \in [Pedidos -> Hilo]
    BY <1>1, <1>13, Mueve
  <2> QED
    BY <1>1, <1>5, <1>10, <1>16, <2>1, <2>2 DEF TypeOK
<1> HIDE DEF l
<1>18. Punteria'
  <2>1. IdsUsados'
    <3>1. \A v \in {1, 2} : h.paso \in Despues(v)
      BY <1>13 DEF Despues, Pasos
    <3> QED
      BY <1>1, <1>10, <1>13, <3>1, IdsPaso DEF Punteria
  <2>2. \A q \in Pedidos : hilos[q].paso \in {"limpiar", "fin"} => hilos'[q].paso \in {"limpiar", "fin"}
    BY <1>13, <1>14
  <2>3. ASSUME NEW t \in Tablas, NEW i \in DOMAIN PaginasDe(t)
        PROVE  PaginasDe(t)[i].id # p
    BY <1>1 DEF Punteria, PaginasUnicas, Hecha
  <2>4. PaginasUnicas'
    <3>1. ASSUME NEW t \in Tablas, NEW i \in DOMAIN PaginasDe(t)'
          PROVE  /\ PaginasDe(t)'[i].id \in Pedidos
                 /\ hilos'[PaginasDe(t)'[i].id].paso \in {"limpiar", "fin"}
                 /\ Tabla[Clave[PaginasDe(t)'[i].id]] = t
      <4>1. CASE t = T(p) /\ PaginasDe(t)'[i] = nueva
        BY <1>7, <1>13, <1>14, <4>1 DEF T
      <4>2. CASE i \in DOMAIN PaginasDe(t) /\ PaginasDe(t)'[i] = PaginasDe(t)[i]
        BY <1>1, <2>2, <4>2 DEF Punteria, PaginasUnicas, Hecha
      <4> QED
        BY <1>12, <4>1, <4>2
    <3>2. ASSUME NEW t \in Tablas, NEW i \in DOMAIN PaginasDe(t)', NEW j \in DOMAIN PaginasDe(t)',
                 PaginasDe(t)'[i].id = PaginasDe(t)'[j].id
          PROVE  i = j
      <4>1. CASE i \in DOMAIN PaginasDe(t) /\ j \in DOMAIN PaginasDe(t)
        BY <1>1, <1>11, <3>2, <4>1 DEF Punteria, PaginasUnicas
      <4>2. CASE i \in DOMAIN PaginasDe(t) /\ j \notin DOMAIN PaginasDe(t)
        BY <1>7, <1>11, <1>12, <2>3, <3>2, <4>2
      <4>3. CASE i \notin DOMAIN PaginasDe(t) /\ j \in DOMAIN PaginasDe(t)
        BY <1>7, <1>11, <1>12, <2>3, <3>2, <4>3
      <4>4. CASE i \notin DOMAIN PaginasDe(t) /\ j \notin DOMAIN PaginasDe(t)
        BY <1>12, <4>4
      <4> QED
        BY <4>1, <4>2, <4>3, <4>4
    <3> QED
      BY <3>1, <3>2 DEF PaginasUnicas, Hecha
  <2>5. VictimaFiel'
    <3> SUFFICES ASSUME NEW q \in Pedidos, hilos'[q].paso = "victima"
                 PROVE  /\ hilos'[q].pagina \in Pedidos
                        /\ hilos'[hilos'[q].pagina].paso \in {"limpiar", "fin"}
                        /\ \A t \in Tablas : \A i \in DOMAIN PaginasDe(t)' :
                             PaginasDe(t)'[i].id = hilos'[q].pagina =>
                               PaginasDe(t)'[i].marco = hilos'[q].marco /\ ~PaginasDe(t)'[i].modificada
      BY DEF VictimaFiel, Hecha
    <3>1. hilos'[q] = hilos[q]
      BY <1>13, <1>14
    <3>2. Hecha(hilos[q].pagina) /\ hilos[q].pagina # p
      BY <1>1, <3>1 DEF Punteria, VictimaFiel, Hecha
    <3>3. ASSUME NEW t \in Tablas, NEW i \in DOMAIN PaginasDe(t)', PaginasDe(t)'[i].id = hilos[q].pagina
          PROVE  PaginasDe(t)'[i].marco = hilos[q].marco /\ ~PaginasDe(t)'[i].modificada
      <4>1. i \in DOMAIN PaginasDe(t) /\ PaginasDe(t)'[i] = PaginasDe(t)[i]
        BY <1>7, <1>12, <3>2, <3>3
      <4> QED
        BY <1>1, <3>1, <3>3, <4>1 DEF Punteria, VictimaFiel
    <3> QED
      BY <2>2, <3>1, <3>2, <3>3 DEF Hecha
  <2>6. Escritas'
    <3> SUFFICES ASSUME NEW t \in Tablas, NEW i \in DOMAIN PaginasDe(t)'
                 PROVE  marcos'[PaginasDe(t)'[i].marco] \in Contenido
      BY DEF Escritas
    <3>1. CASE PaginasDe(t)'[i] = nueva
      BY <1>7, <1>15, <1>16, <3>1
    <3>2. CASE i \in DOMAIN PaginasDe(t) /\ PaginasDe(t)'[i] = PaginasDe(t)[i]
      <4>1. PaginasDe(t)[i].marco \in Marcos /\ marcos[PaginasDe(t)[i].marco] \in Contenido
        BY <1>1, <3>2, Paginado DEF Pagina, Punteria, Escritas
      <4> QED
        BY <1>15, <1>16, <3>2, <4>1
    <3> QED
      BY <1>12, <3>1, <3>2
  <2>7. SoloUnoVacia'
    BY <1>1, <1>5, <1>13, <1>14 DEF Punteria, SoloUnoVacia
  <2>8. PasoDelTipo'
    <3>1. h.paso \in PasosDe(Tipo[p])
      BY <1>1, <1>13, PoolAssumption DEF Punteria, PasoDelTipo, PasosDe, Pasos, ConPagina
    <3> QED
      BY <1>1, <1>14, <3>1 DEF Punteria, PasoDelTipo
  <2> QED
    BY <2>1, <2>4, <2>5, <2>6, <2>7, <2>8 DEF Punteria
<1>19. ASSUME ~corrida PROVE Contabilidad'
  <2>1. Contabilidad
    BY <1>1, <1>19 DEF IInv
  <2>2. ASSUME NEW t \in Tablas, NEW i \in DOMAIN PaginasDe(t)
        PROVE  /\ PaginasDe(t)[i].marco # f
               /\ marcos'[PaginasDe(t)[i].marco] = marcos[PaginasDe(t)[i].marco]
    <3>1. PaginasDe(t)[i].marco \in Marcos /\ PaginasDe(t)[i].marco # f
      BY <1>1, <2>1, Paginado DEF f, Pagina, Contabilidad, Duenios
    <3> QED
      BY <1>16, <3>1
  <2>3. \A q \in Pedidos : Vivo(q)' => Vivo(q) /\ q # p /\ hilos'[q] = hilos[q]
    <3>1. ~Vivo(p)'
      BY <1>13, <1>14 DEF Vivo, ConMarco
    <3>2. \A q \in Pedidos : q # p => (Vivo(q)' => Vivo(q))
      BY <1>1, <1>10, <1>13, NoReviven
    <3> QED
      BY <1>14, <3>1, <3>2
  <2>4. Duenios'
    <3>1. ASSUME NEW t \in Tablas, NEW u \in Tablas,
                 NEW i \in DOMAIN PaginasDe(t)', NEW j \in DOMAIN PaginasDe(u)',
                 PaginasDe(t)'[i].marco = PaginasDe(u)'[j].marco
          PROVE  t = u /\ i = j
      <4>1. CASE i \in DOMAIN PaginasDe(t) /\ j \in DOMAIN PaginasDe(u)
        BY <1>11, <2>1, <3>1, <4>1 DEF Contabilidad, Duenios
      <4>2. CASE i \in DOMAIN PaginasDe(t) /\ j \notin DOMAIN PaginasDe(u)
        BY <1>7, <1>11, <1>12, <2>2, <3>1, <4>2
      <4>3. CASE i \notin DOMAIN PaginasDe(t) /\ j \in DOMAIN PaginasDe(u)
        BY <1>7, <1>11, <1>12, <2>2, <3>1, <4>3
      <4>4. CASE i \notin DOMAIN PaginasDe(t) /\ j \notin DOMAIN PaginasDe(u)
        BY <1>12, <4>4
      <4> QED
        BY <4>1, <4>2, <4>3, <4>4
    <3>2. \A q, r \in Pedidos : Vivo(q)' /\ Vivo(r)' /\ hilos'[q].marco = hilos'[r].marco => q = r
      BY <2>1, <2>3 DEF Contabilidad, Duenios
    <3>3. ASSUME NEW q \in Pedidos, Vivo(q)', NEW t \in Tablas, NEW i \in DOMAIN PaginasDe(t)'
          PROVE  PaginasDe(t)'[i].marco # hilos'[q].marco
      <4>1. CASE PaginasDe(t)'[i] = nueva
        BY <1>1, <1>7, <2>1, <2>3, <3>3, <4>1 DEF f, Contabilidad, Duenios
      <4>2. CASE i \in DOMAIN PaginasDe(t) /\ PaginasDe(t)'[i] = PaginasDe(t)[i]
        BY <2>1, <2>3, <3>3, <4>2 DEF Contabilidad, Duenios
      <4> QED
        BY <1>12, <4>1, <4>2
    <3> QED
      BY <3>1, <3>2, <3>3 DEF Duenios
  <2>5. Bitmap'
    <3>1. ASSUME NEW t \in Tablas, NEW i \in DOMAIN PaginasDe(t)'
          PROVE  PaginasDe(t)'[i].marco \in ocupados
      <4>1. f \in ocupados
        BY <1>1, <2>1 DEF f, Contabilidad, Bitmap
      <4> QED
        BY <1>7, <1>12, <2>1, <4>1 DEF Contabilidad, Bitmap
    <3>2. \A q \in Pedidos : Vivo(q)' => hilos'[q].marco \in ocupados
      BY <2>1, <2>3 DEF Contabilidad, Bitmap
    <3>3. ASSUME NEW m \in ocupados
          PROVE  \/ \E t \in Tablas : \E i \in DOMAIN PaginasDe(t)' : PaginasDe(t)'[i].marco = m
                 \/ \E q \in ConMarco' : hilos'[q].marco = m
      <4>1. CASE \E t \in Tablas : \E i \in DOMAIN PaginasDe(t) : PaginasDe(t)[i].marco = m
        BY <1>11, <4>1
      <4>2. CASE \E q \in ConMarco : hilos[q].marco = m
        <5>1. PICK q \in ConMarco : hilos[q].marco = m
          BY <4>2
        <5>2. CASE q = p
          <6>1. PaginasDe(T(p))'[n].marco = m
            BY <1>7, <1>11, <5>1, <5>2 DEF f
          <6> QED
            BY <1>1, <1>11, <6>1
        <5>3. CASE q # p
          <6>1. hilos'[q] = hilos[q] /\ q \in ConMarco'
            BY <1>14, <5>1, <5>3 DEF ConMarco
          <6> QED
            BY <5>1, <6>1
        <5> QED
          BY <5>2, <5>3
      <4> QED
        BY <2>1, <4>1, <4>2 DEF Contabilidad, Bitmap
    <3> QED
      BY <1>5, <3>1, <3>2, <3>3 DEF Bitmap
  <2>6. ClaveFija'
    <3>1. ASSUME NEW t \in Tablas, NEW i \in DOMAIN PaginasDe(t)'
          PROVE  /\ marcos'[PaginasDe(t)'[i].marco].clave = Clave[PaginasDe(t)'[i].id]
                 /\ Clave[PaginasDe(t)'[i].id] \in SoloInsertadas => PaginasDe(t)'[i].modificada
      <4>1. CASE PaginasDe(t)'[i] = nueva
        BY <1>7, <1>15, <1>16, <4>1
      <4>2. CASE i \in DOMAIN PaginasDe(t) /\ PaginasDe(t)'[i] = PaginasDe(t)[i]
        BY <2>1, <2>2, <4>2 DEF Contabilidad, ClaveFija
      <4> QED
        BY <1>12, <4>1, <4>2
    <3>2. ASSUME NEW q \in Pedidos, hilos'[q].paso = "limpiar"
          PROVE  hilos'[q].pagina \in Pedidos /\ Clave[hilos'[q].pagina] = Clave[q]
      <4>1. CASE q = p
        BY <1>13, <1>14, <3>2, <4>1
      <4>2. CASE q # p
        BY <1>14, <2>1, <3>2, <4>2 DEF Contabilidad, ClaveFija
      <4> QED
        BY <4>1, <4>2
    <3> QED
      BY <3>1, <3>2 DEF ClaveFija
  <2>7. Guardada'
    <3>1. \A q \in Pedidos : hilos'[q].paso # "vaciar"
      BY <1>1, <1>13, <1>14 DEF PaginaLibre
    <3>2. ASSUME NEW k \in SoloInsertadas, ultimo'[k] # Nadie
          PROVE  \/ ultimo'[k] \in lfs'[k]
                 \/ \E t \in Tablas : \E j \in DOMAIN PaginasDe(t)' :
                      PaginasDe(t)'[j].modificada
                      /\ marcos'[PaginasDe(t)'[j].marco] = [clave |-> k, valor |-> ultimo'[k]]
      <4>0. k \in Claves
        BY DEF SoloInsertadas
      <4>1. CASE k = Clave[p]
        <5>1. ultimo'[k] = p
          BY <1>1, <1>2, <4>1 DEF TypeOK
        <5>2. marcos'[f] = [clave |-> k, valor |-> ultimo'[k]]
          BY <1>16, <4>1, <5>1 DEF c
        <5> QED
          BY <1>1, <1>7, <1>11, <5>2
      <4>2. CASE k # Clave[p]
        <5>1. ultimo'[k] = ultimo[k]
          BY <1>1, <1>2, <4>0, <4>2 DEF TypeOK
        <5>2. CASE ultimo[k] \in lfs[k]
          BY <1>5, <5>1, <5>2
        <5>3. CASE EnPagina(k, ultimo[k])
          BY <1>11, <2>2, <5>1, <5>3 DEF EnPagina
        <5> QED
          BY <2>1, <5>1, <5>2, <5>3, <3>2 DEF Contabilidad, Guardada
      <4> QED
        BY <4>1, <4>2
    <3> QED
      BY <3>1, <3>2 DEF Guardada, EnPagina
  <2> QED
    BY <2>4, <2>5, <2>6, <2>7 DEF Contabilidad
<1> QED
  BY <1>5, <1>17, <1>18, <1>19 DEF IInv

-----------------------------------------------------------------------------
(* The journal: what it sends, the file system has. *)
LEMMA EnviarModificadasIInv ==
  ASSUME IInv, NEW p \in Pedidos, EnviarModificadas(p)
  PROVE  IInv'
<1>1. /\ TypeOK /\ Punteria /\ ~indefinido /\ hilos[p].paso = "journal"
      /\ mSegmento = Nadie /\ mSegmento' = p
      /\ lfs' = [k \in Claves |-> Recibidos(k)]
      /\ Ir(p, "vaciar") /\ "vaciar" \in Pasos
  BY DEF IInv, EnviarModificadas, En, Pasos
<1>2. UNCHANGED <<segmentos, marcos, ocupados, mJournal, porForzar, esperarJournal, indefinido, ultimo, corrida>>
  BY DEF EnviarModificadas
<1>3. PICK h \in Hilo : /\ hilos' = [hilos EXCEPT ![p] = h]
                       /\ h.paso = "vaciar" /\ h.segmento = hilos[p].segmento
                       /\ h.marco = hilos[p].marco /\ h.pagina = hilos[p].pagina
  BY <1>1, IrEs
<1>4. hilos'[p] = h /\ \A q \in Pedidos : q # p => hilos'[q] = hilos[q]
  BY <1>1, <1>3, Mueve
<1>5. ASSUME NEW k \in Claves PROVE Recibidos(k) \in SUBSET Pedidos
  <2>1. lfs[k] \in SUBSET Pedidos
    BY <1>1 DEF TypeOK
  <2>2. ASSUME NEW g \in Paginas PROVE marcos[g.marco].valor \in Pedidos
    <3>1. PICK t \in Tablas : g \in ToSet(PaginasDe(t))
      BY DEF Paginas
    <3>2. PICK i \in DOMAIN PaginasDe(t) : PaginasDe(t)[i] = g
      BY <1>1, <3>1, Paginado, FinitosLosDeUnaSeq
    <3>3. marcos[g.marco] \in Contenido
      BY <1>1, <3>2 DEF Punteria, Escritas
    <3> QED
      BY <3>3 DEF Contenido
  <2> QED
    BY <2>1, <2>2 DEF Recibidos
<1>6. TypeOK'
  <2>1. hilos' \in [Pedidos -> Hilo]
    BY <1>1, <1>3, Mueve
  <2>2. lfs' \in [Claves -> SUBSET Pedidos]
    BY <1>1, <1>5
  <2> QED
    BY <1>1, <1>2, <2>1, <2>2 DEF TypeOK
<1>7. \A q \in Pedidos : hilos[q].paso # "vaciar"
  BY <1>1, PoolAssumption DEF Punteria, SoloUnoVacia
<1>8. \A t \in Tablas : PaginasDe(t)' = PaginasDe(t)
  BY <1>2 DEF PaginasDe
<1>9. Punteria'
  <2>1. h.paso \in PasosDe(Tipo[p])
    BY <1>1, <1>3, PoolAssumption DEF Punteria, PasoDelTipo, PasosDe, Pasos
  <2>2. \A v \in {1, 2} : hilos[p].paso \in Despues(v) => h.paso \in Despues(v)
    BY <1>1, <1>3 DEF Despues, Pasos
  <2>3. \A q \in Pedidos : hilos'[q].paso = "vaciar" => mSegmento' = q
    BY <1>1, <1>4, <1>7
  <2>4. segmentos \in [Tablas -> Segmento \cup {Nadie}]
    BY <1>1 DEF TypeOK
  <2>5. \A t \in Tablas : segmentos'[t] # Nadie => segmentos[t] # Nadie /\ segmentos'[t].id = segmentos[t].id
    BY <1>2
  <2> QED
    BY <1>1, <1>2, <1>3, <1>8, <2>1, <2>2, <2>3, <2>4, <2>5, PunteriaIguales
<1>10. ASSUME ~corrida PROVE Contabilidad'
  <2>1. Contabilidad
    BY <1>1, <1>10 DEF IInv
  <2>2. \A q \in Pedidos : Vivo(q)' => Vivo(q) /\ hilos'[q] = hilos[q]
    BY <1>2, <1>3, <1>4 DEF Vivo, ConMarco, SegmentoVivo
  <2>3. ConMarco' = ConMarco /\ \A q \in ConMarco : hilos'[q] = hilos[q]
    BY <1>1, <1>3, <1>4 DEF ConMarco
  <2>4. Duenios'
    BY <1>8, <2>1, <2>2 DEF Contabilidad, Duenios
  <2>5. Bitmap'
    BY <1>2, <1>8, <2>1, <2>2, <2>3 DEF Contabilidad, Bitmap
  <2>6. ClaveFija'
    BY <1>2, <1>3, <1>4, <1>8, <2>1 DEF Contabilidad, ClaveFija
  <2>7. ASSUME NEW k \in SoloInsertadas, ultimo'[k] # Nadie
        PROVE  ultimo'[k] \in lfs'[k]
    <3>1. k \in Claves /\ lfs'[k] = Recibidos(k) /\ ultimo'[k] = ultimo[k]
      BY <1>1, <1>2 DEF SoloInsertadas
    <3>2. CASE ultimo[k] \in lfs[k]
      BY <3>1, <3>2 DEF Recibidos
    <3>3. CASE EnPagina(k, ultimo[k])
      <4> PICK t \in Tablas : \E i \in DOMAIN PaginasDe(t) :
            PaginasDe(t)[i].modificada /\ marcos[PaginasDe(t)[i].marco] = [clave |-> k, valor |-> ultimo[k]]
        BY <3>3 DEF EnPagina
      <4>1. PICK i \in DOMAIN PaginasDe(t) :
            PaginasDe(t)[i].modificada /\ marcos[PaginasDe(t)[i].marco] = [clave |-> k, valor |-> ultimo[k]]
        OBVIOUS
      <4> DEFINE g == PaginasDe(t)[i]
      <4>2. g \in Paginas
        BY DEF Paginas, ToSet
      <4>3. g.modificada /\ marcos[g.marco].clave = k /\ marcos[g.marco].valor = ultimo[k]
        BY <4>1
      <4> HIDE DEF g
      <4> QED
        BY <3>1, <4>2, <4>3 DEF Recibidos
    <3> QED
      BY <2>1, <2>7, <3>1, <3>2, <3>3 DEF Contabilidad, Guardada
  <2>8. Guardada'
    BY <2>7 DEF Guardada
  <2> QED
    BY <2>4, <2>5, <2>6, <2>8 DEF Contabilidad
<1> QED
  BY <1>2, <1>6, <1>9, <1>10 DEF IInv

(* The journal frees everything: no page is left, and no thread's segment. *)
LEMMA VaciarIInv ==
  ASSUME IInv, NEW p \in Pedidos, Vaciar(p)
  PROVE  IInv'
<1> DEFINE h == [Hilo0 EXCEPT !.paso = IF Tipo[p] = "JOURNAL" THEN "fin" ELSE "resegmento"]
<1>1. /\ TypeOK /\ Punteria /\ ~indefinido /\ hilos[p].paso = "vaciar"
      /\ segmentos' = [t \in Tablas |-> Nadie] /\ ocupados' = {} /\ mJournal' = FALSE
      /\ mSegmento' = Nadie /\ hilos' = [hilos EXCEPT ![p] = h]
  BY DEF IInv, Vaciar, En, SoltarSegmento
<1>2. UNCHANGED <<marcos, porForzar, esperarJournal, lfs, indefinido, ultimo, corrida>>
  BY DEF Vaciar
<1>3. h \in Hilo /\ h.paso = (IF Tipo[p] = "JOURNAL" THEN "fin" ELSE "resegmento") /\ h.segmento = Nadie
  BY DEF Hilo0, Hilo, Pasos
<1> HIDE DEF h
<1>4. hilos'[p] = h /\ \A q \in Pedidos : q # p => hilos'[q] = hilos[q]
  BY <1>1, <1>3, Mueve
<1>5. \A t \in Tablas : segmentos'[t] = Nadie /\ PaginasDe(t)' = <<>>
  BY <1>1 DEF PaginasDe
<1>6. Quedan({})
  BY <1>5 DEF Quedan
<1>7. \A q \in Pedidos : hilos'[q].paso # "vaciar"
  BY <1>1, <1>3, <1>4 DEF Punteria, SoloUnoVacia
<1>8. TypeOK'
  <2>1. hilos' \in [Pedidos -> Hilo]
    BY <1>1, <1>3, Mueve
  <2> QED
    BY <1>1, <1>2, <2>1 DEF TypeOK
<1>9. Punteria'
  <2>1. h.paso \in PasosDe(Tipo[p])
    BY <1>1, <1>3, PoolAssumption DEF Punteria, PasoDelTipo, PasosDe, Pasos
  <2>2. \A v \in {1, 2} : hilos[p].paso \in Despues(v) => h.paso \in Despues(v)
    BY <1>1, <1>3 DEF Despues, Pasos
  <2>3. \A f \in Marcos : marcos[f] \in Contenido => marcos'[f] \in Contenido
    BY <1>2
  <2>4. hilos[p].paso \notin {"limpiar", "fin"} /\ h.paso # "victima"
    BY <1>1, <1>3
  <2> QED
    BY <1>1, <1>3, <1>5, <1>6, <1>7, <2>1, <2>2, <2>3, <2>4, PunteriaQuedan
<1>10. ASSUME ~corrida PROVE Contabilidad'
  <2>1. Contabilidad
    BY <1>1, <1>10 DEF IInv
  <2>2. \A q \in Pedidos : ~Vivo(q)'
    BY <1>5, PoolAssumption DEF Vivo, SegmentoVivo, T, Tablas
  <2>3. Duenios'
    BY <1>5, <2>2 DEF Duenios
  <2>4. Bitmap'
    BY <1>1, <1>5, <2>2 DEF Bitmap
  <2>5. ClaveFija'
    BY <1>3, <1>4, <1>5, <2>1 DEF Contabilidad, ClaveFija
  <2>6. Guardada'
    BY <1>1, <1>2, <1>7, <2>1 DEF Contabilidad, Guardada
  <2> QED
    BY <2>3, <2>4, <2>5, <2>6 DEF Contabilidad
<1> QED
  BY <1>2, <1>8, <1>9, <1>10 DEF IInv

-----------------------------------------------------------------------------
(* DROP.                                                                   *)
LEMMA OlvidarTipos ==
  ASSUME TypeOK, NEW t \in Tablas, Olvidar(t)
  PROVE  lfs' \in [Claves -> SUBSET Pedidos] /\ ultimo' \in [Claves -> Pedidos \cup {Nadie}]
BY DEF TypeOK, Olvidar

LEMMA BorrarAusenteIInv ==
  ASSUME IInv, NEW p \in Pedidos, BorrarAusente(p)
  PROVE  IInv'
<1>1. /\ TypeOK /\ Punteria /\ ~indefinido /\ hilos[p].paso = "borrar" /\ T(p) \in Tablas
      /\ Olvidar(T(p)) /\ Ir(p, "fin") /\ "fin" \in Pasos /\ mSegmento = Nadie
  BY PoolAssumption DEF IInv, BorrarAusente, En, Pasos, T, Tablas
<1>2. UNCHANGED <<segmentos, marcos, ocupados, mJournal, mSegmento, porForzar, esperarJournal, indefinido, corrida>>
  BY DEF BorrarAusente
<1>3. PICK h \in Hilo : /\ hilos' = [hilos EXCEPT ![p] = h]
                       /\ h.paso = "fin" /\ h.segmento = hilos[p].segmento
                       /\ h.marco = hilos[p].marco /\ h.pagina = hilos[p].pagina
  BY <1>1, IrEs
<1>4. hilos'[p] = h /\ \A q \in Pedidos : q # p => hilos'[q] = hilos[q]
  BY <1>1, <1>3, Mueve
<1>5. TypeOK'
  <2>1. hilos' \in [Pedidos -> Hilo]
    BY <1>1, <1>3, Mueve
  <2> QED
    BY <1>1, <1>2, <2>1, OlvidarTipos DEF TypeOK
<1>6. \A t \in Tablas : PaginasDe(t)' = PaginasDe(t)
  BY <1>2 DEF PaginasDe
<1>7. \A q \in Pedidos : hilos'[q].paso # "vaciar"
  BY <1>1, <1>3, <1>4, PoolAssumption DEF Punteria, SoloUnoVacia
<1>8. Punteria'
  <2>1. h.paso \in PasosDe(Tipo[p])
    BY <1>1, <1>3, PoolAssumption DEF Punteria, PasoDelTipo, PasosDe, Pasos
  <2>2. \A v \in {1, 2} : hilos[p].paso \in Despues(v) => h.paso \in Despues(v)
    BY <1>1, <1>3 DEF Despues, Pasos
  <2>3. segmentos \in [Tablas -> Segmento \cup {Nadie}]
    BY <1>1 DEF TypeOK
  <2>4. \A t \in Tablas : segmentos'[t] # Nadie => segmentos[t] # Nadie /\ segmentos'[t].id = segmentos[t].id
    BY <1>2
  <2> QED
    BY <1>1, <1>2, <1>3, <1>6, <1>7, <2>1, <2>2, <2>3, <2>4, PunteriaIguales
<1>9. ASSUME ~corrida PROVE Contabilidad'
  <2>1. Contabilidad
    BY <1>1, <1>9 DEF IInv
  <2>2. \A q \in Pedidos : Vivo(q)' => Vivo(q) /\ hilos'[q] = hilos[q]
    BY <1>2, <1>3, <1>4 DEF Vivo, ConMarco, SegmentoVivo
  <2>3. ConMarco' = ConMarco /\ \A q \in ConMarco : hilos'[q] = hilos[q]
    BY <1>1, <1>3, <1>4 DEF ConMarco
  <2>4. Duenios'
    BY <1>6, <2>1, <2>2 DEF Contabilidad, Duenios
  <2>5. Bitmap'
    BY <1>2, <1>6, <2>1, <2>2, <2>3 DEF Contabilidad, Bitmap
  <2>6. ClaveFija'
    BY <1>2, <1>3, <1>4, <1>6, <2>1 DEF Contabilidad, ClaveFija
  <2>7. \A k, v : EnPagina(k, v)' <=> EnPagina(k, v)
    BY <1>2, <1>6 DEF EnPagina
  <2>8. ASSUME NEW k \in SoloInsertadas, ultimo'[k] # Nadie
        PROVE  ultimo'[k] = ultimo[k] /\ lfs'[k] = lfs[k]
    BY <1>1, <2>8 DEF Olvidar, SoloInsertadas
  <2>9. Guardada'
    BY <1>7, <2>1, <2>7, <2>8 DEF Contabilidad, Guardada
  <2> QED
    BY <2>4, <2>5, <2>6, <2>9 DEF Contabilidad
<1> QED
  BY <1>2, <1>5, <1>8, <1>9 DEF IInv

(* The segment goes with its pages and their frames; the pages of the      *)
(* other tables have other frames, and other keys.                         *)
LEMMA BorrarIInv ==
  ASSUME IInv, NEW p \in Pedidos, Borrar(p)
  PROVE  IInv'
<1>1. /\ TypeOK /\ Punteria /\ ~indefinido /\ hilos[p].paso = "borrar" /\ T(p) \in Tablas
      /\ Olvidar(T(p)) /\ Ir(p, "fin") /\ "fin" \in Pasos /\ mSegmento = Nadie
      /\ segmentos' = [segmentos EXCEPT ![T(p)] = Nadie]
      /\ ocupados' = ocupados \ {g.marco : g \in ToSet(PaginasDe(T(p)))}
      /\ mSegmento' = p /\ mJournal' = FALSE
  BY PoolAssumption DEF IInv, Borrar, En, Pasos, T, Tablas
<1>2. UNCHANGED <<marcos, porForzar, esperarJournal, indefinido, corrida>>
  BY DEF Borrar
<1>3. PICK h \in Hilo : /\ hilos' = [hilos EXCEPT ![p] = h]
                       /\ h.paso = "fin" /\ h.segmento = hilos[p].segmento
                       /\ h.marco = hilos[p].marco /\ h.pagina = hilos[p].pagina
  BY <1>1, IrEs
<1>4. hilos'[p] = h /\ \A q \in Pedidos : q # p => hilos'[q] = hilos[q]
  BY <1>1, <1>3, Mueve
<1>5. /\ segmentos' \in [Tablas -> Segmento \cup {Nadie}]
      /\ segmentos'[T(p)] = Nadie /\ \A t \in Tablas : t # T(p) => segmentos'[t] = segmentos[t]
  BY <1>1 DEF TypeOK
<1>6. /\ PaginasDe(T(p))' = <<>> /\ DOMAIN PaginasDe(T(p))' = {}
      /\ \A t \in Tablas : t # T(p) => PaginasDe(t)' = PaginasDe(t)
  <2>1. PaginasDe(T(p))' = <<>>
    BY <1>5 DEF PaginasDe, T
  <2>2. \A t \in Tablas : t # T(p) => PaginasDe(t)' = PaginasDe(t)
    BY <1>5 DEF PaginasDe
  <2> QED
    BY <2>1, <2>2
<1>7. PICK E : Quedan(E)
  BY <1>1, <1>6, QuedanEnLista
<1>8. TypeOK'
  <2>1. hilos' \in [Pedidos -> Hilo]
    BY <1>1, <1>3, Mueve
  <2>2. ocupados' \subseteq Marcos
    BY <1>1 DEF TypeOK
  <2> QED
    BY <1>1, <1>2, <1>5, <2>1, <2>2, OlvidarTipos DEF TypeOK
<1>9. \A q \in Pedidos : hilos'[q].paso # "vaciar"
  BY <1>1, <1>3, <1>4, PoolAssumption DEF Punteria, SoloUnoVacia
<1>10. \A t \in Tablas : segmentos'[t] # Nadie => segmentos[t] # Nadie /\ segmentos'[t].id = segmentos[t].id
  BY <1>5
<1>11. Punteria'
  <2>1. h.paso \in PasosDe(Tipo[p])
    BY <1>1, <1>3, PoolAssumption DEF Punteria, PasoDelTipo, PasosDe, Pasos
  <2>2. \A v \in {1, 2} : hilos[p].paso \in Despues(v) => h.paso \in Despues(v)
    BY <1>1, <1>3 DEF Despues, Pasos
  <2>3. \A f \in Marcos : marcos[f] \in Contenido => marcos'[f] \in Contenido
    BY <1>2
  <2>4. hilos[p].paso \notin {"limpiar", "fin"} /\ h.paso # "victima"
    BY <1>1, <1>3
  <2> QED
    BY <1>1, <1>3, <1>7, <1>9, <1>10, <2>1, <2>2, <2>3, <2>4, PunteriaQuedan
<1>12. ASSUME ~corrida PROVE Contabilidad'
  <2>1. Contabilidad
    BY <1>1, <1>12 DEF IInv
  <2>2. \A q \in Pedidos : q # p => (Vivo(q)' => Vivo(q))
    BY <1>1, <1>3, <1>10, NoReviven
  <2>3. ~Vivo(p)'
    BY <1>3, <1>4 DEF Vivo, ConMarco
  <2>4. Duenios'
    BY <1>1, <1>3, <1>7, <2>1, <2>2, <2>3, DueniosQuedan
  <2>5. ConMarco' = ConMarco /\ \A q \in ConMarco : hilos'[q] = hilos[q]
    BY <1>1, <1>3, <1>4 DEF ConMarco
  <2>6. \A m \in ocupados : m \in ocupados' <=>
          \A i \in DOMAIN PaginasDe(T(p)) : PaginasDe(T(p))[i].marco # m
    <3> DEFINE l == PaginasDe(T(p))
    <3>1. \A g : g \in ToSet(l) <=> \E i \in DOMAIN l : l[i] = g
      BY DEF ToSet
    <3> HIDE DEF l
    <3>2. ocupados' = ocupados \ {g.marco : g \in ToSet(l)}
      BY <1>1 DEF l
    <3>3. \A m \in ocupados : m \in ocupados' <=> \A i \in DOMAIN l : l[i].marco # m
      BY <3>1, <3>2
    <3> QED
      BY <3>3 DEF l
  <2>7. Bitmap'
    <3>1. ASSUME NEW t \in Tablas, NEW i \in DOMAIN PaginasDe(t)'
          PROVE  PaginasDe(t)'[i].marco \in ocupados'
      <4>1. t # T(p) /\ i \in DOMAIN PaginasDe(t) /\ PaginasDe(t)'[i] = PaginasDe(t)[i]
        BY <1>6, <3>1
      <4>2. PaginasDe(t)[i].marco \in ocupados
        BY <2>1, <4>1 DEF Contabilidad, Bitmap
      <4>3. \A j \in DOMAIN PaginasDe(T(p)) : PaginasDe(T(p))[j].marco # PaginasDe(t)[i].marco
        BY <1>1, <2>1, <4>1 DEF Contabilidad, Duenios
      <4> QED
        BY <2>6, <4>1, <4>2, <4>3
    <3>2. ASSUME NEW q \in Pedidos, Vivo(q)' PROVE hilos'[q].marco \in ocupados'
      <4>1. Vivo(q) /\ hilos'[q] = hilos[q]
        BY <1>4, <2>2, <2>3, <3>2
      <4>2. hilos[q].marco \in ocupados
        BY <2>1, <4>1 DEF Contabilidad, Bitmap
      <4>3. \A j \in DOMAIN PaginasDe(T(p)) : PaginasDe(T(p))[j].marco # hilos[q].marco
        BY <1>1, <2>1, <4>1 DEF Contabilidad, Duenios
      <4> QED
        BY <2>6, <4>1, <4>2, <4>3
    <3>3. ASSUME NEW m \in ocupados'
          PROVE  \/ \E t \in Tablas : \E i \in DOMAIN PaginasDe(t)' : PaginasDe(t)'[i].marco = m
                 \/ \E q \in ConMarco' : hilos'[q].marco = m
      <4>0. m \in ocupados /\ \A i \in DOMAIN PaginasDe(T(p)) : PaginasDe(T(p))[i].marco # m
        BY <1>1, <2>6
      <4>1. CASE \E t \in Tablas : \E i \in DOMAIN PaginasDe(t) : PaginasDe(t)[i].marco = m
        <5>1. PICK t \in Tablas : \E i \in DOMAIN PaginasDe(t) : PaginasDe(t)[i].marco = m
          BY <4>1
        <5>2. t # T(p)
          BY <4>0, <5>1
        <5> QED
          BY <1>6, <5>1, <5>2
      <4>2. CASE \E q \in ConMarco : hilos[q].marco = m
        BY <2>5, <4>2
      <4> QED
        BY <2>1, <4>0, <4>1, <4>2 DEF Contabilidad, Bitmap
    <3> QED
      BY <3>1, <3>2, <3>3 DEF Bitmap
  <2>8. ClaveFija'
    <3>1. ASSUME NEW t \in Tablas, NEW i \in DOMAIN PaginasDe(t)'
          PROVE  /\ marcos'[PaginasDe(t)'[i].marco].clave = Clave[PaginasDe(t)'[i].id]
                 /\ Clave[PaginasDe(t)'[i].id] \in SoloInsertadas => PaginasDe(t)'[i].modificada
      <4>1. t # T(p) /\ i \in DOMAIN PaginasDe(t) /\ PaginasDe(t)'[i] = PaginasDe(t)[i]
        BY <1>6, <3>1
      <4> QED
        BY <1>2, <2>1, <4>1 DEF Contabilidad, ClaveFija
    <3>2. \A q \in Pedidos : hilos'[q].paso = "limpiar" =>
            hilos'[q].pagina \in Pedidos /\ Clave[hilos'[q].pagina] = Clave[q]
      BY <1>3, <1>4, <2>1 DEF Contabilidad, ClaveFija
    <3> QED
      BY <3>1, <3>2 DEF ClaveFija
  <2>9. ASSUME NEW k \in SoloInsertadas, ultimo'[k] # Nadie
        PROVE  Tabla[k] # T(p) /\ ultimo'[k] = ultimo[k] /\ lfs'[k] = lfs[k]
    BY <1>1, <2>9 DEF Olvidar, SoloInsertadas
  <2>10. ASSUME NEW k \in SoloInsertadas, NEW v, EnPagina(k, v), Tabla[k] # T(p)
         PROVE  \E t \in Tablas : \E i \in DOMAIN PaginasDe(t)' :
                  PaginasDe(t)'[i].modificada /\ marcos'[PaginasDe(t)'[i].marco] = [clave |-> k, valor |-> v]
    <3> PICK t \in Tablas : \E i \in DOMAIN PaginasDe(t) :
          PaginasDe(t)[i].modificada /\ marcos[PaginasDe(t)[i].marco] = [clave |-> k, valor |-> v]
      BY <2>10 DEF EnPagina
    <3>1. PICK i \in DOMAIN PaginasDe(t) :
          PaginasDe(t)[i].modificada /\ marcos[PaginasDe(t)[i].marco] = [clave |-> k, valor |-> v]
      OBVIOUS
    <3>2. marcos[PaginasDe(t)[i].marco].clave = k
      BY <3>1
    <3>3. Clave[PaginasDe(t)[i].id] = k
      BY <2>1, <3>2 DEF Contabilidad, ClaveFija
    <3>4. t # T(p)
      BY <1>1, <2>10, <3>3 DEF Punteria, PaginasUnicas
    <3> QED
      BY <1>2, <1>6, <3>1, <3>4
  <2>11. Guardada'
    <3>1. ASSUME NEW k \in SoloInsertadas, ultimo'[k] # Nadie
          PROVE  \/ ultimo'[k] \in lfs'[k]
                 \/ \E t \in Tablas : \E j \in DOMAIN PaginasDe(t)' :
                      PaginasDe(t)'[j].modificada
                      /\ marcos'[PaginasDe(t)'[j].marco] = [clave |-> k, valor |-> ultimo'[k]]
      <4>1. Tabla[k] # T(p) /\ ultimo'[k] = ultimo[k] /\ lfs'[k] = lfs[k]
        BY <2>9, <3>1
      <4>2. ultimo[k] \in lfs[k] \/ EnPagina(k, ultimo[k])
        BY <2>1, <3>1, <4>1 DEF Contabilidad, Guardada
      <4> QED
        BY <2>10, <4>1, <4>2
    <3> QED
      BY <1>9, <3>1 DEF Guardada, EnPagina
  <2> QED
    BY <2>4, <2>7, <2>8, <2>11 DEF Contabilidad
<1> QED
  BY <1>2, <1>8, <1>11, <1>12 DEF IInv

-----------------------------------------------------------------------------
(* The invariant holds at the beginning, and every step keeps it. *)
LEMMA InicioIInv ==
  Init => IInv
<1> SUFFICES ASSUME Init PROVE IInv
  OBVIOUS
<1>1. Hilo0 \in Hilo /\ Hilo0.paso = "porLlegar" /\ Hilo0.segmento = Nadie
  BY DEF Hilo0, Hilo, Pasos
<1>2. \A p \in Pedidos : hilos[p] = Hilo0
  BY DEF Init
<1>3. TypeOK
  BY <1>1 DEF Init, TypeOK
<1>4. \A t \in Tablas : segmentos[t] = Nadie /\ PaginasDe(t) = <<>>
  BY DEF Init, PaginasDe
<1>5. Punteria
  <2>1. \A p \in Pedidos : hilos[p].paso = "porLlegar" /\ hilos[p].segmento = Nadie
    BY <1>1, <1>2
  <2>2. PasoDelTipo
    BY <2>1, PoolAssumption DEF PasoDelTipo, PasosDe, Pasos
  <2> QED
    BY <1>4, <2>1, <2>2 DEF Punteria, IdsUsados, PaginasUnicas, VictimaFiel, SoloUnoVacia, Escritas
<1>6. Contabilidad
  <2>1. \A p \in Pedidos : hilos[p].paso = "porLlegar" /\ p \notin ConMarco
    BY <1>1, <1>2 DEF ConMarco
  <2>2. ocupados = {} /\ \A k \in Claves : ultimo[k] = Nadie
    BY DEF Init
  <2>3. Duenios /\ Bitmap
    BY <1>4, <2>1, <2>2 DEF Duenios, Bitmap, Vivo
  <2>4. ClaveFija /\ Guardada
    BY <1>4, <2>1, <2>2 DEF ClaveFija, Guardada, SoloInsertadas
  <2> QED
    BY <2>3, <2>4 DEF Contabilidad
<1> QED
  BY <1>3, <1>5, <1>6 DEF IInv

LEMMA QuietoIInv ==
  ASSUME IInv, UNCHANGED vars
  PROVE  IInv'
<1>1. TypeOK'
  BY DEF IInv, TypeOK, vars
<1>2. /\ \A t \in Tablas : PaginasDe(t)' = PaginasDe(t)
      /\ \A p \in Pedidos : Vivo(p)' <=> Vivo(p)
      /\ ConMarco' = ConMarco
      /\ \A k, v : EnPagina(k, v)' <=> EnPagina(k, v)
  BY DEF vars, PaginasDe, Vivo, ConMarco, SegmentoVivo, EnPagina
<1>3. Punteria => Punteria'
  BY <1>2 DEF vars, Punteria, IdsUsados, Usado, PaginasUnicas, Hecha, VictimaFiel, SoloUnoVacia,
              PasoDelTipo, Escritas
<1>4. Contabilidad => Contabilidad'
  BY <1>2 DEF vars, Contabilidad, Duenios, Bitmap, ClaveFija, Guardada
<1> QED
  BY <1>1, <1>3, <1>4 DEF IInv, vars

LEMMA PasoIInv ==
  ASSUME IInv, [Next]_vars
  PROVE  IInv'
<1>1. ASSUME NEW p \in Pedidos, Insertar(p) PROVE IInv'
  BY <1>1, BuscarSegmentoIInv, ValorExcedidoIInv, ActualizarPaginaIInv, FaltaPaginaIInv, TomarMarcoIInv, ElegirVictimaIInv,
     SinVictimaIInv, EsperarJournalIInv, ReemplazarIInv, CrearPaginaIInv, MarcarLimpiaIInv,
     InsertarIndefinidoIInv DEF Insertar
<1>2. ASSUME NEW p \in Pedidos, Journal(p) PROVE IInv'
  BY <1>2, TomarMJournalIInv, EnviarModificadasIInv, VaciarIInv DEF Journal
<1>3. ASSUME NEW p \in Pedidos, Atender(p) PROVE IInv'
  BY <1>1, <1>2, <1>3, ConsultarEnMemoriaIInv, ConsultarEnLFSIInv, ResponderLFSIInv,
     BorrarAusenteIInv, BorrarIInv DEF Atender
<1>4. CASE Next
  BY <1>3, <1>4, ForzarJournalIInv, RecibirIInv DEF Next, Hilos
<1>5. CASE UNCHANGED vars
  BY <1>5, QuietoIInv
<1> QED
  BY <1>4, <1>5

THEOREM SiempreIInv == Spec => []IInv
BY InicioIInv, PasoIInv, PTL DEF Spec

-----------------------------------------------------------------------------
(* The memory's variables keep their types, whatever the threads do, up to *)
(* the use of a freed pointer: the frames are those of the memory, the     *)
(* file system has values of requests.                                     *)
THEOREM TiposDeLaMemoria == Spec => []TypeOK
<1>1. IInv => TypeOK
  BY DEF IInv
<1> QED
  BY <1>1, SiempreIInv, PTL

(* A frame has one owner, a page or a thread about to make one, and the    *)
(* bitmap has exactly the frames that have an owner, for any requests and  *)
(* any number of frames: two threads never take the same frame, and a      *)
(* replaced page leaves its frame to the thread that replaces it.          *)
THEOREM UnDuenioPorMarco == Spec => []MarcosConUnDuenio
<1>1. ASSUME IInv PROVE MarcosConUnDuenio
  <2> SUFFICES ASSUME ~indefinido, ~corrida, Colgados = {}
               PROVE  /\ \A g, h \in Paginas : g # h => g.marco # h.marco
                      /\ \A p, q \in ConMarco : p # q => hilos[p].marco # hilos[q].marco
                      /\ \A p \in ConMarco : \A g \in Paginas : g.marco # hilos[p].marco
                      /\ ocupados = {g.marco : g \in Paginas} \cup {hilos[p].marco : p \in ConMarco}
    BY DEF MarcosConUnDuenio
  <2>1. TypeOK /\ Contabilidad
    BY <1>1 DEF IInv
  <2>2. \A p \in ConMarco : p \in Pedidos /\ Vivo(p)
    BY DEF Colgados, Vivo, ConMarco
  <2>3. ASSUME NEW g \in Paginas
        PROVE  \E t \in Tablas : \E i \in DOMAIN PaginasDe(t) : PaginasDe(t)[i] = g
    <3>1. PICK t \in Tablas : g \in ToSet(PaginasDe(t))
      BY DEF Paginas
    <3> QED
      BY <2>1, <3>1, Paginado, FinitosLosDeUnaSeq
  <2>4. ASSUME NEW t \in Tablas, NEW i \in DOMAIN PaginasDe(t)
        PROVE  PaginasDe(t)[i] \in Paginas
    BY DEF Paginas, ToSet
  <2>5. \A g, h \in Paginas : g # h => g.marco # h.marco
    <3> SUFFICES ASSUME NEW g \in Paginas, NEW h \in Paginas, g.marco = h.marco PROVE g = h
      OBVIOUS
    <3>1. PICK t \in Tablas : \E i \in DOMAIN PaginasDe(t) : PaginasDe(t)[i] = g
      BY <2>3
    <3>2. PICK i \in DOMAIN PaginasDe(t) : PaginasDe(t)[i] = g
      BY <3>1
    <3>3. PICK u \in Tablas : \E j \in DOMAIN PaginasDe(u) : PaginasDe(u)[j] = h
      BY <2>3
    <3>4. PICK j \in DOMAIN PaginasDe(u) : PaginasDe(u)[j] = h
      BY <3>3
    <3>5. t = u /\ i = j
      BY <2>1, <3>2, <3>4 DEF Contabilidad, Duenios
    <3> QED
      BY <3>2, <3>4, <3>5
  <2>6. \A p, q \in ConMarco : p # q => hilos[p].marco # hilos[q].marco
    BY <2>1, <2>2 DEF Contabilidad, Duenios
  <2>7. \A p \in ConMarco : \A g \in Paginas : g.marco # hilos[p].marco
    BY <2>1, <2>2, <2>3 DEF Contabilidad, Duenios
  <2>8. \A g \in Paginas : g.marco \in ocupados
    BY <2>1, <2>3 DEF Contabilidad, Bitmap
  <2>9. \A p \in ConMarco : hilos[p].marco \in ocupados
    BY <2>1, <2>2 DEF Contabilidad, Bitmap
  <2>10. \A f \in ocupados : (\E g \in Paginas : g.marco = f) \/ (\E p \in ConMarco : hilos[p].marco = f)
    BY <2>1, <2>4 DEF Contabilidad, Bitmap
  <2> QED
    BY <2>5, <2>6, <2>7, <2>8, <2>9, <2>10
<1>2. IInv => MarcosConUnDuenio
  BY <1>1
<1> QED
  BY <1>2, SiempreIInv, PTL

(* No INSERT of a key that no SELECT brings is lost: its last value is in  *)
(* a page marked as modified, which no replacement takes, or the journal   *)
(* has given it to the file system.                                        *)
THEOREM NingunInsertSePierde == Spec => []NadaSePierde
<1>1. ASSUME IInv PROVE NadaSePierde
  <2> SUFFICES ASSUME ~indefinido, ~corrida, NEW k \in SoloInsertadas, ultimo[k] # Nadie
               PROVE  \/ ultimo[k] \in lfs[k]
                      \/ \E g \in Paginas : g.modificada /\ marcos[g.marco] = [clave |-> k, valor |-> ultimo[k]]
    BY DEF NadaSePierde
  <2>1. ultimo[k] \in lfs[k] \/ EnPagina(k, ultimo[k])
    BY <1>1 DEF IInv, Contabilidad, Guardada
  <2> QED
    BY <2>1 DEF EnPagina, Paginas, ToSet
<1>2. IInv => NadaSePierde
  BY <1>1
<1> QED
  BY <1>2, SiempreIInv, PTL

=============================================================================
