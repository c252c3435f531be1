-------------------------- MODULE BrokerBuddy_proofs --------------------------
(***************************************************************************)
(* Proofs about BrokerBuddy, for every memory of a power of two of cells,  *)
(* every message size and every replacement and fit algorithm.             *)
(***************************************************************************)
EXTENDS BrokerBuddy, Integers, SequencesExt, SequenceTheorems, FiniteSetTheorems, WellFoundedInduction, TLAPS

-----------------------------------------------------------------------------
(* Facts about sequences and finite sets of numbers.                       *)

(* RemoveAt drops one entry of a sequence and keeps the order of the rest. *)
LEMMA RemoveAtElementos ==
  ASSUME NEW S, NEW s \in Seq(S), NEW k \in DOMAIN s
  PROVE  /\ RemoveAt(s, k) \in Seq(S)
         /\ Len(RemoveAt(s, k)) = Len(s) - 1
         /\ DOMAIN RemoveAt(s, k) = 1..(Len(s) - 1)
         /\ \A j \in 1..(Len(s) - 1) :
              RemoveAt(s, k)[j] = IF j < k THEN s[j] ELSE s[j + 1]
<1> DEFINE izq == SubSeq(s, 1, k - 1)
           der == SubSeq(s, k + 1, Len(s))
<1>1. /\ Len(s) \in Nat /\ DOMAIN s = 1..Len(s) /\ k \in 1..Len(s)
      /\ \A i \in 1..Len(s) : s[i] \in S
  BY LenProperties
<1>2. /\ izq \in Seq(S)
      /\ Len(izq) = k - 1
      /\ \A i \in 1..(k - 1) : izq[i] = s[i]
  BY <1>1, SubSeqProperties
<1>3. /\ der \in Seq(S)
      /\ Len(der) = Len(s) - k
      /\ \A i \in 1..(Len(s) - k) : der[i] = s[k + i]
  <2>1. /\ der \in Seq(S)
        /\ Len(der) = IF k + 1 <= Len(s) THEN Len(s) - (k + 1) + 1 ELSE 0
        /\ \A i \in 1..(Len(s) - (k + 1) + 1) : der[i] = s[(k + 1) + i - 1]
    BY <1>1, SubSeqProperties
  <2> HIDE DEF der
  <2>2. Len(s) - (k + 1) + 1 = Len(s) - k
    BY <1>1
  <2>3. Len(der) = Len(s) - k
    BY <1>1, <2>1
  <2>4. ASSUME NEW i \in 1..(Len(s) - k) PROVE der[i] = s[k + i]
    <3>1. (k + 1) + i - 1 = k + i
      BY <1>1
    <3> QED
      BY <2>1, <2>2, <3>1
  <2> QED
    BY <2>1, <2>3, <2>4
<1> HIDE DEF izq, der
<1>4. /\ izq \o der \in Seq(S)
      /\ Len(izq \o der) = Len(s) - 1
      /\ \A i \in 1..(Len(s) - 1) :
           (izq \o der)[i] = IF i <= k - 1 THEN izq[i] ELSE der[i - (k - 1)]
  <2>1. /\ izq \o der \in Seq(S)
        /\ Len(izq \o der) = Len(izq) + Len(der)
        /\ \A i \in 1..(Len(izq) + Len(der)) :
             (izq \o der)[i] = IF i <= Len(izq) THEN izq[i] ELSE der[i - Len(izq)]
    BY <1>2, <1>3, ConcatProperties
  <2>2. Len(izq) + Len(der) = Len(s) - 1
    BY <1>1, <1>2, <1>3
  <2> QED
    BY <1>2, <2>1, <2>2
<1>5. ASSUME NEW j \in 1..(Len(s) - 1)
      PROVE  (izq \o der)[j] = IF j < k THEN s[j] ELSE s[j + 1]
  <2>1. CASE j < k
    BY <1>1, <1>2, <1>4, <2>1
  <2>2. CASE ~(j < k)
    <3>1. j - (k - 1) \in 1..(Len(s) - k) /\ ~(j <= k - 1) /\ k + (j - (k - 1)) = j + 1
      BY <1>1, <2>2
    <3>2. (izq \o der)[j] = der[j - (k - 1)]
      BY <1>4, <3>1
    <3> QED
      BY <1>3, <2>2, <3>1, <3>2
  <2> QED
    BY <2>1, <2>2
<1>6. DOMAIN (izq \o der) = 1..(Len(s) - 1)
  BY <1>4, LenProperties
<1> QED
  BY <1>4, <1>5, <1>6 DEF RemoveAt, izq, der

(* Replacing every entry of a sequence gives a sequence as long. *)
LEMMA MapaEsSeq ==
  ASSUME NEW S, NEW T, NEW s \in Seq(S), NEW t,
         t \in [DOMAIN s -> T]
  PROVE  t \in Seq(T) /\ Len(t) = Len(s) /\ DOMAIN t = DOMAIN s
<1>1. Len(s) \in Nat /\ DOMAIN s = 1..Len(s)
  BY LenProperties
<1>2. t \in Seq(T)
  BY <1>1, SeqDef
<1> QED
  BY <1>1, <1>2

(* The image of a sequence, element by element. *)
Mapa(f, s) == [i \in DOMAIN s |-> f[s[i]]]

Valores(f, S) == {f[x] : x \in S}

(* It grows with the sequence, *)
LEMMA MapaAgregada ==
  ASSUME NEW S, NEW f, NEW s \in Seq(S), NEW e \in S
  PROVE  Mapa(f, Append(s, e)) = Append(Mapa(f, s), f[e])
<1> DEFINE T == Valores(f, S)
           x == Append(s, e)
           m == Mapa(f, s)
           u == Mapa(f, x)
           v == Append(m, f[e])
<1>0. \A z \in Seq(S) :
        /\ Mapa(f, z) \in Seq(T) /\ Len(Mapa(f, z)) = Len(z)
        /\ DOMAIN Mapa(f, z) = DOMAIN z
        /\ \A i \in DOMAIN z : Mapa(f, z)[i] = f[z[i]]
  <2> HIDE DEF m, u, v, x
  <2> TAKE z \in Seq(S)
  <2>1. \A i \in DOMAIN z : z[i] \in S
    BY ElementOfSeq, LenProperties
  <2>2. Mapa(f, z) \in [DOMAIN z -> T] /\ \A i \in DOMAIN z : Mapa(f, z)[i] = f[z[i]]
    BY <2>1 DEF Mapa, Valores
  <2> HIDE DEF T
  <2>3. Mapa(f, z) \in Seq(T) /\ Len(Mapa(f, z)) = Len(z) /\ DOMAIN Mapa(f, z) = DOMAIN z
    BY <2>2, MapaEsSeq
  <2> QED
    BY <2>2, <2>3
<1>1. /\ x \in Seq(S) /\ Len(s) \in Nat /\ DOMAIN s = 1..Len(s)
      /\ Len(x) = Len(s) + 1 /\ DOMAIN x = 1..(Len(s) + 1)
      /\ \A i \in 1..Len(s) : x[i] = s[i]
      /\ x[Len(s) + 1] = e
  BY AppendProperties, LenProperties
<1> HIDE DEF x
<1>2. m \in Seq(T) /\ Len(m) = Len(s) /\ \A i \in DOMAIN s : m[i] = f[s[i]]
  BY <1>0
<1>3. u \in Seq(T) /\ Len(u) = Len(s) + 1 /\ \A i \in 1..(Len(s) + 1) : u[i] = f[x[i]]
  <2>1. Mapa(f, x) \in Seq(T) /\ Len(Mapa(f, x)) = Len(x) /\ \A i \in DOMAIN x : Mapa(f, x)[i] = f[x[i]]
    BY <1>0, <1>1
  <2> QED
    BY <1>1, <2>1
<1> HIDE DEF m, u
<1>4. /\ v \in Seq(T) /\ Len(v) = Len(s) + 1
      /\ \A i \in 1..Len(s) : v[i] = m[i]
      /\ v[Len(s) + 1] = f[e]
  <2>1. f[e] \in T
    BY DEF Valores
  <2> HIDE DEF T
  <2> QED
    BY <1>1, <1>2, <2>1, AppendProperties
<1> HIDE DEF v
<1>5. ASSUME NEW i \in 1..(Len(s) + 1) PROVE u[i] = v[i]
  <2>1. CASE i = Len(s) + 1
    BY <1>1, <1>3, <1>4, <2>1
  <2>2. CASE i \in 1..Len(s)
    <3>1. i \in DOMAIN s /\ i \in 1..(Len(s) + 1)
      BY <1>1, <2>2
    <3>2. u[i] = f[x[i]] /\ x[i] = s[i] /\ v[i] = m[i] /\ m[i] = f[s[i]]
      BY <1>1, <1>2, <1>3, <1>4, <2>2, <3>1
    <3> QED
      BY <3>2
  <2> QED
    BY <1>1, <2>1, <2>2
<1>6. u = v
  <2> HIDE DEF T
  <2> QED
    BY <1>1, <1>3, <1>4, <1>5, SeqEqual
<1> QED
  BY <1>6 DEF u, v, m, x

(* and loses what the sequence loses. *)
LEMMA MapaQuitada ==
  ASSUME NEW S, NEW f, NEW s \in Seq(S), NEW k \in DOMAIN s
  PROVE  Mapa(f, RemoveAt(s, k)) = RemoveAt(Mapa(f, s), k)
<1> DEFINE T == Valores(f, S)
           x == RemoveAt(s, k)
           m == Mapa(f, s)
           u == Mapa(f, x)
           v == RemoveAt(m, k)
<1>0. \A z \in Seq(S) :
        /\ Mapa(f, z) \in Seq(T) /\ Len(Mapa(f, z)) = Len(z)
        /\ DOMAIN Mapa(f, z) = DOMAIN z
        /\ \A i \in DOMAIN z : Mapa(f, z)[i] = f[z[i]]
  <2> HIDE DEF m, u, v, x
  <2> TAKE z \in Seq(S)
  <2>1. \A i \in DOMAIN z : z[i] \in S
    BY ElementOfSeq, LenProperties
  <2>2. Mapa(f, z) \in [DOMAIN z -> T] /\ \A i \in DOMAIN z : Mapa(f, z)[i] = f[z[i]]
    BY <2>1 DEF Mapa, Valores
  <2> HIDE DEF T
  <2>3. Mapa(f, z) \in Seq(T) /\ Len(Mapa(f, z)) = Len(z) /\ DOMAIN Mapa(f, z) = DOMAIN z
    BY <2>2, MapaEsSeq
  <2> QED
    BY <2>2, <2>3
<1>1. /\ Len(s) \in Nat /\ DOMAIN s = 1..Len(s)
      /\ x \in Seq(S) /\ Len(x) = Len(s) - 1 /\ DOMAIN x = 1..(Len(s) - 1)
      /\ \A j \in 1..(Len(s) - 1) : x[j] = IF j < k THEN s[j] ELSE s[j + 1]
  BY RemoveAtElementos, LenProperties
<1> HIDE DEF x
<1>2. m \in Seq(T) /\ Len(m) = Len(s) /\ DOMAIN m = DOMAIN s /\ \A i \in DOMAIN s : m[i] = f[s[i]]
  BY <1>0
<1>3. u \in Seq(T) /\ Len(u) = Len(s) - 1 /\ \A j \in 1..(Len(s) - 1) : u[j] = f[x[j]]
  <2>1. Mapa(f, x) \in Seq(T) /\ Len(Mapa(f, x)) = Len(x) /\ \A i \in DOMAIN x : Mapa(f, x)[i] = f[x[i]]
    BY <1>0, <1>1
  <2> QED
    BY <1>1, <2>1
<1> HIDE DEF m, u
<1>4. /\ v \in Seq(T) /\ Len(v) = Len(s) - 1
      /\ \A j \in 1..(Len(s) - 1) : v[j] = IF j < k THEN m[j] ELSE m[j + 1]
  <2>1. k \in DOMAIN m /\ m \in Seq(T)
    BY <1>2
  <2> QED
    BY <1>2, <2>1, RemoveAtElementos
<1> HIDE DEF v
<1>5. ASSUME NEW j \in 1..(Len(s) - 1) PROVE u[j] = v[j]
  <2>1. j \in DOMAIN s /\ j + 1 \in DOMAIN s
    BY <1>1
  <2>2. u[j] = f[x[j]] /\ v[j] = IF j < k THEN m[j] ELSE m[j + 1]
    BY <1>3, <1>4
  <2> QED
    BY <1>1, <1>2, <2>1, <2>2
<1>6. u = v
  <2> HIDE DEF T
  <2> QED
    BY <1>1, <1>3, <1>4, <1>5, SeqEqual
<1> QED
  BY <1>6 DEF u, v, m, x

(* The least element of a set of numbers: what lets an induction be made   *)
(* over the least counterexample.                                          *)
LEMMA MinimoNat ==
  ASSUME NEW S \in SUBSET Nat, S # {}
  PROVE  \E x \in S : \A y \in S : x <= y
<1> DEFINE T == {1..n : n \in S}
           R == StrictSubsetOrdering(Nat)
<1>1. T \subseteq FiniteSubsetsOf(Nat)
  <2> SUFFICES ASSUME NEW n \in S PROVE 1..n \in FiniteSubsetsOf(Nat)
    OBVIOUS
  <2> QED
    BY FS_Interval DEF FiniteSubsetsOf
<1>2. T # {}
  OBVIOUS
<1>3. IsWellFoundedOn(R, FiniteSubsetsOf(Nat))
  BY FS_StrictSubsetOrderingWellFounded
<1>4. PICK A \in T : \A B \in T : <<B, A>> \notin R
  <2> HIDE DEF T, R
  <2> QED
    BY <1>1, <1>2, <1>3, WFMin
<1>5. PICK x \in S : A = 1..x
  OBVIOUS
<1>6. ASSUME NEW y \in S, y < x PROVE FALSE
  <2>1. 1..y \subseteq 1..x /\ x \in 1..x /\ x \notin 1..y
    BY <1>6
  <2>2. 1..y \in SUBSET Nat /\ 1..x \in SUBSET Nat
    BY <1>6
  <2>3. <<1..y, 1..x>> \in R
    BY <2>1, <2>2 DEF StrictSubsetOrdering
  <2> QED
    BY <1>4, <1>5, <2>3
<1> QED
  BY <1>6

(* Induction, for a set of numbers. *)
LEMMA InduccionNat ==
  ASSUME NEW S \in SUBSET Nat, 0 \in S, \A n \in S : n + 1 \in S
  PROVE  S = Nat
<1> SUFFICES ASSUME Nat \ S # {} PROVE FALSE
  OBVIOUS
<1>1. PICK x \in Nat \ S : \A y \in Nat \ S : x <= y
  BY MinimoNat
<1>2. x # 0 /\ x - 1 \in Nat /\ ~(x <= x - 1) /\ (x - 1) + 1 = x
  BY <1>1
<1>3. x - 1 \in S
  BY <1>1, <1>2
<1> QED
  BY <1>1, <1>2, <1>3

-----------------------------------------------------------------------------
(* Powers of two: a set of n elements has 2^n subsets.                     *)

LEMMA PotTipo == ASSUME NEW n \in Nat PROVE 2^n \in Nat
<1>1. IsFiniteSet(1..n) /\ Cardinality(1..n) = n
  BY FS_Interval
<1>2. IsFiniteSet(SUBSET (1..n)) /\ Cardinality(SUBSET (1..n)) = 2^n
  BY <1>1, FS_SUBSET
<1> QED
  BY <1>2, FS_CardinalityType

LEMMA PotSuc == ASSUME NEW n \in Nat PROVE 2^(n + 1) = 2 * 2^n
<1> DEFINE A == SUBSET (1..n)
           B == {T \cup {n + 1} : T \in A}
           g == [T \in A |-> T \cup {n + 1}]
<1>1. IsFiniteSet(A) /\ Cardinality(A) = 2^n
  <2>1. IsFiniteSet(1..n) /\ Cardinality(1..n) = n
    BY FS_Interval
  <2> QED
    BY <2>1, FS_SUBSET
<1>2. n + 1 \in Nat /\ n + 1 \notin 1..n /\ 1..(n + 1) = (1..n) \cup {n + 1}
  OBVIOUS
<1>3. Cardinality(SUBSET (1..(n + 1))) = 2^(n + 1)
  <2>1. IsFiniteSet(1..(n + 1)) /\ Cardinality(1..(n + 1)) = n + 1
    BY <1>2, FS_Interval
  <2> QED
    BY <2>1, FS_SUBSET
<1>4. IsFiniteSet(B) /\ Cardinality(B) = 2^n
  <2>1. g \in [A -> B] /\ \A x, y \in A : g[x] = g[y] => x = y
    <3>1. ASSUME NEW x \in A, NEW y \in A, x \cup {n + 1} = y \cup {n + 1} PROVE x = y
      <4>1. n + 1 \notin x /\ n + 1 \notin y
        BY <1>2
      <4> QED
        BY <3>1, <4>1
    <3>2. g \in [A -> B]
      OBVIOUS
    <3>3. \A x \in A : g[x] = x \cup {n + 1}
      OBVIOUS
    <3> HIDE DEF g, A, B
    <3> QED
      BY <3>1, <3>2, <3>3
  <2>2. \A t \in B : \E x \in A : g[x] = t
    OBVIOUS
  <2> HIDE DEF g, A, B
  <2>3. g \in Bijection(A, B)
    BY <2>1, <2>2 DEF Bijection, Injection, Surjection, IsInjective
  <2>4. ExistsBijection(A, B)
    BY <2>3 DEF ExistsBijection
  <2> QED
    BY <1>1, <2>4, FS_Bijection
<1>5. SUBSET (1..(n + 1)) = A \cup B /\ A \cap B = {}
  <2>1. ASSUME NEW T \in SUBSET (1..(n + 1)) PROVE T \in A \cup B
    <3>1. CASE n + 1 \in T
      <4>1. T \ {n + 1} \in A /\ T = (T \ {n + 1}) \cup {n + 1}
        BY <1>2, <3>1
      <4> QED
        BY <4>1
    <3>2. CASE n + 1 \notin T
      BY <1>2, <3>2
    <3> QED
      BY <3>1, <3>2
  <2>2. A \cup B \subseteq SUBSET (1..(n + 1))
    BY <1>2
  <2>3. ASSUME NEW T \in A, NEW x \in A, T = x \cup {n + 1} PROVE FALSE
    BY <1>2, <2>3
  <2> QED
    BY <2>1, <2>2, <2>3
<1> HIDE DEF A, B
<1>6. Cardinality(A \cup B) = 2^n + 2^n - Cardinality(A \cap B)
  BY <1>1, <1>4, FS_Union
<1>7. Cardinality(A \cap B) = 0 /\ 2^n \in Nat
  BY <1>5, FS_EmptySet, PotTipo
<1> DEFINE x == 2^n
           y == 2^(n + 1)
<1>8. x \in Nat /\ y = x + x - 0
  BY <1>3, <1>5, <1>6, <1>7
<1> HIDE DEF x, y
<1>9. y = 2 * x
  BY <1>8
<1> QED
  BY <1>9 DEF x, y

LEMMA PotUno == 2^0 = 1 /\ 2^1 = 2
<1>1. 2^0 = 1
  <2>1. IsFiniteSet({}) /\ Cardinality({}) = 0
    BY FS_EmptySet
  <2>2. Cardinality(SUBSET {}) = 2^0
    BY <2>1, FS_SUBSET
  <2>3. SUBSET {} = {{}}
    OBVIOUS
  <2> QED
    BY <2>2, <2>3, FS_Singleton
<1>2. 2^(0 + 1) = 2 * 2^0
  BY PotSuc
<1> QED
  BY <1>1, <1>2

LEMMA PotMas == ASSUME NEW a \in Nat, NEW b \in Nat PROVE 2^(a + b) = 2^a * 2^b
<1> DEFINE S == {d \in Nat : 2^(a + d) = 2^a * 2^d}
<1>1. 0 \in S
  <2>1. a + 0 = a /\ 2^a \in Nat
    BY PotTipo
  <2> QED
    BY <2>1, PotUno
<1>2. ASSUME NEW d \in S PROVE d + 1 \in S
  <2>1. d \in Nat /\ a + d \in Nat /\ 2^(a + d) = 2^a * 2^d
    OBVIOUS
  <2>2. 2^((a + d) + 1) = 2 * 2^(a + d) /\ 2^(d + 1) = 2 * 2^d
    BY <2>1, PotSuc
  <2>3. 2^a \in Nat /\ 2^d \in Nat
    BY <2>1, PotTipo
  <2>4. a + (d + 1) = (a + d) + 1
    BY <2>1
  <2> DEFINE x == 2^a
             y == 2^d
  <2>5. 2 * (x * y) = x * (2 * y)
    <3>1. x \in Nat /\ y \in Nat
      BY <2>3
    <3> HIDE DEF x, y
    <3> QED
      BY <3>1
  <2>6. 2^(a + (d + 1)) = 2^a * 2^(d + 1)
    BY <2>1, <2>2, <2>4, <2>5
  <2> QED
    BY <2>1, <2>6
<1>3. S = Nat
  <2>1. S \in SUBSET Nat
    OBVIOUS
  <2> HIDE DEF S
  <2> QED
    BY <1>1, <1>2, <2>1, InduccionNat
<1> QED
  BY <1>3

(* n is less than its power. *)
LEMMA PotMayor == ASSUME NEW n \in Nat PROVE n < 2^n
<1> DEFINE S == {k \in Nat : k < 2^k}
<1>1. 0 \in S
  BY PotUno
<1>2. ASSUME NEW k \in S PROVE k + 1 \in S
  <2>1. k \in Nat /\ k < 2^k /\ 2^k \in Nat /\ 2^(k + 1) = 2 * 2^k
    BY PotSuc, PotTipo
  <2> DEFINE x == 2^k
             y == 2^(k + 1)
  <2>2. k < x /\ x \in Nat /\ y = 2 * x
    BY <2>1
  <2> HIDE DEF x, y
  <2>3. k + 1 < y
    BY <2>1, <2>2
  <2> QED
    BY <2>1, <2>3 DEF y
<1>3. S = Nat
  <2>1. S \in SUBSET Nat
    OBVIOUS
  <2> HIDE DEF S
  <2> QED
    BY <1>1, <1>2, <2>1, InduccionNat
<1> QED
  BY <1>3

LEMMA PotCrece == ASSUME NEW a \in Nat, NEW b \in Nat, a < b PROVE 2 * 2^a <= 2^b
<1> DEFINE d == b - a
           x == 2^a
           y == 2^d
<1>1. d \in Nat /\ d >= 1 /\ a + d = b
  OBVIOUS
<1>2. x \in Nat /\ y \in Nat /\ d < y
  BY <1>1, PotTipo, PotMayor
<1>3. 2^b = x * y
  <2> HIDE DEF d
  <2>1. 2^(a + d) = 2^a * 2^d
    BY <1>1, PotMas
  <2> QED
    BY <1>1, <2>1
<1>4. y >= 2
  BY <1>1, <1>2
<1> HIDE DEF d, x, y
<1>5. x * 2 <= x * y
  BY <1>2, <1>4
<1>6. 2 * x <= x * y
  BY <1>2, <1>5
<1> QED
  BY <1>3, <1>6 DEF x

LEMMA PotOrden ==
  ASSUME NEW a \in Nat, NEW b \in Nat
  PROVE  /\ 2^a \in Nat /\ 2^a >= 1
         /\ (a <= b <=> 2^a <= 2^b)
         /\ (a < b <=> 2^a < 2^b)
<1> DEFINE x == 2^a
           y == 2^b
<1>1. x \in Nat /\ y \in Nat /\ a < x /\ b < y
  BY PotTipo, PotMayor
<1>2. (a < b => 2 * x <= y) /\ (b < a => 2 * y <= x) /\ (a = b => x = y)
  BY PotCrece
<1> HIDE DEF x, y
<1>3. x \in Nat /\ x >= 1 /\ (a <= b <=> x <= y) /\ (a < b <=> x < y)
  BY <1>1, <1>2
<1> QED
  BY <1>3 DEF x, y

LEMMA Dividir ==
  ASSUME NEW q \in Nat, NEW m \in Nat, m >= 1
  PROVE  (q * m) \div m = q /\ (q * m) % m = 0
<1>1. q * m = m * q + 0
  OBVIOUS
<1> QED
  BY <1>1

LEMMA Paridad ==
  ASSUME NEW q \in Nat
  PROVE  \/ q % 2 = 0 /\ \E r \in Nat : q = 2 * r
         \/ q % 2 = 1 /\ \E r \in Nat : q = 2 * r + 1
<1>1. q = 2 * (q \div 2) + (q % 2) /\ q % 2 \in {0, 1} /\ q \div 2 \in Nat
  OBVIOUS
<1> QED
  BY <1>1

LEMMA PotDividir ==
  ASSUME NEW j \in Nat, NEW i \in 0..j
  PROVE  2^j \div 2^i = 2^(j - i) /\ 2^j = 2^(j - i) * 2^i
<1> DEFINE d == j - i
           x == 2^d
           y == 2^i
<1>1. d \in Nat /\ i \in Nat /\ d + i = j
  OBVIOUS
<1>2. x \in Nat /\ y \in Nat /\ y >= 1
  BY <1>1, PotOrden
<1>3. 2^j = x * y
  <2> HIDE DEF d
  <2>1. 2^(d + i) = 2^d * 2^i
    BY <1>1, PotMas
  <2> QED
    BY <1>1, <2>1
<1>4. (x * y) \div y = x
  <2> HIDE DEF x, y
  <2> QED
    BY <1>2, Dividir
<1> QED
  BY <1>3, <1>4

-----------------------------------------------------------------------------
(* exponente_buddy and the halves of a block.                              *)

(* The exponent is the least one that is enough, and never 0. *)
LEMMA ExponenteEs ==
  ASSUME NEW n \in Nat, n >= 1
  PROVE  LET e == ExponenteBuddy(n)
         IN  e \in Nat /\ e >= 1 /\ n <= 2^e /\ \A d \in 1..(e - 1) : 2^d < n
<1> DEFINE S == {e \in Nat : e >= 1 /\ 2^e >= n}
<1>1. n + 1 \in S
  <2>1. n + 1 \in Nat /\ n + 1 < 2^(n + 1) /\ 2^(n + 1) \in Nat
    BY PotMayor, PotTipo
  <2> DEFINE x == 2^(n + 1)
  <2>2. x >= n
    <3>1. n + 1 < x /\ x \in Nat
      BY <2>1
    <3> HIDE DEF x
    <3> QED
      BY <3>1
  <2> QED
    BY <2>1, <2>2
<1>2. PICK e \in S : \A y \in S : e <= y
  <2>1. S \in SUBSET Nat /\ S # {}
    BY <1>1
  <2> HIDE DEF S
  <2> QED
    BY <2>1, MinimoNat
<1>3. e \in 1..(n + 1) /\ 2^e >= n
  BY <1>1, <1>2
<1>4. ASSUME NEW d \in 1..(e - 1) PROVE 2^d < n
  <2>1. d \in Nat /\ d >= 1 /\ ~(e <= d)
    BY <1>3
  <2>2. d \notin S
    BY <1>2, <2>1
  <2>3. ~(2^d >= n) /\ 2^d \in Nat
    BY <2>1, <2>2, PotTipo
  <2> QED
    BY <2>3
<1>5. ExponenteBuddy(n) \in 1..n + 1 /\ 2^ExponenteBuddy(n) >= n
      /\ \A d \in 1..(ExponenteBuddy(n) - 1) : 2^d < n
  BY <1>3, <1>4 DEF ExponenteBuddy
<1>6. 2^ExponenteBuddy(n) \in Nat
  BY <1>5, PotTipo
<1> QED
  BY <1>5, <1>6

LEMMA ExponenteDePot ==
  ASSUME NEW j \in Nat, j >= 1
  PROVE  ExponenteBuddy(2^j) = j
<1> DEFINE n == 2^j
           e == ExponenteBuddy(n)
<1>1. n \in Nat /\ n >= 1
  BY PotOrden
<1>2. e \in Nat /\ e >= 1 /\ n <= 2^e /\ \A d \in 1..(e - 1) : 2^d < n
  <2> HIDE DEF n
  <2> QED
    BY <1>1, ExponenteEs
<1>3. j <= e
  BY <1>2, PotOrden
<1>4. ASSUME j < e PROVE FALSE
  <2>1. j \in 1..(e - 1)
    BY <1>2, <1>4
  <2>2. 2^j < n
    BY <1>2, <2>1
  <2> QED
    BY <1>1, <2>2
<1> QED
  BY <1>2, <1>3, <1>4

(* What a message takes: a power of two, from 2, that is enough for it. *)
LEMMA TamMsg ==
  ASSUME NEW bytes \in Bytes
  PROVE  /\ bytes \in Nat /\ bytes >= 1
         /\ bytes <= TamParticion(bytes)
         /\ \E e \in Nat : e >= 1 /\ TamParticion(bytes) = 2^e
<1> DEFINE n == ObtenerTamMsg(bytes)
<1>1. bytes \in Nat /\ bytes >= 1 /\ TamMinimo \in Nat
  BY ConstantesAssumption
<1>2. n \in Nat /\ n >= 1 /\ bytes <= n
  BY <1>1 DEF ObtenerTamMsg
<1>3. TamParticion(bytes) = 2^ExponenteBuddy(n)
  BY DEF TamParticion
<1> HIDE DEF n
<1>4. ExponenteBuddy(n) \in Nat /\ ExponenteBuddy(n) >= 1 /\ n <= 2^ExponenteBuddy(n)
  BY <1>2, ExponenteEs
<1>5. 2^ExponenteBuddy(n) \in Nat
  BY <1>4, PotTipo
<1>6. bytes <= TamParticion(bytes)
  BY <1>1, <1>2, <1>3, <1>4, <1>5
<1> QED
  BY <1>1, <1>3, <1>4, <1>6

(* The halves cut off a block of 2^j for a message of 2^e: those of 2^e,   *)
(* 2^(e+1), ..., 2^(j-1) cells, each as far from the start of the block as *)
(* it is long.                                                             *)
LEMMA MitadesSon ==
  ASSUME NEW f, NEW j \in Nat, NEW e \in Nat, e >= 1, e <= j, f.tam = 2^j
  PROVE  Mitades(f, 2^e) = {[ini |-> f.ini + 2^i, tam |-> 2^i] : i \in e..(j - 1)}
<1> DEFINE cortes == {k \in 1..ExponenteBuddy(f.tam) :
                        ExponenteBuddy(f.tam \div 2^(k - 1)) > ExponenteBuddy(2^e)}
<1>1. ExponenteBuddy(f.tam) = j /\ ExponenteBuddy(2^e) = e
  BY ExponenteDePot
<1>2. ASSUME NEW k \in 1..j
      PROVE  ExponenteBuddy(f.tam \div 2^(k - 1)) = j - (k - 1) /\ f.tam \div 2^k = 2^(j - k)
  <2>1. k - 1 \in 0..j /\ k \in 0..j /\ j - (k - 1) \in Nat /\ j - (k - 1) >= 1
    OBVIOUS
  <2>2. 2^j \div 2^(k - 1) = 2^(j - (k - 1)) /\ 2^j \div 2^k = 2^(j - k)
    BY <2>1, PotDividir
  <2>3. ExponenteBuddy(2^(j - (k - 1))) = j - (k - 1)
    BY <2>1, ExponenteDePot
  <2> QED
    BY <2>2, <2>3
<1>3. cortes = 1..(j - e)
  <2>1. cortes = {k \in 1..j : j - (k - 1) > e}
    BY <1>1, <1>2
  <2> QED
    BY <2>1
<1>4. Mitades(f, 2^e) = {[ini |-> f.ini + (f.tam \div 2^k), tam |-> f.tam \div 2^k] : k \in cortes}
  BY DEF Mitades
<1> HIDE DEF cortes
<1>5. Mitades(f, 2^e) = {[ini |-> f.ini + 2^(j - k), tam |-> 2^(j - k)] : k \in 1..(j - e)}
  <2>1. \A k \in 1..(j - e) : f.tam \div 2^k = 2^(j - k)
    BY <1>2
  <2> QED
    BY <1>3, <1>4, <2>1
<1>6. ASSUME NEW k \in 1..(j - e) PROVE j - k \in e..(j - 1)
  OBVIOUS
<1>7. ASSUME NEW i \in e..(j - 1) PROVE j - i \in 1..(j - e) /\ j - (j - i) = i
  OBVIOUS
<1>8. ASSUME NEW i \in e..(j - 1)
      PROVE  [ini |-> f.ini + 2^i, tam |-> 2^i] \in Mitades(f, 2^e)
  <2>1. [ini |-> f.ini + 2^(j - (j - i)), tam |-> 2^(j - (j - i))] \in Mitades(f, 2^e)
    BY <1>5, <1>7
  <2> QED
    BY <1>7, <2>1
<1>9. ASSUME NEW h \in Mitades(f, 2^e)
      PROVE  \E i \in e..(j - 1) : h = [ini |-> f.ini + 2^i, tam |-> 2^i]
  BY <1>5, <1>6
<1> QED
  BY <1>8, <1>9

-----------------------------------------------------------------------------
(* The inductive core: types, bounds, disjointness, and blocks that are    *)
(* powers of two at multiples of their size.                               *)

EsBloque(ini, tam) == \E k, q \in Nat : k >= 1 /\ tam = 2^k /\ ini = q * tam

Acotadas ==
  /\ \A f \in libres : f.ini + f.tam <= TamMemoria
  /\ \A i \in DOMAIN mensajes :
       /\ mensajes[i].ini + mensajes[i].largo <= TamMemoria
       /\ mensajes[i].bytes <= mensajes[i].largo

PedidoEnCurso == pc \notin {"inactivo", "caido"} => pedido \in Pedido

Potencias ==
  /\ \A f \in libres : EsBloque(f.ini, f.tam)
  /\ \A i \in DOMAIN mensajes : EsBloque(mensajes[i].ini, mensajes[i].largo)

(* During a merge the block that grows is free and holds the evicted       *)
(* message; there is none otherwise.                                       *)
Fusion ==
  /\ pc = "fusionar" => /\ borrado \in Mensaje
                        /\ fusionada \in libres
                        /\ fusionada.ini <= borrado.ini
                        /\ borrado.ini + borrado.largo <= fusionada.ini + fusionada.tam
  /\ pc # "fusionar" => borrado = Nadie /\ fusionada = Nadie

IInv ==
  /\ TypeOK
  /\ Acotadas
  /\ PedidoEnCurso
  /\ SinSolapamiento
  /\ Potencias
  /\ Fusion

(* The arithmetic that the types give. *)
LEMMA MensajeTipado ==
  ASSUME NEW m \in Mensaje
  PROVE  m.ini \in Nat /\ m.largo \in Nat /\ m.largo >= 1 /\ m.bytes \in Nat
<1>1. m.ini \in 0..(TamMemoria - 1) /\ m.largo \in 1..TamMemoria /\ m.bytes \in Bytes
  BY DEF Mensaje, Celdas
<1>2. TamMemoria \in Nat /\ Bytes \subseteq Nat
  BY ConstantesAssumption
<1>3. m.ini \in Nat
  BY <1>1, <1>2
<1>4. m.largo \in Nat /\ m.largo >= 1
  BY <1>1, <1>2
<1>5. m.bytes \in Nat
  BY <1>1, <1>2
<1> QED
  BY <1>3, <1>4, <1>5

LEMMA Tipos ==
  ASSUME TypeOK
  PROVE  /\ TamMemoria \in Nat
         /\ \A f \in libres : f \in Particion /\ f.ini \in Nat /\ f.tam \in Nat /\ f.tam >= 1
         /\ Len(mensajes) \in Nat
         /\ DOMAIN mensajes = 1..Len(mensajes)
         /\ \A i \in DOMAIN mensajes :
              /\ mensajes[i] \in Mensaje
              /\ mensajes[i].ini \in Nat
              /\ mensajes[i].largo \in Nat
              /\ mensajes[i].largo >= 1
              /\ mensajes[i].bytes \in Nat
<1>1. mensajes \in Seq(Mensaje)
  BY DEF TypeOK
<1>2. /\ Len(mensajes) \in Nat
      /\ DOMAIN mensajes = 1..Len(mensajes)
      /\ \A i \in DOMAIN mensajes : mensajes[i] \in Mensaje
  BY <1>1, LenProperties
<1>3. TamMemoria \in Nat
  BY ConstantesAssumption
<1>4. \A f \in libres : f \in Particion /\ f.ini \in Nat /\ f.tam \in Nat /\ f.tam >= 1
  BY <1>3 DEF TypeOK, Particion, Celdas
<1> QED
  BY <1>2, <1>3, <1>4, MensajeTipado

LEMMA InicioIInv == Init => IInv
<1> SUFFICES ASSUME Init PROVE IInv
  OBVIOUS
<1> DEFINE todo == [ini |-> 0, tam |-> TamMemoria]
<1>1. /\ libres = {todo} /\ mensajes = <<>> /\ cache = [c \in Celdas |-> Vacio]
      /\ pedido = Nadie /\ pc = "inactivo" /\ reloj = 0 /\ borrado = Nadie /\ fusionada = Nadie
  BY DEF Init, InitMemoria
<1>2. todo \in Particion /\ todo.ini + todo.tam <= TamMemoria
  BY ConstantesAssumption DEF Particion, Celdas
<1>3. TypeOK
  BY <1>1, <1>2, ConstantesAssumption DEF TypeOK
<1>4. EsBloque(0, TamMemoria)
  <2>1. PICK k \in 1..TamMemoria : TamMemoria = 2^k
    BY PotenciaAssumption
  <2>2. k \in Nat /\ k >= 1 /\ 0 = 0 * TamMemoria /\ 0 \in Nat
    BY ConstantesAssumption
  <2> QED
    BY <2>1, <2>2 DEF EsBloque
<1>5. Acotadas /\ PedidoEnCurso /\ SinSolapamiento /\ Potencias /\ Fusion
  BY <1>1, <1>2, <1>4 DEF Acotadas, PedidoEnCurso, SinSolapamiento, LibresDisjuntas,
     MensajesDisjuntos, LibresSinMensajes, Potencias, Fusion
<1> QED
  BY <1>3, <1>5 DEF IInv

-----------------------------------------------------------------------------
(* What a store does.                                                      *)

Trozos(ini, e, j) == {[ini |-> ini + 2^i, tam |-> 2^i] : i \in e..(j - 1)}

(* Where the halves are: past the message, inside the block, one after the *)
(* other.                                                                  *)
LEMMA TrozosOrdenados ==
  ASSUME NEW ini \in Nat, NEW j \in Nat, NEW e \in Nat, e <= j
  PROVE  /\ 2^e \in Nat /\ 2^e >= 1 /\ 2^j \in Nat /\ 2^e <= 2^j
         /\ \A t \in Trozos(ini, e, j) :
              /\ t.ini \in Nat /\ t.tam \in Nat /\ t.tam >= 1
              /\ ini + 2^e <= t.ini /\ t.ini + t.tam <= ini + 2^j
         /\ \A t, u \in Trozos(ini, e, j) :
              t # u => t.ini + t.tam <= u.ini \/ u.ini + u.tam <= t.ini
<1>1. 2^e \in Nat /\ 2^e >= 1 /\ 2^j \in Nat /\ 2^e <= 2^j
  BY PotOrden
<1>2. ASSUME NEW i \in e..(j - 1)
      PROVE  /\ i \in Nat /\ 2^i \in Nat /\ 2^i >= 1 /\ 2^e <= 2^i /\ 2 * 2^i <= 2^j
             /\ \A l \in e..(j - 1) : i < l => 2 * 2^i <= 2^l
  <2>1. i \in Nat /\ e <= i /\ i < j
    OBVIOUS
  <2> QED
    BY <2>1, PotOrden, PotCrece
<1>3. ASSUME NEW t \in Trozos(ini, e, j)
      PROVE  /\ t.ini \in Nat /\ t.tam \in Nat /\ t.tam >= 1
             /\ ini + 2^e <= t.ini /\ t.ini + t.tam <= ini + 2^j
  <2>1. PICK i \in e..(j - 1) : t = [ini |-> ini + 2^i, tam |-> 2^i]
    BY DEF Trozos
  <2> DEFINE x == 2^i
             y == 2^e
             z == 2^j
  <2>2. x \in Nat /\ x >= 1 /\ y \in Nat /\ z \in Nat /\ y <= x /\ 2 * x <= z
    BY <1>1, <1>2
  <2>3. t.ini = ini + x /\ t.tam = x
    BY <2>1
  <2> HIDE DEF x, y, z
  <2>4. /\ t.ini \in Nat /\ t.tam \in Nat /\ t.tam >= 1
        /\ ini + y <= t.ini /\ t.ini + t.tam <= ini + z
    BY <2>2, <2>3
  <2> QED
    BY <2>4 DEF y, z
<1>4. ASSUME NEW t \in Trozos(ini, e, j), NEW u \in Trozos(ini, e, j), t # u
      PROVE  t.ini + t.tam <= u.ini \/ u.ini + u.tam <= t.ini
  <2>1. PICK i \in e..(j - 1) : t = [ini |-> ini + 2^i, tam |-> 2^i]
    BY DEF Trozos
  <2>2. PICK l \in e..(j - 1) : u = [ini |-> ini + 2^l, tam |-> 2^l]
    BY DEF Trozos
  <2>3. i < l \/ l < i
    BY <1>4, <2>1, <2>2
  <2> DEFINE x == 2^i
             y == 2^l
  <2>4. x \in Nat /\ y \in Nat /\ (i < l => 2 * x <= y) /\ (l < i => 2 * y <= x)
    BY <1>2
  <2>5. t.ini = ini + x /\ t.tam = x /\ u.ini = ini + y /\ u.tam = y
    BY <2>1, <2>2
  <2> HIDE DEF x, y
  <2> QED
    BY <2>3, <2>4, <2>5
<1> QED
  BY <1>1, <1>3, <1>4

(* A half of an aligned block is aligned. *)
LEMMA TrozosSonBloques ==
  ASSUME NEW q \in Nat, NEW j \in Nat, NEW e \in Nat, e >= 1, e <= j
  PROVE  /\ EsBloque(q * 2^j, 2^e)
         /\ \A t \in Trozos(q * 2^j, e, j) : EsBloque(t.ini, t.tam)
<1>1. ASSUME NEW i \in e..j
      PROVE  \E r \in Nat : /\ q * 2^j = r * 2^i
                            /\ q * 2^j + 2^i = (r + 1) * 2^i
  <2> DEFINE d == 2^(j - i)
             y == 2^i
             z == 2^j
  <2>1. i \in 0..j /\ j - i \in Nat /\ i \in Nat
    OBVIOUS
  <2>2. z = d * y
    BY <2>1, PotDividir
  <2>3. d \in Nat /\ y \in Nat
    BY <2>1, PotTipo
  <2> HIDE DEF d, y, z
  <2>4. q * d \in Nat /\ q * z = (q * d) * y
    BY <2>2, <2>3
  <2>5. q * z + y = (q * d + 1) * y
    BY <2>3, <2>4
  <2> QED
    BY <2>4, <2>5 DEF y, z
<1>2. EsBloque(q * 2^j, 2^e)
  <2>1. e \in e..j
    OBVIOUS
  <2>2. PICK r \in Nat : q * 2^j = r * 2^e
    BY <1>1, <2>1
  <2> QED
    BY <2>2 DEF EsBloque
<1>3. ASSUME NEW t \in Trozos(q * 2^j, e, j) PROVE EsBloque(t.ini, t.tam)
  <2>1. PICK i \in e..(j - 1) : t = [ini |-> q * 2^j + 2^i, tam |-> 2^i]
    BY DEF Trozos
  <2>2. i \in e..j /\ i \in Nat /\ i >= 1
    OBVIOUS
  <2>3. PICK r \in Nat : q * 2^j + 2^i = (r + 1) * 2^i
    BY <1>1, <2>2
  <2>4. r + 1 \in Nat /\ t.ini = (r + 1) * t.tam /\ t.tam = 2^i
    BY <2>1, <2>3
  <2> QED
    BY <2>2, <2>4 DEF EsBloque
<1> QED
  BY <1>2, <1>3

(* The block a store takes, and what it leaves of it. *)
Toma(f, j, e, q) ==
  /\ e >= 1 /\ e <= j /\ f.tam = 2^j /\ f.ini = q * 2^j
  /\ pedido \in Pedido /\ pedido.bytes \in Nat /\ pedido.bytes >= 1 /\ pedido.bytes <= 2^e
  /\ libres' = (libres \ {f}) \cup Trozos(f.ini, e, j)
  /\ Escribir(f, Trozos(f.ini, e, j))
  /\ mensajes' = Append(mensajes, NuevoMensaje(f.ini, 2^e))

LEMMA GuardarEfecto ==
  ASSUME IInv, Guardar
  PROVE  \E f \in libres : \E j, e, q \in Nat : Toma(f, j, e, q)
<1>1. pedido \in Pedido /\ pedido.bytes \in Bytes
  BY DEF Guardar, IInv, PedidoEnCurso, Pedido
<1>2. PICK e \in Nat : e >= 1 /\ TamParticion(pedido.bytes) = 2^e
  BY <1>1, TamMsg
<1>3. pedido.bytes \in Nat /\ pedido.bytes >= 1 /\ pedido.bytes <= 2^e
  BY <1>1, <1>2, TamMsg
<1>4. PICK f \in libres :
        /\ 2^e <= f.tam
        /\ libres' = (libres \ {f}) \cup Mitades(f, 2^e)
        /\ Escribir(f, Mitades(f, 2^e))
        /\ mensajes' = Append(mensajes, NuevoMensaje(f.ini, 2^e))
  BY <1>2 DEF Guardar, Candidatas
<1>5. PICK j, q \in Nat : j >= 1 /\ f.tam = 2^j /\ f.ini = q * f.tam
  BY DEF IInv, Potencias, EsBloque
<1>6. e <= j
  BY <1>4, <1>5, PotOrden
<1>7. Mitades(f, 2^e) = Trozos(f.ini, e, j)
  BY <1>2, <1>5, <1>6, MitadesSon DEF Trozos
<1>8. f.ini = q * 2^j
  BY <1>5
<1>9. Toma(f, j, e, q)
  BY <1>1, <1>2, <1>3, <1>4, <1>5, <1>6, <1>7, <1>8 DEF Toma
<1> QED
  BY <1>9

LEMMA TomaForma ==
  ASSUME IInv, NEW f \in libres, NEW j \in Nat, NEW e \in Nat, NEW q \in Nat, Toma(f, j, e, q)
  PROVE  /\ f.ini \in Nat /\ f.tam \in Nat /\ f.tam = 2^j /\ f.ini + f.tam <= TamMemoria
         /\ TamMemoria \in Nat
         /\ 2^e \in Nat /\ 2^e >= 1 /\ 2^e <= f.tam /\ pedido.bytes \in Nat /\ pedido.bytes <= 2^e
         /\ NuevoMensaje(f.ini, 2^e) \in Mensaje
         /\ mensajes' \in Seq(Mensaje)
         /\ Len(mensajes) \in Nat /\ DOMAIN mensajes = 1..Len(mensajes)
         /\ DOMAIN mensajes' = 1..(Len(mensajes) + 1)
         /\ \A i \in DOMAIN mensajes : mensajes'[i] = mensajes[i]
         /\ mensajes'[Len(mensajes) + 1] = NuevoMensaje(f.ini, 2^e)
         /\ \A i \in DOMAIN mensajes' : i \in DOMAIN mensajes \/ i = Len(mensajes) + 1
<1>1. TypeOK /\ Acotadas
  BY DEF IInv
<1>2. /\ f \in Particion /\ f.ini \in Nat /\ f.tam \in Nat /\ f.ini + f.tam <= TamMemoria
      /\ TamMemoria \in Nat /\ f.ini \in Celdas /\ f.tam = 2^j
  <2>1. f \in Particion /\ f.ini \in Nat /\ f.tam \in Nat /\ TamMemoria \in Nat
    BY <1>1, Tipos
  <2>2. f.ini \in Celdas
    BY <2>1 DEF Particion
  <2> QED
    BY <1>1, <2>1, <2>2 DEF Acotadas, Toma
<1>3. /\ 2^e \in Nat /\ 2^e >= 1 /\ 2^e <= f.tam
  BY <1>2, PotOrden DEF Toma
<1>4. pedido \in Pedido /\ pedido.bytes \in Nat /\ pedido.bytes <= 2^e
  BY DEF Toma
<1> DEFINE m == NuevoMensaje(f.ini, 2^e)
           t == 2^e
<1>5. m \in Mensaje
  <2>1. t \in Nat /\ t >= 1 /\ t <= f.tam
    BY <1>3
  <2>2. t \in 1..TamMemoria
    <3> HIDE DEF t
    <3> QED
      BY <1>2, <2>1
  <2>3. pedido.dato \in Datos /\ pedido.bytes \in Bytes /\ reloj \in 0..MaxReloj
    BY <1>1, <1>4 DEF Pedido, TypeOK
  <2> QED
    BY <1>2, <2>2, <2>3 DEF Mensaje, NuevoMensaje
<1>6. mensajes \in Seq(Mensaje) /\ mensajes' = Append(mensajes, m)
  BY <1>1 DEF TypeOK, Toma
<1> HIDE DEF m, t
<1>7. /\ mensajes' \in Seq(Mensaje)
      /\ Len(mensajes) \in Nat /\ DOMAIN mensajes = 1..Len(mensajes)
      /\ DOMAIN mensajes' = 1..(Len(mensajes) + 1)
      /\ \A i \in 1..Len(mensajes) : mensajes'[i] = mensajes[i]
      /\ mensajes'[Len(mensajes) + 1] = m
  BY <1>5, <1>6, AppendProperties, LenProperties
<1>8. \A i \in DOMAIN mensajes' : i \in DOMAIN mensajes \/ i = Len(mensajes) + 1
  BY <1>7
<1> QED
  BY <1>2, <1>3, <1>4, <1>5, <1>7, <1>8 DEF m

(* The free blocks after a store. *)
LEMMA TomaLibres ==
  ASSUME IInv, NEW f \in libres, NEW j \in Nat, NEW e \in Nat, NEW q \in Nat, Toma(f, j, e, q),
         NEW g \in libres'
  PROVE  /\ g \in Particion /\ g.ini \in Nat /\ g.tam \in Nat /\ g.tam >= 1
         /\ g.ini + g.tam <= TamMemoria
         /\ \/ /\ g \in libres /\ g # f
               /\ g.ini + g.tam <= f.ini \/ f.ini + f.tam <= g.ini
            \/ /\ g \in Trozos(f.ini, e, j)
               /\ f.ini + 2^e <= g.ini /\ g.ini + g.tam <= f.ini + f.tam
<1>1. /\ f.ini \in Nat /\ f.tam \in Nat /\ f.tam = 2^j /\ f.ini + f.tam <= TamMemoria
      /\ TamMemoria \in Nat /\ 2^e \in Nat /\ 2^e >= 1
  BY TomaForma
<1>2. CASE g \in libres /\ g # f
  <2>1. g \in Particion /\ g.ini \in Nat /\ g.tam \in Nat /\ g.tam >= 1
    BY <1>2, Tipos DEF IInv
  <2>2. g.ini + g.tam <= TamMemoria
    BY <1>2 DEF IInv, Acotadas
  <2>3. g.ini + g.tam <= f.ini \/ f.ini + f.tam <= g.ini
    BY <1>2 DEF IInv, SinSolapamiento, LibresDisjuntas
  <2> QED
    BY <1>2, <2>1, <2>2, <2>3
<1>3. CASE g \in Trozos(f.ini, e, j)
  <2>1. /\ g.ini \in Nat /\ g.tam \in Nat /\ g.tam >= 1
        /\ f.ini + 2^e <= g.ini /\ g.ini + g.tam <= f.ini + 2^j
    BY <1>1, <1>3, TrozosOrdenados DEF Toma
  <2>2. g = [ini |-> g.ini, tam |-> g.tam]
    BY <1>3 DEF Trozos
  <2>3. g.ini + g.tam <= TamMemoria /\ g.ini \in 0..(TamMemoria - 1) /\ g.tam \in 1..TamMemoria
    BY <1>1, <2>1
  <2>4. g \in Particion
    BY <2>2, <2>3 DEF Particion, Celdas
  <2> QED
    BY <1>1, <1>3, <2>1, <2>3, <2>4
<1> QED
  BY <1>2, <1>3 DEF Toma

LEMMA GuardarIInv == IInv /\ Guardar => IInv'
<1> SUFFICES ASSUME IInv, Guardar PROVE IInv'
  OBVIOUS
<1>1. PICK f \in libres : \E j, e, q \in Nat : Toma(f, j, e, q)
  BY GuardarEfecto
<1>2. PICK j, e, q \in Nat : Toma(f, j, e, q)
  BY <1>1
<1>3. TypeOK /\ Acotadas /\ LibresDisjuntas /\ MensajesDisjuntos /\ LibresSinMensajes /\ Potencias
  BY DEF IInv, SinSolapamiento
<1> DEFINE m == NuevoMensaje(f.ini, 2^e)
           n == Len(mensajes)
           largo == 2^e
<1>4. /\ f.ini \in Nat /\ f.tam \in Nat /\ f.tam = 2^j /\ f.ini + f.tam <= TamMemoria
      /\ TamMemoria \in Nat
      /\ largo \in Nat /\ largo >= 1 /\ largo <= f.tam
      /\ pedido.bytes \in Nat /\ pedido.bytes <= largo
      /\ m \in Mensaje /\ mensajes' \in Seq(Mensaje)
      /\ n \in Nat /\ DOMAIN mensajes = 1..n /\ DOMAIN mensajes' = 1..(n + 1)
      /\ \A i \in DOMAIN mensajes : mensajes'[i] = mensajes[i]
      /\ mensajes'[n + 1] = m
      /\ \A i \in DOMAIN mensajes' : i \in DOMAIN mensajes \/ i = n + 1
  BY <1>2, TomaForma
<1>5. m.ini = f.ini /\ m.largo = largo /\ m.bytes = pedido.bytes
  BY DEF NuevoMensaje
<1>6. ASSUME NEW g \in libres'
      PROVE  /\ g \in Particion /\ g.ini \in Nat /\ g.tam \in Nat /\ g.tam >= 1
             /\ g.ini + g.tam <= TamMemoria
             /\ \/ /\ g \in libres /\ g # f
                   /\ g.ini + g.tam <= f.ini \/ f.ini + f.tam <= g.ini
                \/ /\ g \in Trozos(f.ini, e, j)
                   /\ f.ini + largo <= g.ini /\ g.ini + g.tam <= f.ini + f.tam
  BY <1>2, TomaLibres
<1>7. \A i \in DOMAIN mensajes :
        /\ mensajes[i].ini \in Nat /\ mensajes[i].largo \in Nat /\ mensajes[i].largo >= 1
        /\ f.ini + f.tam <= mensajes[i].ini \/ mensajes[i].ini + mensajes[i].largo <= f.ini
  BY <1>3, Tipos DEF LibresSinMensajes
<1>8. /\ pedido' = Nadie /\ pc' = "inactivo" /\ UNCHANGED <<borrado, fusionada, reloj>>
      /\ cache' \in [Celdas -> Datos \cup {Vacio}]
  <2>1. pedido.dato \in Datos
    BY <1>2 DEF Toma, Pedido
  <2> QED
    BY <1>2, <1>3, <2>1 DEF Guardar, Toma, Escribir, TypeOK
<1> HIDE DEF m, n, largo
<1>9. TypeOK'
  <2>1. libres' \subseteq Particion
    BY <1>6
  <2>2. fusionada = Nadie /\ borrado = Nadie
    BY DEF IInv, Fusion, Guardar
  <2> QED
    BY <1>3, <1>4, <1>8, <2>1, <2>2 DEF TypeOK
<1>10. Acotadas'
  <2>1. ASSUME NEW i \in DOMAIN mensajes'
        PROVE  /\ mensajes'[i].ini + mensajes'[i].largo <= TamMemoria
               /\ mensajes'[i].bytes <= mensajes'[i].largo
    <3>1. CASE i \in DOMAIN mensajes
      BY <1>3, <1>4, <3>1 DEF Acotadas
    <3>2. CASE i = n + 1
      BY <1>4, <1>5, <3>2
    <3> QED
      BY <1>4, <3>1, <3>2
  <2> QED
    BY <1>6, <2>1 DEF Acotadas
<1>11. LibresDisjuntas'
  <2> SUFFICES ASSUME NEW g \in libres', NEW h \in libres', g # h
               PROVE  g.ini + g.tam <= h.ini \/ h.ini + h.tam <= g.ini
    BY DEF LibresDisjuntas
  <2>1. CASE g \in libres /\ h \in libres
    BY <1>3, <2>1 DEF LibresDisjuntas
  <2>2. CASE g \in Trozos(f.ini, e, j) /\ h \in Trozos(f.ini, e, j)
    BY <1>2, <1>4, <2>2, TrozosOrdenados DEF Toma
  <2>5. g.ini \in Nat /\ g.tam \in Nat /\ h.ini \in Nat /\ h.tam \in Nat
    BY <1>6
  <2>6. f.ini \in Nat /\ f.tam \in Nat /\ largo \in Nat
    BY <1>4
  <2>3. CASE /\ g.ini + g.tam <= f.ini \/ f.ini + f.tam <= g.ini
             /\ f.ini + largo <= h.ini /\ h.ini + h.tam <= f.ini + f.tam
    BY <2>3, <2>5, <2>6
  <2>4. CASE /\ h.ini + h.tam <= f.ini \/ f.ini + f.tam <= h.ini
             /\ f.ini + largo <= g.ini /\ g.ini + g.tam <= f.ini + f.tam
    BY <2>4, <2>5, <2>6
  <2> QED
    BY <1>6, <2>1, <2>2, <2>3, <2>4
<1>12. MensajesDisjuntos'
  <2> SUFFICES ASSUME NEW i \in DOMAIN mensajes', NEW l \in DOMAIN mensajes', i # l
               PROVE  \/ mensajes'[i].ini + mensajes'[i].largo <= mensajes'[l].ini
                      \/ mensajes'[l].ini + mensajes'[l].largo <= mensajes'[i].ini
    BY DEF MensajesDisjuntos
  <2>1. CASE i \in DOMAIN mensajes /\ l \in DOMAIN mensajes
    BY <1>3, <1>4, <2>1 DEF MensajesDisjuntos
  <2> DEFINE nuevo == mensajes'[n + 1]
  <2>4. nuevo.ini = f.ini /\ nuevo.largo = largo
    BY <1>4, <1>5
  <2> HIDE DEF nuevo
  <2>5. ASSUME NEW z \in DOMAIN mensajes
        PROVE  \/ nuevo.ini + nuevo.largo <= mensajes'[z].ini
               \/ mensajes'[z].ini + mensajes'[z].largo <= nuevo.ini
    <3>1. mensajes'[z] = mensajes[z]
      BY <1>4
    <3>2. /\ mensajes[z].ini \in Nat /\ mensajes[z].largo \in Nat
          /\ f.ini + f.tam <= mensajes[z].ini \/ mensajes[z].ini + mensajes[z].largo <= f.ini
      BY <1>7
    <3>3. f.ini \in Nat /\ f.tam \in Nat /\ largo \in Nat /\ largo <= f.tam
      BY <1>4
    <3> QED
      BY <2>4, <3>1, <3>2, <3>3
  <2>2. CASE i \in DOMAIN mensajes /\ l = n + 1
    BY <2>2, <2>5 DEF nuevo
  <2>3. CASE l \in DOMAIN mensajes /\ i = n + 1
    BY <2>3, <2>5 DEF nuevo
  <2> QED
    BY <1>4, <2>1, <2>2, <2>3
<1>13. LibresSinMensajes'
  <2> SUFFICES ASSUME NEW g \in libres', NEW i \in DOMAIN mensajes'
               PROVE  \/ g.ini + g.tam <= mensajes'[i].ini
                      \/ mensajes'[i].ini + mensajes'[i].largo <= g.ini
    BY DEF LibresSinMensajes
  <2>1. CASE i \in DOMAIN mensajes
    <3>1. CASE g \in libres
      BY <1>3, <1>4, <2>1, <3>1 DEF LibresSinMensajes
    <3>2. CASE f.ini + largo <= g.ini /\ g.ini + g.tam <= f.ini + f.tam
      <4>1. mensajes'[i] = mensajes[i]
        BY <1>4, <2>1
      <4>2. /\ mensajes[i].ini \in Nat /\ mensajes[i].largo \in Nat
            /\ f.ini + f.tam <= mensajes[i].ini \/ mensajes[i].ini + mensajes[i].largo <= f.ini
        BY <1>7, <2>1
      <4>3. g.ini \in Nat /\ g.tam \in Nat /\ f.ini \in Nat /\ f.tam \in Nat /\ largo \in Nat
        BY <1>4, <1>6
      <4>4. g.ini + g.tam <= mensajes[i].ini \/ mensajes[i].ini + mensajes[i].largo <= g.ini
        BY <3>2, <4>2, <4>3
      <4> QED
        BY <4>1, <4>4
    <3> QED
      BY <1>6, <3>1, <3>2
  <2>2. CASE i = n + 1
    <3>1. mensajes'[i].ini = f.ini /\ mensajes'[i].largo = largo
      BY <1>4, <1>5, <2>2
    <3> QED
      BY <1>4, <1>6, <3>1
  <2> QED
    BY <1>4, <2>1, <2>2
<1>14. Potencias'
  <2>1. ASSUME NEW g \in libres' PROVE EsBloque(g.ini, g.tam)
    <3>1. CASE g \in libres
      BY <1>3, <3>1 DEF Potencias
    <3>2. CASE g \in Trozos(f.ini, e, j)
      BY <1>2, <3>2, TrozosSonBloques DEF Toma
    <3> QED
      BY <1>6, <3>1, <3>2
  <2>2. EsBloque(m.ini, m.largo)
    BY <1>2, <1>5, TrozosSonBloques DEF Toma, largo
  <2>3. ASSUME NEW i \in DOMAIN mensajes' PROVE EsBloque(mensajes'[i].ini, mensajes'[i].largo)
    <3>1. CASE i \in DOMAIN mensajes
      BY <1>3, <1>4, <3>1 DEF Potencias
    <3>2. CASE i = n + 1
      BY <1>4, <2>2, <3>2
    <3> QED
      BY <1>4, <3>1, <3>2
  <2> QED
    BY <2>1, <2>3 DEF Potencias
<1>15. PedidoEnCurso' /\ Fusion'
  BY <1>8 DEF PedidoEnCurso, Fusion, IInv, Guardar
<1> QED
  BY <1>9, <1>10, <1>11, <1>12, <1>13, <1>14, <1>15 DEF IInv, SinSolapamiento

-----------------------------------------------------------------------------
(* What an eviction and a merge do.                                        *)

Bloque(m) == [ini |-> m.ini, tam |-> m.largo]

LEMMA EliminarEfecto ==
  ASSUME IInv, Eliminar
  PROVE  \E k \in DOMAIN mensajes :
           /\ EsVictima(k) /\ mensajes' = RemoveAt(mensajes, k)
           /\ borrado' = mensajes[k]
           /\ fusionada' = Bloque(mensajes[k])
           /\ libres' = libres \cup {Bloque(mensajes[k])}
           /\ mensajes[k] \in Mensaje
           /\ Bloque(mensajes[k]) \in Particion
           /\ mensajes' \in Seq(Mensaje)
           /\ DOMAIN mensajes' = 1..(Len(mensajes) - 1)
           /\ \A j \in DOMAIN mensajes' :
                mensajes'[j] = IF j < k THEN mensajes[j] ELSE mensajes[j + 1]
<1>1. PICK k \in DOMAIN mensajes :
        /\ EsVictima(k) /\ mensajes' = RemoveAt(mensajes, k)
        /\ borrado' = mensajes[k]
        /\ fusionada' = Bloque(mensajes[k])
        /\ libres' = libres \cup {Bloque(mensajes[k])}
  BY DEF Eliminar, Bloque
<1>2. mensajes \in Seq(Mensaje)
  BY DEF IInv, TypeOK
<1>3. mensajes[k] \in Mensaje
  BY <1>2, LenProperties
<1>4. Bloque(mensajes[k]) \in Particion
  BY <1>3 DEF Mensaje, Particion, Bloque
<1>5. /\ mensajes' \in Seq(Mensaje)
      /\ DOMAIN mensajes' = 1..(Len(mensajes) - 1)
      /\ \A j \in 1..(Len(mensajes) - 1) :
           mensajes'[j] = IF j < k THEN mensajes[j] ELSE mensajes[j + 1]
  BY <1>1, <1>2, RemoveAtElementos
<1> QED
  BY <1>1, <1>3, <1>4, <1>5

(* Each message that stays has an index of its own among the old ones. *)
LEMMA QuedanOtros ==
  ASSUME TypeOK, NEW k \in DOMAIN mensajes, NEW j \in 1..(Len(mensajes) - 1)
  PROVE  (IF j < k THEN j ELSE j + 1) \in DOMAIN mensajes \ {k}
<1>1. Len(mensajes) \in Nat /\ DOMAIN mensajes = 1..Len(mensajes)
  BY Tipos
<1> QED
  BY <1>1

LEMMA EliminarIInv == IInv /\ Eliminar => IInv'
<1> SUFFICES ASSUME IInv, Eliminar PROVE IInv'
  OBVIOUS
<1>1. PICK k \in DOMAIN mensajes :
        /\ borrado' = mensajes[k]
        /\ fusionada' = Bloque(mensajes[k])
        /\ libres' = libres \cup {Bloque(mensajes[k])}
        /\ mensajes[k] \in Mensaje
        /\ Bloque(mensajes[k]) \in Particion
        /\ mensajes' \in Seq(Mensaje)
        /\ DOMAIN mensajes' = 1..(Len(mensajes) - 1)
        /\ \A j \in DOMAIN mensajes' :
             mensajes'[j] = IF j < k THEN mensajes[j] ELSE mensajes[j + 1]
  BY EliminarEfecto
<1> DEFINE b == Bloque(mensajes[k])
           viejo(j) == IF j < k THEN j ELSE j + 1
<1>2. TypeOK /\ Acotadas /\ LibresDisjuntas /\ MensajesDisjuntos /\ LibresSinMensajes /\ Potencias
  BY DEF IInv, SinSolapamiento
<1>3. /\ Len(mensajes) \in Nat /\ DOMAIN mensajes = 1..Len(mensajes)
      /\ \A i \in DOMAIN mensajes :
           mensajes[i].ini \in Nat /\ mensajes[i].largo \in Nat /\ mensajes[i].largo >= 1
      /\ \A f \in libres : f.ini \in Nat /\ f.tam \in Nat /\ f.tam >= 1
  BY <1>2, Tipos
<1>4. ASSUME NEW j \in DOMAIN mensajes'
      PROVE  viejo(j) \in DOMAIN mensajes /\ viejo(j) # k /\ mensajes'[j] = mensajes[viejo(j)]
  BY <1>1, <1>2, QuedanOtros
<1>5. \A j, l \in DOMAIN mensajes' : j # l => viejo(j) # viejo(l)
  BY <1>1, <1>3
<1>6. b.ini = mensajes[k].ini /\ b.tam = mensajes[k].largo
  BY DEF Bloque
<1> HIDE DEF viejo, b
<1>7. UNCHANGED <<cache, pedido, reloj>> /\ pc = "eliminar" /\ pc' = "fusionar"
  BY DEF Eliminar
<1>8. libres' = libres \cup {b} /\ b \in Particion /\ fusionada' = b
  BY <1>1 DEF b
<1>9. TypeOK'
  BY <1>1, <1>2, <1>7, <1>8 DEF TypeOK
<1>10. Acotadas'
  <2>1. ASSUME NEW g \in libres' PROVE g.ini + g.tam <= TamMemoria
    BY <1>2, <1>6, <1>8 DEF Acotadas
  <2>2. ASSUME NEW j \in DOMAIN mensajes'
        PROVE  /\ mensajes'[j].ini + mensajes'[j].largo <= TamMemoria
               /\ mensajes'[j].bytes <= mensajes'[j].largo
    BY <1>2, <1>4 DEF Acotadas
  <2> QED
    BY <2>1, <2>2 DEF Acotadas
<1>11. LibresDisjuntas'
  <2> SUFFICES ASSUME NEW g \in libres', NEW h \in libres', g # h
               PROVE  g.ini + g.tam <= h.ini \/ h.ini + h.tam <= g.ini
    BY DEF LibresDisjuntas
  <2>1. CASE g \in libres /\ h \in libres
    BY <1>2, <2>1 DEF LibresDisjuntas
  <2>2. CASE g \in libres /\ h = b
    BY <1>2, <1>6, <2>2 DEF LibresSinMensajes
  <2>3. CASE g = b /\ h \in libres
    BY <1>2, <1>6, <2>3 DEF LibresSinMensajes
  <2> QED
    BY <1>8, <2>1, <2>2, <2>3
<1>12. MensajesDisjuntos'
  <2> SUFFICES ASSUME NEW i \in DOMAIN mensajes', NEW l \in DOMAIN mensajes', i # l
               PROVE  \/ mensajes'[i].ini + mensajes'[i].largo <= mensajes'[l].ini
                      \/ mensajes'[l].ini + mensajes'[l].largo <= mensajes'[i].ini
    BY DEF MensajesDisjuntos
  <2>1. /\ viejo(i) \in DOMAIN mensajes /\ viejo(l) \in DOMAIN mensajes /\ viejo(i) # viejo(l)
        /\ mensajes'[i] = mensajes[viejo(i)] /\ mensajes'[l] = mensajes[viejo(l)]
    BY <1>4, <1>5
  <2> QED
    BY <1>2, <2>1 DEF MensajesDisjuntos
<1>13. LibresSinMensajes'
  <2> SUFFICES ASSUME NEW g \in libres', NEW i \in DOMAIN mensajes'
               PROVE  \/ g.ini + g.tam <= mensajes'[i].ini
                      \/ mensajes'[i].ini + mensajes'[i].largo <= g.ini
    BY DEF LibresSinMensajes
  <2>1. viejo(i) \in DOMAIN mensajes /\ viejo(i) # k /\ mensajes'[i] = mensajes[viejo(i)]
    BY <1>4
  <2>2. CASE g \in libres
    BY <1>2, <2>1, <2>2 DEF LibresSinMensajes
  <2>3. CASE g = b
    BY <1>2, <1>6, <2>1, <2>3 DEF MensajesDisjuntos
  <2> QED
    BY <1>8, <2>2, <2>3
<1>14. Potencias'
  <2>1. ASSUME NEW g \in libres' PROVE EsBloque(g.ini, g.tam)
    BY <1>2, <1>6, <1>8 DEF Potencias
  <2>2. ASSUME NEW i \in DOMAIN mensajes' PROVE EsBloque(mensajes'[i].ini, mensajes'[i].largo)
    BY <1>2, <1>4 DEF Potencias
  <2> QED
    BY <2>1, <2>2 DEF Potencias
<1>15. PedidoEnCurso'
  BY <1>7 DEF IInv, PedidoEnCurso
<1>16. Fusion'
  <2>1. b.ini <= mensajes[k].ini /\ mensajes[k].ini + mensajes[k].largo <= b.ini + b.tam
    BY <1>3, <1>6
  <2> QED
    BY <1>1, <1>7, <1>8, <2>1 DEF Fusion
<1> QED
  BY <1>9, <1>10, <1>11, <1>12, <1>13, <1>14, <1>15, <1>16 DEF IInv, SinSolapamiento

(* The side obtenerParticionCompaniero looks at, in terms of the multiple  *)
(* of its size the block starts at.                                        *)
LEMMA CompanieroEs ==
  ASSUME NEW p, NEW k \in Nat, NEW q \in Nat, p.tam = 2^k, p.ini = q * p.tam
  PROVE  Companiero(p) = {f \in libres : /\ f.ini = IF q % 2 = 1 THEN p.ini - p.tam ELSE p.ini + p.tam
                                         /\ f.tam = p.tam}
<1>1. p.tam \in Nat /\ p.tam >= 1
  BY PotOrden
<1>2. p.ini \div p.tam = q
  BY <1>1, Dividir
<1> QED
  BY <1>2 DEF Companiero

(* Two companions make an aligned block of twice their size. *)
LEMMA UnionDeCompanieros ==
  ASSUME NEW k \in Nat, NEW q \in Nat, k >= 1
  PROVE  /\ q % 2 = 1 => EsBloque(q * 2^k - 2^k, 2^k + 2^k)
         /\ q % 2 # 1 => EsBloque(q * 2^k, 2^k + 2^k)
<1> DEFINE x == 2^k
<1>1. x \in Nat /\ 2^(k + 1) = x + x /\ k + 1 \in Nat /\ k + 1 >= 1
  <2>1. 2^(k + 1) = 2 * x /\ x \in Nat
    BY PotSuc, PotTipo
  <2> HIDE DEF x
  <2> QED
    BY <2>1
<1>2. CASE q % 2 = 1
  <2>1. PICK r \in Nat : q = 2 * r + 1
    BY <1>2, Paridad
  <2> HIDE DEF x
  <2>2. q * x - x = r * (x + x)
    BY <1>1, <2>1
  <2>3. EsBloque(q * x - x, x + x)
    BY <1>1, <2>2 DEF EsBloque
  <2> QED
    BY <1>2, <2>3 DEF x
<1>3. CASE q % 2 # 1
  <2>1. PICK r \in Nat : q = 2 * r
    BY <1>3, Paridad
  <2> HIDE DEF x
  <2>2. q * x = r * (x + x)
    BY <1>1, <2>1
  <2>3. EsBloque(q * x, x + x)
    BY <1>1, <2>2 DEF EsBloque
  <2> QED
    BY <1>3, <2>3 DEF x
<1> QED
  BY <1>2, <1>3

(* The block that a merge makes is the union of the two it takes. *)
LEMMA FusionarEfecto ==
  ASSUME IInv, Fusionar
  PROVE  \E c \in libres : \E u \in Particion :
           /\ fusionada \in libres /\ c # fusionada /\ c.tam = fusionada.tam
           /\ \/ c.ini + c.tam = fusionada.ini /\ u.ini = c.ini
              \/ fusionada.ini + fusionada.tam = c.ini /\ u.ini = fusionada.ini
           /\ u.tam = fusionada.tam + c.tam
           /\ u.ini + u.tam <= TamMemoria
           /\ EsBloque(u.ini, u.tam)
           /\ fusionada' = u
           /\ libres' = (libres \ {fusionada, c}) \cup {u}
<1>1. PICK p \in libres : p = fusionada
  BY DEF IInv, Fusion, Fusionar
<1>2. PICK c \in Companiero(p) :
        fusionada' = Unificar(p, c) /\ libres' = (libres \ {p, c}) \cup {fusionada'}
  BY <1>1 DEF Fusionar
<1>3. PICK k, q \in Nat : k >= 1 /\ p.tam = 2^k /\ p.ini = q * p.tam
  BY <1>1 DEF IInv, Potencias, EsBloque
<1>4. c \in libres /\ c.tam = p.tam
      /\ c.ini = IF q % 2 = 1 THEN p.ini - p.tam ELSE p.ini + p.tam
  <2>1. Companiero(p) = {f \in libres : /\ f.ini = IF q % 2 = 1 THEN p.ini - p.tam ELSE p.ini + p.tam
                                        /\ f.tam = p.tam}
    BY <1>3, CompanieroEs
  <2> QED
    BY <1>2, <2>1
<1>5. /\ p.ini \in Nat /\ p.tam \in Nat /\ p.tam >= 1 /\ p.ini + p.tam <= TamMemoria
      /\ c.ini \in Nat /\ c.tam \in Nat /\ c.tam >= 1 /\ c.ini + c.tam <= TamMemoria
      /\ TamMemoria \in Nat
  BY <1>1, <1>4, Tipos DEF IInv, Acotadas
<1>6. c # p
  BY <1>4, <1>5
<1> DEFINE u == Unificar(p, c)
<1>7. /\ u.tam = p.tam + c.tam
      /\ q % 2 = 1 => c.ini + c.tam = p.ini /\ u.ini = c.ini
      /\ q % 2 # 1 => p.ini + p.tam = c.ini /\ u.ini = p.ini
      /\ u = [ini |-> u.ini, tam |-> u.tam]
  BY <1>4, <1>5 DEF Unificar
<1>8. u.ini + u.tam <= TamMemoria /\ u.ini \in Nat /\ u.tam \in Nat /\ u.tam >= 1
  <2> HIDE DEF u
  <2> QED
    BY <1>4, <1>5, <1>7
<1>9. u \in Particion
  <2> HIDE DEF u
  <2>1. u.ini \in 0..(TamMemoria - 1) /\ u.tam \in 1..TamMemoria
    BY <1>5, <1>8
  <2> QED
    BY <1>7, <2>1 DEF Particion, Celdas
<1>10. EsBloque(u.ini, u.tam)
  <2>1. CASE q % 2 = 1
    <3>1. u.ini = q * 2^k - 2^k /\ u.tam = 2^k + 2^k
      BY <1>3, <1>4, <1>7, <2>1
    <3> QED
      BY <1>3, <2>1, <3>1, UnionDeCompanieros
  <2>2. CASE q % 2 # 1
    <3>1. u.ini = q * 2^k /\ u.tam = 2^k + 2^k
      BY <1>3, <1>4, <1>7, <2>2
    <3> QED
      BY <1>3, <2>2, <3>1, UnionDeCompanieros
  <2> QED
    BY <2>1, <2>2
<1>11. fusionada' = u /\ libres' = (libres \ {p, c}) \cup {u}
  BY <1>2
<1> HIDE DEF u
<1> QED
  BY <1>1, <1>4, <1>6, <1>7, <1>8, <1>9, <1>10, <1>11

LEMMA FusionarIInv == IInv /\ Fusionar => IInv'
<1> SUFFICES ASSUME IInv, Fusionar PROVE IInv'
  OBVIOUS
<1>1. PICK p \in libres : p = fusionada
  BY DEF IInv, Fusion, Fusionar
<1>2. PICK c \in libres : \E u \in Particion :
        /\ c # p /\ c.tam = p.tam
        /\ \/ c.ini + c.tam = p.ini /\ u.ini = c.ini
           \/ p.ini + p.tam = c.ini /\ u.ini = p.ini
        /\ u.tam = p.tam + c.tam
        /\ u.ini + u.tam <= TamMemoria
        /\ EsBloque(u.ini, u.tam)
        /\ fusionada' = u
        /\ libres' = (libres \ {p, c}) \cup {u}
  BY <1>1, FusionarEfecto
<1>3. PICK u \in Particion :
        /\ \/ c.ini + c.tam = p.ini /\ u.ini = c.ini
           \/ p.ini + p.tam = c.ini /\ u.ini = p.ini
        /\ u.tam = p.tam + c.tam
        /\ u.ini + u.tam <= TamMemoria
        /\ EsBloque(u.ini, u.tam)
        /\ fusionada' = u
        /\ libres' = (libres \ {p, c}) \cup {u}
  BY <1>2
<1>4. TypeOK /\ Acotadas /\ LibresDisjuntas /\ MensajesDisjuntos /\ LibresSinMensajes /\ Potencias
  BY DEF IInv, SinSolapamiento
<1>5. UNCHANGED <<mensajes, cache, pedido, borrado, pc, reloj>> /\ pc = "fusionar"
  BY DEF Fusionar
<1>6. /\ p.ini \in Nat /\ p.tam \in Nat /\ p.tam >= 1 /\ c.ini \in Nat /\ c.tam \in Nat /\ c.tam >= 1
      /\ \A f \in libres : f.ini \in Nat /\ f.tam \in Nat /\ f.tam >= 1
      /\ \A i \in DOMAIN mensajes : mensajes[i].ini \in Nat /\ mensajes[i].largo \in Nat
  BY <1>4, Tipos
<1>7. TypeOK'
  BY <1>3, <1>4, <1>5 DEF TypeOK
<1>8. Acotadas'
  BY <1>3, <1>4, <1>5 DEF Acotadas
<1>9. ASSUME NEW g \in libres, g # p, g # c
      PROVE  g.ini + g.tam <= u.ini \/ u.ini + u.tam <= g.ini
  <2>1. /\ g.ini + g.tam <= p.ini \/ p.ini + p.tam <= g.ini
        /\ g.ini + g.tam <= c.ini \/ c.ini + c.tam <= g.ini
    BY <1>4, <1>9 DEF LibresDisjuntas
  <2>2. g.ini \in Nat /\ g.tam \in Nat /\ g.tam >= 1
    BY <1>6
  <2> QED
    BY <1>3, <1>6, <2>1, <2>2
<1>10. LibresDisjuntas'
  <2> SUFFICES ASSUME NEW g \in libres', NEW h \in libres', g # h
               PROVE  g.ini + g.tam <= h.ini \/ h.ini + h.tam <= g.ini
    BY DEF LibresDisjuntas
  <2>1. CASE g = u
    BY <1>3, <1>9, <2>1
  <2>2. CASE h = u
    BY <1>3, <1>9, <2>2
  <2>3. CASE g \in libres /\ h \in libres
    BY <1>4, <2>3 DEF LibresDisjuntas
  <2> QED
    BY <1>3, <2>1, <2>2, <2>3
<1>11. MensajesDisjuntos'
  BY <1>4, <1>5 DEF MensajesDisjuntos
<1>12. LibresSinMensajes'
  <2> SUFFICES ASSUME NEW g \in libres', NEW i \in DOMAIN mensajes
               PROVE  \/ g.ini + g.tam <= mensajes[i].ini
                      \/ mensajes[i].ini + mensajes[i].largo <= g.ini
    BY <1>5 DEF LibresSinMensajes
  <2>1. CASE g \in libres
    BY <1>4, <2>1 DEF LibresSinMensajes
  <2>2. CASE g = u
    <3>1. /\ p.ini + p.tam <= mensajes[i].ini \/ mensajes[i].ini + mensajes[i].largo <= p.ini
          /\ c.ini + c.tam <= mensajes[i].ini \/ mensajes[i].ini + mensajes[i].largo <= c.ini
      BY <1>4 DEF LibresSinMensajes
    <3>2. mensajes[i].ini \in Nat /\ mensajes[i].largo \in Nat /\ mensajes[i].largo >= 1
      BY <1>4, Tipos
    <3> QED
      BY <1>3, <1>6, <2>2, <3>1, <3>2
  <2> QED
    BY <1>3, <2>1, <2>2
<1>13. Potencias'
  BY <1>3, <1>4, <1>5 DEF Potencias
<1>14. PedidoEnCurso'
  BY <1>5 DEF IInv, PedidoEnCurso
<1>15. Fusion'
  <2>1. /\ borrado \in Mensaje /\ p.ini <= borrado.ini
        /\ borrado.ini + borrado.largo <= p.ini + p.tam
    BY <1>1, <1>5 DEF IInv, Fusion
  <2>2. PICK b \in Mensaje : b = borrado
    BY <2>1
  <2>3. b.ini \in Nat /\ b.largo \in Nat
    BY MensajeTipado
  <2>4. u.ini <= b.ini /\ b.ini + b.largo <= u.ini + u.tam
    BY <1>3, <1>6, <2>1, <2>2, <2>3
  <2>5. borrado' = b /\ fusionada' = u /\ u \in libres'
    BY <1>3, <1>5, <2>2
  <2> QED
    BY <1>5, <2>4, <2>5 DEF Fusion
<1> QED
  BY <1>7, <1>8, <1>10, <1>11, <1>12, <1>13, <1>14, <1>15 DEF IInv, SinSolapamiento

(* The steps that move no block. *)
BloquesQuietos ==
  \/ Pedir \/ NoEncontrar \/ FinFusionar \/ EliminarSinMensajes \/ Tictac

LEMMA QuietoIInv == IInv /\ BloquesQuietos => IInv' /\ UNCHANGED <<libres, mensajes>>
<1> SUFFICES ASSUME IInv, BloquesQuietos PROVE IInv' /\ UNCHANGED <<libres, mensajes>>
  OBVIOUS
<1>1. UNCHANGED <<libres, mensajes>>
  BY DEF BloquesQuietos, Pedir, NoEncontrar, FinFusionar, EliminarSinMensajes, Tictac, AvanzarReloj,
     memoria
<1>2. Acotadas' /\ SinSolapamiento' /\ Potencias'
  BY <1>1 DEF IInv, Acotadas, SinSolapamiento, LibresDisjuntas, MensajesDisjuntos,
     LibresSinMensajes, Potencias
<1>3. TypeOK /\ PedidoEnCurso /\ Fusion
  BY DEF IInv
<1>4. CASE Pedir
  BY <1>1, <1>2, <1>3, <1>4 DEF Pedir, PedidosNuevos, TypeOK, PedidoEnCurso, Pedido, Fusion, memoria, IInv
<1>5. CASE NoEncontrar \/ EliminarSinMensajes
  BY <1>1, <1>2, <1>3, <1>5 DEF NoEncontrar, EliminarSinMensajes, TypeOK, PedidoEnCurso, Fusion, memoria, IInv
<1>6. CASE Tictac
  <2>1. reloj' \in 0..MaxReloj
    BY <1>3, <1>6, ConstantesAssumption DEF Tictac, AvanzarReloj, TypeOK
  <2> QED
    BY <1>1, <1>2, <1>3, <1>6, <2>1 DEF Tictac, AvanzarReloj, TypeOK, PedidoEnCurso, Fusion, memoria, IInv
<1>7. CASE FinFusionar
  <2>1. cache' \in [Celdas -> Datos \cup {Vacio}]
    BY <1>3, <1>7 DEF FinFusionar, TypeOK
  <2> QED
    BY <1>1, <1>2, <1>3, <1>7, <2>1 DEF FinFusionar, TypeOK, PedidoEnCurso, Fusion, IInv
<1> QED
  BY <1>1, <1>4, <1>5, <1>6, <1>7 DEF BloquesQuietos

LEMMA ReenviarMensajes ==
  ASSUME TypeOK, Reenviar
  PROVE  /\ mensajes' \in Seq(Mensaje)
         /\ DOMAIN mensajes' = DOMAIN mensajes
         /\ \A i \in DOMAIN mensajes :
              /\ mensajes'[i].ini = mensajes[i].ini
              /\ mensajes'[i].largo = mensajes[i].largo
              /\ mensajes'[i].bytes = mensajes[i].bytes
              /\ mensajes'[i].dato = mensajes[i].dato
<1>1. PICK usados \in SUBSET DOMAIN mensajes :
        mensajes' = [i \in DOMAIN mensajes |->
          IF i \in usados THEN [mensajes[i] EXCEPT !.timestamp = reloj] ELSE mensajes[i]]
  BY DEF Reenviar, RefrescarUsados
<1>2. ASSUME NEW i \in DOMAIN mensajes
      PROVE  /\ mensajes'[i] \in Mensaje
             /\ mensajes'[i].ini = mensajes[i].ini
             /\ mensajes'[i].largo = mensajes[i].largo
             /\ mensajes'[i].bytes = mensajes[i].bytes
             /\ mensajes'[i].dato = mensajes[i].dato
  <2>1. mensajes[i] \in Mensaje /\ reloj \in 0..MaxReloj
    BY Tipos DEF TypeOK
  <2> QED
    BY <1>1, <2>1 DEF Mensaje
<1>3. mensajes' \in [DOMAIN mensajes -> Mensaje]
  BY <1>1, <1>2
<1> QED
  BY <1>2, <1>3, MapaEsSeq DEF TypeOK

LEMMA ReenviarIInv == IInv /\ Reenviar => IInv'
<1> SUFFICES ASSUME IInv, Reenviar PROVE IInv'
  OBVIOUS
<1>1. TypeOK /\ Acotadas /\ PedidoEnCurso /\ SinSolapamiento /\ Potencias /\ Fusion
  BY DEF IInv
<1>2. UNCHANGED <<libres, cache, pedido, borrado, fusionada, pc, reloj>>
  BY DEF Reenviar, RefrescarUsados
<1>3. TypeOK' /\ PedidoEnCurso' /\ Fusion'
  BY <1>1, <1>2, ReenviarMensajes DEF TypeOK, PedidoEnCurso, Fusion
<1>4. Acotadas' /\ SinSolapamiento'
  BY <1>1, <1>2, ReenviarMensajes DEF Acotadas, SinSolapamiento, LibresDisjuntas,
     MensajesDisjuntos, LibresSinMensajes
<1>5. Potencias'
  BY <1>1, <1>2, ReenviarMensajes DEF Potencias
<1> QED
  BY <1>3, <1>4, <1>5 DEF IInv

LEMMA PasoIInv == IInv /\ [Next]_vars => IInv'
<1> SUFFICES ASSUME IInv, [Next]_vars PROVE IInv'
  OBVIOUS
<1>1. CASE BloquesQuietos
  BY <1>1, QuietoIInv
<1>2. CASE Guardar
  BY <1>2, GuardarIInv
<1>3. CASE Eliminar
  BY <1>3, EliminarIInv
<1>4. CASE Fusionar
  BY <1>4, FusionarIInv
<1>5. CASE Reenviar
  BY <1>5, ReenviarIInv
<1>6. CASE UNCHANGED vars
  BY <1>6 DEF vars, IInv, TypeOK, Acotadas, PedidoEnCurso, SinSolapamiento,
     LibresDisjuntas, MensajesDisjuntos, LibresSinMensajes, Potencias, Fusion
<1> QED
  BY <1>1, <1>2, <1>3, <1>4, <1>5, <1>6 DEF Next, Hilo, BloquesQuietos

LEMMA SiempreIInv == Spec => []IInv
BY InicioIInv, PasoIInv, PTL DEF Spec

(* Types, for every power of two of cells: blocks stay inside CACHE, and   *)
(* the block being merged is a free one.                                   *)
THEOREM BuddyBienTipado == Spec => []TypeOK
<1>1. IInv => TypeOK
  BY DEF IInv
<1> QED
  BY <1>1, SiempreIInv, PTL

(* Every block is a power of two of cells at a multiple of its size, so    *)
(* the division of obtenerParticionCompaniero finds the right side         *)
(* (memoria.c:105-172).                                                    *)
THEOREM SiempreAlineados == Spec => []Alineados
<1>1. ASSUME NEW ini \in Nat, NEW tam \in Nat, tam <= TamMemoria, EsBloque(ini, tam)
      PROVE  ini % tam = 0 /\ \E k \in 0..TamMemoria : tam = 2^k
  <2>1. PICK k, q \in Nat : k >= 1 /\ tam = 2^k /\ ini = q * tam
    BY <1>1 DEF EsBloque
  <2>2. tam >= 1
    BY <2>1, PotOrden
  <2>3. ini % tam = 0
    BY <2>1, <2>2, Dividir
  <2>4. k < tam
    BY <2>1, PotMayor
  <2>5. k \in 0..TamMemoria
    BY <1>1, <2>4, ConstantesAssumption
  <2> QED
    BY <2>1, <2>3, <2>5
<1>2. IInv => Alineados
  <2> SUFFICES ASSUME IInv, NEW b \in Bloques
               PROVE  b.ini % b.tam = 0 /\ \E k \in 0..TamMemoria : b.tam = 2^k
    BY DEF Alineados
  <2>1. TypeOK /\ Acotadas /\ Potencias
    BY DEF IInv
  <2>2. CASE b \in libres
    <3>1. b.ini \in Nat /\ b.tam \in Nat /\ b.ini + b.tam <= TamMemoria /\ EsBloque(b.ini, b.tam)
          /\ TamMemoria \in Nat
      BY <2>1, <2>2, Tipos DEF Acotadas, Potencias
    <3>2. b.tam <= TamMemoria
      BY <3>1
    <3> QED
      BY <1>1, <3>1, <3>2
  <2>3. CASE b \notin libres
    <3>1. PICK i \in DOMAIN mensajes : b.ini = mensajes[i].ini /\ b.tam = mensajes[i].largo
      BY <2>3 DEF Bloques
    <3>2. b.ini \in Nat /\ b.tam \in Nat /\ b.ini + b.tam <= TamMemoria /\ EsBloque(b.ini, b.tam)
          /\ TamMemoria \in Nat
      BY <2>1, <3>1, Tipos DEF Acotadas, Potencias
    <3>3. b.tam <= TamMemoria
      BY <3>2
    <3> QED
      BY <1>1, <3>2, <3>3
  <2> QED
    BY <2>2, <2>3
<1> QED
  BY <1>2, SiempreIInv, PTL

-----------------------------------------------------------------------------
(* No cell is lost.                                                        *)

(* The halves of a block and what is left of it cover the block. *)
LEMMA TrozosCubren ==
  ASSUME NEW ini \in Nat, NEW j \in Nat, NEW e \in Nat, e <= j,
         NEW c \in Int, ini + 2^e <= c, c < ini + 2^j
  PROVE  \E t \in Trozos(ini, e, j) : c \in CeldasLibre(t)
<1> DEFINE S == {i \in Nat : c < ini + 2^i}
<1>1. j \in S
  OBVIOUS
<1>2. PICK i \in S : \A y \in S : i <= y
  <2>1. S \in SUBSET Nat /\ S # {}
    BY <1>1
  <2> HIDE DEF S
  <2> QED
    BY <2>1, MinimoNat
<1>3. i \in Nat /\ c < ini + 2^i /\ i <= j
  BY <1>1, <1>2
<1>4. e < i
  <2>1. 2^e < 2^i
    <3> DEFINE x == 2^e
               y == 2^i
    <3>1. x \in Nat /\ y \in Nat /\ ini + x <= c /\ c < ini + y
      BY <1>3, PotTipo
    <3> HIDE DEF x, y
    <3>2. x < y
      BY <3>1
    <3> QED
      BY <3>2 DEF x, y
  <2> QED
    BY <1>3, <2>1, PotOrden
<1> DEFINE l == i - 1
           x == 2^l
<1>5. l \in Nat /\ l \in e..(j - 1) /\ l + 1 = i
  BY <1>3, <1>4
<1>6. x \in Nat /\ 2^i = 2 * x
  <2> HIDE DEF l
  <2>1. 2^(l + 1) = 2 * 2^l
    BY <1>5, PotSuc
  <2> QED
    BY <1>5, <2>1, PotTipo
<1>7. ini + x <= c
  <2>1. l \notin S
    BY <1>2, <1>5
  <2>2. ~(c < ini + x)
    BY <1>5, <2>1
  <2> HIDE DEF x
  <2> QED
    BY <1>6, <2>2
<1>8. [ini |-> ini + x, tam |-> x] \in Trozos(ini, e, j)
  BY <1>5 DEF Trozos
<1>9. c \in CeldasLibre([ini |-> ini + x, tam |-> x])
  <2> HIDE DEF x
  <2> QED
    BY <1>3, <1>6, <1>7 DEF CeldasLibre
<1> QED
  BY <1>8, <1>9

LEMMA GuardarHuecos == IInv /\ SinHuecos /\ Guardar => SinHuecos'
<1> SUFFICES ASSUME IInv, SinHuecos, Guardar, NEW c \in Celdas
             PROVE  \/ \E g \in libres' : c \in CeldasLibre(g)
                    \/ \E i \in DOMAIN mensajes' : c \in CeldasMensaje(mensajes'[i])
  BY DEF SinHuecos, CeldasLibre, CeldasMensaje
<1>1. PICK f \in libres : \E j, e, q \in Nat : Toma(f, j, e, q)
  BY GuardarEfecto
<1>2. PICK j, e, q \in Nat : Toma(f, j, e, q)
  BY <1>1
<1> DEFINE m == NuevoMensaje(f.ini, 2^e)
           n == Len(mensajes)
           x == 2^e
<1>3. /\ f.ini \in Nat /\ f.tam \in Nat /\ f.tam = 2^j
      /\ x \in Nat /\ n \in Nat /\ DOMAIN mensajes = 1..n /\ DOMAIN mensajes' = 1..(n + 1)
      /\ \A i \in DOMAIN mensajes : mensajes'[i] = mensajes[i]
      /\ mensajes'[n + 1] = m
  BY <1>2, TomaForma
<1>4. m.ini = f.ini /\ m.largo = x
  BY DEF NuevoMensaje
<1>5. c \in Int
  BY ConstantesAssumption DEF Celdas
<1> HIDE DEF m, n
<1>6. CASE \E i \in DOMAIN mensajes : c \in CeldasMensaje(mensajes[i])
  <2>1. PICK i \in DOMAIN mensajes : c \in CeldasMensaje(mensajes[i])
    BY <1>6
  <2>2. i \in DOMAIN mensajes' /\ mensajes'[i] = mensajes[i]
    BY <1>3
  <2> QED
    BY <2>1, <2>2
<1>7. CASE \E g \in libres : c \in CeldasLibre(g)
  <2>1. PICK g \in libres : c \in CeldasLibre(g)
    BY <1>7
  <2>2. CASE g # f
    BY <1>2, <2>1, <2>2 DEF Toma
  <2>3. CASE g = f /\ c < f.ini + x
    <3>1. c \in CeldasMensaje(m)
      <4> HIDE DEF x
      <4> QED
        BY <1>3, <1>4, <1>5, <2>1, <2>3 DEF CeldasLibre, CeldasMensaje
    <3>2. n + 1 \in DOMAIN mensajes'
      BY <1>3
    <3> QED
      BY <1>3, <3>1, <3>2
  <2>4. CASE g = f /\ ~(c < f.ini + x)
    <3>1. f.ini <= c /\ c < f.ini + f.tam
      BY <1>3, <1>5, <2>1, <2>4 DEF CeldasLibre
    <3>2. f.ini + x <= c
      <4> HIDE DEF x
      <4> QED
        BY <1>3, <1>5, <2>4
    <3>3. e <= j
      BY <1>2 DEF Toma
    <3>4. \E t \in Trozos(f.ini, e, j) : c \in CeldasLibre(t)
      BY <1>3, <1>5, <3>1, <3>2, <3>3, TrozosCubren
    <3> QED
      BY <1>2, <3>4 DEF Toma
  <2> QED
    BY <2>2, <2>3, <2>4
<1> QED
  BY <1>6, <1>7 DEF SinHuecos

LEMMA EliminarHuecos == IInv /\ SinHuecos /\ Eliminar => SinHuecos'
<1> SUFFICES ASSUME IInv, SinHuecos, Eliminar, NEW c \in Celdas
             PROVE  \/ \E g \in libres' : c \in CeldasLibre(g)
                    \/ \E i \in DOMAIN mensajes' : c \in CeldasMensaje(mensajes'[i])
  BY DEF SinHuecos, CeldasLibre, CeldasMensaje
<1>1. PICK k \in DOMAIN mensajes :
        /\ libres' = libres \cup {Bloque(mensajes[k])}
        /\ DOMAIN mensajes' = 1..(Len(mensajes) - 1)
        /\ \A j \in DOMAIN mensajes' :
             mensajes'[j] = IF j < k THEN mensajes[j] ELSE mensajes[j + 1]
  BY EliminarEfecto
<1>2. Len(mensajes) \in Nat /\ DOMAIN mensajes = 1..Len(mensajes)
  BY Tipos DEF IInv
<1>3. CASE \E g \in libres : c \in CeldasLibre(g)
  BY <1>1, <1>3
<1>4. CASE c \in CeldasMensaje(mensajes[k])
  <2>1. CeldasLibre(Bloque(mensajes[k])) = CeldasMensaje(mensajes[k])
    BY DEF CeldasMensaje, CeldasLibre, Bloque
  <2> QED
    BY <1>1, <1>4, <2>1
<1>5. ASSUME NEW i \in DOMAIN mensajes, i # k, c \in CeldasMensaje(mensajes[i])
      PROVE  \E j \in DOMAIN mensajes' : c \in CeldasMensaje(mensajes'[j])
  <2>1. CASE i < k
    <3>1. i \in DOMAIN mensajes' /\ mensajes'[i] = mensajes[i]
      BY <1>1, <1>2, <2>1
    <3> QED
      BY <1>5, <3>1
  <2>2. CASE ~(i < k)
    <3>1. i - 1 \in DOMAIN mensajes' /\ ~(i - 1 < k) /\ (i - 1) + 1 = i
      BY <1>1, <1>2, <1>5, <2>2
    <3>2. mensajes'[i - 1] = mensajes[i]
      BY <1>1, <3>1
    <3> QED
      BY <1>5, <3>1, <3>2
  <2> QED
    BY <2>1, <2>2
<1> QED
  BY <1>3, <1>4, <1>5 DEF SinHuecos

LEMMA FusionarHuecos == IInv /\ SinHuecos /\ Fusionar => SinHuecos'
<1> SUFFICES ASSUME IInv, SinHuecos, Fusionar, NEW d \in Celdas
             PROVE  \/ \E g \in libres' : d \in CeldasLibre(g)
                    \/ \E i \in DOMAIN mensajes' : d \in CeldasMensaje(mensajes'[i])
  BY DEF SinHuecos, CeldasLibre, CeldasMensaje
<1>1. PICK p \in libres : p = fusionada
  BY DEF IInv, Fusion, Fusionar
<1>2. PICK c \in libres : \E u \in Particion :
        /\ \/ c.ini + c.tam = p.ini /\ u.ini = c.ini
           \/ p.ini + p.tam = c.ini /\ u.ini = p.ini
        /\ u.tam = p.tam + c.tam
        /\ libres' = (libres \ {p, c}) \cup {u}
  BY <1>1, FusionarEfecto
<1>3. PICK u \in Particion :
        /\ \/ c.ini + c.tam = p.ini /\ u.ini = c.ini
           \/ p.ini + p.tam = c.ini /\ u.ini = p.ini
        /\ u.tam = p.tam + c.tam
        /\ libres' = (libres \ {p, c}) \cup {u}
  BY <1>2
<1>4. p.ini \in Nat /\ p.tam \in Nat /\ c.ini \in Nat /\ c.tam \in Nat
  BY Tipos DEF IInv
<1>5. mensajes' = mensajes
  BY DEF Fusionar
<1>6. d \in Int
  BY ConstantesAssumption DEF Celdas
<1>7. ASSUME d \in CeldasLibre(p) \/ d \in CeldasLibre(c) PROVE d \in CeldasLibre(u)
  BY <1>3, <1>4, <1>6, <1>7 DEF CeldasLibre
<1>8. CASE \E g \in libres : d \in CeldasLibre(g)
  BY <1>3, <1>7, <1>8
<1> QED
  BY <1>5, <1>8 DEF SinHuecos

(* The blocks tile the memory, also in the middle of a merge: a store      *)
(* never lands on a live message, and no cell is lost by halving and       *)
(* merging (memoria.c:105-172, 465-540).                                   *)
THEOREM SiempreTeselado == Spec => []Teselado
<1>1. Init => SinHuecos
  <2> SUFFICES ASSUME Init, NEW c \in Celdas
               PROVE  \E f \in libres : c \in f.ini .. (f.ini + f.tam - 1)
    BY DEF SinHuecos, CeldasLibre
  <2>1. [ini |-> 0, tam |-> TamMemoria] \in libres
    BY DEF Init, InitMemoria
  <2> QED
    BY <2>1, ConstantesAssumption DEF Celdas
<1>2. IInv /\ SinHuecos /\ [Next]_vars => SinHuecos'
  <2> SUFFICES ASSUME IInv, SinHuecos, [Next]_vars PROVE SinHuecos'
    OBVIOUS
  <2>1. CASE BloquesQuietos \/ UNCHANGED vars
    <3>1. UNCHANGED <<libres, mensajes>>
      BY <2>1, QuietoIInv DEF vars
    <3> QED
      BY <3>1 DEF SinHuecos
  <2>2. CASE Guardar
    BY <2>2, GuardarHuecos
  <2>3. CASE Eliminar
    BY <2>3, EliminarHuecos
  <2>4. CASE Fusionar
    BY <2>4, FusionarHuecos
  <2>5. CASE Reenviar
    <3>1. libres' = libres
      BY <2>5 DEF Reenviar, RefrescarUsados
    <3>2. TypeOK
      BY DEF IInv
    <3> QED
      BY <2>5, <3>1, <3>2, ReenviarMensajes DEF SinHuecos, CeldasMensaje
  <2> QED
    BY <2>1, <2>2, <2>3, <2>4, <2>5 DEF Next, Hilo, BloquesQuietos
<1>3. IInv /\ SinHuecos => Teselado
  BY DEF IInv, Teselado
<1> QED
  BY <1>1, <1>2, <1>3, SiempreIInv, PTL DEF Spec

-----------------------------------------------------------------------------
(* Free companions are merged.                                             *)

Companieros(f, g) == f.tam = g.tam /\ g.ini = f.ini + f.tam /\ f.ini % (2 * f.tam) = 0

(* Of two free companions, one is the block being merged. *)
SoloElQueCrece ==
  \A f, g \in libres :
    Companieros(f, g) => pc = "fusionar" /\ (f = fusionada \/ g = fusionada)

(* The companion of a block is on its right when it starts at an even      *)
(* multiple of its size.                                                   *)
LEMMA ParEsPar ==
  ASSUME NEW k \in Nat, NEW q \in Nat
  PROVE  (q * 2^k) % (2 * 2^k) = 0 <=> q % 2 = 0
<1> DEFINE x == 2^k
<1>1. x \in Nat /\ x >= 1
  BY PotOrden
<1> HIDE DEF x
<1>2. CASE q % 2 = 0
  <2>1. PICK r \in Nat : q = 2 * r
    BY <1>2, Paridad
  <2>2. q * x = r * (2 * x)
    BY <1>1, <2>1
  <2>3. 2 * x \in Nat /\ 2 * x >= 1
    BY <1>1
  <2>4. (r * (2 * x)) % (2 * x) = 0
    BY <2>3, Dividir
  <2> QED
    BY <1>2, <2>2, <2>4 DEF x
<1>3. CASE q % 2 # 0
  <2>1. PICK r \in Nat : q = 2 * r + 1
    BY <1>3, Paridad
  <2> DEFINE y == 2 * x
  <2>2. q * x = y * r + x /\ y \in Nat /\ y >= 1 /\ x < y
    BY <1>1, <2>1
  <2> HIDE DEF y
  <2>3. (y * r + x) % y = x
    BY <1>1, <2>2
  <2>4. (q * x) % y # 0
    BY <1>1, <2>2, <2>3
  <2> QED
    BY <1>3, <2>4 DEF x, y
<1> QED
  BY <1>2, <1>3

LEMMA GuardarCompanieros == IInv /\ SoloElQueCrece /\ Guardar => SoloElQueCrece'
<1> SUFFICES ASSUME IInv, SoloElQueCrece, Guardar,
                    NEW a \in libres', NEW b \in libres', Companieros(a, b)
             PROVE  FALSE
  BY DEF SoloElQueCrece
<1>1. PICK f \in libres : \E j, e, q \in Nat : Toma(f, j, e, q)
  BY GuardarEfecto
<1>2. PICK j, e, q \in Nat : Toma(f, j, e, q)
  BY <1>1
<1>3. /\ f.ini \in Nat /\ f.tam \in Nat /\ f.tam = 2^j /\ f.ini = q * 2^j /\ e <= j
      /\ 2^e \in Nat /\ 2^e >= 1
  BY <1>2, TomaForma DEF Toma
<1>4. /\ a.tam = b.tam /\ b.ini = a.ini + a.tam /\ a.ini % (2 * a.tam) = 0
  BY DEF Companieros
<1>5. ASSUME NEW g \in libres'
      PROVE  /\ g.ini \in Nat /\ g.tam \in Nat /\ g.tam >= 1
             /\ \/ /\ g \in libres /\ g # f
                   /\ g.ini + g.tam <= f.ini \/ f.ini + f.tam <= g.ini
                \/ /\ g \in Trozos(f.ini, e, j)
                   /\ f.ini + 2^e <= g.ini /\ g.ini + g.tam <= f.ini + f.tam
  BY <1>2, TomaLibres
<1>6. CASE a \in libres /\ b \in libres
  BY <1>6 DEF SoloElQueCrece, Companieros, Guardar
<1>7. CASE a \in Trozos(f.ini, e, j)
  <2>1. PICK i \in e..(j - 1) : a.ini = f.ini + 2^i /\ a.tam = 2^i
    BY <1>7 DEF Trozos
  <2>2. i \in Nat /\ i + 1 \in 0..j /\ i + 1 \in Nat /\ j \in Nat
    BY <1>3
  <2> DEFINE d == 2^(j - (i + 1))
             x == 2^i
             z == 2^j
  <2>3. d \in Nat /\ x \in Nat /\ z = d * (2 * x)
    <3>1. 2^j = 2^(j - (i + 1)) * 2^(i + 1)
      BY <2>2, PotDividir
    <3>2. 2^(i + 1) = 2 * 2^i
      BY <2>2, PotSuc
    <3>3. j - (i + 1) \in Nat
      BY <2>2
    <3> QED
      BY <2>2, <3>1, <3>2, <3>3, PotTipo
  <2>4. a.ini = (2 * (q * d) + 1) * x
    <3>1. a.ini = q * z + x
      BY <1>3, <2>1
    <3> HIDE DEF d, x, z
    <3>2. q * z = (2 * (q * d)) * x
      BY <2>3
    <3> QED
      BY <2>3, <3>1, <3>2
  <2> DEFINE r == 2 * (q * d) + 1
  <2>5. r \in Nat /\ r % 2 = 1
    <3> DEFINE s == q * d
    <3>1. s \in Nat
      BY <2>3
    <3> HIDE DEF s
    <3>2. 2 * s + 1 \in Nat /\ (2 * s + 1) % 2 = 1
      BY <3>1
    <3> QED
      BY <3>2 DEF s
  <2> HIDE DEF r
  <2>6. (r * 2^i) % (2 * 2^i) # 0
    <3>1. (r * 2^i) % (2 * 2^i) = 0 <=> r % 2 = 0
      BY <2>2, <2>5, ParEsPar
    <3> QED
      BY <2>5, <3>1
  <2>7. a.ini = r * 2^i
    BY <2>4 DEF r
  <2> QED
    BY <1>4, <2>1, <2>6, <2>7
<1>8. CASE b \in Trozos(f.ini, e, j) /\ a \in libres /\ a # f
  <2>1. PICK i \in e..(j - 1) : b.ini = f.ini + 2^i /\ b.tam = 2^i
    BY <1>8 DEF Trozos
  <2>2. a.ini = f.ini
    BY <1>3, <1>4, <1>5, <2>1
  <2>3. \/ a.ini + a.tam <= f.ini \/ f.ini + f.tam <= a.ini
    BY <1>8 DEF IInv, SinSolapamiento, LibresDisjuntas
  <2>4. a.tam \in Nat /\ a.tam >= 1
    BY <1>5
  <2>5. f.tam >= 1
    BY Tipos DEF IInv
  <2> QED
    BY <1>3, <2>2, <2>3, <2>4, <2>5
<1> QED
  BY <1>5, <1>6, <1>7, <1>8

LEMMA FinFusionarCompanieros == IInv /\ SoloElQueCrece /\ FinFusionar => SoloElQueCrece'
<1> SUFFICES ASSUME IInv, SoloElQueCrece, FinFusionar,
                    NEW a \in libres, NEW b \in libres, Companieros(a, b)
             PROVE  FALSE
  BY DEF SoloElQueCrece, FinFusionar
<1>1. PICK p \in libres : p = fusionada
  BY DEF IInv, Fusion, FinFusionar
<1>2. Companiero(p) = {} /\ (a = p \/ b = p)
  BY <1>1 DEF FinFusionar, SoloElQueCrece
<1>3. /\ a.tam = b.tam /\ b.ini = a.ini + a.tam /\ a.ini % (2 * a.tam) = 0
      /\ a.ini \in Nat /\ a.tam \in Nat /\ b.ini \in Nat
  BY Tipos DEF Companieros, IInv
<1>4. PICK k, q \in Nat : k >= 1 /\ a.tam = 2^k /\ a.ini = q * a.tam
  BY DEF IInv, Potencias, EsBloque
<1>5. q % 2 = 0
  BY <1>3, <1>4, ParEsPar
<1>6. CASE a = p
  <2>1. Companiero(a) = {f \in libres : /\ f.ini = IF q % 2 = 1 THEN a.ini - a.tam ELSE a.ini + a.tam
                                        /\ f.tam = a.tam}
    BY <1>4, CompanieroEs
  <2>2. b \in Companiero(a)
    BY <1>3, <1>5, <2>1
  <2> QED
    BY <1>2, <1>6, <2>2
<1>7. CASE b = p
  <2>1. PICK r \in Nat : r = q + 1
    OBVIOUS
  <2>2. b.tam = 2^k /\ b.ini = r * b.tam
    <3> DEFINE x == 2^k
    <3>1. x \in Nat /\ a.tam = x /\ a.ini = q * x
      BY <1>4, PotTipo
    <3> HIDE DEF x
    <3>2. b.tam = x /\ b.ini = (q + 1) * x
      BY <1>3, <3>1
    <3> QED
      BY <2>1, <3>2 DEF x
  <2>3. r % 2 = 1
    BY <1>5, <2>1
  <2>4. Companiero(b) = {f \in libres : /\ f.ini = IF r % 2 = 1 THEN b.ini - b.tam ELSE b.ini + b.tam
                                        /\ f.tam = b.tam}
    <3>1. k \in Nat /\ r \in Nat
      BY <1>4
    <3>2. ASSUME NEW z, z.tam = 2^k, z.ini = r * z.tam
          PROVE  Companiero(z) = {f \in libres : /\ f.ini = IF r % 2 = 1 THEN z.ini - z.tam ELSE z.ini + z.tam
                                                 /\ f.tam = z.tam}
      BY <3>1, <3>2, CompanieroEs, ZenonT(40)
    <3> QED
      BY <2>2, <3>2, Zenon
  <2>5. a.ini = b.ini - b.tam /\ a.tam = b.tam
    BY <1>3
  <2>6. a \in Companiero(b)
    BY <2>3, <2>4, <2>5
  <2> QED
    BY <1>2, <1>7, <2>6
<1> QED
  BY <1>2, <1>6, <1>7

LEMMA PasoSoloElQueCrece == IInv /\ SoloElQueCrece /\ [Next]_vars => SoloElQueCrece'
<1> SUFFICES ASSUME IInv, SoloElQueCrece, [Next]_vars PROVE SoloElQueCrece'
  OBVIOUS
<1>1. CASE Guardar
  BY <1>1, GuardarCompanieros
<1>2. CASE FinFusionar
  BY <1>2, FinFusionarCompanieros
<1>3. CASE Eliminar
  <2>1. /\ pc = "eliminar" /\ pc' = "fusionar" /\ libres' = libres \cup {fusionada'}
    BY <1>3 DEF Eliminar
  <2>2. \A f, g \in libres : ~Companieros(f, g)
    BY <2>1 DEF SoloElQueCrece
  <2> QED
    BY <2>1, <2>2 DEF SoloElQueCrece
<1>4. CASE Fusionar
  <2>1. pc = "fusionar" /\ pc' = "fusionar"
    BY <1>4 DEF Fusionar
  <2>2. PICK c \in libres : libres' = (libres \ {fusionada, c}) \cup {fusionada'}
    BY <1>4, FusionarEfecto
  <2> QED
    BY <2>1, <2>2 DEF SoloElQueCrece
<1>5. CASE Pedir \/ NoEncontrar \/ EliminarSinMensajes
  <2>1. libres' = libres /\ pc # "fusionar"
    BY <1>5 DEF Pedir, NoEncontrar, EliminarSinMensajes, memoria
  <2> QED
    BY <2>1 DEF SoloElQueCrece
<1>6. CASE Tictac \/ Reenviar \/ UNCHANGED vars
  <2>1. UNCHANGED <<libres, pc, fusionada>>
    BY <1>6 DEF Tictac, AvanzarReloj, Reenviar, RefrescarUsados, vars, memoria
  <2> QED
    BY <2>1 DEF SoloElQueCrece
<1> QED
  BY <1>1, <1>2, <1>3, <1>4, <1>5, <1>6 DEF Next, Hilo

LEMMA SiempreSoloElQueCrece == Spec => []SoloElQueCrece
<1>1. Init => SoloElQueCrece
  <2> SUFFICES ASSUME Init, NEW f \in libres, NEW g \in libres, Companieros(f, g) PROVE FALSE
    BY DEF SoloElQueCrece
  <2>1. f = g /\ f.tam = TamMemoria /\ f.ini = 0
    BY DEF Init, InitMemoria
  <2> QED
    BY <2>1, ConstantesAssumption DEF Companieros
<1> QED
  BY <1>1, PasoSoloElQueCrece, SiempreIInv, PTL DEF Spec

(* Once a merge is over no two free companions are apart, whatever halving *)
(* and merging came before: the loop of consolidar_buddy_system stops only *)
(* where nothing is left to merge (memoria.c:105-172).                     *)
THEOREM NingunCompanieroLibre == Spec => []SinCompanierosLibres
<1>1. SoloElQueCrece => SinCompanierosLibres
  BY DEF SoloElQueCrece, SinCompanierosLibres, Companieros
<1> QED
  BY <1>1, SiempreSoloElQueCrece, PTL

-----------------------------------------------------------------------------
(* The bytes.                                                              *)

MensajesEnteros ==
  \A i \in DOMAIN mensajes :
    \A c \in mensajes[i].ini .. (mensajes[i].ini + mensajes[i].bytes - 1) :
      cache[c] = mensajes[i].dato

(* During a merge the cells of the evicted message still hold its bytes. *)
LibresLimpias ==
  \A f \in libres : \A c \in CeldasLibre(f) :
    cache[c] = Vacio \/ (pc = "fusionar" /\ c \in CeldasMensaje(borrado))

LEMMA GuardarCache ==
  IInv /\ MensajesEnteros /\ LibresLimpias /\ Guardar => MensajesEnteros' /\ LibresLimpias'
<1> SUFFICES ASSUME IInv, MensajesEnteros, LibresLimpias, Guardar
             PROVE  MensajesEnteros' /\ LibresLimpias'
  OBVIOUS
<1>1. PICK f \in libres : \E j, e, q \in Nat : Toma(f, j, e, q)
  BY GuardarEfecto
<1>2. PICK j, e, q \in Nat : Toma(f, j, e, q)
  BY <1>1
<1> DEFINE m == NuevoMensaje(f.ini, 2^e)
           n == Len(mensajes)
           x == 2^e
<1>3. /\ f.ini \in Nat /\ f.tam \in Nat /\ f.tam = 2^j /\ f.ini + f.tam <= TamMemoria
      /\ TamMemoria \in Nat
      /\ x \in Nat /\ x >= 1 /\ x <= f.tam
      /\ pedido.bytes \in Nat /\ pedido.bytes <= x
      /\ n \in Nat /\ DOMAIN mensajes = 1..n /\ DOMAIN mensajes' = 1..(n + 1)
      /\ \A i \in DOMAIN mensajes : mensajes'[i] = mensajes[i]
      /\ mensajes'[n + 1] = m
      /\ \A i \in DOMAIN mensajes' : i \in DOMAIN mensajes \/ i = n + 1
  BY <1>2, TomaForma
<1>4. m.ini = f.ini /\ m.bytes = pedido.bytes /\ m.dato = pedido.dato
  BY DEF NuevoMensaje
<1> HIDE DEF m, n
<1>5. ASSUME NEW t \in Trozos(f.ini, e, j)
      PROVE  t.ini \in Nat /\ t.tam \in Nat /\ f.ini + x <= t.ini /\ t.ini + t.tam <= f.ini + f.tam
  BY <1>2, <1>3, TrozosOrdenados DEF Toma
<1> HIDE DEF x
<1>6. ASSUME NEW c \in Celdas
      PROVE  cache'[c] = IF c \in f.ini .. (f.ini + pedido.bytes - 1) THEN pedido.dato
                         ELSE IF \E h \in Trozos(f.ini, e, j) : c \in CeldasLibre(h) THEN Vacio
                         ELSE cache[c]
  BY <1>2 DEF Toma, Escribir
<1>7. ASSUME NEW c \in Celdas, c < f.ini \/ f.ini + f.tam <= c
      PROVE  cache'[c] = cache[c]
  <2>1. c \in Int
    BY <1>3 DEF Celdas
  <2>2. c \notin f.ini .. (f.ini + pedido.bytes - 1)
    BY <1>3, <1>7, <2>1
  <2>3. ASSUME NEW h \in Trozos(f.ini, e, j), c \in CeldasLibre(h) PROVE FALSE
    <3>1. h.ini \in Nat /\ h.tam \in Nat /\ f.ini + x <= h.ini /\ h.ini + h.tam <= f.ini + f.tam
      BY <1>5
    <3>2. h.ini <= c /\ c < h.ini + h.tam
      BY <2>1, <2>3, <3>1 DEF CeldasLibre
    <3>3. f.ini \in Nat /\ f.tam \in Nat /\ x \in Nat
      BY <1>3
    <3> QED
      BY <1>7, <2>1, <3>1, <3>2, <3>3
  <2> QED
    BY <1>6, <2>2, <2>3
<1>8. ASSUME NEW i \in DOMAIN mensajes',
             NEW c \in mensajes'[i].ini .. (mensajes'[i].ini + mensajes'[i].bytes - 1)
      PROVE  cache'[c] = mensajes'[i].dato
  <2>1. CASE i \in DOMAIN mensajes
    <3>1. mensajes'[i] = mensajes[i] /\ c \in mensajes[i].ini .. (mensajes[i].ini + mensajes[i].bytes - 1)
      BY <1>3, <1>8, <2>1
    <3>2. /\ mensajes[i].ini \in Nat /\ mensajes[i].largo \in Nat /\ mensajes[i].bytes \in Nat
          /\ mensajes[i].bytes <= mensajes[i].largo
          /\ mensajes[i].ini + mensajes[i].largo <= TamMemoria
          /\ f.ini + f.tam <= mensajes[i].ini \/ mensajes[i].ini + mensajes[i].largo <= f.ini
      BY <2>1, Tipos DEF IInv, Acotadas, SinSolapamiento, LibresSinMensajes
    <3>3. c \in Celdas /\ (c < f.ini \/ f.ini + f.tam <= c)
      <4>1. f.ini \in Nat /\ f.tam \in Nat /\ TamMemoria \in Nat
        BY <1>3
      <4>2. /\ c \in Int /\ mensajes[i].ini <= c
            /\ c < mensajes[i].ini + mensajes[i].largo
        BY <3>1, <3>2
      <4>3. c \in Celdas
        BY <3>2, <4>1, <4>2 DEF Celdas
      <4> QED
        BY <3>2, <4>1, <4>2, <4>3
    <3> QED
      BY <1>7, <2>1, <3>1, <3>3 DEF MensajesEnteros
  <2>2. CASE i = n + 1
    <3>1. c \in f.ini .. (f.ini + pedido.bytes - 1) /\ mensajes'[i].dato = pedido.dato
      BY <1>3, <1>4, <1>8, <2>2
    <3>2. /\ f.ini \in Nat /\ f.tam \in Nat /\ pedido.bytes \in Nat /\ pedido.bytes <= f.tam
          /\ f.ini + f.tam <= TamMemoria /\ TamMemoria \in Nat
      BY <1>3
    <3>3. c \in Int /\ f.ini <= c /\ c < f.ini + pedido.bytes
      BY <3>1, <3>2
    <3>4. 0 <= c /\ c < TamMemoria
      BY <3>2, <3>3
    <3>5. c \in Celdas
      BY <3>2, <3>3, <3>4 DEF Celdas
    <3> QED
      BY <1>6, <3>1, <3>5
  <2> QED
    BY <1>3, <2>1, <2>2
<1>9. ASSUME NEW g \in libres', NEW c \in CeldasLibre(g)
      PROVE  cache'[c] = Vacio
  <2>1. /\ g.ini \in Nat /\ g.tam \in Nat /\ g.ini + g.tam <= TamMemoria
        /\ \/ /\ g \in libres /\ g # f
              /\ g.ini + g.tam <= f.ini \/ f.ini + f.tam <= g.ini
           \/ /\ g \in Trozos(f.ini, e, j)
    BY <1>2, TomaLibres
  <2>2. c \in Int /\ g.ini <= c /\ c < g.ini + g.tam /\ c \in Celdas
    BY <1>3, <2>1 DEF CeldasLibre, Celdas
  <2>3. CASE g \in libres /\ g # f
    <3>1. g.ini + g.tam <= f.ini \/ f.ini + f.tam <= g.ini
      BY <2>3 DEF IInv, SinSolapamiento, LibresDisjuntas
    <3>2. c < f.ini \/ f.ini + f.tam <= c
      BY <1>3, <2>1, <2>2, <3>1
    <3>3. cache[c] = Vacio
      BY <2>3 DEF LibresLimpias, Guardar
    <3> QED
      BY <1>7, <2>2, <3>2, <3>3
  <2>4. CASE g \in Trozos(f.ini, e, j)
    <3>1. f.ini + x <= g.ini
      BY <1>5, <2>4
    <3>2. c \notin f.ini .. (f.ini + pedido.bytes - 1)
      BY <1>3, <2>1, <2>2, <3>1
    <3> QED
      BY <1>6, <2>2, <2>4, <3>2
  <2> QED
    BY <2>1, <2>3, <2>4
<1> QED
  BY <1>8, <1>9 DEF MensajesEnteros, LibresLimpias, CeldasLibre

LEMMA EliminarCache ==
  IInv /\ MensajesEnteros /\ LibresLimpias /\ Eliminar => MensajesEnteros' /\ LibresLimpias'
<1> SUFFICES ASSUME IInv, MensajesEnteros, LibresLimpias, Eliminar
             PROVE  MensajesEnteros' /\ LibresLimpias'
  OBVIOUS
<1>1. PICK k \in DOMAIN mensajes :
        /\ borrado' = mensajes[k]
        /\ libres' = libres \cup {Bloque(mensajes[k])}
        /\ DOMAIN mensajes' = 1..(Len(mensajes) - 1)
        /\ \A j \in DOMAIN mensajes' :
             mensajes'[j] = IF j < k THEN mensajes[j] ELSE mensajes[j + 1]
  BY EliminarEfecto
<1>2. cache' = cache /\ pc = "eliminar" /\ pc' = "fusionar"
  BY DEF Eliminar
<1>3. TypeOK
  BY DEF IInv
<1> DEFINE viejo(j) == IF j < k THEN j ELSE j + 1
<1>4. ASSUME NEW j \in DOMAIN mensajes'
      PROVE  viejo(j) \in DOMAIN mensajes /\ mensajes'[j] = mensajes[viejo(j)]
  BY <1>1, <1>3, QuedanOtros
<1> HIDE DEF viejo
<1>5. MensajesEnteros'
  BY <1>2, <1>4 DEF MensajesEnteros
<1>6. CeldasLibre(Bloque(mensajes[k])) = CeldasMensaje(mensajes[k])
  BY DEF CeldasMensaje, CeldasLibre, Bloque
<1>7. ASSUME NEW g \in libres', NEW c \in CeldasLibre(g)
      PROVE  cache'[c] = Vacio \/ (pc' = "fusionar" /\ c \in CeldasMensaje(borrado'))
  <2>1. CASE g \in libres
    BY <1>2, <2>1 DEF LibresLimpias
  <2>2. CASE g = Bloque(mensajes[k])
    BY <1>1, <1>2, <1>6, <2>2
  <2> QED
    BY <1>1, <2>1, <2>2
<1> QED
  BY <1>5, <1>7 DEF LibresLimpias, CeldasLibre, CeldasMensaje

LEMMA FusionarCache ==
  IInv /\ MensajesEnteros /\ LibresLimpias /\ Fusionar => MensajesEnteros' /\ LibresLimpias'
<1> SUFFICES ASSUME IInv, MensajesEnteros, LibresLimpias, Fusionar
             PROVE  MensajesEnteros' /\ LibresLimpias'
  OBVIOUS
<1>1. PICK p \in libres : p = fusionada
  BY DEF IInv, Fusion, Fusionar
<1>2. PICK c \in libres : \E u \in Particion :
        /\ \/ c.ini + c.tam = p.ini /\ u.ini = c.ini
           \/ p.ini + p.tam = c.ini /\ u.ini = p.ini
        /\ u.tam = p.tam + c.tam
        /\ libres' = (libres \ {p, c}) \cup {u}
  BY <1>1, FusionarEfecto
<1>3. PICK u \in Particion :
        /\ \/ c.ini + c.tam = p.ini /\ u.ini = c.ini
           \/ p.ini + p.tam = c.ini /\ u.ini = p.ini
        /\ u.tam = p.tam + c.tam
        /\ libres' = (libres \ {p, c}) \cup {u}
  BY <1>2
<1>4. p.ini \in Nat /\ p.tam \in Nat /\ c.ini \in Nat /\ c.tam \in Nat
  BY Tipos DEF IInv
<1>5. UNCHANGED <<mensajes, cache, pc, borrado>>
  BY DEF Fusionar
<1>6. ASSUME NEW d \in CeldasLibre(u) PROVE d \in CeldasLibre(p) \/ d \in CeldasLibre(c)
  BY <1>3, <1>4 DEF CeldasLibre
<1>7. MensajesEnteros'
  BY <1>5 DEF MensajesEnteros
<1>8. ASSUME NEW g \in libres', NEW d \in CeldasLibre(g)
      PROVE  cache[d] = Vacio \/ (pc = "fusionar" /\ d \in CeldasMensaje(borrado))
  <2>1. CASE g \in libres
    BY <2>1 DEF LibresLimpias
  <2>2. CASE g = u
    BY <1>6, <2>2 DEF LibresLimpias
  <2> QED
    BY <1>3, <2>1, <2>2
<1> QED
  BY <1>5, <1>7, <1>8 DEF LibresLimpias, CeldasLibre, CeldasMensaje

LEMMA FinFusionarCache ==
  IInv /\ MensajesEnteros /\ LibresLimpias /\ FinFusionar => MensajesEnteros' /\ LibresLimpias'
<1> SUFFICES ASSUME IInv, MensajesEnteros, LibresLimpias, FinFusionar
             PROVE  MensajesEnteros' /\ LibresLimpias'
  OBVIOUS
<1>1. PICK p \in libres : p = fusionada
  BY DEF IInv, Fusion, FinFusionar
<1>2. PICK b \in Mensaje : b = borrado
  BY DEF IInv, Fusion, FinFusionar
<1>3. /\ p.ini \in Nat /\ p.tam \in Nat /\ b.ini \in Nat /\ b.largo \in Nat
      /\ p.ini <= b.ini /\ b.ini + b.largo <= p.ini + p.tam
      /\ TamMemoria \in Nat
  <2>1. p.ini <= b.ini /\ b.ini + b.largo <= p.ini + p.tam
    BY <1>1, <1>2 DEF IInv, Fusion, FinFusionar
  <2> QED
    BY <2>1, Tipos, MensajeTipado DEF IInv
<1>4. /\ libres' = libres /\ mensajes' = mensajes
      /\ cache' = [c \in Celdas |-> IF c \in CeldasMensaje(b) THEN Vacio ELSE cache[c]]
  BY <1>2 DEF FinFusionar
<1>5. ASSUME NEW i \in DOMAIN mensajes,
             NEW c \in mensajes[i].ini .. (mensajes[i].ini + mensajes[i].bytes - 1)
      PROVE  cache'[c] = mensajes[i].dato
  <2>1. /\ mensajes[i].ini \in Nat /\ mensajes[i].largo \in Nat /\ mensajes[i].bytes \in Nat
        /\ mensajes[i].bytes <= mensajes[i].largo
        /\ mensajes[i].ini + mensajes[i].largo <= TamMemoria
        /\ p.ini + p.tam <= mensajes[i].ini \/ mensajes[i].ini + mensajes[i].largo <= p.ini
    BY Tipos DEF IInv, Acotadas, SinSolapamiento, LibresSinMensajes
  <2>2. c \in Celdas /\ c \notin CeldasMensaje(b)
    BY <1>3, <2>1 DEF Celdas, CeldasMensaje
  <2> QED
    BY <1>4, <2>2 DEF MensajesEnteros
<1>6. ASSUME NEW g \in libres, NEW c \in CeldasLibre(g) PROVE cache'[c] = Vacio
  <2>1. g.ini \in Nat /\ g.tam \in Nat /\ g.ini + g.tam <= TamMemoria
    BY Tipos DEF IInv, Acotadas
  <2>2. c \in Celdas
    BY <1>3, <2>1 DEF Celdas, CeldasLibre
  <2>3. cache[c] = Vacio \/ c \in CeldasMensaje(b)
    BY <1>2 DEF LibresLimpias
  <2> QED
    BY <1>4, <2>2, <2>3
<1> QED
  BY <1>4, <1>5, <1>6 DEF MensajesEnteros, LibresLimpias, CeldasLibre

LEMMA PasoCache ==
  IInv /\ MensajesEnteros /\ LibresLimpias /\ [Next]_vars => MensajesEnteros' /\ LibresLimpias'
<1> SUFFICES ASSUME IInv, MensajesEnteros, LibresLimpias, [Next]_vars
             PROVE  MensajesEnteros' /\ LibresLimpias'
  OBVIOUS
<1>1. CASE Guardar
  BY <1>1, GuardarCache
<1>2. CASE Eliminar
  BY <1>2, EliminarCache
<1>3. CASE Fusionar
  BY <1>3, FusionarCache
<1>4. CASE FinFusionar
  BY <1>4, FinFusionarCache
<1>5. CASE Pedir \/ NoEncontrar \/ EliminarSinMensajes
  <2>1. UNCHANGED <<libres, mensajes, cache>> /\ pc # "fusionar"
    BY <1>5 DEF Pedir, NoEncontrar, EliminarSinMensajes, memoria
  <2> QED
    BY <2>1 DEF MensajesEnteros, LibresLimpias
<1>6. CASE Tictac \/ UNCHANGED vars
  <2>1. UNCHANGED <<libres, mensajes, cache, pc, borrado>>
    BY <1>6 DEF Tictac, AvanzarReloj, vars, memoria
  <2> QED
    BY <2>1 DEF MensajesEnteros, LibresLimpias, CeldasLibre, CeldasMensaje
<1>7. CASE Reenviar
  <2>1. UNCHANGED <<libres, cache, pc, borrado>>
    BY <1>7 DEF Reenviar, RefrescarUsados
  <2>2. TypeOK
    BY DEF IInv
  <2>3. MensajesEnteros'
    BY <1>7, <2>1, <2>2, ReenviarMensajes DEF MensajesEnteros
  <2> QED
    BY <2>1, <2>3 DEF LibresLimpias, CeldasLibre, CeldasMensaje
<1> QED
  BY <1>1, <1>2, <1>3, <1>4, <1>5, <1>6, <1>7 DEF Next, Hilo

LEMMA SiempreCache == Spec => [](MensajesEnteros /\ LibresLimpias)
<1>1. Init => MensajesEnteros /\ LibresLimpias
  <2> SUFFICES ASSUME Init PROVE MensajesEnteros /\ LibresLimpias
    OBVIOUS
  <2>1. mensajes = <<>> /\ libres = {[ini |-> 0, tam |-> TamMemoria]} /\ cache = [c \in Celdas |-> Vacio]
    BY DEF Init, InitMemoria
  <2>2. CeldasLibre([ini |-> 0, tam |-> TamMemoria]) = Celdas
    BY ConstantesAssumption DEF CeldasLibre, Celdas
  <2> QED
    BY <2>1, <2>2 DEF MensajesEnteros, LibresLimpias
<1> QED
  BY <1>1, PasoCache, SiempreIInv, PTL DEF Spec

(* Outside a merge the bytes of every stored message are its own and the   *)
(* free cells read '_' (memoria.c:105-172, 465-540).                       *)
THEOREM ContenidoIntactoAlBuscar == Spec => []CacheFielAlBuscar
<1>1. MensajesEnteros /\ LibresLimpias => CacheFielAlBuscar
  BY DEF MensajesEnteros, LibresLimpias, CacheFielAlBuscar, CacheFiel
<1> QED
  BY <1>1, SiempreCache, PTL
-----------------------------------------------------------------------------
(* The buddy system implements BrokerCache: halvings and merges are        *)
(* stutters, also while the bytes of an evicted message are still there.   *)

Ocioso == pc = "inactivo" => pedido = Nadie

LEMMA PasoOcioso == Ocioso /\ [Next]_vars => Ocioso'
<1> SUFFICES ASSUME Ocioso, [Next]_vars PROVE Ocioso'
  OBVIOUS
<1>1. CASE Pedir \/ Hilo
  BY <1>1 DEF Ocioso, Hilo, Pedir, NoEncontrar, EliminarSinMensajes, Guardar, Eliminar, Fusionar, FinFusionar
<1>2. CASE Reenviar \/ Tictac \/ UNCHANGED vars
  BY <1>2 DEF Ocioso, Reenviar, RefrescarUsados, Tictac, AvanzarReloj, vars
<1> QED
  BY <1>1, <1>2 DEF Next

(* A message as BrokerCache keeps it: no partition, no size but its own. *)
Ficha(m) == [contenido |-> Contenido(m.dato, m.bytes), timestamp |-> m.timestamp]
Fichas(ms) == [i \in DOMAIN ms |-> Ficha(ms[i])]

(* Where the bytes of each message are its own, what is read is what was   *)
(* received.                                                               *)
LEMMA LoLeido ==
  ASSUME NEW ms \in Seq(Mensaje), NEW bs,
         \A i \in DOMAIN ms : \A c \in ms[i].ini .. (ms[i].ini + ms[i].bytes - 1) : bs[c] = ms[i].dato
  PROVE  [i \in DOMAIN ms |-> [contenido |-> [b \in 0..(ms[i].bytes - 1) |-> bs[ms[i].ini + b]],
                               timestamp |-> ms[i].timestamp]] = Fichas(ms)
<1> SUFFICES ASSUME NEW i \in DOMAIN ms
             PROVE  [b \in 0..(ms[i].bytes - 1) |-> bs[ms[i].ini + b]] = Contenido(ms[i].dato, ms[i].bytes)
  BY DEF Fichas, Ficha
<1>1. ms[i] \in Mensaje
  BY LenProperties
<1>2. ms[i].ini \in Nat /\ ms[i].bytes \in Nat
  BY <1>1, MensajeTipado
<1>3. ASSUME NEW b \in 0..(ms[i].bytes - 1)
      PROVE  bs[ms[i].ini + b] = ms[i].dato
  <2>1. ms[i].ini + b \in ms[i].ini .. (ms[i].ini + ms[i].bytes - 1)
    BY <1>2
  <2> QED
    BY <2>1
<1> QED
  BY <1>3 DEF Contenido

FichaDe == [m \in Mensaje |-> Ficha(m)]

LEMMA FichasSonMapa ==
  ASSUME NEW ms \in Seq(Mensaje)
  PROVE  /\ Fichas(ms) = Mapa(FichaDe, ms)
         /\ DOMAIN Fichas(ms) = DOMAIN ms
         /\ \A i \in DOMAIN ms : Fichas(ms)[i] = Ficha(ms[i])
<1>1. \A i \in DOMAIN ms : ms[i] \in Mensaje
  BY LenProperties
<1>2. \A m \in Mensaje : FichaDe[m] = Ficha(m)
  BY DEF FichaDe
<1>3. Fichas(ms) = [i \in DOMAIN ms |-> Ficha(ms[i])]
  BY DEF Fichas
<1>4. Mapa(FichaDe, ms) = [i \in DOMAIN ms |-> FichaDe[ms[i]]]
  BY DEF Mapa
<1> QED
  BY <1>1, <1>2, <1>3, <1>4

LEMMA FichasAgregada ==
  ASSUME NEW ms \in Seq(Mensaje), NEW m \in Mensaje
  PROVE  Fichas(Append(ms, m)) = Append(Fichas(ms), Ficha(m))
<1>1. Append(ms, m) \in Seq(Mensaje)
  BY AppendProperties
<1>2. Fichas(Append(ms, m)) = Mapa(FichaDe, Append(ms, m)) /\ Fichas(ms) = Mapa(FichaDe, ms)
  BY <1>1, FichasSonMapa
<1>3. FichaDe[m] = Ficha(m)
  BY DEF FichaDe
<1> QED
  BY <1>2, <1>3, MapaAgregada

LEMMA FichasQuitada ==
  ASSUME NEW ms \in Seq(Mensaje), NEW k \in DOMAIN ms
  PROVE  Fichas(RemoveAt(ms, k)) = RemoveAt(Fichas(ms), k)
<1>1. RemoveAt(ms, k) \in Seq(Mensaje)
  BY RemoveAtElementos
<1>2. Fichas(RemoveAt(ms, k)) = Mapa(FichaDe, RemoveAt(ms, k)) /\ Fichas(ms) = Mapa(FichaDe, ms)
  BY <1>1, FichasSonMapa
<1> QED
  BY <1>2, MapaQuitada

(* What the list of BrokerCache is, before and after a step. *)
LEMMA GuardadosSonFichas ==
  ASSUME TypeOK, MensajesEnteros
  PROVE  Guardados = Fichas(mensajes)
BY LoLeido DEF TypeOK, MensajesEnteros, Guardados, Leer

LEMMA GuardadosSonFichasDespues ==
  ASSUME TypeOK', MensajesEnteros'
  PROVE  Guardados' = Fichas(mensajes')
BY LoLeido DEF TypeOK, MensajesEnteros, Guardados, Leer

(* The message that waits for room. *)
LEMMA EnEsperaEs ==
  ASSUME pedido \in Pedido
  PROVE  EnEspera = Contenido(pedido.dato, pedido.bytes) /\ EnEspera \in Contenidos /\ EnEspera # Nadie
<1>1. pedido # Nadie /\ pedido.dato \in Datos /\ pedido.bytes \in Bytes
  BY ConstantesAssumption DEF Pedido
<1>2. Contenido(pedido.dato, pedido.bytes) \in Contenidos
  BY <1>1 DEF Contenidos
<1> QED
  BY <1>1, <1>2, ContenidosAssumption DEF EnEspera

LEMMA PedirImplementa ==
  ASSUME Ocioso, Pedir
  PROVE  EnEspera = Nadie /\ EnEspera' \in Contenidos
<1>1. pedido = Nadie /\ pedido' \in Pedido
  BY DEF Ocioso, Pedir, PedidosNuevos, Pedido
<1>2. pedido' # Nadie /\ pedido'.dato \in Datos /\ pedido'.bytes \in Bytes
  BY <1>1, ConstantesAssumption DEF Pedido
<1>3. Contenido(pedido'.dato, pedido'.bytes) \in Contenidos
  BY <1>2 DEF Contenidos
<1> QED
  BY <1>1, <1>2, <1>3 DEF EnEspera

LEMMA GuardarImplementa ==
  ASSUME IInv, Guardar
  PROVE  /\ EnEspera # Nadie /\ EnEspera' = Nadie /\ reloj' = reloj
         /\ Fichas(mensajes') = Append(Fichas(mensajes), [contenido |-> EnEspera, timestamp |-> reloj])
<1>1. mensajes \in Seq(Mensaje)
  BY DEF IInv, TypeOK
<1>2. PICK f \in libres : \E j, e, q \in Nat : Toma(f, j, e, q)
  BY GuardarEfecto
<1>3. PICK j, e, q \in Nat : Toma(f, j, e, q)
  BY <1>2
<1> DEFINE m == NuevoMensaje(f.ini, 2^e)
<1>4. m \in Mensaje
  BY <1>3, TomaForma
<1>5. pedido \in Pedido /\ mensajes' = Append(mensajes, m)
  BY <1>3 DEF Toma
<1>6. Ficha(m) = [contenido |-> EnEspera, timestamp |-> reloj]
  BY <1>5, EnEsperaEs DEF Ficha, NuevoMensaje
<1> HIDE DEF m
<1>7. Fichas(mensajes') = Append(Fichas(mensajes), Ficha(m))
  BY <1>1, <1>4, <1>5, FichasAgregada
<1>8. EnEspera' = Nadie /\ reloj' = reloj
  BY DEF Guardar, EnEspera
<1> QED
  BY <1>5, <1>6, <1>7, <1>8, EnEsperaEs

(* The victim is the same, and it is the only one that leaves. *)
LEMMA EliminarImplementa ==
  ASSUME IInv, Eliminar
  PROVE  /\ EnEspera # Nadie /\ EnEspera' = EnEspera /\ reloj' = reloj
         /\ \E k \in DOMAIN Fichas(mensajes) :
              /\ \/ Reemplazo = "FIFO" /\ k = 1
                 \/ /\ Reemplazo # "FIFO"
                    /\ \A j \in DOMAIN Fichas(mensajes) :
                         Fichas(mensajes)[k].timestamp <= Fichas(mensajes)[j].timestamp
              /\ Fichas(mensajes') = RemoveAt(Fichas(mensajes), k)
<1>1. pedido \in Pedido /\ mensajes \in Seq(Mensaje)
  BY DEF IInv, TypeOK, PedidoEnCurso, Eliminar
<1>2. PICK k \in DOMAIN mensajes : EsVictima(k) /\ mensajes' = RemoveAt(mensajes, k)
  BY DEF Eliminar
<1>3. /\ DOMAIN Fichas(mensajes) = DOMAIN mensajes
      /\ \A i \in DOMAIN mensajes : Fichas(mensajes)[i].timestamp = mensajes[i].timestamp
  <2>1. DOMAIN Fichas(mensajes) = DOMAIN mensajes
        /\ \A i \in DOMAIN mensajes : Fichas(mensajes)[i] = Ficha(mensajes[i])
    BY <1>1, FichasSonMapa
  <2> QED
    BY <2>1 DEF Ficha
<1>4. Fichas(mensajes') = RemoveAt(Fichas(mensajes), k)
  BY <1>1, <1>2, FichasQuitada
<1>5. \/ Reemplazo = "FIFO" /\ k = 1
      \/ /\ Reemplazo # "FIFO"
         /\ \A j \in DOMAIN Fichas(mensajes) :
              Fichas(mensajes)[k].timestamp <= Fichas(mensajes)[j].timestamp
  BY <1>2, <1>3 DEF EsVictima
<1>6. EnEspera' = EnEspera /\ reloj' = reloj
  BY DEF Eliminar, EnEspera
<1> QED
  BY <1>1, <1>3, <1>4, <1>5, <1>6, EnEsperaEs

LEMMA ReenviarImplementa ==
  ASSUME IInv, Reenviar
  PROVE  /\ EnEspera' = EnEspera /\ reloj' = reloj
         /\ \/ Fichas(mensajes') = Fichas(mensajes)
            \/ /\ Reemplazo # "FIFO"
               /\ \E usados \in SUBSET DOMAIN Fichas(mensajes) :
                    Fichas(mensajes') = [i \in DOMAIN Fichas(mensajes) |->
                      IF i \in usados THEN [Fichas(mensajes)[i] EXCEPT !.timestamp = reloj]
                                      ELSE Fichas(mensajes)[i]]
<1>1. mensajes \in Seq(Mensaje)
  BY DEF IInv, TypeOK
<1>2. PICK usados \in SUBSET DOMAIN mensajes :
        /\ Reemplazo = "FIFO" => usados = {}
        /\ mensajes' = [i \in DOMAIN mensajes |->
             IF i \in usados THEN [mensajes[i] EXCEPT !.timestamp = reloj] ELSE mensajes[i]]
  BY DEF Reenviar, RefrescarUsados
<1>3. DOMAIN Fichas(mensajes) = DOMAIN mensajes
      /\ \A i \in DOMAIN mensajes : Fichas(mensajes)[i] = Ficha(mensajes[i])
  BY <1>1, FichasSonMapa
<1>4. ASSUME NEW i \in DOMAIN mensajes
      PROVE  Ficha(mensajes'[i]) = IF i \in usados THEN [Fichas(mensajes)[i] EXCEPT !.timestamp = reloj]
                                                   ELSE Fichas(mensajes)[i]
  <2>1. mensajes[i] \in Mensaje
    BY <1>1, LenProperties
  <2>2. Fichas(mensajes)[i] = Ficha(mensajes[i])
    BY <1>3
  <2>3. CASE i \in usados
    <3>1. mensajes'[i] = [mensajes[i] EXCEPT !.timestamp = reloj]
      BY <1>2, <2>3
    <3>2. /\ mensajes'[i].dato = mensajes[i].dato /\ mensajes'[i].bytes = mensajes[i].bytes
          /\ mensajes'[i].timestamp = reloj
      BY <2>1, <3>1 DEF Mensaje
    <3> QED
      BY <2>2, <2>3, <3>2 DEF Ficha
  <2>4. CASE i \notin usados
    BY <1>2, <2>2, <2>4
  <2> QED
    BY <2>3, <2>4
<1>5. Fichas(mensajes') = [i \in DOMAIN Fichas(mensajes) |->
        IF i \in usados THEN [Fichas(mensajes)[i] EXCEPT !.timestamp = reloj] ELSE Fichas(mensajes)[i]]
  <2>1. DOMAIN mensajes' = DOMAIN mensajes
    BY <1>2
  <2>2. Fichas(mensajes') = [i \in DOMAIN mensajes |-> Ficha(mensajes'[i])]
    BY <2>1 DEF Fichas
  <2> QED
    BY <1>3, <1>4, <2>2
<1>6. CASE Reemplazo = "FIFO"
  <2>1. mensajes' = mensajes
    BY <1>1, <1>2, <1>6
  <2> QED
    BY <2>1 DEF Reenviar, RefrescarUsados, EnEspera
<1>7. CASE Reemplazo # "FIFO"
  BY <1>3, <1>5, <1>7 DEF Reenviar, RefrescarUsados, EnEspera
<1> QED
  BY <1>6, <1>7

(* The mapping: every step is a step of the abstract cache, or a stutter. *)
LEMMA PasoImplementa ==
  ASSUME IInv, IInv', MensajesEnteros, MensajesEnteros', Ocioso, [Next]_vars
  PROVE  Abstracta!Next \/ UNCHANGED Abstracta!vars
<1>1. Guardados = Fichas(mensajes) /\ Guardados' = Fichas(mensajes')
  BY GuardadosSonFichas, GuardadosSonFichasDespues DEF IInv
<1>2. CASE Pedir
  <2>1. Guardados' = Guardados /\ reloj' = reloj
    BY <1>1, <1>2 DEF Pedir, memoria
  <2>2. Abstracta!Pedir
    BY <1>2, <2>1, PedirImplementa DEF Abstracta!Pedir
  <2> QED
    BY <2>2 DEF Abstracta!Next
<1>3. CASE Guardar
  <2>1. Abstracta!Almacenar
    BY <1>1, <1>3, GuardarImplementa DEF Abstracta!Almacenar
  <2> QED
    BY <2>1 DEF Abstracta!Next
<1>4. CASE Eliminar
  <2> DEFINE fs == Fichas(mensajes)
  <2>1. /\ EnEspera # Nadie /\ EnEspera' = EnEspera /\ reloj' = reloj
        /\ \E k \in DOMAIN fs :
             /\ \/ Reemplazo = "FIFO" /\ k = 1
                \/ /\ Reemplazo # "FIFO"
                   /\ \A j \in DOMAIN fs : fs[k].timestamp <= fs[j].timestamp
             /\ Guardados' = RemoveAt(fs, k)
    BY <1>1, <1>4, EliminarImplementa
  <2>2. \A k : Abstracta!RemoveAt(fs, k) = RemoveAt(fs, k)
    BY DEF Abstracta!RemoveAt, RemoveAt
  <2>3. Guardados = fs
    BY <1>1
  <2> HIDE DEF fs
  <2>4. Abstracta!Desalojar
    BY <2>1, <2>2, <2>3 DEF Abstracta!Desalojar, Abstracta!EsVictima
  <2> QED
    BY <2>4 DEF Abstracta!Next
<1>5. CASE Fusionar \/ FinFusionar
  <2>1. UNCHANGED <<mensajes, pedido, reloj>>
    BY <1>5 DEF Fusionar, FinFusionar
  <2> QED
    BY <1>1, <2>1 DEF Abstracta!vars, EnEspera
<1>6. CASE Reenviar
  <2>1. CASE Fichas(mensajes') = Fichas(mensajes)
    BY <1>1, <1>6, <2>1, ReenviarImplementa DEF Abstracta!vars
  <2>2. CASE Fichas(mensajes') # Fichas(mensajes)
    <3>1. Abstracta!Reenviar
      BY <1>1, <1>6, <2>2, ReenviarImplementa DEF Abstracta!Reenviar
    <3> QED
      BY <3>1 DEF Abstracta!Next
  <2> QED
    BY <2>1, <2>2
<1>7. CASE Tictac
  <2>1. Guardados' = Guardados /\ EnEspera' = EnEspera
    BY <1>1, <1>7 DEF Tictac, AvanzarReloj, memoria, EnEspera
  <2>2. Abstracta!Tictac
    BY <1>7, <2>1 DEF Abstracta!Tictac, Tictac, AvanzarReloj
  <2> QED
    BY <2>2 DEF Abstracta!Next
<1>8. CASE NoEncontrar \/ EliminarSinMensajes \/ UNCHANGED vars
  <2>1. UNCHANGED <<mensajes, pedido, reloj>>
    BY <1>8 DEF NoEncontrar, EliminarSinMensajes, vars, memoria
  <2> QED
    BY <1>1, <2>1 DEF Abstracta!vars, EnEspera
<1> QED
  BY <1>2, <1>3, <1>4, <1>5, <1>6, <1>7, <1>8 DEF Next, Hilo

(* Blocks, halvings and merges are invisible to the threads that use the  *)
(* cache: the same list of whole messages, from which the same victims     *)
(* leave, and only to make room, as with dynamic partitions.               *)
THEOREM BuddyImplementaCache == Spec => ImplementaCache
<1>1. Init => Ocioso
  BY DEF Init, InitMemoria, Ocioso
<1>2. Spec => []Ocioso
  BY <1>1, PasoOcioso, PTL DEF Spec
<1>3. Init => Abstracta!Init
  <2> SUFFICES ASSUME Init PROVE Abstracta!Init
    OBVIOUS
  <2>1. mensajes = <<>> /\ pedido = Nadie /\ reloj = 0
    BY DEF Init, InitMemoria
  <2>2. Guardados = <<>> /\ EnEspera = Nadie
    BY <2>1 DEF Guardados, EnEspera
  <2> QED
    BY <2>1, <2>2 DEF Abstracta!Init
<1>4. IInv /\ IInv' /\ MensajesEnteros /\ MensajesEnteros' /\ Ocioso /\ [Next]_vars => [Abstracta!Next]_(Abstracta!vars)
  BY PasoImplementa
<1> QED
  BY <1>2, <1>3, <1>4, SiempreIInv, SiempreCache, PTL DEF Spec, ImplementaCache, Abstracta!Spec

-----------------------------------------------------------------------------
(* The search ends: nothing but a message larger than the memory ends the  *)
(* Broker.                                                                 *)

(* Half a multiple of y is not a multiple of y. *)
LEMMA MitadNoMultiplo ==
  ASSUME NEW r \in Nat, NEW s \in Nat, NEW x \in Nat, x >= 1
  PROVE  r * (2 * x) + x # s * (2 * x)
<1> DEFINE y == 2 * x
<1>1. y \in Nat /\ y >= 1 /\ x < y
  OBVIOUS
<1> HIDE DEF y
<1>2. (y * r + x) % y = x
  BY <1>1
<1>3. (s * y) % y = 0
  BY <1>1, Dividir
<1>4. y * r = r * y
  BY <1>1
<1>5. r * y + x # s * y
  BY <1>1, <1>2, <1>3, <1>4
<1> QED
  BY <1>5 DEF y

Multiplo(n, x) == \E r \in Nat : n = r * (2 * x)

(* A block larger than 2^k has a multiple of 2 * 2^k cells and begins at   *)
(* another.                                                                *)
LEMMA LosMayores ==
  ASSUME NEW k \in Nat, NEW ini, NEW tam, EsBloque(ini, tam), 2^k < tam
  PROVE  Multiplo(ini, 2^k) /\ Multiplo(tam, 2^k)
<1>1. PICK l, q \in Nat : tam = 2^l /\ ini = q * tam
  BY DEF EsBloque
<1>2. k < l
  BY <1>1, PotOrden
<1>3. k + 1 \in 0..l /\ l - (k + 1) \in Nat /\ k + 1 \in Nat
  BY <1>2
<1>4. 2^l = 2^(l - (k + 1)) * 2^(k + 1) /\ 2^(k + 1) = 2 * 2^k
  BY <1>3, PotDividir, PotSuc
<1> DEFINE y == 2 * 2^k
           d == 2^(l - (k + 1))
<1>5. y \in Nat /\ d \in Nat /\ tam = d * y
  BY <1>1, <1>3, <1>4, PotTipo
<1> HIDE DEF y, d
<1>6. ini = (q * d) * y /\ q * d \in Nat
  BY <1>1, <1>5
<1> QED
  BY <1>5, <1>6 DEF Multiplo, y

(* With no message left the smallest free block has no companion to its    *)
(* side only if it is the whole memory.                                    *)
LEMMA TodoJunto ==
  ASSUME IInv, SoloElQueCrece, SinHuecos, mensajes = <<>>, pc # "fusionar"
  PROVE  \E f \in libres : f.tam = TamMemoria
<1>1. TamMemoria \in Nat /\ TamMemoria >= 1
  BY ConstantesAssumption
<1>2. \A g \in libres : g.ini \in Nat /\ g.tam \in Nat /\ g.tam >= 1 /\ g.ini + g.tam <= TamMemoria
  BY Tipos DEF IInv, Acotadas
<1>3. ASSUME NEW c \in Celdas
      PROVE  \E g \in libres : g.ini <= c /\ c < g.ini + g.tam
  <2>1. PICK g \in libres : c \in CeldasLibre(g)
    BY DEF SinHuecos
  <2> QED
    BY <1>2, <2>1 DEF CeldasLibre
<1>4. PICK f \in libres : \A g \in libres : f.tam <= g.tam
  <2> DEFINE S == {g.tam : g \in libres}
  <2>1. 0 \in Celdas
    BY <1>1 DEF Celdas
  <2>2. S \in SUBSET Nat /\ S # {}
    BY <1>2, <1>3, <2>1
  <2>3. \E n \in S : \A y \in S : n <= y
    <3> HIDE DEF S
    <3> QED
      BY <2>2, MinimoNat
  <2> QED
    BY <2>3
<1>5. PICK k, q \in Nat : f.tam = 2^k /\ f.ini = q * f.tam
  BY DEF IInv, Potencias, EsBloque
<1>6. PICK n \in 1..TamMemoria : TamMemoria = 2^n
  BY PotenciaAssumption
<1> SUFFICES ASSUME f.tam < TamMemoria PROVE FALSE
  BY <1>1, <1>2
<1> DEFINE x == 2^k
<1>7. x \in Nat /\ x >= 1 /\ f.tam = x /\ f.ini = q * x
  BY <1>5, PotOrden
<1>8. \E d \in Nat : TamMemoria = d * (2 * x)
  <2>1. EsBloque(0, TamMemoria)
    <3>1. n \in Nat /\ n >= 1 /\ 0 = 0 * TamMemoria /\ 0 \in Nat
      BY <1>1
    <3> QED
      BY <1>6, <3>1 DEF EsBloque
  <2>2. Multiplo(TamMemoria, x)
    BY <1>7, <2>1, LosMayores
  <2> QED
    BY <2>2 DEF Multiplo
<1>9. PICK d \in Nat : TamMemoria = d * (2 * x)
  BY <1>8
<1>10. ASSUME NEW g \in libres, g.tam # x
       PROVE  \E r, s \in Nat : g.ini = r * (2 * x) /\ g.ini + g.tam = s * (2 * x)
  <2>1. EsBloque(g.ini, g.tam) /\ x < g.tam
    BY <1>2, <1>4, <1>7, <1>10 DEF IInv, Potencias
  <2>2. Multiplo(g.ini, x) /\ Multiplo(g.tam, x)
    BY <2>1, LosMayores
  <2>3. PICK r, s \in Nat : g.ini = r * (2 * x) /\ g.tam = s * (2 * x)
    BY <2>2 DEF Multiplo
  <2> HIDE DEF x
  <2>4. g.ini + g.tam = (r + s) * (2 * x) /\ r + s \in Nat
    BY <1>7, <2>3
  <2> QED
    BY <2>3, <2>4
<1>11. \A g \in libres : g # f => g.ini + g.tam <= f.ini \/ f.ini + x <= g.ini
  BY <1>7 DEF IInv, SinSolapamiento, LibresDisjuntas
<1>12. \A g \in libres : ~Companieros(f, g) /\ ~Companieros(g, f)
  BY DEF SoloElQueCrece
<1>13. q % 2 = 0 <=> (q * x) % (2 * x) = 0
  BY ParEsPar
<1> HIDE DEF x
<1>14. CASE q % 2 = 0
  <2>1. PICK r \in Nat : q = 2 * r
    BY <1>14, Paridad
  <2>2. f.ini = r * (2 * x)
    BY <1>7, <2>1
  <2>3. r * (2 * x) + x <= d * (2 * x) /\ r * (2 * x) + x # d * (2 * x)
    BY <1>2, <1>7, <1>9, <2>2, MitadNoMultiplo
  <2>4. f.ini + x \in Celdas
    BY <1>1, <1>2, <1>7, <1>9, <2>2, <2>3 DEF Celdas
  <2>5. PICK g \in libres : g.ini <= f.ini + x /\ f.ini + x < g.ini + g.tam
    BY <1>3, <2>4
  <2>6. g.ini = f.ini + x
    BY <1>2, <1>7, <1>11, <2>5
  <2>7. CASE g.tam = x
    BY <1>7, <1>12, <1>13, <1>14, <2>6, <2>7 DEF Companieros
  <2>8. CASE g.tam # x
    <3>1. PICK s \in Nat : g.ini = s * (2 * x)
      BY <1>10, <2>8
    <3>2. r * (2 * x) + x # s * (2 * x)
      BY <1>7, MitadNoMultiplo
    <3> QED
      BY <2>2, <2>6, <3>1, <3>2
  <2> QED
    BY <2>7, <2>8
<1>15. CASE q % 2 # 0
  <2>1. PICK r \in Nat : q = 2 * r + 1
    BY <1>15, Paridad
  <2>2. f.ini = r * (2 * x) + x
    BY <1>7, <2>1
  <2>3. f.ini - 1 \in Celdas
    <3>1. f.ini >= 1
      <4>1. r * (2 * x) \in Nat
        BY <1>7
      <4> QED
        BY <1>7, <2>2, <4>1
    <3> QED
      BY <1>1, <1>2, <3>1 DEF Celdas
  <2>4. PICK g \in libres : g.ini <= f.ini - 1 /\ f.ini - 1 < g.ini + g.tam
    BY <1>3, <2>3
  <2>5. g.ini + g.tam = f.ini
    BY <1>2, <1>7, <1>11, <2>4
  <2>6. CASE g.tam = x
    <3>1. g.ini = r * (2 * x)
      <4> DEFINE z == r * (2 * x)
      <4>1. z \in Nat /\ f.ini = z + x
        BY <1>7, <2>2
      <4> HIDE DEF z
      <4>2. g.ini = z
        BY <1>2, <1>7, <2>5, <2>6, <4>1
      <4> QED
        BY <4>2 DEF z
    <3>2. (r * (2 * x)) % (2 * x) = 0
      <4>1. 2 * x \in Nat /\ 2 * x >= 1
        BY <1>7
      <4> QED
        BY <4>1, Dividir
    <3>3. f.ini = g.ini + g.tam /\ g.tam = f.tam /\ g.ini % (2 * g.tam) = 0
      BY <1>7, <2>5, <2>6, <3>1, <3>2
    <3> QED
      BY <1>12, <3>3 DEF Companieros
  <2>7. CASE g.tam # x
    <3>1. PICK s \in Nat : g.ini + g.tam = s * (2 * x)
      BY <1>10, <2>7
    <3>2. r * (2 * x) + x # s * (2 * x)
      BY <1>7, MitadNoMultiplo
    <3> QED
      BY <2>2, <2>5, <3>1, <3>2
  <2> QED
    BY <2>6, <2>7
<1> QED
  BY <1>14, <1>15

(* What the whole memory is too small for is larger than the memory: the   *)
(* block of a message is the least power of two that is enough for it.     *)
LEMMA MayorQueLaMemoria ==
  ASSUME NEW bytes \in Bytes, TamMemoria < TamParticion(bytes)
  PROVE  ObtenerTamMsg(bytes) > TamMemoria
<1> DEFINE n == ObtenerTamMsg(bytes)
           e == ExponenteBuddy(n)
<1>1. bytes \in Nat /\ bytes >= 1 /\ TamMinimo \in Nat
  BY ConstantesAssumption
<1>2. n \in Nat /\ n >= 1
  BY <1>1 DEF ObtenerTamMsg
<1>3. TamMemoria < 2^e
  BY DEF TamParticion
<1>4. PICK k \in 1..TamMemoria : TamMemoria = 2^k
  BY PotenciaAssumption
<1>5. k \in Nat /\ k >= 1
  BY ConstantesAssumption
<1> HIDE DEF n
<1>6. e \in Nat /\ \A d \in 1..(e - 1) : 2^d < n
  BY <1>2, ExponenteEs
<1> HIDE DEF e
<1>7. k < e
  BY <1>3, <1>4, <1>5, <1>6, PotOrden
<1>8. k \in 1..(e - 1)
  BY <1>5, <1>6, <1>7
<1>9. TamMemoria < n
  BY <1>4, <1>6, <1>8
<1> QED
  BY <1>2, <1>9, ConstantesAssumption DEF n
(* What Candidatas does not find is not there. *)
LEMMA BusquedaCompleta ==
  ASSUME IInv, pedido \in Pedido, Candidatas(TamParticion(pedido.bytes)) = {}
  PROVE  \A f \in libres : f.tam < TamParticion(pedido.bytes)
<1> DEFINE tam == TamParticion(pedido.bytes)
           caben == {f \in libres : tam <= f.tam}
<1>1. tam \in Nat
  <2>1. pedido.bytes \in Bytes
    BY DEF Pedido
  <2>2. PICK e \in Nat : tam = 2^e
    BY <2>1, TamMsg
  <2> HIDE DEF tam
  <2> QED
    BY <2>2, PotTipo
<1>2. \A f \in libres : f.ini \in Nat /\ f.tam \in Nat
  BY Tipos DEF IInv
<1> HIDE DEF tam
<1>3. SUFFICES ASSUME NEW f \in caben PROVE FALSE
  BY <1>1, <1>2 DEF tam
<1> DEFINE T == {g.tam : g \in caben}
           I == {g.ini : g \in caben}
<1>4. T \in SUBSET Nat /\ T # {} /\ I \in SUBSET Nat /\ I # {}
  BY <1>2
<1>5. PICK g \in caben : \A h \in caben : g.tam <= h.tam
  <2>1. \E x \in T : \A y \in T : x <= y
    BY <1>4, MinimoNat
  <2> QED
    BY <2>1
<1>6. PICK k \in caben : \A h \in caben : k.ini <= h.ini
  <2>1. \E x \in I : \A y \in I : x <= y
    BY <1>4, MinimoNat
  <2> QED
    BY <2>1
<1>7. g \in Candidatas(tam) \/ k \in Candidatas(tam)
  BY <1>5, <1>6 DEF Candidatas
<1> QED
  BY <1>7 DEF tam

(* An eviction only begins when no free block is enough. *)
NingunoCabe == pc = "eliminar" => \A f \in libres : f.tam < TamParticion(pedido.bytes)

LEMMA PasoNingunoCabe == IInv /\ NingunoCabe /\ [Next]_vars => NingunoCabe'
<1> SUFFICES ASSUME IInv, NingunoCabe, [Next]_vars PROVE NingunoCabe'
  OBVIOUS
<1>1. CASE NoEncontrar
  <2>1. pedido \in Pedido /\ Candidatas(TamParticion(pedido.bytes)) = {}
    BY <1>1 DEF NoEncontrar, IInv, PedidoEnCurso
  <2>2. \A f \in libres : f.tam < TamParticion(pedido.bytes)
    BY <2>1, BusquedaCompleta
  <2>3. libres' = libres /\ pedido' = pedido
    BY <1>1 DEF NoEncontrar, memoria
  <2> QED
    BY <2>2, <2>3 DEF NingunoCabe
<1>2. CASE Pedir \/ Guardar \/ Eliminar \/ Fusionar \/ FinFusionar \/ EliminarSinMensajes
  <2>1. pc' # "eliminar"
    BY <1>2 DEF Pedir, Guardar, Eliminar, Fusionar, FinFusionar, EliminarSinMensajes
  <2> QED
    BY <2>1 DEF NingunoCabe
<1>3. CASE Tictac \/ Reenviar \/ UNCHANGED vars
  <2>1. UNCHANGED <<libres, pedido, pc>>
    BY <1>3 DEF Tictac, AvanzarReloj, Reenviar, RefrescarUsados, vars, memoria
  <2> QED
    BY <2>1 DEF NingunoCabe
<1> QED
  BY <1>1, <1>2, <1>3 DEF Next, Hilo

LEMMA PasoSinCaida ==
  IInv /\ SoloElQueCrece /\ SinHuecos /\ NingunoCabe /\ SinCaida /\ [Next]_vars => SinCaida'
<1> SUFFICES ASSUME IInv, SoloElQueCrece, SinHuecos, NingunoCabe, SinCaida, [Next]_vars PROVE SinCaida'
  OBVIOUS
<1>1. CASE EliminarSinMensajes
  <2>1. pc = "eliminar" /\ mensajes = <<>> /\ pedido' = pedido
    BY <1>1 DEF EliminarSinMensajes
  <2>2. PICK f \in libres : f.tam = TamMemoria
    BY <2>1, TodoJunto
  <2>3. pedido.bytes \in Bytes /\ TamMemoria < TamParticion(pedido.bytes)
    BY <2>1, <2>2 DEF NingunoCabe, IInv, PedidoEnCurso, Pedido
  <2>4. ObtenerTamMsg(pedido.bytes) > TamMemoria
    BY <2>3, MayorQueLaMemoria
  <2> QED
    BY <2>1, <2>4 DEF SinCaida
<1>2. CASE Pedir \/ Guardar \/ NoEncontrar \/ Eliminar \/ Fusionar \/ FinFusionar
  <2>1. pc' # "caido"
    BY <1>2 DEF Pedir, Guardar, NoEncontrar, Eliminar, Fusionar, FinFusionar
  <2> QED
    BY <2>1 DEF SinCaida
<1>3. CASE Tictac \/ Reenviar \/ UNCHANGED vars
  <2>1. UNCHANGED <<pedido, pc>>
    BY <1>3 DEF Tictac, AvanzarReloj, Reenviar, RefrescarUsados, vars
  <2> QED
    BY <2>1 DEF SinCaida
<1> QED
  BY <1>1, <1>2, <1>3 DEF Next, Hilo

(* The buddy system always makes room in the end: MENSAJES is never empty  *)
(* when a victim is needed unless the message is larger than the whole     *)
(* memory (memoria.c:22-57).  Were one companion pair left unmerged, a     *)
(* message that fits would end the Broker.                                 *)
THEOREM BuddySoloCaePorTamanio == Spec => []SinCaida
<1>1. Init => NingunoCabe /\ SinCaida
  BY DEF Init, InitMemoria, NingunoCabe, SinCaida
<1>2. Spec => []SinHuecos
  <2>1. Teselado => SinHuecos
    BY DEF Teselado
  <2> QED
    BY <2>1, SiempreTeselado, PTL
<1> QED
  BY <1>1, <1>2, PasoNingunoCabe, PasoSinCaida, SiempreIInv, SiempreSoloElQueCrece, PTL DEF Spec
=============================================================================
