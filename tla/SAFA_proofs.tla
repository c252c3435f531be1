----------------------------- MODULE SAFA_proofs -----------------------------
(***************************************************************************)
(* Proofs about SAFA for any CPUs, scripts, quantum, degree and algorithm. *)
(***************************************************************************)
EXTENDS SAFA, Integers, SequencesExt, SequenceTheorems, FiniteSetTheorems, WellFoundedInduction, TLAPS

-----------------------------------------------------------------------------
(* Facts about sequences and finite sets of numbers.                       *)

(* RemoveAt drops one entry of a sequence and keeps the order of the rest. *)
LEMMA RemoveAtElementos ==
  ASSUME NEW S, NEW s \in Seq(S), NEW k \in DOMAIN s
  PROVE  /\ RemoveAt(s, k) \in Seq(S)
         /\ Len(RemoveAt(s, k)) = Len(s) - 1
         /\ DOMAIN RemoveAt(s, k) = 1..(Len(s) - 1)
         /\ \A j \in 1..(Len(s) - 1) :
              RemoveAt(s, k)[j] = IF j < k THEN s[j] ELSE s[j + 1]
<1> DEFINE izq == SubSeq(s, 1, k - 1)
           der == SubSeq(s, k + 1, Len(s))
<1>1. /\ Len(s) \in Nat /\ DOMAIN s = 1..Len(s) /\ k \in 1..Len(s)
      /\ \A i \in 1..Len(s) : s[i] \in S
  BY LenProperties
<1>2. /\ izq \in Seq(S)
      /\ Len(izq) = k - 1
      /\ \A i \in 1..(k - 1) : izq[i] = s[i]
  BY <1>1, SubSeqProperties
<1>3. /\ der \in Seq(S)
      /\ Len(der) = Len(s) - k
      /\ \A i \in 1..(Len(s) - k) : der[i] = s[k + i]
  <2>1. /\ der \in Seq(S)
        /\ Len(der) = IF k + 1 <= Len(s) THEN Len(s) - (k + 1) + 1 ELSE 0
        /\ \A i \in 1..(Len(s) - (k + 1) + 1) : der[i] = s[(k + 1) + i - 1]
    BY <1>1, SubSeqProperties
  <2> HIDE DEF der
  <2>2. Len(s) - (k + 1) + 1 = Len(s) - k
    BY <1>1
  <2>3. Len(der) = Len(s) - k
    BY <1>1, <2>1
  <2>4. ASSUME NEW i \in 1..(Len(s) - k) PROVE der[i] = s[k + i]
    <3>1. (k + 1) + i - 1 = k + i
      BY <1>1
    <3> QED
      BY <2>1, <2>2, <3>1
  <2> QED
    BY <2>1, <2>3, <2>4
<1> HIDE DEF izq, der
<1>4. /\ izq \o der \in Seq(S)
      /\ Len(izq \o der) = Len(s) - 1
      /\ \A i \in 1..(Len(s) - 1) :
           (izq \o der)[i] = IF i <= k - 1 THEN izq[i] ELSE der[i - (k - 1)]
  <2>1. /\ izq \o der \in Seq(S)
        /\ Len(izq \o der) = Len(izq) + Len(der)
        /\ \A i \in 1..(Len(izq) + Len(der)) :
             (izq \o der)[i] = IF i <= Len(izq) THEN izq[i] ELSE der[i - Len(izq)]
    BY <1>2, <1>3, ConcatProperties
  <2>2. Len(izq) + Len(der) = Len(s) - 1
    BY <1>1, <1>2, <1>3
  <2> QED
    BY <1>2, <2>1, <2>2
<1>5. ASSUME NEW j \in 1..(Len(s) - 1)
      PROVE  (izq \o der)[j] = IF j < k THEN s[j] ELSE s[j + 1]
  <2>1. CASE j < k
    BY <1>1, <1>2, <1>4, <2>1
  <2>2. CASE ~(j < k)
    <3>1. j - (k - 1) \in 1..(Len(s) - k) /\ ~(j <= k - 1) /\ k + (j - (k - 1)) = j + 1
      BY <1>1, <2>2
    <3>2. (izq \o der)[j] = der[j - (k - 1)]
      BY <1>4, <3>1
    <3> QED
      BY <1>3, <2>2, <3>1, <3>2
  <2> QED
    BY <2>1, <2>2
<1>6. DOMAIN (izq \o der) = 1..(Len(s) - 1)
  BY <1>4, LenProperties
<1> QED
  BY <1>4, <1>5, <1>6 DEF RemoveAt, izq, der

(* Replacing every entry of a sequence gives a sequence as long. *)
LEMMA MapaEsSeq ==
  ASSUME NEW S, NEW T, NEW s \in Seq(S), NEW t,
         t \in [DOMAIN s -> T]
  PROVE  t \in Seq(T) /\ Len(t) = Len(s) /\ DOMAIN t = DOMAIN s
<1>1. Len(s) \in Nat /\ DOMAIN s = 1..Len(s)
  BY LenProperties
<1>2. t \in Seq(T)
  BY <1>1, SeqDef
<1> QED
  BY <1>1, <1>2

(* The least element of a set of numbers: what lets an induction be made   *)
(* over the least counterexample.                                          *)
LEMMA MinimoNat ==
  ASSUME NEW S \in SUBSET Nat, S # {}
  PROVE  \E x \in S : \A y \in S : x <= y
<1> DEFINE T == {1..n : n \in S}
           R == StrictSubsetOrdering(Nat)
<1>1. T \subseteq FiniteSubsetsOf(Nat)
  <2> SUFFICES ASSUME NEW n \in S PROVE 1..n \in FiniteSubsetsOf(Nat)
    OBVIOUS
  <2> QED
    BY FS_Interval DEF FiniteSubsetsOf
<1>2. T # {}
  OBVIOUS
<1>3. IsWellFoundedOn(R, FiniteSubsetsOf(Nat))
  BY FS_StrictSubsetOrderingWellFounded
<1>4. PICK A \in T : \A B \in T : <<B, A>> \notin R
  <2> HIDE DEF T, R
  <2> QED
    BY <1>1, <1>2, <1>3, WFMin
<1>5. PICK x \in S : A = 1..x
  OBVIOUS
<1>6. ASSUME NEW y \in S, y < x PROVE FALSE
  <2>1. 1..y \subseteq 1..x /\ x \in 1..x /\ x \notin 1..y
    BY <1>6
  <2>2. 1..y \in SUBSET Nat /\ 1..x \in SUBSET Nat
    BY <1>6
  <2>3. <<1..y, 1..x>> \in R
    BY <2>1, <2>2 DEF StrictSubsetOrdering
  <2> QED
    BY <1>4, <1>5, <2>3
<1> QED
  BY <1>6

LEMMA MinEsElemento ==
  ASSUME NEW S \in SUBSET Nat, S # {}
  PROVE  Min(S) \in S /\ \A y \in S : Min(S) <= y
<1>1. PICK x \in S : \A y \in S : x <= y
  BY MinimoNat
<1> QED
  BY <1>1 DEF Min

LEMMA FinitaImagen ==
  ASSUME NEW S, IsFiniteSet(S), NEW f, DOMAIN f = S
  PROVE  IsFiniteSet({f[x] : x \in S})
<1> DEFINE I == {f[x] : x \in S}
<1>1. [x \in S |-> f[x]] \in Surjection(S, I)
  BY DEF Surjection
<1> QED
  BY <1>1, FS_Surjection

LEMMA FinitosLosDeUnaSeq ==
  ASSUME NEW S, NEW s \in Seq(S)
  PROVE  IsFiniteSet(ToSet(s)) /\ \A x \in ToSet(s) : x \in S /\ \E i \in DOMAIN s : s[i] = x
<1>1. Len(s) \in Nat /\ DOMAIN s = 1..Len(s) /\ \A i \in 1..Len(s) : s[i] \in S
  BY LenProperties, ElementOfSeq
<1>2. IsFiniteSet(1..Len(s))
  BY <1>1, FS_Interval
<1>3. IsFiniteSet({s[i] : i \in 1..Len(s)})
  BY <1>1, <1>2, FinitaImagen
<1> QED
  BY <1>1, <1>3 DEF ToSet

(* How many entries of a sequence are in V. *)
Cuantos(s, V) == Cardinality({i \in DOMAIN s : s[i] \in V})

LEMMA CuantosTipo ==
  ASSUME NEW S, NEW s \in Seq(S), NEW V
  PROVE  /\ IsFiniteSet({i \in DOMAIN s : s[i] \in V})
         /\ Cuantos(s, V) \in Nat
         /\ Cuantos(s, V) = 0 <=> \A i \in DOMAIN s : s[i] \notin V
<1> DEFINE I == {i \in DOMAIN s : s[i] \in V}
<1>1. IsFiniteSet(1..Len(s)) /\ DOMAIN s = 1..Len(s)
  BY LenProperties, FS_Interval
<1>2. I \in SUBSET (1..Len(s))
  BY <1>1
<1>3. IsFiniteSet(I)
  <2> HIDE DEF I
  <2> QED
    BY <1>1, <1>2, FS_Subset
<1>4. Cardinality(I) \in Nat /\ (Cardinality(I) = 0 <=> I = {})
  <2> HIDE DEF I
  <2> QED
    BY <1>3, FS_CardinalityType, FS_EmptySet
<1>5. I = {} <=> \A i \in DOMAIN s : s[i] \notin V
  OBVIOUS
<1> QED
  BY <1>3, <1>4, <1>5 DEF Cuantos

(* Dropping the k-th entry takes away one if that entry was in V. *)
LEMMA CuantosSaltea ==
  ASSUME NEW n \in Nat \ {0}, NEW s, DOMAIN s = 1..n, NEW t, DOMAIN t = 1..(n - 1), NEW k \in 1..n,
         \A j \in 1..(n - 1) : t[j] = IF j < k THEN s[j] ELSE s[j + 1],
         NEW V
  PROVE  Cuantos(t, V) = Cuantos(s, V) - (IF s[k] \in V THEN 1 ELSE 0)
<1> DEFINE I == {i \in DOMAIN s : s[i] \in V}
           J == {j \in DOMAIN t : t[j] \in V}
           K == I \ {k}
           f == [j \in J |-> IF j < k THEN j ELSE j + 1]
<1>1. IsFiniteSet(I)
  <2>1. IsFiniteSet(1..n)
    BY FS_Interval
  <2>2. I \in SUBSET (1..n)
    OBVIOUS
  <2> HIDE DEF I
  <2> QED
    BY <2>1, <2>2, FS_Subset
<1>2. IsFiniteSet(K) /\ Cardinality(K) = IF k \in I THEN Cardinality(I) - 1 ELSE Cardinality(I)
  <2> HIDE DEF I
  <2> QED
    BY <1>1, FS_RemoveElement
<1>3. f \in [J -> K]
  <2> SUFFICES ASSUME NEW j \in J PROVE f[j] \in K
    OBVIOUS
  <2>1. j \in 1..(n - 1) /\ t[j] \in V
    OBVIOUS
  <2>2. CASE j < k
    <3>1. f[j] = j /\ j \in 1..n /\ j # k /\ s[j] \in V
      BY <2>1, <2>2
    <3> QED
      BY <3>1
  <2>3. CASE ~(j < k)
    <3>1. f[j] = j + 1 /\ j + 1 \in 1..n /\ j + 1 # k /\ s[j + 1] \in V
      BY <2>1, <2>3
    <3> QED
      BY <3>1
  <2> QED
    BY <2>2, <2>3
<1>4. \A a, b \in J : f[a] = f[b] => a = b
  <2> SUFFICES ASSUME NEW a \in J, NEW b \in J, f[a] = f[b] PROVE a = b
    OBVIOUS
  <2>1. a \in 1..(n - 1) /\ b \in 1..(n - 1)
    OBVIOUS
  <2>2. f[a] = (IF a < k THEN a ELSE a + 1) /\ f[b] = (IF b < k THEN b ELSE b + 1)
    OBVIOUS
  <2> QED
    BY <2>1, <2>2
<1>5. \A x \in K : \E j \in J : f[j] = x
  <2> SUFFICES ASSUME NEW x \in K PROVE \E j \in J : f[j] = x
    OBVIOUS
  <2>1. x \in 1..n /\ x # k /\ s[x] \in V
    OBVIOUS
  <2>2. CASE x < k
    <3>1. x \in 1..(n - 1) /\ t[x] \in V
      BY <2>1, <2>2
    <3>2. x \in J
      BY <3>1
    <3>3. f[x] = x
      BY <2>2, <3>2
    <3> QED
      BY <3>2, <3>3
  <2>3. CASE ~(x < k)
    <3>1. x - 1 \in 1..(n - 1) /\ ~(x - 1 < k) /\ (x - 1) + 1 = x
      BY <2>1, <2>3
    <3>2. t[x - 1] = s[x]
      BY <3>1
    <3>3. x - 1 \in J
      BY <2>1, <3>1, <3>2
    <3>4. f[x - 1] = x
      BY <3>1, <3>3
    <3> QED
      BY <3>3, <3>4
  <2> QED
    BY <2>2, <2>3
<1> HIDE DEF f, J, K
<1>6. f \in Bijection(J, K)
  BY <1>3, <1>4, <1>5 DEF Bijection, Injection, Surjection, IsInjective
<1>7. Cardinality(J) = Cardinality(K)
  <2>1. f \in Surjection(J, K) /\ f \in Injection(J, K)
    BY <1>6 DEF Bijection
  <2>2. Cardinality(J) <= Cardinality(K) /\ (Cardinality(J) = Cardinality(K) <=> f \in Surjection(J, K))
    BY <1>2, <2>1, FS_Injection
  <2> QED
    BY <2>1, <2>2
<1>8. k \in I <=> s[k] \in V
  OBVIOUS
<1>9. Cardinality(I) \in Nat
  <2> HIDE DEF I
  <2> QED
    BY <1>1, FS_CardinalityType
<1> QED
  BY <1>2, <1>7, <1>8, <1>9 DEF Cuantos, J

LEMMA CuantosVacia ==
  ASSUME NEW V
  PROVE  Cuantos(<<>>, V) = 0
<1>1. {i \in DOMAIN <<>> : <<>>[i] \in V} = {}
  OBVIOUS
<1> QED
  BY <1>1, FS_EmptySet DEF Cuantos

LEMMA CuantosAppend ==
  ASSUME NEW S, NEW s \in Seq(S), NEW x, NEW V
  PROVE  Cuantos(Append(s, x), V) = Cuantos(s, V) + (IF x \in V THEN 1 ELSE 0)
<1>1. s \in Seq(S \cup {x}) /\ Len(s) \in Nat /\ DOMAIN s = 1..Len(s)
  BY LenProperties
<1> DEFINE t == Append(s, x)
           n == Len(s) + 1
<1>2. /\ DOMAIN t = 1..n /\ t[n] = x
      /\ \A j \in 1..(n - 1) : t[j] = s[j]
  <2>1. /\ t \in Seq(S \cup {x}) /\ Len(t) = n
        /\ \A i \in 1..Len(s) : t[i] = s[i]
        /\ t[n] = x
    BY <1>1, AppendProperties
  <2> HIDE DEF t
  <2>2. DOMAIN t = 1..Len(t)
    BY <2>1, LenProperties
  <2> QED
    BY <1>1, <2>1, <2>2
<1>3. n \in Nat \ {0} /\ n - 1 = Len(s) /\ n \in 1..n
  BY <1>1
<1>4. Cuantos(s, V) \in Nat
  BY CuantosTipo
<1>5. Cuantos(t, V) \in Nat
  <2>1. t \in Seq(S \cup {x})
    BY <1>1, AppendProperties
  <2> HIDE DEF t
  <2> QED
    BY <2>1, CuantosTipo
<1> HIDE DEF t, n
<1>6. DOMAIN s = 1..(n - 1)
  BY <1>1, <1>3
<1>7. \A j \in 1..(n - 1) : s[j] = IF j < n THEN t[j] ELSE t[j + 1]
  BY <1>2, <1>3
<1>8. Cuantos(s, V) = Cuantos(t, V) - (IF t[n] \in V THEN 1 ELSE 0)
  BY <1>2, <1>3, <1>6, <1>7, CuantosSaltea
<1>9. Cuantos(t, V) = Cuantos(s, V) + (IF x \in V THEN 1 ELSE 0)
  BY <1>2, <1>4, <1>5, <1>8
<1> QED
  BY <1>9 DEF t

LEMMA CuantosRemoveAt ==
  ASSUME NEW S, NEW s \in Seq(S), NEW k \in DOMAIN s, NEW V
  PROVE  Cuantos(RemoveAt(s, k), V) = Cuantos(s, V) - (IF s[k] \in V THEN 1 ELSE 0)
<1> DEFINE t == RemoveAt(s, k)
           n == Len(s)
<1>1. n \in Nat \ {0} /\ DOMAIN s = 1..n /\ k \in 1..n
  BY LenProperties
<1>2. /\ DOMAIN t = 1..(n - 1)
      /\ \A j \in 1..(n - 1) : t[j] = IF j < k THEN s[j] ELSE s[j + 1]
  BY RemoveAtElementos
<1> HIDE DEF t, n
<1>4. DOMAIN s = 1..n /\ DOMAIN t = 1..(n - 1) /\ k \in 1..n /\ n \in Nat \ {0}
  BY <1>1, <1>2
<1>5. \A j \in 1..(n - 1) : t[j] = IF j < k THEN s[j] ELSE s[j + 1]
  BY <1>2
<1>3. Cuantos(t, V) = Cuantos(s, V) - (IF s[k] \in V THEN 1 ELSE 0)
  <2>1. ASSUME NEW i \in 1..n, \A j \in 1..(n - 1) : t[j] = IF j < i THEN s[j] ELSE s[j + 1]
        PROVE  Cuantos(t, V) = Cuantos(s, V) - (IF s[i] \in V THEN 1 ELSE 0)
    BY <1>4, <2>1, CuantosSaltea
  <2> QED
    BY <1>4, <1>5, <2>1
<1> QED
  BY <1>3 DEF t

LEMMA CuantosTail ==
  ASSUME NEW S, NEW s \in Seq(S), s # <<>>, NEW V
  PROVE  Cuantos(Tail(s), V) = Cuantos(s, V) - (IF Head(s) \in V THEN 1 ELSE 0)
<1> DEFINE t == Tail(s)
           n == Len(s)
<1>1. n \in Nat \ {0} /\ DOMAIN s = 1..n /\ 1 \in 1..n /\ Head(s) = s[1]
  BY LenProperties, EmptySeq
<1>2. /\ DOMAIN t = 1..(n - 1)
      /\ \A j \in 1..(n - 1) : t[j] = s[j + 1]
  <2>1. /\ t \in Seq(S) /\ Len(t) = n - 1
        /\ \A j \in 1..Len(t) : t[j] = s[j + 1]
    BY HeadTailProperties
  <2>2. DOMAIN t = 1..Len(t)
    <3> HIDE DEF t
    <3> QED
      BY <2>1, LenProperties
  <2> HIDE DEF t, n
  <2> QED
    BY <2>1, <2>2
<1> HIDE DEF t, n
<1>3. \A j \in 1..(n - 1) : t[j] = IF j < 1 THEN s[j] ELSE s[j + 1]
  BY <1>1, <1>2
<1>4. Cuantos(t, V) = Cuantos(s, V) - (IF s[1] \in V THEN 1 ELSE 0)
  BY <1>1, <1>2, <1>3, CuantosSaltea
<1> QED
  BY <1>1, <1>4 DEF t

LEMMA CuantosConcat ==
  ASSUME NEW S, NEW s \in Seq(S), NEW u \in Seq(S), NEW V
  PROVE  Cuantos(s \o u, V) = Cuantos(s, V) + Cuantos(u, V)
<1> DEFINE m == Len(s)
           n == Len(u)
           t == s \o u
           I == {i \in DOMAIN s : s[i] \in V}
           J == {j \in DOMAIN u : u[j] \in V}
           K == {k \in DOMAIN t : t[k] \in V}
           D == K \ I
           f == [j \in J |-> m + j]
<1>1. m \in Nat /\ n \in Nat /\ DOMAIN s = 1..m /\ DOMAIN u = 1..n
  BY LenProperties
<1>2. /\ DOMAIN t = 1..(m + n)
      /\ \A i \in 1..m : t[i] = s[i]
      /\ \A j \in 1..n : t[m + j] = u[j]
  <2>1. /\ t \in Seq(S) /\ Len(t) = m + n
        /\ \A i \in 1..(m + n) : t[i] = IF i <= m THEN s[i] ELSE u[i - m]
    BY ConcatProperties
  <2>2. DOMAIN t = 1..Len(t)
    <3> HIDE DEF t
    <3> QED
      BY <2>1, LenProperties
  <2> HIDE DEF t, m, n
  <2>3. ASSUME NEW i \in 1..m PROVE t[i] = s[i]
    BY <1>1, <2>1
  <2>4. ASSUME NEW j \in 1..n PROVE t[m + j] = u[j]
    <3>1. m + j \in 1..(m + n) /\ ~(m + j <= m) /\ (m + j) - m = j
      BY <1>1
    <3> QED
      BY <2>1, <3>1
  <2> QED
    BY <2>1, <2>2, <2>3, <2>4
<1>3. IsFiniteSet(I) /\ IsFiniteSet(J)
  BY CuantosTipo
<1>4. IsFiniteSet(K)
  <2>1. K \in SUBSET (1..(m + n))
    BY <1>2
  <2>2. IsFiniteSet(1..(m + n))
    <3> HIDE DEF m, n
    <3> QED
      BY <1>1, FS_Interval
  <2> HIDE DEF K
  <2> QED
    BY <2>1, <2>2, FS_Subset
<1> HIDE DEF t, m, n
<1>5. \A k \in D : k \in (m + 1)..(m + n) /\ u[k - m] \in V
  <2> SUFFICES ASSUME NEW k \in D PROVE k \in (m + 1)..(m + n) /\ u[k - m] \in V
    OBVIOUS
  <2>1. k \in 1..(m + n) /\ t[k] \in V /\ k \notin I
    BY <1>2
  <2>2. ~(k \in 1..m)
    BY <1>1, <1>2, <2>1
  <2>3. k - m \in 1..n /\ m + (k - m) = k
    BY <1>1, <2>1, <2>2
  <2>4. t[k] = u[k - m]
    BY <1>2, <2>3
  <2> QED
    BY <1>1, <2>1, <2>3, <2>4
<1>6. f \in [J -> D]
  <2> SUFFICES ASSUME NEW j \in J PROVE f[j] \in D
    OBVIOUS
  <2>1. j \in 1..n /\ u[j] \in V /\ f[j] = m + j
    BY <1>1
  <2>2. m + j \in 1..(m + n) /\ m + j \notin 1..m
    BY <1>1, <2>1
  <2>3. t[m + j] \in V
    BY <1>2, <2>1
  <2> QED
    BY <1>1, <1>2, <2>1, <2>2, <2>3
<1>7. \A a, b \in J : f[a] = f[b] => a = b
  <2> SUFFICES ASSUME NEW a \in J, NEW b \in J, f[a] = f[b] PROVE a = b
    OBVIOUS
  <2>1. a \in Nat /\ b \in Nat /\ m + a = m + b
    BY <1>1
  <2> QED
    BY <1>1, <2>1
<1>8. \A k \in D : \E j \in J : f[j] = k
  <2> SUFFICES ASSUME NEW k \in D PROVE \E j \in J : f[j] = k
    OBVIOUS
  <2>1. k \in (m + 1)..(m + n) /\ u[k - m] \in V
    BY <1>5
  <2>2. k - m \in 1..n /\ m + (k - m) = k
    BY <1>1, <2>1
  <2>3. k - m \in J
    BY <1>1, <2>1, <2>2
  <2> QED
    BY <2>2, <2>3
<1>9. I \subseteq K
  <2> SUFFICES ASSUME NEW i \in I PROVE i \in K
    OBVIOUS
  <2>1. i \in 1..m /\ s[i] \in V
    BY <1>1
  <2>2. i \in 1..(m + n) /\ t[i] = s[i]
    BY <1>1, <1>2, <2>1
  <2> QED
    BY <1>2, <2>1, <2>2
<1> HIDE DEF f, I, J, K, D
<1>10. IsFiniteSet(D)
  BY <1>4, FS_Subset DEF D
<1>11. f \in Injection(J, D) /\ f \in Surjection(J, D)
  BY <1>6, <1>7, <1>8 DEF Injection, Surjection, IsInjective
<1>12. Cardinality(J) = Cardinality(D)
  BY <1>10, <1>11, FS_Injection
<1>13. K = I \cup D /\ I \cap D = {}
  BY <1>9 DEF D
<1>14. Cardinality(I \cap D) = 0
  BY <1>13, FS_EmptySet
<1>15. Cardinality(K) = Cardinality(I) + Cardinality(D) - Cardinality(I \cap D)
  BY <1>3, <1>10, <1>13, FS_Union
<1>16. Cardinality(I) \in Nat /\ Cardinality(D) \in Nat
  BY <1>3, <1>10, FS_CardinalityType
<1>17. Cardinality(K) = Cardinality(I) + Cardinality(J)
  BY <1>12, <1>14, <1>15, <1>16
<1> QED
  BY <1>17 DEF Cuantos, I, J, K, t

Si(p) == IF p THEN 1 ELSE 0

(* The GDTs let in: those that left New. *)
Admitidos == 1..(Len(dtb) - Len(colaNew))

EsSeq(s) == s \in Seq(ToSet(s))

(* How many messages of a connection are of one of those kinds. *)
Con(s, Q) == Cardinality({i \in DOMAIN s : s[i].que \in Q})

(* Those messages are about d. *)
Dice(s, Q, d) == \A i \in DOMAIN s : s[i].que \in Q => s[i].d = d

Quienes == Admitidos \cup {Nadie}

CamposDTB == {"script", "status", "PC", "quantumFaltante", "cantIOs"}
CamposConsola == {"paso", "d", "fin", "pausas", "continuadas"}
CamposCPU == {"estado", "d", "pc", "q", "n", "com", "waitOk", "existe", "pausada", "muda"}

(* The shape of the state.  What only has to be there is not typed: the    *)
(* numbers that a message carries, its argument, the recursos.             *)
Forma ==
  /\ EsSeq(dtb)
  /\ \A d \in DOMAIN dtb : DOMAIN dtb[d] = CamposDTB /\ dtb[d].status \in Estados
  /\ colaNew \in Seq(Nat)
  /\ Len(colaNew) <= Len(dtb)
  /\ \A i \in DOMAIN colaNew : colaNew[i] = Len(dtb) - Len(colaNew) + i
  /\ colaReady \in Seq(Admitidos)
  /\ colaBloqueados \in Seq(Admitidos)
  /\ listaEjecutando \in Seq(Admitidos)
  /\ colaFinalizados \in Seq(Admitidos)
  /\ puedeEntrar \in Nat /\ enNew = Len(colaNew) /\ enReady \in Nat /\ plp \in BOOLEAN
  /\ DOMAIN consola = CamposConsola
  /\ consola.paso = "encolar" => consola.d \in Admitidos
  /\ planif \in [CPUs -> [d : Quienes, enMano : BOOLEAN]]
  /\ DOMAIN manejador = CPUs
  /\ \A c \in CPUs : manejador[c] = [paso |-> manejador[c].paso, r |-> manejador[c].r]
  /\ DOMAIN aSafa = CPUs /\ \A c \in CPUs : EsSeq(aSafa[c])
  /\ DOMAIN aCpu = CPUs /\ \A c \in CPUs : EsSeq(aCpu[c])
  /\ EsSeq(deDam) /\ \A i \in DOMAIN deDam : deDam[i].d = IdGuardado
  /\ DOMAIN cpu = CPUs
  /\ \A c \in CPUs : DOMAIN cpu[c] = CamposCPU /\ cpu[c].muda \in BOOLEAN
  /\ quitados \subseteq Admitidos

(* One turn per planner that waits. *)
Turno(c) ==
  /\ Si(planif[c].enMano) + Con(aCpu[c], {"ejecutar"}) + Si(cpu[c].estado # "libre" \/ cpu[c].muda)
       + Con(aSafa[c], Reportes)
     = Si(planif[c].d # Nadie)
  /\ ~(cpu[c].estado # "libre" /\ cpu[c].muda)

(* All that a turn says, and the handler of its report, is about the GDT   *)
(* that the planner waits for; a CPU says exit once, and then no more.     *)
Fiel(c) ==
  /\ Dice(aCpu[c], {"ejecutar"}, planif[c].d)
  /\ cpu[c].estado \in {"ejecutando", "abriendo"} => cpu[c].d = planif[c].d
  /\ Dice(aSafa[c], Reportes \cup {"exit"}, planif[c].d)
  /\ Con(aSafa[c], {"exit"}) <= Si(cpu[c].muda)
  /\ manejador[c].paso = "recolocar" =>
       aSafa[c] # <<>> /\ Head(aSafa[c]).que \in Reportes /\ manejador[c].r = planif[c].d

(* The places of the degree of multiprogramming. *)
Lugares == puedeEntrar + Si(plp) + (Len(dtb) - Len(colaNew)) = Grado + Len(colaFinalizados)

EnMano(d) == \E c \in CPUs : planif[c] = [d |-> d, enMano |-> TRUE]
Recolocando(d) == \E c \in CPUs : manejador[c] = [paso |-> "recolocar", r |-> d]

Sitios(d) ==
  Veces(colaNew, d) + Veces(colaReady, d) + Veces(colaBloqueados, d) + Veces(listaEjecutando, d)
    + Si(EnMano(d)) + Si(Recolocando(d)) + Si(EnConsola(d))

Silenciado(d) == \E c \in CPUs : planif[c].d = d /\ cpu[c].muda

UnSitio(d) ==
  /\ Sitios(d) <= 1
  /\ Veces(colaFinalizados, d) = 0 => Sitios(d) = 1
  /\ Veces(colaFinalizados, d) > 0 /\ Sitios(d) = 1 =>
       EnConsola(d) \/ (Veces(listaEjecutando, d) > 0 /\ Silenciado(d))
  /\ Veces(colaFinalizados, d) > 1 => d \in quitados
  /\ d \in quitados => Sitios(d) = Si(EnConsola(d))
  /\ EnConsola(d) /\ Veces(colaFinalizados, d) > 0 => d \in quitados

(* The GDT that a planner waits for is its own, and, unless the console    *)
(* took it, it is running, about to or being moved for it.                 *)
Vigente(c) ==
  planif[c].d \notin quitados \cup {Nadie} =>
    \/ planif[c].enMano
    \/ Veces(listaEjecutando, planif[c].d) > 0
    \/ manejador[c].paso = "recolocar"

ExitPrimero(c) ==
  Con(aSafa[c], {"exit"}) > 0 /\ planif[c].d \notin quitados => Veces(colaFinalizados, planif[c].d) = 0

Colas ==
  /\ \A d \in DOMAIN dtb : UnSitio(d)
  /\ \A c, e \in CPUs : planif[c].d = planif[e].d /\ planif[c].d # Nadie => c = e
  /\ \A c \in CPUs : Vigente(c) /\ ExitPrimero(c)

IInv ==
  /\ Forma
  /\ \A c \in CPUs : Turno(c)
  /\ \A c \in CPUs : Fiel(c)
  /\ Lugares
  /\ Colas
-----------------------------------------------------------------------------
(* Sequences of anything: what a connection carries. *)

LEMMA DeAlgoEsSeq ==
  ASSUME NEW S, NEW s \in Seq(S)
  PROVE  EsSeq(s)
<1>1. Len(s) \in Nat /\ DOMAIN s = 1..Len(s) /\ s \in [1..Len(s) -> S]
  BY LenProperties, SeqDef
<1>2. s \in [1..Len(s) -> ToSet(s)]
  <2>1. \A i \in 1..Len(s) : s[i] \in ToSet(s)
    BY <1>1 DEF ToSet
  <2> QED
    BY <1>1, <2>1
<1> QED
  BY <1>1, <1>2, SeqDef DEF EsSeq

LEMMA EsSeqAgregada ==
  ASSUME NEW s, EsSeq(s), NEW x
  PROVE  /\ EsSeq(Append(s, x))
         /\ DOMAIN Append(s, x) = 1..(Len(s) + 1)
         /\ \A i \in 1..Len(s) : Append(s, x)[i] = s[i]
         /\ Append(s, x)[Len(s) + 1] = x
         /\ Append(s, x) # <<>>
         /\ s # <<>> => Head(Append(s, x)) = Head(s)
<1> DEFINE T == ToSet(s) \cup {x}
           t == Append(s, x)
<1>1. s \in Seq(T) /\ x \in T
  BY DEF EsSeq
<1> HIDE DEF T
<1>2. /\ t \in Seq(T) /\ Len(t) = Len(s) + 1 /\ Len(s) \in Nat
      /\ \A i \in 1..Len(s) : t[i] = s[i]
      /\ t[Len(s) + 1] = x
  BY <1>1, AppendProperties, LenProperties
<1>3. Append(s, x) # <<>> /\ (s # <<>> => Head(Append(s, x)) = Head(s))
  BY <1>1, HeadTailAppend, AppendProperties
<1> HIDE DEF t
<1>4. EsSeq(t) /\ DOMAIN t = 1..Len(t)
  BY <1>2, DeAlgoEsSeq, LenProperties
<1> QED
  BY <1>2, <1>3, <1>4 DEF t

LEMMA EsSeqResto ==
  ASSUME NEW s, EsSeq(s), s # <<>>
  PROVE  /\ EsSeq(Tail(s))
         /\ DOMAIN s = 1..Len(s) /\ Len(s) \in Nat \ {0}
         /\ DOMAIN Tail(s) = 1..(Len(s) - 1)
         /\ \A i \in 1..(Len(s) - 1) : Tail(s)[i] = s[i + 1]
         /\ Head(s) = s[1]
<1> DEFINE t == Tail(s)
<1>1. s \in Seq(ToSet(s))
  BY DEF EsSeq
<1>2. /\ t \in Seq(ToSet(s)) /\ Len(t) = Len(s) - 1
      /\ \A i \in 1..Len(t) : t[i] = s[i + 1]
  BY <1>1, HeadTailProperties
<1>3. Len(s) \in Nat \ {0} /\ DOMAIN s = 1..Len(s) /\ Head(s) = s[1]
  BY <1>1, EmptySeq, LenProperties
<1> HIDE DEF t
<1>4. EsSeq(t) /\ DOMAIN t = 1..Len(t)
  BY <1>2, DeAlgoEsSeq, LenProperties
<1> QED
  BY <1>2, <1>3, <1>4 DEF t

LEMMA ConEsCuantos ==
  ASSUME NEW s, NEW T, s \in Seq(T), NEW Q
  PROVE  Con(s, Q) = Cuantos(s, {m \in T : m.que \in Q})
<1>1. \A i \in DOMAIN s : s[i] \in T
  BY ElementOfSeq, LenProperties
<1>2. {i \in DOMAIN s : s[i].que \in Q} = {i \in DOMAIN s : s[i] \in {m \in T : m.que \in Q}}
  BY <1>1
<1> QED
  BY <1>2 DEF Con, Cuantos

LEMMA ConTipo ==
  ASSUME NEW s, EsSeq(s), NEW Q
  PROVE  /\ Con(s, Q) \in Nat
         /\ Con(s, Q) = 0 <=> \A i \in DOMAIN s : s[i].que \notin Q
<1> DEFINE V == {m \in ToSet(s) : m.que \in Q}
<1>1. s \in Seq(ToSet(s))
  BY DEF EsSeq
<1>2. \A i \in DOMAIN s : s[i] \in ToSet(s)
  BY <1>1, ElementOfSeq, LenProperties
<1>3. Con(s, Q) = Cuantos(s, V)
  BY <1>1, ConEsCuantos
<1>4. \A i \in DOMAIN s : s[i] \notin V <=> s[i].que \notin Q
  BY <1>2
<1> HIDE DEF V
<1>5. Cuantos(s, V) \in Nat /\ (Cuantos(s, V) = 0 <=> \A i \in DOMAIN s : s[i] \notin V)
  BY <1>1, CuantosTipo
<1> QED
  BY <1>3, <1>4, <1>5

LEMMA ConAgregada ==
  ASSUME NEW s, EsSeq(s), NEW x, NEW Q
  PROVE  Con(Append(s, x), Q) = Con(s, Q) + Si(x.que \in Q)
<1> DEFINE T == ToSet(s) \cup {x}
           V == {m \in T : m.que \in Q}
           t == Append(s, x)
<1>1. s \in Seq(T) /\ x \in T
  BY DEF EsSeq
<1>2. x \in V <=> x.que \in Q
  OBVIOUS
<1>3. t \in Seq(T)
  <2> HIDE DEF T
  <2> QED
    BY <1>1, AppendProperties
<1>4. Con(s, Q) = Cuantos(s, V)
  BY <1>1, ConEsCuantos
<1>5. Con(t, Q) = Cuantos(t, V)
  <2> HIDE DEF t
  <2> QED
    BY <1>3, ConEsCuantos
<1> HIDE DEF V, T
<1>6. Cuantos(t, V) = Cuantos(s, V) + (IF x \in V THEN 1 ELSE 0)
  BY <1>1, CuantosAppend
<1> QED
  BY <1>2, <1>4, <1>5, <1>6 DEF Si, t

LEMMA ConResto ==
  ASSUME NEW s, EsSeq(s), s # <<>>, NEW Q
  PROVE  Con(Tail(s), Q) = Con(s, Q) - Si(Head(s).que \in Q)
<1> DEFINE T == ToSet(s)
           V == {m \in T : m.que \in Q}
           t == Tail(s)
<1>1. s \in Seq(T)
  BY DEF EsSeq
<1>2. Head(s) \in T /\ t \in Seq(T)
  <2> HIDE DEF T
  <2> QED
    BY <1>1, HeadTailProperties
<1>3. Head(s) \in V <=> Head(s).que \in Q
  BY <1>2
<1>4. Con(s, Q) = Cuantos(s, V)
  BY <1>1, ConEsCuantos
<1>5. Con(t, Q) = Cuantos(t, V)
  <2> HIDE DEF t
  <2> QED
    BY <1>2, ConEsCuantos
<1> HIDE DEF V, T
<1>6. Cuantos(t, V) = Cuantos(s, V) - (IF Head(s) \in V THEN 1 ELSE 0)
  BY <1>1, CuantosTail
<1> QED
  BY <1>3, <1>4, <1>5, <1>6 DEF Si, t

LEMMA DiceAgregada ==
  ASSUME NEW s, EsSeq(s), NEW x, NEW Q, NEW d
  PROVE  Dice(Append(s, x), Q, d) <=> Dice(s, Q, d) /\ (x.que \in Q => x.d = d)
<1> DEFINE t == Append(s, x)
<1>1. Len(s) \in Nat /\ DOMAIN s = 1..Len(s)
  BY LenProperties DEF EsSeq
<1>2. /\ DOMAIN t = 1..(Len(s) + 1)
      /\ \A i \in 1..Len(s) : t[i] = s[i]
      /\ t[Len(s) + 1] = x
  BY EsSeqAgregada
<1> HIDE DEF t
<1>3. DOMAIN t = DOMAIN s \cup {Len(s) + 1}
  BY <1>1, <1>2
<1>4. Dice(t, Q, d) <=> Dice(s, Q, d) /\ (x.que \in Q => x.d = d)
  BY <1>1, <1>2, <1>3 DEF Dice
<1> QED
  BY <1>4 DEF t

LEMMA DiceResto ==
  ASSUME NEW s, EsSeq(s), s # <<>>, NEW Q, NEW d, Dice(s, Q, d)
  PROVE  Dice(Tail(s), Q, d) /\ (Head(s).que \in Q => Head(s).d = d)
<1> DEFINE t == Tail(s)
<1>1. /\ DOMAIN s = 1..Len(s) /\ Len(s) \in Nat \ {0}
      /\ DOMAIN t = 1..(Len(s) - 1)
      /\ \A i \in 1..(Len(s) - 1) : t[i] = s[i + 1]
      /\ Head(s) = s[1]
  BY EsSeqResto
<1> HIDE DEF t
<1>2. Dice(t, Q, d)
  <2> SUFFICES ASSUME NEW i \in DOMAIN t, t[i].que \in Q PROVE t[i].d = d
    BY DEF Dice
  <2>1. i + 1 \in DOMAIN s /\ t[i] = s[i + 1]
    BY <1>1
  <2> QED
    BY <2>1 DEF Dice
<1>3. Head(s).que \in Q => Head(s).d = d
  BY <1>1 DEF Dice
<1> QED
  BY <1>2, <1>3 DEF t

LEMMA DiceNada ==
  ASSUME NEW s, EsSeq(s), NEW Q, Con(s, Q) = 0, NEW d
  PROVE  Dice(s, Q, d)
BY ConTipo DEF Dice

LEMMA CabezaCuenta ==
  ASSUME NEW s, EsSeq(s), s # <<>>, NEW Q, Head(s).que \in Q
  PROVE  Con(s, Q) \in Nat \ {0}
<1>1. 1 \in DOMAIN s /\ Head(s) = s[1]
  BY EsSeqResto
<1> QED
  BY <1>1, ConTipo

LEMMA ConVacia ==
  ASSUME NEW Q
  PROVE  Con(<<>>, Q) = 0
<1>1. {i \in DOMAIN <<>> : <<>>[i].que \in Q} = {}
  OBVIOUS
<1> QED
  BY <1>1, FS_EmptySet DEF Con

-----------------------------------------------------------------------------
(* The queues: how many times each has a GDT. *)

LEMMA VecesEsCuantos ==
  ASSUME NEW s, NEW d
  PROVE  Veces(s, d) = Cuantos(s, {d})
<1>1. {i \in DOMAIN s : s[i] = d} = {i \in DOMAIN s : s[i] \in {d}}
  OBVIOUS
<1> QED
  BY <1>1 DEF Veces, Cuantos

LEMMA VecesTipo ==
  ASSUME NEW S, NEW s \in Seq(S), NEW d
  PROVE  /\ Veces(s, d) \in Nat
         /\ Veces(s, d) = 0 <=> \A i \in DOMAIN s : s[i] # d
         /\ Contains(s, d) <=> Veces(s, d) > 0
         /\ Veces(s, d) > 0 => d \in S
<1>1. /\ Cuantos(s, {d}) \in Nat
      /\ Cuantos(s, {d}) = 0 <=> \A i \in DOMAIN s : s[i] \notin {d}
  BY CuantosTipo
<1>2. Veces(s, d) \in Nat /\ (Veces(s, d) = 0 <=> \A i \in DOMAIN s : s[i] # d)
  BY <1>1, VecesEsCuantos
<1>3. DOMAIN s = 1..Len(s) /\ \A i \in DOMAIN s : s[i] \in S
  BY ElementOfSeq, LenProperties
<1> QED
  BY <1>2, <1>3 DEF Contains

LEMMA VecesAgregada ==
  ASSUME NEW S, NEW s \in Seq(S), NEW x, NEW d
  PROVE  Veces(Append(s, x), d) = Veces(s, d) + Si(x = d)
<1>1. Cuantos(Append(s, x), {d}) = Cuantos(s, {d}) + (IF x \in {d} THEN 1 ELSE 0)
  BY CuantosAppend
<1> QED
  BY <1>1, VecesEsCuantos DEF Si

LEMMA VecesResto ==
  ASSUME NEW S, NEW s \in Seq(S), s # <<>>, NEW d
  PROVE  Veces(Tail(s), d) = Veces(s, d) - Si(Head(s) = d)
<1>1. Cuantos(Tail(s), {d}) = Cuantos(s, {d}) - (IF Head(s) \in {d} THEN 1 ELSE 0)
  BY CuantosTail
<1> QED
  BY <1>1, VecesEsCuantos DEF Si

LEMMA VecesQuitada ==
  ASSUME NEW S, NEW s \in Seq(S), NEW k \in DOMAIN s, NEW d
  PROVE  Veces(RemoveAt(s, k), d) = Veces(s, d) - Si(s[k] = d)
<1>1. Cuantos(RemoveAt(s, k), {d}) = Cuantos(s, {d}) - (IF s[k] \in {d} THEN 1 ELSE 0)
  BY CuantosRemoveAt
<1> QED
  BY <1>1, VecesEsCuantos DEF Si

(* Sin takes out one d, if there is one. *)
LEMMA SinUno ==
  ASSUME NEW S, NEW s \in Seq(S), NEW d
  PROVE  /\ Sin(s, d) \in Seq(S)
         /\ ~Contains(s, d) => Sin(s, d) = s
         /\ \A e : Veces(Sin(s, d), e) = Veces(s, e) - Si(e = d /\ Contains(s, d))
<1>0. Len(s) \in Nat /\ DOMAIN s = 1..Len(s)
  BY LenProperties
<1>1. CASE ~Contains(s, d)
  <2>1. Sin(s, d) = s
    BY <1>1 DEF Sin, RemoveFirst, Contains
  <2>2. \A e : Veces(s, e) \in Nat
    BY VecesTipo
  <2> QED
    BY <1>1, <2>1, <2>2 DEF Si
<1>2. CASE Contains(s, d)
  <2> DEFINE I == {i \in 1..Len(s) : s[i] = d}
  <2>1. Sin(s, d) = RemoveAt(s, Min(I))
    BY <1>2 DEF Sin, RemoveFirst, SelectInSeq, Contains
  <2>2. I \in SUBSET Nat /\ I # {}
    BY <1>2 DEF Contains
  <2>3. Min(I) \in I
    <3> HIDE DEF I
    <3> QED
      BY <2>2, MinEsElemento
  <2>4. Min(I) \in DOMAIN s /\ s[Min(I)] = d
    BY <1>0, <2>3
  <2> DEFINE k == Min(I)
  <2> HIDE DEF I, k
  <2>5. k \in DOMAIN s /\ s[k] = d /\ Sin(s, d) = RemoveAt(s, k)
    BY <2>1, <2>4 DEF k
  <2>6. RemoveAt(s, k) \in Seq(S)
    BY <2>5, RemoveAtElementos
  <2>7. \A e : Veces(RemoveAt(s, k), e) = Veces(s, e) - Si(s[k] = e)
    BY <2>5, VecesQuitada
  <2> QED
    BY <1>2, <2>5, <2>6, <2>7 DEF Si
<1> QED
  BY <1>1, <1>2

LEMMA VecesVacia ==
  ASSUME NEW d
  PROVE  Veces(<<>>, d) = 0
BY CuantosVacia, VecesEsCuantos
-----------------------------------------------------------------------------
(* The steps of a CPU that has a GDT, by what the S-AFA hears of them: at  *)
(* most one message that is about no turn, and then nothing, and the CPU   *)
(* goes on; or its report, and it is free; or exit, and it is silent.      *)

Menor(m) == m.que \notin Reportes \cup {"exit"}

Previo(c, p) == p = aSafa[c] \/ \E m : Menor(m) /\ p = Append(aSafa[c], m)

Sigue(c, p) ==
  /\ aSafa'[c] = p
  /\ cpu'[c].estado # "libre" /\ cpu'[c].muda = cpu[c].muda
  /\ cpu'[c].estado \in {"ejecutando", "abriendo"} => cpu'[c].d = cpu[c].d

Reporta(c, p) ==
  /\ \E m : m.que \in Reportes /\ m.d = cpu[c].d /\ aSafa'[c] = Append(p, m)
  /\ cpu'[c].estado = "libre" /\ cpu'[c].muda = cpu[c].muda

Aborta(c, p) ==
  /\ \E m : m.que = "exit" /\ m.d = cpu[c].d /\ aSafa'[c] = Append(p, m)
  /\ cpu'[c].estado = "libre" /\ cpu'[c].muda = TRUE

PasoCPU(c) ==
  /\ cpu[c].estado \in {"ejecutando", "abriendo"}
  /\ DOMAIN aSafa' = CPUs /\ DOMAIN cpu' = CPUs
  /\ \A e \in CPUs \ {c} : aSafa'[e] = aSafa[e] /\ cpu'[e] = cpu[e]
  /\ DOMAIN cpu'[c] = CamposCPU
  /\ \E p : Previo(c, p) /\ (Sigue(c, p) \/ Reporta(c, p) \/ Aborta(c, p))
  /\ UNCHANGED <<colas, plp, consola, planif, manejador, aCpu, deDam, quitados>>

LEMMA Pegados ==
  ASSUME NEW a, NEW b
  PROVE  /\ <<>> \o <<>> = <<>> /\ <<>> \o <<a>> = <<a>>
         /\ <<a>> \o <<>> = <<a>> /\ <<a>> \o <<b>> = <<a, b>>
<1> DEFINE T == {a, b}
           x == <<a>> \o <<b>>
<1>1. <<>> \in Seq(T) /\ <<a>> \in Seq(T) /\ <<b>> \in Seq(T) /\ <<a, b>> \in Seq(T)
  OBVIOUS
<1> HIDE DEF T
<1>2. <<>> \o <<>> = <<>> /\ <<>> \o <<a>> = <<a>> /\ <<a>> \o <<>> = <<a>>
  BY <1>1, ConcatEmptySeq
<1>3. /\ x \in Seq(T) /\ Len(x) = Len(<<a>>) + Len(<<b>>)
      /\ \A i \in 1..(Len(<<a>>) + Len(<<b>>)) :
           x[i] = IF i <= Len(<<a>>) THEN <<a>>[i] ELSE <<b>>[i - Len(<<a>>)]
  BY <1>1, ConcatProperties
<1> HIDE DEF x
<1>4. Len(<<a>>) = 1 /\ Len(<<b>>) = 1 /\ Len(<<a, b>>) = 2
  OBVIOUS
<1>5. Len(x) = 2 /\ x[1] = a /\ x[2] = b
  BY <1>3, <1>4
<1>6. \A i \in 1..2 : x[i] = <<a, b>>[i]
  BY <1>5
<1>7. x = <<a, b>>
  BY <1>1, <1>3, <1>4, <1>5, <1>6, SeqEqual
<1> QED
  BY <1>2, <1>7 DEF x

LEMMA Agregados ==
  ASSUME NEW s, EsSeq(s), NEW a, NEW b
  PROVE  /\ s \o <<>> = s
         /\ s \o <<a>> = Append(s, a)
         /\ s \o <<a, b>> = Append(Append(s, a), b)
<1> DEFINE T == ToSet(s) \cup {a, b}
<1>1. s \in Seq(T) /\ a \in T /\ b \in T /\ <<a>> \in Seq(T) /\ <<b>> \in Seq(T)
  BY DEF EsSeq
<1>2. <<a, b>> = <<a>> \o <<b>>
  BY Pegados
<1> HIDE DEF T
<1>3. s \o <<>> = s
  BY <1>1, ConcatEmptySeq
<1>4. s \o <<a>> = Append(s, a)
  BY <1>1, AppendIsConcat
<1>5. Append(s, a) \in Seq(T)
  BY <1>1, AppendProperties
<1>6. Append(Append(s, a), b) = Append(s, a) \o <<b>>
  BY <1>1, <1>5, AppendIsConcat
<1>7. (s \o <<a>>) \o <<b>> = s \o (<<a>> \o <<b>>)
  BY <1>1, ConcatAssociative
<1> QED
  BY <1>2, <1>3, <1>4, <1>6, <1>7

(* How the record of a CPU changes. *)
LEMMA CamposDeCPU ==
  ASSUME NEW x, DOMAIN x = CamposCPU
  PROVE  /\ DOMAIN Libre(x) = CamposCPU /\ Libre(x).estado = "libre" /\ Libre(x).muda = x.muda
         /\ DOMAIN Muda(x) = CamposCPU /\ Muda(x).estado = "libre" /\ Muda(x).muda = TRUE
<1>1. DOMAIN Libre(x) = CamposCPU /\ Libre(x).estado = "libre" /\ Libre(x).muda = x.muda
  BY DEF Libre, CamposCPU
<1> QED
  BY <1>1 DEF Muda, CamposCPU

(* A step that sends ms and leaves the CPU at x. *)
LEMMA EfectoDeCPU ==
  ASSUME NEW c \in CPUs, Forma, cpu[c].estado \in {"ejecutando", "abriendo"},
         NEW x, DOMAIN x = CamposCPU, cpu' = [cpu EXCEPT ![c] = x],
         NEW p, Previo(c, p), NEW s, aSafa' = [aSafa EXCEPT ![c] = s],
         \/ /\ s = p /\ x.estado # "libre" /\ x.muda = cpu[c].muda
            /\ x.estado \in {"ejecutando", "abriendo"} => x.d = cpu[c].d
         \/ /\ \E m : m.que \in Reportes /\ m.d = cpu[c].d /\ s = Append(p, m)
            /\ x.estado = "libre" /\ x.muda = cpu[c].muda
         \/ /\ \E m : m.que = "exit" /\ m.d = cpu[c].d /\ s = Append(p, m)
            /\ x.estado = "libre" /\ x.muda = TRUE,
         UNCHANGED <<colas, plp, consola, planif, manejador, aCpu, deDam, quitados>>
  PROVE  PasoCPU(c)
<1>1. DOMAIN aSafa = CPUs /\ DOMAIN cpu = CPUs
  BY DEF Forma
<1>2. DOMAIN aSafa' = CPUs /\ DOMAIN cpu' = CPUs /\ aSafa'[c] = s /\ cpu'[c] = x
  BY <1>1
<1>3. \A e \in CPUs \ {c} : aSafa'[e] = aSafa[e] /\ cpu'[e] = cpu[e]
  BY <1>1
<1>4. Sigue(c, p) \/ Reporta(c, p) \/ Aborta(c, p)
  BY <1>2 DEF Sigue, Reporta, Aborta
<1> QED
  BY <1>2, <1>3, <1>4 DEF PasoCPU

(* Seguir after at most one message that is about no turn. *)
LEMMA SeguirEsPaso ==
  ASSUME NEW c \in CPUs, Forma, cpu[c].estado = "ejecutando", NEW ms,
         ms = <<>> \/ \E m : Menor(m) /\ ms = <<m>>,
         Seguir(c, ms),
         UNCHANGED <<colas, plp, consola, planif, manejador, aCpu, deDam, quitados>>
  PROVE  PasoCPU(c)
<1> DEFINE x == cpu[c]
           ultima == x.pc + 1 = Len(Script(c))
           n == IF Linea(c).op = "#" THEN x.n ELSE x.n + 1
           fin == IF ultima THEN <<Aviso("finalizar", x.d, 0, 0)>>
                  ELSE IF n >= x.q THEN <<Aviso("continuar", x.d, Hechas(c) + 1, 0)>> ELSE <<>>
           y == IF ultima \/ n >= x.q THEN Libre(x)
                  ELSE [x EXCEPT !.pc = @ + 1, !.n = n, !.com = Hechas(c) + 1 - n]
           p == aSafa[c] \o ms
           s == aSafa[c] \o (ms \o fin)
<1>1. DOMAIN aSafa = CPUs /\ DOMAIN cpu = CPUs /\ EsSeq(aSafa[c]) /\ DOMAIN x = CamposCPU
  BY DEF Forma
<1>2. aSafa' = [aSafa EXCEPT ![c] = s] /\ cpu' = [cpu EXCEPT ![c] = y]
  BY <1>1 DEF Seguir, Enviar
<1>3. Previo(c, p) /\ EsSeq(p)
  <2>1. CASE ms = <<>>
    <3>1. p = aSafa[c]
      BY <1>1, <2>1, Agregados
    <3> QED
      BY <1>1, <3>1 DEF Previo
  <2>2. CASE \E m : Menor(m) /\ ms = <<m>>
    <3>1. PICK m : Menor(m) /\ ms = <<m>>
      BY <2>2
    <3>2. p = Append(aSafa[c], m)
      BY <1>1, <3>1, Agregados
    <3> QED
      BY <1>1, <3>1, <3>2, EsSeqAgregada DEF Previo
  <2> QED
    BY <2>1, <2>2
<1>4. ASSUME NEW a, fin = <<a>> PROVE s = Append(p, a)
  <2>1. CASE ms = <<>>
    <3>1. ms \o fin = <<a>> /\ p = aSafa[c]
      BY <1>1, <1>4, <2>1, Agregados, Pegados
    <3>2. aSafa[c] \o <<a>> = Append(aSafa[c], a)
      BY <1>1, Agregados
    <3> QED
      BY <3>1, <3>2
  <2>2. CASE \E m : Menor(m) /\ ms = <<m>>
    <3>1. PICK m : ms = <<m>>
      BY <2>2
    <3>2. ms \o fin = <<m, a>> /\ p = Append(aSafa[c], m)
      BY <1>1, <1>4, <3>1, Agregados, Pegados
    <3>3. aSafa[c] \o <<m, a>> = Append(Append(aSafa[c], m), a)
      BY <1>1, Agregados
    <3> QED
      BY <3>2, <3>3
  <2> QED
    BY <2>1, <2>2
<1>5. ASSUME fin = <<>> PROVE s = p
  <2>1. ms \o <<>> = ms
    BY Pegados
  <2> QED
    BY <1>5, <2>1
<1>6. DOMAIN y = CamposCPU
  <2>1. CASE ultima \/ n >= x.q
    BY <1>1, <2>1, CamposDeCPU
  <2>2. CASE ~(ultima \/ n >= x.q)
    BY <1>1, <2>2
  <2> QED
    BY <2>1, <2>2
<1>7. CASE ultima \/ n >= x.q
  <2>1. y.estado = "libre" /\ y.muda = x.muda
    BY <1>1, <1>7, CamposDeCPU
  <2>2. \E m : m.que \in Reportes /\ m.d = x.d /\ s = Append(p, m)
    <3>1. CASE ultima
      <4> DEFINE a == Aviso("finalizar", x.d, 0, 0)
      <4>1. s = Append(p, a)
        BY <1>4, <3>1
      <4>2. a.que \in Reportes /\ a.d = x.d
        BY DEF Aviso, Reportes
      <4> QED
        BY <4>1, <4>2
    <3>2. CASE ~ultima
      <4> DEFINE a == Aviso("continuar", x.d, Hechas(c) + 1, 0)
      <4>1. s = Append(p, a)
        BY <1>4, <1>7, <3>2
      <4>2. a.que \in Reportes /\ a.d = x.d
        BY DEF Aviso, Reportes
      <4> QED
        BY <4>1, <4>2
    <3> QED
      BY <3>1, <3>2
  <2> HIDE DEF y, s, p
  <2> QED
    BY <1>2, <1>3, <1>6, <2>1, <2>2, EfectoDeCPU
<1>8. CASE ~(ultima \/ n >= x.q)
  <2>1. s = p
    BY <1>5, <1>8
  <2>2. y.estado = "ejecutando" /\ y.muda = x.muda /\ y.d = x.d
    BY <1>1, <1>8 DEF CamposCPU
  <2> HIDE DEF y, s, p
  <2> QED
    BY <1>2, <1>3, <1>6, <2>1, <2>2, EfectoDeCPU
<1> QED
  BY <1>7, <1>8

(* Parar: the report is the last message. *)
LEMMA PararEsPaso ==
  ASSUME NEW c \in CPUs, Forma, cpu[c].estado = "ejecutando", NEW ms, NEW a,
         a.que \in Reportes, a.d = cpu[c].d,
         ms = <<a>> \/ \E m : Menor(m) /\ ms = <<m, a>>,
         Parar(c, ms),
         UNCHANGED <<colas, plp, consola, planif, manejador, aCpu, deDam, quitados>>
  PROVE  PasoCPU(c)
<1> DEFINE x == cpu[c]
           y == Libre(x)
           s == aSafa[c] \o ms
<1>1. DOMAIN aSafa = CPUs /\ DOMAIN cpu = CPUs /\ EsSeq(aSafa[c]) /\ DOMAIN x = CamposCPU
  BY DEF Forma
<1>2. aSafa' = [aSafa EXCEPT ![c] = s] /\ cpu' = [cpu EXCEPT ![c] = y]
  BY <1>1 DEF Parar, Enviar
<1>3. DOMAIN y = CamposCPU /\ y.estado = "libre" /\ y.muda = x.muda
  BY <1>1, CamposDeCPU
<1>4. PICK p : Previo(c, p) /\ s = Append(p, a)
  <2>1. CASE ms = <<a>>
    <3>1. s = Append(aSafa[c], a)
      BY <1>1, <2>1, Agregados
    <3> QED
      BY <3>1 DEF Previo
  <2>2. CASE \E m : Menor(m) /\ ms = <<m, a>>
    <3>1. PICK m : Menor(m) /\ ms = <<m, a>>
      BY <2>2
    <3>2. s = Append(Append(aSafa[c], m), a)
      BY <1>1, <3>1, Agregados
    <3>3. Previo(c, Append(aSafa[c], m))
      BY <3>1 DEF Previo
    <3> QED
      BY <3>2, <3>3
  <2> QED
    BY <2>1, <2>2
<1> HIDE DEF y, s
<1> QED
  BY <1>2, <1>3, <1>4, EfectoDeCPU

LEMMA AbortarEsPaso ==
  ASSUME NEW c \in CPUs, Forma, cpu[c].estado \in {"ejecutando", "abriendo"}, NEW ms,
         ms = <<>> \/ \E m : Menor(m) /\ ms = <<m>>,
         Abortar(c, ms),
         UNCHANGED <<colas, plp, consola, planif, manejador, aCpu, deDam, quitados>>
  PROVE  PasoCPU(c)
<1> DEFINE x == cpu[c]
           y == Muda(x)
           a == Pedir("exit", x.d, "0")
           s == aSafa[c] \o (ms \o <<a>>)
<1>1. DOMAIN aSafa = CPUs /\ DOMAIN cpu = CPUs /\ EsSeq(aSafa[c]) /\ DOMAIN x = CamposCPU
  BY DEF Forma
<1>2. aSafa' = [aSafa EXCEPT ![c] = s] /\ cpu' = [cpu EXCEPT ![c] = y]
  BY <1>1 DEF Abortar, Enviar
<1>3. DOMAIN y = CamposCPU /\ y.estado = "libre" /\ y.muda = TRUE
  BY <1>1, CamposDeCPU
<1>4. PICK p : Previo(c, p) /\ s = Append(p, a)
  <2>1. CASE ms = <<>>
    <3>1. ms \o <<a>> = <<a>>
      BY <2>1, Pegados
    <3>2. s = Append(aSafa[c], a)
      BY <1>1, <3>1, Agregados
    <3> QED
      BY <3>2 DEF Previo
  <2>2. CASE \E m : Menor(m) /\ ms = <<m>>
    <3>1. PICK m : Menor(m) /\ ms = <<m>>
      BY <2>2
    <3>2. ms \o <<a>> = <<m, a>>
      BY <3>1, Pegados
    <3>3. s = Append(Append(aSafa[c], m), a)
      <4>1. s = aSafa[c] \o <<m, a>>
        BY <3>2
      <4> HIDE DEF a, s
      <4>2. aSafa[c] \o <<m, a>> = Append(Append(aSafa[c], m), a)
        BY <1>1, Agregados
      <4> QED
        BY <4>1, <4>2
    <3>4. Previo(c, Append(aSafa[c], m))
      BY <3>1 DEF Previo
    <3> QED
      BY <3>3, <3>4
  <2> QED
    BY <2>1, <2>2
<1>5. a.que = "exit" /\ a.d = x.d
  BY DEF Pedir
<1> HIDE DEF y, s, a
<1> QED
  BY <1>2, <1>3, <1>4, <1>5, EfectoDeCPU

(* A CPU that goes on after a message, or after none. *)
LEMMA AvanzarEsPaso ==
  ASSUME NEW c \in CPUs, Forma, cpu[c].estado \in {"ejecutando", "abriendo"}, NEW e \in {"abriendo", "muerta", "colgada"},
         cpu' = [cpu EXCEPT ![c].estado = e],
         UNCHANGED aSafa \/ \E m : Menor(m) /\ Enviar(c, <<m>>),
         UNCHANGED <<colas, plp, consola, planif, manejador, aCpu, deDam, quitados>>
  PROVE  PasoCPU(c)
<1> DEFINE x == [cpu[c] EXCEPT !.estado = e]
<1>1. DOMAIN aSafa = CPUs /\ DOMAIN cpu = CPUs /\ EsSeq(aSafa[c]) /\ DOMAIN cpu[c] = CamposCPU
  BY DEF Forma
<1>2. cpu' = [cpu EXCEPT ![c] = x]
  BY <1>1
<1>3. DOMAIN x = CamposCPU /\ x.estado = e /\ x.muda = cpu[c].muda /\ x.d = cpu[c].d
  BY <1>1 DEF CamposCPU
<1> HIDE DEF x
<1>4. x.estado # "libre"
  BY <1>3
<1>5. CASE UNCHANGED aSafa
  <2>1. DOMAIN cpu' = CPUs /\ cpu'[c] = x /\ \A f \in CPUs \ {c} : cpu'[f] = cpu[f]
    BY <1>1, <1>2
  <2>2. Previo(c, aSafa[c])
    BY DEF Previo
  <2>3. Sigue(c, aSafa[c])
    BY <1>3, <1>4, <1>5, <2>1 DEF Sigue
  <2> QED
    BY <1>1, <1>3, <1>5, <2>1, <2>2, <2>3 DEF PasoCPU
<1>6. CASE \E m : Menor(m) /\ Enviar(c, <<m>>)
  <2>1. PICK m : Menor(m) /\ Enviar(c, <<m>>)
    BY <1>6
  <2> DEFINE s == Append(aSafa[c], m)
  <2>2. aSafa[c] \o <<m>> = s
    BY <1>1, Agregados
  <2>3. aSafa' = [aSafa EXCEPT ![c] = s]
    BY <2>1, <2>2 DEF Enviar
  <2>4. Previo(c, s)
    BY <2>1 DEF Previo
  <2> HIDE DEF s
  <2> QED
    BY <1>2, <1>3, <1>4, <2>3, <2>4, EfectoDeCPU
<1> QED
  BY <1>5, <1>6

Sentencia(c) ==
  \/ Concentrar(c) \/ Wait(c) \/ Signal(c) \/ Asignar(c) \/ Abrir(c) \/ LeerExistente(c)
  \/ Flush(c) \/ Close(c) \/ Crear(c) \/ Borrar(c) \/ Colgarse(c) \/ SinScript(c)

LEMMA SentenciaEsPaso ==
  ASSUME NEW c \in CPUs, Forma, Sentencia(c)
  PROVE  PasoCPU(c)
<1> DEFINE Igual == UNCHANGED <<colas, plp, consola, planif, manejador, aCpu, deDam, quitados>>
<1>1. \A que, d, arg : que \in {"wait", "signal", "verificar"} => Menor(Pedir(que, d, arg))
  BY DEF Menor, Pedir, Reportes
<1>2. \A io : Bloqueo(c, io).que \in Reportes /\ Bloqueo(c, io).d = cpu[c].d
  BY DEF Bloqueo, Aviso, Reportes
<1>3. CASE Concentrar(c)
  BY <1>3, SeguirEsPaso DEF Concentrar, Ejecuta, SinSAFA
<1>4. CASE Wait(c)
  <2> DEFINE m == Pedir("wait", cpu[c].d, Linea(c).arg)
             a == Bloqueo(c, 0)
  <2>1. cpu[c].estado = "ejecutando" /\ Igual /\ Menor(m) /\ a.que \in Reportes /\ a.d = cpu[c].d
    BY <1>1, <1>2, <1>4 DEF Wait, Ejecuta, SinSAFA
  <2>2. Seguir(c, <<m>>) \/ Parar(c, <<m, a>>)
    BY <1>4 DEF Wait
  <2> HIDE DEF m, a
  <2>3. CASE Seguir(c, <<m>>)
    BY <2>1, <2>3, SeguirEsPaso
  <2>4. CASE Parar(c, <<m, a>>)
    BY <2>1, <2>4, PararEsPaso
  <2> QED
    BY <2>2, <2>3, <2>4
<1>5. CASE Signal(c)
  <2> DEFINE m == Pedir("signal", cpu[c].d, Linea(c).arg)
  <2>1. cpu[c].estado = "ejecutando" /\ Igual /\ Menor(m) /\ Seguir(c, <<m>>)
    BY <1>1, <1>5 DEF Signal, Ejecuta, SinSAFA
  <2> HIDE DEF m
  <2> QED
    BY <2>1, SeguirEsPaso
<1> DEFINE v == Verificar(c)
<1>6. Menor(v)
  BY <1>1 DEF Verificar
<1>7. CASE Asignar(c)
  <2>1. cpu[c].estado = "ejecutando" /\ Igual /\ Abortar(c, <<v>>)
    BY <1>7 DEF Asignar, Ejecuta, SinSAFA
  <2> HIDE DEF v
  <2> QED
    BY <1>6, <2>1, AbortarEsPaso
<1>8. CASE Abrir(c)
  <2>1. /\ cpu[c].estado = "ejecutando" /\ Igual /\ Enviar(c, <<v>>)
        /\ cpu' = [cpu EXCEPT ![c].estado = "abriendo"]
    BY <1>8 DEF Abrir, Ejecuta, SinSAFA
  <2> HIDE DEF v
  <2> QED
    BY <1>6, <2>1, AvanzarEsPaso
<1>9. CASE LeerExistente(c)
  <2>1. cpu[c].estado = "abriendo" /\ Igual
    BY <1>9 DEF LeerExistente, SinSAFA
  <2>2. CASE Abortar(c, <<>>)
    BY <2>1, <2>2, AbortarEsPaso
  <2>3. CASE cpu' = [cpu EXCEPT ![c].estado = "muerta"] /\ UNCHANGED aSafa
    BY <2>1, <2>3, AvanzarEsPaso
  <2> QED
    BY <1>9, <2>2, <2>3 DEF LeerExistente
<1>10. CASE Flush(c)
  <2> DEFINE a == [Bloqueo(c, 0) EXCEPT !.arg = "falta"]
  <2>1. cpu[c].estado = "ejecutando" /\ Igual /\ Parar(c, <<v, a>>)
    BY <1>10 DEF Flush, Ejecuta, SinSAFA
  <2>2. a.que \in Reportes /\ a.d = cpu[c].d
    BY DEF Bloqueo, Aviso, Reportes
  <2> HIDE DEF v, a
  <2> QED
    BY <1>6, <2>1, <2>2, PararEsPaso
<1>11. CASE Close(c)
  <2>1. /\ cpu[c].estado = "ejecutando" /\ Igual /\ Enviar(c, <<v>>)
        /\ cpu' = [cpu EXCEPT ![c].estado = "muerta"]
    BY <1>11 DEF Close, Ejecuta, SinSAFA
  <2> HIDE DEF v
  <2> QED
    BY <1>6, <2>1, AvanzarEsPaso
<1>12. CASE Crear(c) \/ Borrar(c)
  <2> DEFINE a == Bloqueo(c, 1)
  <2>1. cpu[c].estado = "ejecutando" /\ Igual /\ Parar(c, <<a>>) /\ a.que \in Reportes /\ a.d = cpu[c].d
    BY <1>2, <1>12 DEF Crear, Borrar, Ejecuta, SinSAFA
  <2> HIDE DEF a
  <2> QED
    BY <2>1, PararEsPaso
<1>13. CASE Colgarse(c)
  <2>1. /\ cpu[c].estado = "ejecutando" /\ Igual /\ UNCHANGED aSafa
        /\ cpu' = [cpu EXCEPT ![c].estado = "colgada"]
    BY <1>13 DEF Colgarse, SinSAFA
  <2> QED
    BY <2>1, AvanzarEsPaso
<1>14. CASE SinScript(c)
  <2>1. /\ cpu[c].estado = "ejecutando" /\ Igual /\ UNCHANGED aSafa
        /\ cpu' = [cpu EXCEPT ![c].estado = "muerta"]
    BY <1>14 DEF SinScript, Ejecuta, SinSAFA
  <2> QED
    BY <2>1, AvanzarEsPaso
<1> QED
  BY <1>3, <1>4, <1>5, <1>7, <1>8, <1>9, <1>10, <1>11, <1>12, <1>13, <1>14 DEF Sentencia
-----------------------------------------------------------------------------
(* The steps that move no GDT and no turn: the console's orders, the       *)
(* recursos, the files, what the DAM asks (its GDT is never there), a      *)
(* message to a CPU that is not an order to execute.                       *)

MismosDTB ==
  /\ EsSeq(dtb') /\ Len(dtb') = Len(dtb) /\ DOMAIN dtb' = DOMAIN dtb
  /\ \A d \in DOMAIN dtb : DOMAIN dtb'[d] = CamposDTB /\ dtb'[d].status \in Estados

SafaLlana(c) ==
  \/ aSafa'[c] = aSafa[c]
  \/ aSafa[c] # <<>> /\ Menor(Head(aSafa[c])) /\ aSafa'[c] = Tail(aSafa[c])

CpuLlana(c) ==
  \/ aCpu'[c] = aCpu[c]
  \/ \E m : m.que # "ejecutar" /\ aCpu'[c] = Append(aCpu[c], m)
  \/ aCpu[c] # <<>> /\ Head(aCpu[c]).que # "ejecutar" /\ aCpu'[c] = Tail(aCpu[c])

ManejadorLlano(c) ==
  \/ manejador'[c] = manejador[c]
  \/ /\ manejador[c].paso # "recolocar" /\ manejador'[c].paso # "recolocar"
     /\ manejador'[c] = [paso |-> manejador'[c].paso, r |-> manejador'[c].r]

PasoLlano ==
  /\ UNCHANGED <<colaNew, colaReady, colaBloqueados, listaEjecutando, colaFinalizados, puedeEntrar, enNew, plp,
                 planif, quitados>>
  /\ MismosDTB
  /\ enReady' \in Nat
  /\ \/ UNCHANGED consola
     \/ consola.paso # "encolar" /\ consola'.paso # "encolar" /\ DOMAIN consola' = CamposConsola
  /\ EsSeq(deDam') /\ \A i \in DOMAIN deDam' : deDam'[i].d = IdGuardado
  /\ DOMAIN aSafa' = CPUs /\ DOMAIN aCpu' = CPUs /\ DOMAIN manejador' = CPUs /\ DOMAIN cpu' = CPUs
  /\ \A c \in CPUs :
       /\ SafaLlana(c) /\ CpuLlana(c) /\ ManejadorLlano(c)
       /\ DOMAIN cpu'[c] = CamposCPU
       /\ cpu'[c].estado = cpu[c].estado /\ cpu'[c].d = cpu[c].d /\ cpu'[c].muda = cpu[c].muda

(* Connections that keep what is said of the turns. *)
LEMMA CanalesLlanos ==
  ASSUME NEW c \in CPUs, Forma, Turno(c), Fiel(c), SafaLlana(c), CpuLlana(c)
  PROVE  /\ EsSeq(aSafa'[c]) /\ EsSeq(aCpu'[c])
         /\ Con(aSafa'[c], Reportes) = Con(aSafa[c], Reportes)
         /\ Con(aSafa'[c], {"exit"}) = Con(aSafa[c], {"exit"})
         /\ Dice(aSafa'[c], Reportes \cup {"exit"}, planif[c].d)
         /\ Con(aCpu'[c], {"ejecutar"}) = Con(aCpu[c], {"ejecutar"})
         /\ Dice(aCpu'[c], {"ejecutar"}, planif[c].d)
         /\ aSafa[c] # <<>> /\ Head(aSafa[c]).que \in Reportes => aSafa'[c] = aSafa[c]
<1>1. EsSeq(aSafa[c]) /\ EsSeq(aCpu[c])
  BY DEF Forma
<1>2. /\ Con(aSafa[c], Reportes) \in Nat /\ Con(aSafa[c], {"exit"}) \in Nat
      /\ Con(aCpu[c], {"ejecutar"}) \in Nat
  BY <1>1, ConTipo
<1>3. Dice(aSafa[c], Reportes \cup {"exit"}, planif[c].d) /\ Dice(aCpu[c], {"ejecutar"}, planif[c].d)
  BY DEF Fiel
<1>5. /\ EsSeq(aSafa'[c])
      /\ Con(aSafa'[c], Reportes) = Con(aSafa[c], Reportes)
      /\ Con(aSafa'[c], {"exit"}) = Con(aSafa[c], {"exit"})
      /\ Dice(aSafa'[c], Reportes \cup {"exit"}, planif[c].d)
  <2>1. CASE aSafa'[c] = aSafa[c]
    BY <1>1, <1>3, <2>1
  <2>2. CASE aSafa[c] # <<>> /\ Menor(Head(aSafa[c])) /\ aSafa'[c] = Tail(aSafa[c])
    <3>1. Head(aSafa[c]).que \notin Reportes /\ Head(aSafa[c]).que # "exit"
      BY <2>2 DEF Menor
    <3>2. /\ EsSeq(Tail(aSafa[c]))
          /\ Con(Tail(aSafa[c]), Reportes) = Con(aSafa[c], Reportes) - Si(Head(aSafa[c]).que \in Reportes)
          /\ Con(Tail(aSafa[c]), {"exit"}) = Con(aSafa[c], {"exit"}) - Si(Head(aSafa[c]).que \in {"exit"})
          /\ Dice(Tail(aSafa[c]), Reportes \cup {"exit"}, planif[c].d)
      BY <1>1, <1>3, <2>2, EsSeqResto, ConResto, DiceResto
    <3> QED
      BY <1>2, <2>2, <3>1, <3>2 DEF Si
  <2> QED
    BY <2>1, <2>2 DEF SafaLlana
<1>6. aSafa[c] # <<>> /\ Head(aSafa[c]).que \in Reportes => aSafa'[c] = aSafa[c]
  BY DEF SafaLlana, Menor
<1>7. /\ EsSeq(aCpu'[c])
      /\ Con(aCpu'[c], {"ejecutar"}) = Con(aCpu[c], {"ejecutar"})
      /\ Dice(aCpu'[c], {"ejecutar"}, planif[c].d)
  <2>1. CASE aCpu'[c] = aCpu[c]
    BY <1>1, <1>3, <2>1
  <2>2. CASE \E m : m.que # "ejecutar" /\ aCpu'[c] = Append(aCpu[c], m)
    <3>1. PICK m : m.que # "ejecutar" /\ aCpu'[c] = Append(aCpu[c], m)
      BY <2>2
    <3>2. /\ EsSeq(Append(aCpu[c], m))
          /\ Con(Append(aCpu[c], m), {"ejecutar"}) = Con(aCpu[c], {"ejecutar"}) + Si(m.que \in {"ejecutar"})
          /\ Dice(Append(aCpu[c], m), {"ejecutar"}, planif[c].d)
               <=> Dice(aCpu[c], {"ejecutar"}, planif[c].d) /\ (m.que \in {"ejecutar"} => m.d = planif[c].d)
      BY <1>1, EsSeqAgregada, ConAgregada, DiceAgregada
    <3> QED
      BY <1>2, <1>3, <3>1, <3>2 DEF Si
  <2>3. CASE aCpu[c] # <<>> /\ Head(aCpu[c]).que # "ejecutar" /\ aCpu'[c] = Tail(aCpu[c])
    <3>1. /\ EsSeq(Tail(aCpu[c]))
          /\ Con(Tail(aCpu[c]), {"ejecutar"}) = Con(aCpu[c], {"ejecutar"}) - Si(Head(aCpu[c]).que \in {"ejecutar"})
          /\ Dice(Tail(aCpu[c]), {"ejecutar"}, planif[c].d)
      BY <1>1, <1>3, <2>3, EsSeqResto, ConResto, DiceResto
    <3> QED
      BY <1>2, <2>3, <3>1 DEF Si
  <2> QED
    BY <2>1, <2>2, <2>3 DEF CpuLlana
<1> QED
  BY <1>5, <1>6, <1>7

LEMMA LlanoPreserva ==
  ASSUME IInv, PasoLlano
  PROVE  IInv'
<1>0. Forma /\ Lugares /\ Colas /\ \A c \in CPUs : Turno(c) /\ Fiel(c)
  BY DEF IInv
<1>1. \A c \in CPUs : SafaLlana(c) /\ CpuLlana(c) /\ ManejadorLlano(c)
  BY DEF PasoLlano
<1>2. \A c \in CPUs :
         /\ EsSeq(aSafa'[c]) /\ EsSeq(aCpu'[c])
         /\ Con(aSafa'[c], Reportes) = Con(aSafa[c], Reportes)
         /\ Con(aSafa'[c], {"exit"}) = Con(aSafa[c], {"exit"})
         /\ Dice(aSafa'[c], Reportes \cup {"exit"}, planif[c].d)
         /\ Con(aCpu'[c], {"ejecutar"}) = Con(aCpu[c], {"ejecutar"})
         /\ Dice(aCpu'[c], {"ejecutar"}, planif[c].d)
         /\ aSafa[c] # <<>> /\ Head(aSafa[c]).que \in Reportes => aSafa'[c] = aSafa[c]
  BY <1>0, <1>1, CanalesLlanos
<1>3. /\ UNCHANGED <<colaNew, colaReady, colaBloqueados, listaEjecutando, colaFinalizados, puedeEntrar, enNew, plp,
                     planif, quitados>>
      /\ Len(dtb') = Len(dtb) /\ DOMAIN dtb' = DOMAIN dtb
  BY DEF PasoLlano, MismosDTB
<1>4. Admitidos' = Admitidos /\ Quienes' = Quienes
  BY <1>3 DEF Admitidos, Quienes
<1>5. \A d : EnConsola(d)' <=> EnConsola(d)
  BY DEF EnConsola, PasoLlano
<1>6. Forma'
  <2>1. EsSeq(dtb') /\ \A d \in DOMAIN dtb' : DOMAIN dtb'[d] = CamposDTB /\ dtb'[d].status \in Estados
    BY DEF PasoLlano, MismosDTB
  <2>2. DOMAIN consola' = CamposConsola /\ (consola'.paso = "encolar" => consola'.d \in Admitidos)
    BY <1>0 DEF PasoLlano, Forma
  <2>3. \A c \in CPUs : manejador'[c] = [paso |-> manejador'[c].paso, r |-> manejador'[c].r]
    BY <1>0, <1>1 DEF ManejadorLlano, Forma
  <2>4. \A c \in CPUs : DOMAIN cpu'[c] = CamposCPU /\ cpu'[c].muda \in BOOLEAN
    BY <1>0 DEF PasoLlano, Forma
  <2>5. /\ DOMAIN aSafa' = CPUs /\ DOMAIN aCpu' = CPUs /\ DOMAIN manejador' = CPUs /\ DOMAIN cpu' = CPUs
        /\ enReady' \in Nat /\ EsSeq(deDam') /\ \A i \in DOMAIN deDam' : deDam'[i].d = IdGuardado
    BY DEF PasoLlano
  <2> QED
    BY <1>0, <1>2, <1>3, <1>4, <2>1, <2>2, <2>3, <2>4, <2>5 DEF Forma
<1>7. ASSUME NEW c \in CPUs PROVE Turno(c)'
  <2>1. cpu'[c].estado = cpu[c].estado /\ cpu'[c].muda = cpu[c].muda
    BY DEF PasoLlano
  <2> QED
    BY <1>0, <1>2, <1>3, <2>1 DEF Turno
<1>8. ASSUME NEW c \in CPUs PROVE Fiel(c)'
  <2>1. cpu'[c].estado = cpu[c].estado /\ cpu'[c].muda = cpu[c].muda /\ cpu'[c].d = cpu[c].d
    BY DEF PasoLlano
  <2>2. manejador'[c].paso = "recolocar" =>
          aSafa'[c] # <<>> /\ Head(aSafa'[c]).que \in Reportes /\ manejador'[c].r = planif[c].d
    BY <1>0, <1>1, <1>2 DEF ManejadorLlano, Fiel
  <2> QED
    BY <1>0, <1>2, <1>3, <2>1, <2>2 DEF Fiel
<1>9. Lugares'
  BY <1>0, <1>3 DEF Lugares
<1>10. Colas'
  <2>1. \A d : Recolocando(d)' <=> Recolocando(d)
    <3> SUFFICES ASSUME NEW d PROVE Recolocando(d)' <=> Recolocando(d)
      OBVIOUS
    <3> DEFINE marca == [paso |-> "recolocar", r |-> d]
    <3>1. marca.paso = "recolocar"
      OBVIOUS
    <3> HIDE DEF marca
    <3>2. \A c \in CPUs : manejador'[c] = marca <=> manejador[c] = marca
      BY <1>1, <3>1 DEF ManejadorLlano
    <3> QED
      BY <3>2 DEF Recolocando, marca
  <2>2. \A d : EnMano(d)' <=> EnMano(d)
    BY <1>3 DEF EnMano
  <2>3. \A d : Silenciado(d)' <=> Silenciado(d)
    BY <1>3 DEF Silenciado, PasoLlano
  <2>4. \A d : Sitios(d)' = Sitios(d)
    BY <1>3, <1>5, <2>1, <2>2 DEF Sitios
  <2>5. \A d : UnSitio(d) => UnSitio(d)'
    BY <1>3, <1>5, <2>3, <2>4 DEF UnSitio
  <2>6. \A c \in CPUs : Vigente(c)' /\ ExitPrimero(c)'
    <3> SUFFICES ASSUME NEW c \in CPUs PROVE Vigente(c)' /\ ExitPrimero(c)'
      OBVIOUS
    <3>1. manejador'[c].paso = "recolocar" <=> manejador[c].paso = "recolocar"
      BY <1>1 DEF ManejadorLlano
    <3>2. Vigente(c) /\ ExitPrimero(c)
      BY <1>0 DEF Colas
    <3> QED
      BY <1>2, <1>3, <3>1, <3>2 DEF Vigente, ExitPrimero
  <2> QED
    BY <1>0, <1>3, <2>5, <2>6 DEF Colas
<1> QED
  BY <1>6, <1>7, <1>8, <1>9, <1>10 DEF IInv

(* Writing one GDT leaves the others and the number of them. *)
LEMMA EscribirDTB ==
  ASSUME Forma, NEW d, NEW x, d \in DOMAIN dtb => DOMAIN x = CamposDTB /\ x.status \in Estados,
         dtb' = [dtb EXCEPT ![d] = x]
  PROVE  MismosDTB
<1> DEFINE T == ToSet(dtb) \cup {x}
           t == [dtb EXCEPT ![d] = x]
<1>1. dtb \in Seq(T) /\ Len(dtb) \in Nat /\ DOMAIN dtb = 1..Len(dtb) /\ \A i \in DOMAIN dtb : dtb[i] \in T
  <2>1. dtb \in Seq(ToSet(dtb))
    BY DEF Forma, EsSeq
  <2>2. DOMAIN dtb = 1..Len(dtb) /\ Len(dtb) \in Nat /\ \A i \in 1..Len(dtb) : dtb[i] \in ToSet(dtb)
    BY <2>1, LenProperties, ElementOfSeq
  <2>3. dtb \in Seq(T)
    BY <2>1
  <2> QED
    BY <2>2, <2>3
<1>2. t \in [DOMAIN dtb -> T]
  <2>1. x \in T
    OBVIOUS
  <2> HIDE DEF T
  <2>2. \A i \in DOMAIN dtb : t[i] \in T
    BY <1>1, <2>1
  <2> QED
    BY <2>2
<1> HIDE DEF t, T
<1>3. t \in Seq(T) /\ Len(t) = Len(dtb) /\ DOMAIN t = DOMAIN dtb
  BY <1>1, <1>2, MapaEsSeq
<1>4. EsSeq(t)
  BY <1>3, DeAlgoEsSeq
<1>5. \A i \in DOMAIN dtb : DOMAIN t[i] = CamposDTB /\ t[i].status \in Estados
  <2> SUFFICES ASSUME NEW i \in DOMAIN dtb PROVE DOMAIN t[i] = CamposDTB /\ t[i].status \in Estados
    OBVIOUS
  <2>1. t[i] = IF i = d THEN x ELSE dtb[i]
    BY DEF t
  <2> QED
    BY <2>1 DEF Forma
<1>6. dtb' = t
  BY DEF t
<1> QED
  BY <1>3, <1>4, <1>5, <1>6 DEF MismosDTB

LEMMA EscribirEstado ==
  ASSUME Forma, NEW d, NEW e \in Estados, dtb' = [dtb EXCEPT ![d].status = e]
  PROVE  MismosDTB
<1> DEFINE x == [dtb[d] EXCEPT !.status = e]
<1>1. d \in DOMAIN dtb => DOMAIN x = CamposDTB /\ x.status = e
  BY DEF Forma, CamposDTB
<1>2. dtb' = [dtb EXCEPT ![d] = x]
  OBVIOUS
<1> HIDE DEF x
<1> QED
  BY <1>1, <1>2, EscribirDTB

LEMMA DejarDTB ==
  ASSUME Forma, UNCHANGED dtb
  PROVE  MismosDTB
BY DEF Forma, MismosDTB

(* A step that changes nothing but what is named. *)
LEMMA Quieto ==
  ASSUME Forma
  PROVE  /\ UNCHANGED aSafa => DOMAIN aSafa' = CPUs /\ \A c \in CPUs : SafaLlana(c)
         /\ UNCHANGED aCpu => DOMAIN aCpu' = CPUs /\ \A c \in CPUs : CpuLlana(c)
         /\ UNCHANGED manejador => DOMAIN manejador' = CPUs /\ \A c \in CPUs : ManejadorLlano(c)
         /\ UNCHANGED deDam => EsSeq(deDam') /\ \A i \in DOMAIN deDam' : deDam'[i].d = IdGuardado
         /\ UNCHANGED enReady => enReady' \in Nat
         /\ UNCHANGED cpu =>
              /\ DOMAIN cpu' = CPUs
              /\ \A c \in CPUs :
                   /\ DOMAIN cpu'[c] = CamposCPU
                   /\ cpu'[c].estado = cpu[c].estado /\ cpu'[c].d = cpu[c].d /\ cpu'[c].muda = cpu[c].muda
BY DEF Forma, SafaLlana, CpuLlana, ManejadorLlano

(* The console: an order that reaches every CPU, or none. *)
LEMMA ConsolaLlana ==
  ASSUME Forma,
         \/ \E d \in GDTs : Finalizar(d)
         \/ Marcar \/ Pausar \/ Trabar \/ Continuar \/ Avisar
  PROVE  PasoLlano
<1>1. DOMAIN consola = CamposConsola
  BY DEF Forma
<1>2. CASE \E d \in GDTs : Finalizar(d)
  <2>1. PICK d \in GDTs : Finalizar(d)
    BY <1>2
  <2>2. consola.paso # "encolar" /\ consola'.paso # "encolar" /\ DOMAIN consola' = CamposConsola
    <3>1. consola.paso = "leer"
      BY <2>1 DEF Finalizar, Comando
    <3> DEFINE q == IF Contains(listaEjecutando, d) THEN "marcar" ELSE "quitar"
    <3>2. q # "encolar"
      OBVIOUS
    <3>3. consola' = [consola EXCEPT !.fin = @ + 1, !.d = d, !.paso = q]
      BY <2>1 DEF Finalizar
    <3> HIDE DEF q
    <3>4. DOMAIN consola' = CamposConsola /\ consola'.paso = q
      BY <1>1, <3>3 DEF CamposConsola
    <3> QED
      BY <3>1, <3>2, <3>4
  <2>3. UNCHANGED <<colas, plp, planif, manejador, red, cpu, quitados>>
    BY <2>1 DEF Finalizar
  <2> QED
    BY <2>2, <2>3, Quieto, DejarDTB DEF PasoLlano, colas, red
<1>3. ASSUME Volver, consola.paso # "encolar"
      PROVE  consola.paso # "encolar" /\ consola'.paso # "encolar" /\ DOMAIN consola' = CamposConsola
  BY <1>1, <1>3 DEF Volver, CamposConsola
<1>4. CASE Marcar
  <2>1. consola.paso # "encolar" /\ consola'.paso # "encolar" /\ DOMAIN consola' = CamposConsola
    BY <1>3, <1>4 DEF Marcar
  <2>2. MismosDTB
    BY <1>4, EscribirEstado DEF Marcar, Estados
  <2>3. /\ UNCHANGED <<colaNew, colaReady, colaBloqueados, listaEjecutando, colaFinalizados, puedeEntrar, enNew, enReady>>
        /\ UNCHANGED <<plp, planif, manejador, red, cpu, quitados>>
    BY <1>4 DEF Marcar
  <2> QED
    BY <2>1, <2>2, <2>3, Quieto DEF PasoLlano, red
<1>5. ASSUME NEW m, m.que # "ejecutar", ATodas(m)
      PROVE  DOMAIN aCpu' = CPUs /\ \A c \in CPUs : CpuLlana(c)
  <2>1. DOMAIN aCpu' = CPUs /\ \A c \in CPUs : aCpu'[c] = Append(aCpu[c], m)
    BY <1>5 DEF ATodas
  <2> QED
    BY <1>5, <2>1 DEF CpuLlana
<1>6. CASE Pausar
  <2>1. consola.paso # "encolar" /\ consola'.paso # "encolar" /\ DOMAIN consola' = CamposConsola
    BY <1>1, <1>6 DEF Pausar, Comando, CamposConsola
  <2>2. DOMAIN aCpu' = CPUs /\ \A c \in CPUs : CpuLlana(c)
    <3> DEFINE m == [que |-> "pausar"]
    <3>1. m.que # "ejecutar" /\ ATodas(m)
      BY <1>6 DEF Pausar
    <3> HIDE DEF m
    <3> QED
      BY <1>5, <3>1
  <2>3. UNCHANGED <<colas, plp, planif, manejador, aSafa, aDam, deDam, cpu, quitados>>
    BY <1>6 DEF Pausar
  <2> QED
    BY <2>1, <2>2, <2>3, Quieto, DejarDTB DEF PasoLlano, colas
<1>7. CASE Trabar
  <2>1. consola.paso # "encolar" /\ consola'.paso # "encolar" /\ DOMAIN consola' = CamposConsola
    BY <1>3, <1>7 DEF Trabar
  <2>2. UNCHANGED <<colas, plp, planif, manejador, red, cpu, quitados>>
    BY <1>7 DEF Trabar
  <2> QED
    BY <2>1, <2>2, Quieto, DejarDTB DEF PasoLlano, colas, red
<1>8. CASE Continuar
  <2>1. consola.paso # "encolar" /\ consola'.paso # "encolar" /\ DOMAIN consola' = CamposConsola
    BY <1>1, <1>8 DEF Continuar, Comando, CamposConsola
  <2>2. UNCHANGED <<colas, plp, planif, manejador, red, cpu, quitados>>
    BY <1>8 DEF Continuar
  <2> QED
    BY <2>1, <2>2, Quieto, DejarDTB DEF PasoLlano, colas, red
<1>9. CASE Avisar
  <2>1. consola.paso # "encolar" /\ consola'.paso # "encolar" /\ DOMAIN consola' = CamposConsola
    BY <1>3, <1>9 DEF Avisar
  <2>2. DOMAIN aCpu' = CPUs /\ \A c \in CPUs : CpuLlana(c)
    <3> DEFINE m == [que |-> "continuar"]
    <3>1. m.que # "ejecutar" /\ ATodas(m)
      BY <1>9 DEF Avisar
    <3> HIDE DEF m
    <3> QED
      BY <1>5, <3>1
  <2>3. UNCHANGED <<colas, plp, planif, manejador, aSafa, aDam, deDam, cpu, quitados>>
    BY <1>9 DEF Avisar
  <2> QED
    BY <2>1, <2>2, <2>3, Quieto, DejarDTB DEF PasoLlano, colas
<1> QED
  BY <1>2, <1>4, <1>6, <1>7, <1>8, <1>9

(* The handler of c leaves another mark, not that of a report. *)
LEMMA MarcarManejador ==
  ASSUME Forma, NEW c \in CPUs, manejador[c].paso # "recolocar",
         NEW p, p # "recolocar", NEW r, manejador' = [manejador EXCEPT ![c] = [paso |-> p, r |-> r]]
  PROVE  DOMAIN manejador' = CPUs /\ \A e \in CPUs : ManejadorLlano(e)
<1>1. DOMAIN manejador = CPUs
  BY DEF Forma
<1> DEFINE x == [paso |-> p, r |-> r]
<1>2. x.paso = p /\ x = [paso |-> x.paso, r |-> x.r]
  OBVIOUS
<1>3. manejador' = [manejador EXCEPT ![c] = x]
  OBVIOUS
<1> HIDE DEF x
<1>4. DOMAIN manejador' = CPUs /\ manejador'[c] = x /\ \A e \in CPUs \ {c} : manejador'[e] = manejador[e]
  BY <1>1, <1>3
<1> QED
  BY <1>2, <1>4 DEF ManejadorLlano

LEMMA LeerMenor ==
  ASSUME Forma, NEW c \in CPUs, aSafa[c] # <<>>, Menor(Head(aSafa[c])), Leido(c)
  PROVE  DOMAIN aSafa' = CPUs /\ \A e \in CPUs : SafaLlana(e)
<1>1. DOMAIN aSafa = CPUs
  BY DEF Forma
<1>2. /\ DOMAIN aSafa' = CPUs /\ aSafa'[c] = Tail(aSafa[c])
      /\ \A e \in CPUs \ {c} : aSafa'[e] = aSafa[e]
  BY <1>1 DEF Leido
<1> QED
  BY <1>2 DEF SafaLlana

LEMMA RecursoLlano ==
  ASSUME Forma, NEW c \in CPUs,
         BuscarRecurso(c) \/ CrearRecurso(c) \/ DarRecurso(c) \/ LiberarRecurso(c) \/ EliminarRecurso(c)
  PROVE  PasoLlano
<1>1. ASSUME DeRecurso(c) PROVE aSafa[c] # <<>> /\ Menor(Head(aSafa[c]))
  BY <1>1 DEF DeRecurso, Llega, Menor, Reportes
<1>2. ASSUME manejador[c].paso # "recolocar", Atendido(c)
      PROVE  DOMAIN manejador' = CPUs /\ \A e \in CPUs : ManejadorLlano(e)
  BY <1>2, MarcarManejador DEF Atendido
<1>3. ASSUME NEW ok, Responder(c, ok)
      PROVE  DOMAIN aCpu' = CPUs /\ \A e \in CPUs : CpuLlana(e)
  <2> DEFINE m == [que |-> "wait", ok |-> ok]
  <2>1. m.que # "ejecutar" /\ aCpu' = [aCpu EXCEPT ![c] = Append(@, m)]
    BY <1>3 DEF Responder
  <2> HIDE DEF m
  <2>2. DOMAIN aCpu = CPUs
    BY DEF Forma
  <2>3. /\ DOMAIN aCpu' = CPUs /\ aCpu'[c] = Append(aCpu[c], m)
        /\ \A e \in CPUs \ {c} : aCpu'[e] = aCpu[e]
    BY <2>1, <2>2
  <2> QED
    BY <2>1, <2>3 DEF CpuLlana
<1>4. CASE BuscarRecurso(c)
  <2> DEFINE r == LosDe(Head(aSafa[c]).arg)
             p == IF r = {} THEN "crear" ELSE "usar"
             q == IF r = {} THEN Nadie ELSE Min(r)
  <2>1. manejador[c].paso # "recolocar" /\ p # "recolocar"
    BY <1>4 DEF BuscarRecurso
  <2>2. manejador' = [manejador EXCEPT ![c] = [paso |-> p, r |-> q]]
    BY <1>4 DEF BuscarRecurso
  <2> HIDE DEF p, q
  <2>3. DOMAIN manejador' = CPUs /\ \A e \in CPUs : ManejadorLlano(e)
    BY <2>1, <2>2, MarcarManejador
  <2>4. UNCHANGED <<colas, plp, consola, planif, red, cpu, quitados>>
    BY <1>4 DEF BuscarRecurso
  <2> QED
    BY <2>3, <2>4, Quieto, DejarDTB DEF PasoLlano, colas, red
<1>5. CASE CrearRecurso(c)
  <2>1. DOMAIN manejador' = CPUs /\ \A e \in CPUs : ManejadorLlano(e)
    BY <1>2, <1>5 DEF CrearRecurso
  <2>2. DOMAIN aSafa' = CPUs /\ \A e \in CPUs : SafaLlana(e)
    BY <1>1, <1>5, LeerMenor DEF CrearRecurso, Atendido
  <2>3. DOMAIN aCpu' = CPUs /\ \A e \in CPUs : CpuLlana(e)
    BY <1>3, <1>5, Quieto DEF CrearRecurso
  <2>4. UNCHANGED <<colas, plp, consola, planif, deDam, cpu, quitados>>
    BY <1>5 DEF CrearRecurso
  <2> QED
    BY <2>1, <2>2, <2>3, <2>4, Quieto, DejarDTB DEF PasoLlano, colas
<1>6. CASE DarRecurso(c)
  <2>1. DOMAIN manejador' = CPUs /\ \A e \in CPUs : ManejadorLlano(e)
    BY <1>2, <1>6 DEF DarRecurso
  <2>2. DOMAIN aSafa' = CPUs /\ \A e \in CPUs : SafaLlana(e)
    BY <1>1, <1>6, LeerMenor DEF DarRecurso, Atendido, DeRecurso
  <2>3. DOMAIN aCpu' = CPUs /\ \A e \in CPUs : CpuLlana(e)
    BY <1>3, <1>6 DEF DarRecurso
  <2>4. UNCHANGED <<colas, plp, consola, planif, deDam, cpu, quitados>>
    BY <1>6 DEF DarRecurso
  <2> QED
    BY <2>1, <2>2, <2>3, <2>4, Quieto, DejarDTB DEF PasoLlano, colas
<1>7. CASE LiberarRecurso(c)
  <2>1. manejador[c].paso # "recolocar"
    BY <1>7 DEF LiberarRecurso
  <2>2. manejador' = [manejador EXCEPT ![c] = [paso |-> "eliminar", r |-> manejador[c].r]]
    <3>1. manejador[c] = [paso |-> manejador[c].paso, r |-> manejador[c].r]
      BY DEF Forma
    <3> DEFINE x == [manejador[c] EXCEPT !.paso = "eliminar"]
    <3>2. manejador' = [manejador EXCEPT ![c] = x]
      BY <1>7 DEF LiberarRecurso
    <3>3. x = [paso |-> "eliminar", r |-> manejador[c].r]
      BY <3>1
    <3> QED
      BY <3>2, <3>3
  <2>3. DOMAIN manejador' = CPUs /\ \A e \in CPUs : ManejadorLlano(e)
    BY <2>1, <2>2, MarcarManejador
  <2>4. UNCHANGED <<colas, plp, consola, planif, red, cpu, quitados>>
    BY <1>7 DEF LiberarRecurso
  <2> QED
    BY <2>3, <2>4, Quieto, DejarDTB DEF PasoLlano, colas, red
<1>8. CASE EliminarRecurso(c)
  <2>1. DOMAIN manejador' = CPUs /\ \A e \in CPUs : ManejadorLlano(e)
    BY <1>2, <1>8 DEF EliminarRecurso
  <2>2. DOMAIN aSafa' = CPUs /\ \A e \in CPUs : SafaLlana(e)
    BY <1>1, <1>8, LeerMenor DEF EliminarRecurso, Atendido, DeRecurso
  <2>3. UNCHANGED <<colas, plp, consola, planif, aCpu, deDam, cpu, quitados>>
    BY <1>8 DEF EliminarRecurso
  <2> QED
    BY <2>1, <2>2, <2>3, Quieto, DejarDTB DEF PasoLlano, colas
<1> QED
  BY <1>4, <1>5, <1>6, <1>7, <1>8

LEMMA VerificarLlano ==
  ASSUME Forma, NEW c \in CPUs, AtenderVerificar(c)
  PROVE  PasoLlano
<1> DEFINE m == Head(aSafa[c])
           x == [dtb[m.d] EXCEPT !.cantIOs = @ + 1]
<1>1. aSafa[c] # <<>> /\ Menor(m)
  BY DEF AtenderVerificar, Llega, Menor, Reportes
<1>2. DOMAIN aSafa' = CPUs /\ \A e \in CPUs : SafaLlana(e)
  BY <1>1, LeerMenor DEF AtenderVerificar
<1>3. MismosDTB
  <2>1. CASE UNCHANGED dtb
    BY <2>1, DejarDTB
  <2>2. CASE dtb' = [dtb EXCEPT ![m.d].cantIOs = @ + 1]
    <3>1. m.d \in DOMAIN dtb => DOMAIN x = CamposDTB /\ x.status \in Estados
      BY DEF Forma, CamposDTB
    <3>2. dtb' = [dtb EXCEPT ![m.d] = x]
      BY <2>2
    <3> HIDE DEF x, m
    <3> QED
      BY <3>1, <3>2, EscribirDTB
  <2> QED
    BY <2>1, <2>2 DEF AtenderVerificar
<1>4. /\ UNCHANGED <<colaNew, colaReady, colaBloqueados, listaEjecutando, colaFinalizados, puedeEntrar, enNew, enReady>>
      /\ UNCHANGED <<plp, consola, planif, manejador, aCpu, deDam, cpu, quitados>>
  BY DEF AtenderVerificar
<1> QED
  BY <1>2, <1>3, <1>4, Quieto DEF PasoLlano

(* The DAM asks for a GDT that is not there. *)
LEMMA NoEsta ==
  ASSUME Forma
  PROVE  ~EnElSistema(IdGuardado) /\ ~Contains(colaBloqueados, IdGuardado)
<1>1. Len(dtb) \in Nat /\ Len(colaNew) \in Nat /\ Len(colaNew) <= Len(dtb)
  BY LenProperties DEF Forma, EsSeq
<1>2. 0 \notin Admitidos
  BY <1>1 DEF Admitidos
<1>3. /\ ~Contains(colaReady, 0) /\ ~Contains(colaBloqueados, 0)
      /\ ~Contains(listaEjecutando, 0) /\ ~Contains(colaFinalizados, 0)
  BY <1>2, VecesTipo DEF Forma
<1>4. ~Contains(colaNew, 0)
  <2>1. \A i \in 1..Len(colaNew) : colaNew[i] = Len(dtb) - Len(colaNew) + i
    BY LenProperties DEF Forma
  <2>2. \A i \in 1..Len(colaNew) : colaNew[i] # 0
    BY <1>1, <2>1
  <2> QED
    BY <2>2 DEF Contains
<1> QED
  BY <1>3, <1>4 DEF EnElSistema, IdGuardado

LEMMA DamLlano ==
  ASSUME Forma, AtenderDam \/ ResponderCrear
  PROVE  PasoLlano
<1>1. EsSeq(deDam) /\ \A i \in DOMAIN deDam : deDam[i].d = IdGuardado
  BY DEF Forma
<1>2. CASE AtenderDam
  <2> DEFINE m == Head(deDam)
  <2>1. deDam # <<>> /\ deDam' = Tail(deDam)
    BY <1>2 DEF AtenderDam
  <2>2. /\ DOMAIN deDam = 1..Len(deDam) /\ Len(deDam) \in Nat \ {0}
        /\ EsSeq(deDam') /\ DOMAIN deDam' = 1..(Len(deDam) - 1)
        /\ \A i \in 1..(Len(deDam) - 1) : deDam'[i] = deDam[i + 1]
        /\ m = deDam[1]
    BY <1>1, <2>1, EsSeqResto
  <2>3. m.d = IdGuardado /\ \A i \in DOMAIN deDam' : deDam'[i].d = IdGuardado
    <3>1. 1 \in DOMAIN deDam /\ \A i \in 1..(Len(deDam) - 1) : i + 1 \in DOMAIN deDam
      BY <2>2
    <3> QED
      BY <1>1, <2>2, <3>1
  <2>4. UNCHANGED <<colaBloqueados, dtb, colaReady, enReady, colaFinalizados, puedeEntrar>>
    BY <1>2, <2>3, NoEsta DEF AtenderDam, Desbloquear, PasarAExit
  <2>5. UNCHANGED <<colaNew, listaEjecutando, enNew, plp, consola, planif, manejador, aSafa, aCpu, cpu, quitados>>
    BY <1>2 DEF AtenderDam
  <2> QED
    BY <2>2, <2>3, <2>4, <2>5, Quieto, DejarDTB DEF PasoLlano
<1>3. CASE ResponderCrear
  <2>1. PICK que : deDam' = Append(deDam, [que |-> que, d |-> IdGuardado])
    BY <1>3 DEF ResponderCrear
  <2> DEFINE x == [que |-> que, d |-> IdGuardado]
  <2>2. x.d = IdGuardado
    OBVIOUS
  <2> HIDE DEF x
  <2>3. Len(deDam) \in Nat /\ DOMAIN deDam = 1..Len(deDam)
    BY <1>1, LenProperties DEF EsSeq
  <2>4. deDam' = Append(deDam, x)
    BY <2>1 DEF x
  <2>5. EsSeq(deDam') /\ \A i \in DOMAIN deDam' : deDam'[i].d = IdGuardado
    <3>1. /\ EsSeq(deDam') /\ DOMAIN deDam' = 1..(Len(deDam) + 1)
          /\ \A i \in 1..Len(deDam) : deDam'[i] = deDam[i]
          /\ deDam'[Len(deDam) + 1] = x
      BY <1>1, <2>4, EsSeqAgregada
    <3> QED
      BY <1>1, <2>2, <2>3, <3>1
  <2>6. UNCHANGED <<colas, plp, consola, planif, manejador, aSafa, aCpu, cpu, quitados>>
    BY <1>3 DEF ResponderCrear
  <2> QED
    BY <2>5, <2>6, Quieto, DejarDTB DEF PasoLlano, colas
<1> QED
  BY <1>2, <1>3

(* Fields of a CPU that no turn depends on. *)
LEMMA TocarCPU ==
  ASSUME Forma, NEW c, NEW x,
         c \in CPUs => DOMAIN x = CamposCPU /\ x.estado = cpu[c].estado /\ x.d = cpu[c].d /\ x.muda = cpu[c].muda,
         cpu' = [cpu EXCEPT ![c] = x]
  PROVE  /\ DOMAIN cpu' = CPUs
         /\ \A e \in CPUs :
              /\ DOMAIN cpu'[e] = CamposCPU
              /\ cpu'[e].estado = cpu[e].estado /\ cpu'[e].d = cpu[e].d /\ cpu'[e].muda = cpu[e].muda
<1>1. DOMAIN cpu = CPUs /\ \A e \in CPUs : DOMAIN cpu[e] = CamposCPU
  BY DEF Forma
<1>2. DOMAIN cpu' = CPUs /\ \A e \in CPUs : cpu'[e] = IF e = c THEN x ELSE cpu[e]
  BY <1>1
<1> QED
  BY <1>1, <1>2

LEMMA ExisteLlano ==
  ASSUME Forma, ResponderExiste
  PROVE  PasoLlano
<1>1. PICK m \in aDam, existe \in BOOLEAN : cpu' = [cpu EXCEPT ![m.c].existe = existe]
  BY DEF ResponderExiste
<1> DEFINE c == m.c
           x == [cpu[c] EXCEPT !.existe = existe]
<1>2. c \in CPUs => DOMAIN x = CamposCPU /\ x.estado = cpu[c].estado /\ x.d = cpu[c].d /\ x.muda = cpu[c].muda
  BY DEF Forma, CamposCPU
<1>3. cpu' = [cpu EXCEPT ![c] = x]
  BY <1>1
<1> HIDE DEF c, x
<1>4. /\ DOMAIN cpu' = CPUs
      /\ \A e \in CPUs :
           /\ DOMAIN cpu'[e] = CamposCPU
           /\ cpu'[e].estado = cpu[e].estado /\ cpu'[e].d = cpu[e].d /\ cpu'[e].muda = cpu[e].muda
  BY <1>2, <1>3, TocarCPU
<1>5. UNCHANGED <<colas, plp, consola, planif, manejador, aSafa, aCpu, deDam, quitados>>
  BY DEF ResponderExiste
<1> QED
  BY <1>4, <1>5, Quieto, DejarDTB DEF PasoLlano, colas

LEMMA RecibirLlano ==
  ASSUME Forma, NEW c \in CPUs, Recibir(c), Head(aCpu[c]).que # "ejecutar"
  PROVE  PasoLlano
<1>1. DOMAIN aCpu = CPUs /\ DOMAIN cpu[c] = CamposCPU
  BY DEF Forma
<1>2. DOMAIN aCpu' = CPUs /\ \A e \in CPUs : CpuLlana(e)
  <2>1. aCpu[c] # <<>> /\ aCpu' = [aCpu EXCEPT ![c] = Tail(@)]
    BY DEF Recibir
  <2>2. DOMAIN aCpu' = CPUs /\ aCpu'[c] = Tail(aCpu[c]) /\ \A e \in CPUs \ {c} : aCpu'[e] = aCpu[e]
    BY <1>1, <2>1
  <2> QED
    BY <2>1, <2>2 DEF CpuLlana
<1>3. UNCHANGED aSafa
  BY DEF Recibir
<1>4. \E x : /\ DOMAIN x = CamposCPU /\ x.estado = cpu[c].estado /\ x.d = cpu[c].d /\ x.muda = cpu[c].muda
             /\ cpu' = [cpu EXCEPT ![c] = x]
  <2>1. \A b :
          LET x == [cpu[c] EXCEPT !.pausada = b]
              y == [cpu[c] EXCEPT !.waitOk = b]
          IN  /\ DOMAIN x = CamposCPU /\ x.estado = cpu[c].estado /\ x.d = cpu[c].d /\ x.muda = cpu[c].muda
              /\ DOMAIN y = CamposCPU /\ y.estado = cpu[c].estado /\ y.d = cpu[c].d /\ y.muda = cpu[c].muda
    BY <1>1 DEF CamposCPU
  <2>2. CASE cpu' = [cpu EXCEPT ![c].pausada = TRUE]
    <3>1. cpu' = [cpu EXCEPT ![c] = [cpu[c] EXCEPT !.pausada = TRUE]]
      BY <2>2
    <3> QED
      BY <2>1, <3>1
  <2>3. CASE cpu' = [cpu EXCEPT ![c].pausada = FALSE]
    <3>1. cpu' = [cpu EXCEPT ![c] = [cpu[c] EXCEPT !.pausada = FALSE]]
      BY <2>3
    <3> QED
      BY <2>1, <3>1
  <2>4. CASE cpu' = [cpu EXCEPT ![c].waitOk = Head(aCpu[c]).ok]
    <3>1. cpu' = [cpu EXCEPT ![c] = [cpu[c] EXCEPT !.waitOk = Head(aCpu[c]).ok]]
      BY <2>4
    <3> QED
      BY <2>1, <3>1
  <2> QED
    BY <2>2, <2>3, <2>4 DEF Recibir
<1>5. /\ DOMAIN cpu' = CPUs
      /\ \A e \in CPUs :
           /\ DOMAIN cpu'[e] = CamposCPU
           /\ cpu'[e].estado = cpu[e].estado /\ cpu'[e].d = cpu[e].d /\ cpu'[e].muda = cpu[e].muda
  <2>1. PICK x : /\ DOMAIN x = CamposCPU /\ x.estado = cpu[c].estado /\ x.d = cpu[c].d /\ x.muda = cpu[c].muda
                 /\ cpu' = [cpu EXCEPT ![c] = x]
    BY <1>4
  <2> QED
    BY <2>1, TocarCPU
<1>6. UNCHANGED <<colas, plp, consola, planif, manejador, deDam, quitados>>
  BY DEF Recibir
<1> QED
  BY <1>2, <1>3, <1>5, <1>6, Quieto, DejarDTB DEF PasoLlano, colas

LEMMA OtrosLlanos ==
  ASSUME Forma,
         \/ \E c \in CPUs : PlanificarNadie(c)
         \/ Caer \/ UNCHANGED vars
         \/ Quitar /\ consola'.paso # "encolar"
  PROVE  PasoLlano
<1>1. CASE \E c \in CPUs : PlanificarNadie(c)
  <2>1. enReady' \in Nat
    BY <1>1 DEF PlanificarNadie, PuedePlanificar, Forma
  <2>2. /\ UNCHANGED <<colaNew, colaReady, colaBloqueados, listaEjecutando, colaFinalizados, puedeEntrar, enNew, dtb>>
        /\ UNCHANGED <<plp, consola, planif, manejador, red, cpu, quitados>>
    BY <1>1 DEF PlanificarNadie
  <2> QED
    BY <2>1, <2>2, Quieto, DejarDTB DEF PasoLlano, red
<1>2. CASE Caer \/ UNCHANGED vars
  <2>1. UNCHANGED <<colas, plp, consola, planif, manejador, red, cpu, quitados>>
    BY <1>2 DEF Caer, vars
  <2> QED
    BY <2>1, Quieto, DejarDTB DEF PasoLlano, colas, red
<1>3. CASE Quitar /\ consola'.paso # "encolar"
  <2> DEFINE d == consola.d
  <2>1. DOMAIN consola = CamposConsola /\ consola.paso = "quitar"
    BY <1>3 DEF Forma, Quitar
  <2>2. ~Contains(listaEjecutando, d) /\ ~Contains(colaReady, d) /\ ~Contains(colaBloqueados, d) /\ Volver
    <3>1. consola' = [consola EXCEPT !.paso = "encolar"] => consola'.paso = "encolar"
      BY <2>1 DEF CamposConsola
    <3> QED
      BY <1>3, <3>1 DEF Quitar
  <2>3. consola.paso # "encolar" /\ consola'.paso # "encolar" /\ DOMAIN consola' = CamposConsola
    BY <2>1, <2>2 DEF Volver, CamposConsola
  <2>4. Sin(listaEjecutando, d) = listaEjecutando
    BY <2>2, SinUno DEF Forma
  <2>5. UNCHANGED <<listaEjecutando, colaReady, colaBloqueados, quitados>>
    BY <1>3, <2>2, <2>4 DEF Quitar
  <2>6. UNCHANGED <<colaNew, colaFinalizados, puedeEntrar, enNew, enReady, dtb, plp, planif, manejador, red, cpu>>
    BY <1>3 DEF Quitar
  <2> QED
    BY <2>3, <2>5, <2>6, Quieto, DejarDTB DEF PasoLlano, red
<1> QED
  BY <1>1, <1>2, <1>3
-----------------------------------------------------------------------------
(* What the invariant says of a turn. *)

LEMMA Cuentas ==
  ASSUME Forma, NEW d
  PROVE  /\ Veces(colaNew, d) \in Nat /\ Veces(colaReady, d) \in Nat /\ Veces(colaBloqueados, d) \in Nat
         /\ Veces(listaEjecutando, d) \in Nat /\ Veces(colaFinalizados, d) \in Nat
         /\ Contains(colaReady, d) <=> Veces(colaReady, d) > 0
         /\ Contains(colaBloqueados, d) <=> Veces(colaBloqueados, d) > 0
         /\ Contains(listaEjecutando, d) <=> Veces(listaEjecutando, d) > 0
         /\ Contains(colaFinalizados, d) <=> Veces(colaFinalizados, d) > 0
         /\ Contains(colaNew, d) <=> Veces(colaNew, d) > 0
         /\ Veces(colaReady, d) > 0 \/ Veces(colaBloqueados, d) > 0 \/ Veces(listaEjecutando, d) > 0
              \/ Veces(colaFinalizados, d) > 0 => d \in Admitidos
BY VecesTipo DEF Forma

LEMMA LosGDT ==
  ASSUME Forma
  PROVE  /\ Len(dtb) \in Nat /\ Len(colaNew) \in Nat /\ Len(colaNew) <= Len(dtb)
         /\ DOMAIN dtb = 1..Len(dtb) /\ DOMAIN colaNew = 1..Len(colaNew)
         /\ Admitidos \subseteq DOMAIN dtb /\ Admitidos \subseteq Nat /\ Nadie \notin Admitidos
<1>1. /\ Len(dtb) \in Nat /\ Len(colaNew) \in Nat /\ Len(colaNew) <= Len(dtb)
      /\ DOMAIN dtb = 1..Len(dtb) /\ DOMAIN colaNew = 1..Len(colaNew)
  BY LenProperties DEF Forma, EsSeq
<1>2. Admitidos \subseteq 1..Len(dtb) /\ Admitidos \subseteq Nat
  BY <1>1 DEF Admitidos
<1> QED
  BY <1>1, <1>2, NadieAssumption

LEMMA DeQuienPlanifica ==
  ASSUME Forma, NEW c \in CPUs
  PROVE  /\ planif[c].d \in Quienes /\ planif[c].enMano \in BOOLEAN
         /\ planif[c] = [d |-> planif[c].d, enMano |-> planif[c].enMano]
         /\ planif[c].d # Nadie => planif[c].d \in Admitidos
BY DEF Forma, Quienes

(* While a CPU is at its turn nothing else of it is under way. *)
LEMMA TurnoEnCPU ==
  ASSUME IInv, NEW c \in CPUs, cpu[c].estado # "libre"
  PROVE  /\ ~planif[c].enMano /\ Con(aCpu[c], {"ejecutar"}) = 0 /\ Con(aSafa[c], Reportes) = 0
         /\ planif[c].d # Nadie /\ ~cpu[c].muda /\ Con(aSafa[c], {"exit"}) = 0
         /\ manejador[c].paso # "recolocar"
<1>1. Forma /\ Turno(c) /\ Fiel(c)
  BY DEF IInv
<1>2. EsSeq(aCpu[c]) /\ EsSeq(aSafa[c])
  BY <1>1 DEF Forma
<1>3. Con(aCpu[c], {"ejecutar"}) \in Nat /\ Con(aSafa[c], Reportes) \in Nat /\ Con(aSafa[c], {"exit"}) \in Nat
  BY <1>2, ConTipo
<1>4. /\ ~planif[c].enMano /\ Con(aCpu[c], {"ejecutar"}) = 0 /\ Con(aSafa[c], Reportes) = 0
      /\ planif[c].d # Nadie /\ ~cpu[c].muda
  BY <1>1, <1>3 DEF Turno, Si
<1>5. Con(aSafa[c], {"exit"}) = 0
  BY <1>1, <1>3, <1>4 DEF Fiel, Si
<1>6. manejador[c].paso # "recolocar"
  <2>1. manejador[c].paso = "recolocar" => aSafa[c] # <<>> /\ Head(aSafa[c]).que \in Reportes
    BY <1>1 DEF Fiel
  <2> QED
    BY <1>2, <1>4, <2>1, CabezaCuenta
<1> QED
  BY <1>4, <1>5, <1>6

(* A report or an exit in a connection is the turn of its planner. *)
LEMMA TurnoEnReporte ==
  ASSUME IInv, NEW c \in CPUs, Con(aSafa[c], Reportes) # 0
  PROVE  /\ ~planif[c].enMano /\ Con(aCpu[c], {"ejecutar"}) = 0 /\ Con(aSafa[c], Reportes) = 1
         /\ planif[c].d # Nadie /\ ~cpu[c].muda /\ cpu[c].estado = "libre"
         /\ Con(aSafa[c], {"exit"}) = 0
<1>1. Forma /\ Turno(c) /\ Fiel(c)
  BY DEF IInv
<1>2. EsSeq(aCpu[c]) /\ EsSeq(aSafa[c])
  BY <1>1 DEF Forma
<1>3. Con(aCpu[c], {"ejecutar"}) \in Nat /\ Con(aSafa[c], Reportes) \in Nat /\ Con(aSafa[c], {"exit"}) \in Nat
  BY <1>2, ConTipo
<1>4. /\ ~planif[c].enMano /\ Con(aCpu[c], {"ejecutar"}) = 0 /\ Con(aSafa[c], Reportes) = 1
      /\ planif[c].d # Nadie /\ ~cpu[c].muda /\ cpu[c].estado = "libre"
  BY <1>1, <1>3 DEF Turno, Si
<1> QED
  BY <1>1, <1>3, <1>4 DEF Fiel, Si

LEMMA TurnoMudo ==
  ASSUME IInv, NEW c \in CPUs, cpu[c].muda
  PROVE  /\ ~planif[c].enMano /\ Con(aCpu[c], {"ejecutar"}) = 0 /\ Con(aSafa[c], Reportes) = 0
         /\ planif[c].d # Nadie /\ cpu[c].estado = "libre" /\ manejador[c].paso # "recolocar"
<1>1. Forma /\ Turno(c) /\ Fiel(c)
  BY DEF IInv
<1>2. EsSeq(aCpu[c]) /\ EsSeq(aSafa[c])
  BY <1>1 DEF Forma
<1>3. Con(aCpu[c], {"ejecutar"}) \in Nat /\ Con(aSafa[c], Reportes) \in Nat
  BY <1>2, ConTipo
<1>4. /\ ~planif[c].enMano /\ Con(aCpu[c], {"ejecutar"}) = 0 /\ Con(aSafa[c], Reportes) = 0
      /\ planif[c].d # Nadie /\ cpu[c].estado = "libre"
  BY <1>1, <1>3 DEF Turno, Si
<1>5. manejador[c].paso = "recolocar" => aSafa[c] # <<>> /\ Head(aSafa[c]).que \in Reportes
  BY <1>1 DEF Fiel
<1> QED
  BY <1>2, <1>4, <1>5, CabezaCuenta

(* The sum of the places, as numbers. *)
LEMMA SitiosTipo ==
  ASSUME Forma, NEW d
  PROVE  /\ Si(EnMano(d)) \in {0, 1} /\ Si(Recolocando(d)) \in {0, 1} /\ Si(EnConsola(d)) \in {0, 1}
         /\ Sitios(d) \in Nat
         /\ Sitios(d) >= Veces(listaEjecutando, d) + Si(EnConsola(d))
<1>1. Si(EnMano(d)) \in {0, 1} /\ Si(Recolocando(d)) \in {0, 1} /\ Si(EnConsola(d)) \in {0, 1}
  BY DEF Si
<1> QED
  BY <1>1, Cuentas DEF Sitios

(* What runs for a CPU that is not silent has not ended, and the console   *)
(* has not taken it.                                                       *)
LEMMA CorreSinTerminar ==
  ASSUME IInv, NEW c \in CPUs, NEW d, planif[c].d = d, d # Nadie, ~cpu[c].muda,
         Veces(listaEjecutando, d) > 0
  PROVE  d \in Admitidos /\ d \notin quitados /\ Veces(colaFinalizados, d) = 0 /\ ~EnConsola(d)
<1>1. Forma /\ Colas
  BY DEF IInv
<1>2. d \in Admitidos /\ d \in DOMAIN dtb
  BY <1>1, DeQuienPlanifica, LosGDT
<1>3. UnSitio(d)
  BY <1>1, <1>2 DEF Colas
<1>4. /\ Veces(listaEjecutando, d) \in Nat /\ Veces(colaFinalizados, d) \in Nat
      /\ Si(EnConsola(d)) \in {0, 1} /\ Sitios(d) \in Nat
      /\ Sitios(d) >= Veces(listaEjecutando, d) + Si(EnConsola(d))
  BY <1>1, Cuentas, SitiosTipo
<1>5. Sitios(d) = 1 /\ Si(EnConsola(d)) = 0
  BY <1>3, <1>4 DEF UnSitio
<1>6. ~EnConsola(d)
  BY <1>5 DEF Si
<1>7. d \notin quitados
  BY <1>3, <1>5 DEF UnSitio
<1>8. Veces(colaFinalizados, d) > 0 => Silenciado(d)
  BY <1>3, <1>5, <1>6 DEF UnSitio
<1>9. ~Silenciado(d)
  <2> SUFFICES ASSUME NEW e \in CPUs, planif[e].d = d, cpu[e].muda PROVE FALSE
    BY DEF Silenciado
  <2>1. e = c
    BY <1>1 DEF Colas
  <2> QED
    BY <2>1
<1> QED
  BY <1>2, <1>4, <1>6, <1>7, <1>8, <1>9

(* And unless the console took it, it runs. *)
LEMMA EnTurnoCorre ==
  ASSUME IInv, NEW c \in CPUs, planif[c].d \notin quitados \cup {Nadie}, ~planif[c].enMano,
         manejador[c].paso # "recolocar"
  PROVE  Veces(listaEjecutando, planif[c].d) > 0
BY DEF IInv, Colas, Vigente
-----------------------------------------------------------------------------
(* The steps of a CPU. *)

(* A step that leaves the queues and at most silences a CPU. *)
LEMMA ColasSiMuda ==
  ASSUME IInv,
         UNCHANGED <<colaNew, colaReady, colaBloqueados, listaEjecutando, colaFinalizados, dtb, consola, planif,
                     manejador, quitados>>,
         \A c \in CPUs : cpu[c].muda => cpu'[c].muda,
         \A c \in CPUs : ExitPrimero(c)'
  PROVE  Colas'
<1>1. Colas
  BY DEF IInv
<1>2. \A d : /\ Sitios(d)' = Sitios(d)
             /\ EnConsola(d)' <=> EnConsola(d)
             /\ Silenciado(d) => Silenciado(d)'
  BY DEF Sitios, EnMano, Recolocando, EnConsola, Silenciado
<1>3. \A d : UnSitio(d) => UnSitio(d)'
  <2> SUFFICES ASSUME NEW d, UnSitio(d) PROVE UnSitio(d)'
    OBVIOUS
  <2>1. /\ Veces(colaFinalizados', d) = Veces(colaFinalizados, d)
        /\ Veces(listaEjecutando', d) = Veces(listaEjecutando, d)
        /\ quitados' = quitados
    OBVIOUS
  <2> QED
    BY <1>2, <2>1 DEF UnSitio, Si
<1>4. \A c \in CPUs : Vigente(c)'
  BY <1>1 DEF Colas, Vigente
<1> QED
  BY <1>1, <1>3, <1>4 DEF Colas

LEMMA CPUPreserva ==
  ASSUME IInv, NEW c \in CPUs, PasoCPU(c)
  PROVE  IInv'
<1> DEFINE d == planif[c].d
<1>1. Forma /\ Lugares /\ Colas /\ \A e \in CPUs : Turno(e) /\ Fiel(e)
  BY DEF IInv
<1>2. cpu[c].estado \in {"ejecutando", "abriendo"} /\ cpu[c].d = d
  BY <1>1 DEF PasoCPU, Fiel
<1>3. /\ ~planif[c].enMano /\ Con(aCpu[c], {"ejecutar"}) = 0 /\ Con(aSafa[c], Reportes) = 0
      /\ d # Nadie /\ ~cpu[c].muda /\ Con(aSafa[c], {"exit"}) = 0
      /\ manejador[c].paso # "recolocar"
  BY <1>2, TurnoEnCPU
<1>4. EsSeq(aSafa[c]) /\ Dice(aSafa[c], Reportes \cup {"exit"}, d)
  BY <1>1 DEF Forma, Fiel
<1>5. /\ UNCHANGED <<colaNew, colaReady, colaBloqueados, listaEjecutando, colaFinalizados, puedeEntrar, enNew, enReady, dtb>>
      /\ UNCHANGED <<plp, consola, planif, manejador, aCpu, deDam, quitados>>
  BY DEF PasoCPU, colas
<1>6. /\ DOMAIN aSafa' = CPUs /\ DOMAIN cpu' = CPUs /\ DOMAIN cpu'[c] = CamposCPU
      /\ \A e \in CPUs \ {c} : aSafa'[e] = aSafa[e] /\ cpu'[e] = cpu[e]
  BY DEF PasoCPU
<1>7. PICK p : Previo(c, p) /\ (Sigue(c, p) \/ Reporta(c, p) \/ Aborta(c, p))
  BY DEF PasoCPU
<1>8. /\ EsSeq(p) /\ Con(p, Reportes) = 0 /\ Con(p, {"exit"}) = 0
      /\ Dice(p, Reportes \cup {"exit"}, d)
  <2>1. CASE p = aSafa[c]
    BY <1>3, <1>4, <2>1
  <2>2. CASE \E m : Menor(m) /\ p = Append(aSafa[c], m)
    <3>1. PICK m : Menor(m) /\ p = Append(aSafa[c], m)
      BY <2>2
    <3>2. m.que \notin Reportes /\ m.que # "exit"
      BY <3>1 DEF Menor
    <3>3. /\ EsSeq(p)
          /\ Con(p, Reportes) = Con(aSafa[c], Reportes) + Si(m.que \in Reportes)
          /\ Con(p, {"exit"}) = Con(aSafa[c], {"exit"}) + Si(m.que \in {"exit"})
      BY <1>4, <3>1, EsSeqAgregada, ConAgregada
    <3>4. Dice(p, Reportes \cup {"exit"}, d)
      BY <1>4, <3>1, <3>2, DiceAgregada
    <3> QED
      BY <1>3, <3>2, <3>3, <3>4 DEF Si
  <2> QED
    BY <1>7, <2>1, <2>2 DEF Previo
<1> DEFINE s == aSafa'[c]
           x == cpu'[c]
(* What the connection has after each kind of step. *)
<1>9. ASSUME NEW m, s = Append(p, m), m.d = d
      PROVE  /\ EsSeq(s)
             /\ Con(s, Reportes) = Si(m.que \in Reportes)
             /\ Con(s, {"exit"}) = Si(m.que \in {"exit"})
             /\ Dice(s, Reportes \cup {"exit"}, d)
  <2>1. /\ EsSeq(Append(p, m))
        /\ Con(Append(p, m), Reportes) = Con(p, Reportes) + Si(m.que \in Reportes)
        /\ Con(Append(p, m), {"exit"}) = Con(p, {"exit"}) + Si(m.que \in {"exit"})
    BY <1>8, EsSeqAgregada, ConAgregada
  <2>2. Dice(Append(p, m), Reportes \cup {"exit"}, d)
    BY <1>8, <1>9, DiceAgregada
  <2>3. Si(m.que \in Reportes) \in Nat /\ Si(m.que \in {"exit"}) \in Nat
    BY DEF Si
  <2> QED
    BY <1>8, <1>9, <2>1, <2>2, <2>3
<1>10. /\ EsSeq(s) /\ Dice(s, Reportes \cup {"exit"}, d) /\ x.muda \in BOOLEAN
       /\ Si(x.estado # "libre" \/ x.muda) + Con(s, Reportes) = 1
       /\ ~(x.estado # "libre" /\ x.muda)
       /\ Con(s, {"exit"}) = Si(x.muda)
       /\ x.estado \in {"ejecutando", "abriendo"} => x.d = d
  <2>1. CASE Sigue(c, p)
    <3>1. s = p /\ x.estado # "libre" /\ x.muda = FALSE
      BY <1>1, <1>3, <2>1 DEF Sigue, Forma
    <3>2. x.estado \in {"ejecutando", "abriendo"} => x.d = d
      BY <1>2, <2>1 DEF Sigue
    <3>3. ~x.muda /\ x.muda \in BOOLEAN
      BY <3>1
    <3> HIDE DEF s, x
    <3>4. Si(x.estado # "libre" \/ x.muda) = 1 /\ Si(x.muda) = 0
      BY <3>1, <3>3 DEF Si
    <3>5. /\ EsSeq(s) /\ Dice(s, Reportes \cup {"exit"}, d)
          /\ Con(s, Reportes) = 0 /\ Con(s, {"exit"}) = 0
      BY <1>8, <3>1
    <3> QED
      BY <3>1, <3>2, <3>3, <3>4, <3>5
  <2>2. CASE Reporta(c, p)
    <3>1. PICK m : m.que \in Reportes /\ m.d = d /\ s = Append(p, m)
      BY <1>2, <2>2 DEF Reporta
    <3>2. m.que # "exit"
      BY <3>1 DEF Reportes
    <3>3. x.estado = "libre" /\ ~x.muda /\ x.muda \in BOOLEAN
      BY <1>1, <1>3, <2>2 DEF Reporta, Forma
    <3>4. EsSeq(s) /\ Con(s, Reportes) = 1 /\ Con(s, {"exit"}) = 0 /\ Dice(s, Reportes \cup {"exit"}, d)
      BY <1>9, <3>1, <3>2 DEF Si
    <3> QED
      BY <3>3, <3>4 DEF Si
  <2>3. CASE Aborta(c, p)
    <3>1. PICK m : m.que = "exit" /\ m.d = d /\ s = Append(p, m)
      BY <1>2, <2>3 DEF Aborta
    <3>2. m.que \notin Reportes
      BY <3>1 DEF Reportes
    <3>3. x.estado = "libre" /\ x.muda /\ x.muda \in BOOLEAN
      BY <2>3 DEF Aborta
    <3>4. EsSeq(s) /\ Con(s, Reportes) = 0 /\ Con(s, {"exit"}) = 1 /\ Dice(s, Reportes \cup {"exit"}, d)
      BY <1>9, <3>1, <3>2 DEF Si
    <3> QED
      BY <3>3, <3>4 DEF Si
  <2> QED
    BY <1>7, <2>1, <2>2, <2>3
<1>11. Admitidos' = Admitidos /\ Quienes' = Quienes
  BY <1>5 DEF Admitidos, Quienes
<1>12. Forma'
  <2>1. \A e \in CPUs : EsSeq(aSafa'[e]) /\ DOMAIN cpu'[e] = CamposCPU /\ cpu'[e].muda \in BOOLEAN
    BY <1>1, <1>6, <1>10 DEF Forma
  <2> QED
    BY <1>1, <1>5, <1>6, <1>11, <2>1 DEF Forma
<1>13. ASSUME NEW e \in CPUs PROVE Turno(e)' /\ Fiel(e)'
  <2>1. CASE e = c
    <3>1. Turno(c)'
      <4>1. Si(planif[c].enMano) = 0 /\ Si(planif[c].d # Nadie) = 1
        BY <1>3 DEF Si
      <4>2. Con(s, Reportes) \in Nat /\ Si(x.estado # "libre" \/ x.muda) \in Nat
        BY <1>10, ConTipo DEF Si
      <4> HIDE DEF s, x
      <4>3. 0 + 0 + Si(x.estado # "libre" \/ x.muda) + Con(s, Reportes) = 1
        BY <1>10, <4>2
      <4> QED
        BY <1>3, <1>5, <1>10, <4>1, <4>3 DEF Turno, s, x
    <3>2. Fiel(c)'
      <4>1. Con(s, {"exit"}) <= Si(x.muda)
        BY <1>10 DEF Si
      <4>2. Dice(aCpu'[c], {"ejecutar"}, d)
        BY <1>1, <1>5 DEF Fiel
      <4> QED
        BY <1>3, <1>5, <1>10, <4>1, <4>2 DEF Fiel
    <3> QED
      BY <2>1, <3>1, <3>2
  <2>2. CASE e # c
    BY <1>1, <1>5, <1>6, <2>2 DEF Turno, Fiel
  <2> QED
    BY <2>1, <2>2
<1>14. Lugares'
  BY <1>1, <1>5 DEF Lugares
<1>15. ASSUME NEW e \in CPUs PROVE ExitPrimero(e)'
  <2>1. CASE e = c
    <3> SUFFICES ASSUME d \notin quitados PROVE Veces(colaFinalizados, d) = 0
      BY <1>5, <2>1 DEF ExitPrimero
    <3>1. Veces(listaEjecutando, d) > 0
      BY <1>3, EnTurnoCorre
    <3> QED
      BY <1>3, <3>1, CorreSinTerminar
  <2>2. CASE e # c
    <3>1. ExitPrimero(e)
      BY <1>1 DEF Colas
    <3> QED
      BY <1>5, <1>6, <2>2, <3>1 DEF ExitPrimero
  <2> QED
    BY <2>1, <2>2
<1>16. Colas'
  <2>1. \A e \in CPUs : cpu[e].muda => cpu'[e].muda
    BY <1>3, <1>6
  <2> QED
    BY <1>5, <1>15, <2>1, ColasSiMuda
<1> QED
  BY <1>12, <1>13, <1>14, <1>16 DEF IInv

(* The order to execute begins the turn at the CPU. *)
LEMMA RecibirPreserva ==
  ASSUME IInv, NEW c \in CPUs, Recibir(c), Head(aCpu[c]).que = "ejecutar"
  PROVE  IInv'
<1> DEFINE d == planif[c].d
           m == Head(aCpu[c])
<1>1. Forma /\ Lugares /\ Colas /\ \A e \in CPUs : Turno(e) /\ Fiel(e)
  BY DEF IInv
<1>2. /\ EsSeq(aSafa[c]) /\ EsSeq(aCpu[c]) /\ DOMAIN aSafa = CPUs /\ DOMAIN aCpu = CPUs /\ DOMAIN cpu = CPUs
      /\ DOMAIN cpu[c] = CamposCPU /\ cpu[c].muda \in BOOLEAN
  BY <1>1 DEF Forma
<1>3. aCpu[c] # <<>> /\ aCpu' = [aCpu EXCEPT ![c] = Tail(@)] /\ cpu[c].estado = "libre"
  BY DEF Recibir
<1>4. Con(aCpu[c], {"ejecutar"}) \in Nat \ {0}
  BY <1>2, <1>3, CabezaCuenta
<1>5. /\ Con(aSafa[c], Reportes) \in Nat /\ Con(aSafa[c], {"exit"}) \in Nat
  BY <1>2, ConTipo
<1>6. /\ ~planif[c].enMano /\ Con(aCpu[c], {"ejecutar"}) = 1 /\ Con(aSafa[c], Reportes) = 0
      /\ d # Nadie /\ ~cpu[c].muda
  BY <1>1, <1>4, <1>5 DEF Turno, Si
<1>7. Con(aSafa[c], {"exit"}) = 0
  BY <1>1, <1>5, <1>6 DEF Fiel, Si
<1>8. manejador[c].paso # "recolocar"
  <2>1. manejador[c].paso = "recolocar" => aSafa[c] # <<>> /\ Head(aSafa[c]).que \in Reportes
    BY <1>1 DEF Fiel
  <2> QED
    BY <1>2, <1>6, <2>1, CabezaCuenta
<1>9. /\ EsSeq(aCpu'[c]) /\ Con(aCpu'[c], {"ejecutar"}) = 0 /\ Dice(aCpu'[c], {"ejecutar"}, d) /\ m.d = d
      /\ DOMAIN aCpu' = CPUs /\ \A e \in CPUs \ {c} : aCpu'[e] = aCpu[e]
  <2>1. DOMAIN aCpu' = CPUs /\ aCpu'[c] = Tail(aCpu[c]) /\ \A e \in CPUs \ {c} : aCpu'[e] = aCpu[e]
    BY <1>2, <1>3
  <2>2. Dice(aCpu[c], {"ejecutar"}, d)
    BY <1>1 DEF Fiel
  <2>3. /\ EsSeq(Tail(aCpu[c]))
        /\ Con(Tail(aCpu[c]), {"ejecutar"}) = Con(aCpu[c], {"ejecutar"}) - Si(m.que \in {"ejecutar"})
        /\ Dice(Tail(aCpu[c]), {"ejecutar"}, d)
        /\ m.que \in {"ejecutar"} => m.d = d
    BY <1>2, <1>3, <2>2, EsSeqResto, ConResto, DiceResto
  <2> QED
    BY <1>6, <2>1, <2>3 DEF Si
<1>10. /\ UNCHANGED <<colaNew, colaReady, colaBloqueados, listaEjecutando, colaFinalizados, puedeEntrar, enNew, enReady, dtb>>
       /\ UNCHANGED <<plp, consola, planif, manejador, deDam, quitados>>
  BY DEF Recibir, colas
<1> DEFINE s == aSafa'[c]
           x == cpu'[c]
<1>11. Dice(aSafa[c], Reportes \cup {"exit"}, d)
  BY <1>1 DEF Fiel
<1>12. /\ DOMAIN aSafa' = CPUs /\ DOMAIN cpu' = CPUs /\ DOMAIN x = CamposCPU
       /\ \A e \in CPUs \ {c} : aSafa'[e] = aSafa[e] /\ cpu'[e] = cpu[e]
       /\ EsSeq(s) /\ Dice(s, Reportes \cup {"exit"}, d) /\ x.muda \in BOOLEAN
       /\ Si(x.estado # "libre" \/ x.muda) + Con(s, Reportes) = 1
       /\ ~(x.estado # "libre" /\ x.muda)
       /\ Con(s, {"exit"}) = 0
       /\ x.estado \in {"ejecutando", "abriendo"} => x.d = d
  <2> DEFINE y == [cpu[c] EXCEPT !.estado = "ejecutando", !.d = m.d, !.pc = m.pc, !.q = m.q, !.n = 0, !.com = 0]
             a == Aviso("continuar", m.d, 0, 0)
  <2>1. CASE cpu' = [cpu EXCEPT ![c] = y] /\ UNCHANGED aSafa
    <3>1. DOMAIN y = CamposCPU /\ y.estado = "ejecutando" /\ y.d = m.d /\ y.muda = cpu[c].muda
      BY <1>2 DEF CamposCPU
    <3> HIDE DEF y, m
    <3>2. DOMAIN cpu' = CPUs /\ x = y /\ s = aSafa[c] /\ \A e \in CPUs \ {c} : aSafa'[e] = aSafa[e] /\ cpu'[e] = cpu[e]
      BY <1>2, <2>1
    <3>3. ~x.muda /\ x.muda \in BOOLEAN /\ x.estado = "ejecutando" /\ x.d = d /\ DOMAIN x = CamposCPU
      BY <1>2, <1>6, <1>9, <3>1, <3>2
    <3> HIDE DEF x, s
    <3>4. Si(x.estado # "libre" \/ x.muda) = 1 /\ Con(s, Reportes) = 0 /\ Con(s, {"exit"}) = 0
      BY <1>6, <1>7, <3>2, <3>3 DEF Si
    <3>5. EsSeq(s) /\ Dice(s, Reportes \cup {"exit"}, d) /\ DOMAIN aSafa' = CPUs
      BY <1>2, <1>11, <2>1, <3>2
    <3> QED
      BY <3>2, <3>3, <3>4, <3>5
  <2>2. CASE UNCHANGED cpu /\ Enviar(c, <<a>>)
    <3>1. a.que \in Reportes /\ a.que # "exit" /\ a.d = m.d
      BY DEF Aviso, Reportes
    <3> HIDE DEF a
    <3>2. aSafa[c] \o <<a>> = Append(aSafa[c], a)
      BY <1>2, Agregados
    <3>3. aSafa' = [aSafa EXCEPT ![c] = Append(aSafa[c], a)]
      BY <2>2, <3>2 DEF Enviar
    <3>4. /\ DOMAIN aSafa' = CPUs /\ s = Append(aSafa[c], a)
          /\ \A e \in CPUs \ {c} : aSafa'[e] = aSafa[e] /\ cpu'[e] = cpu[e]
          /\ x = cpu[c] /\ DOMAIN cpu' = CPUs
      BY <1>2, <2>2, <3>3
    <3>5. /\ EsSeq(Append(aSafa[c], a))
          /\ Con(Append(aSafa[c], a), Reportes) = Con(aSafa[c], Reportes) + Si(a.que \in Reportes)
          /\ Con(Append(aSafa[c], a), {"exit"}) = Con(aSafa[c], {"exit"}) + Si(a.que \in {"exit"})
      BY <1>2, EsSeqAgregada, ConAgregada
    <3>6. Dice(Append(aSafa[c], a), Reportes \cup {"exit"}, d)
      BY <1>2, <1>9, <1>11, <3>1, DiceAgregada
    <3>7. EsSeq(s) /\ Dice(s, Reportes \cup {"exit"}, d) /\ Con(s, Reportes) = 1 /\ Con(s, {"exit"}) = 0
      BY <1>6, <1>7, <3>1, <3>4, <3>5, <3>6 DEF Si
    <3>8. x.estado = "libre" /\ ~x.muda /\ x.muda \in BOOLEAN /\ DOMAIN x = CamposCPU
      BY <1>2, <1>3, <1>6, <3>4
    <3> HIDE DEF x, s
    <3>9. Si(x.estado # "libre" \/ x.muda) = 0
      BY <3>8 DEF Si
    <3> QED
      BY <3>4, <3>7, <3>8, <3>9
  <2>3. CASE cpu' = [cpu EXCEPT ![c] = Muda(cpu[c])] /\ UNCHANGED aSafa
    <3> DEFINE z == Muda(cpu[c])
    <3>1. DOMAIN z = CamposCPU /\ z.estado = "libre" /\ z.muda = TRUE
      BY <1>2, CamposDeCPU
    <3> HIDE DEF z
    <3>2. DOMAIN cpu' = CPUs /\ x = z /\ s = aSafa[c] /\ \A e \in CPUs \ {c} : aSafa'[e] = aSafa[e] /\ cpu'[e] = cpu[e]
      BY <1>2, <2>3 DEF z
    <3>3. x.muda /\ x.muda \in BOOLEAN /\ x.estado = "libre" /\ DOMAIN x = CamposCPU
      BY <3>1, <3>2
    <3> HIDE DEF x, s
    <3>4. Si(x.estado # "libre" \/ x.muda) = 1 /\ Con(s, Reportes) = 0 /\ Con(s, {"exit"}) = 0
      BY <1>6, <1>7, <3>2, <3>3 DEF Si
    <3>5. EsSeq(s) /\ Dice(s, Reportes \cup {"exit"}, d) /\ DOMAIN aSafa' = CPUs
      BY <1>2, <1>11, <2>3, <3>2
    <3> QED
      BY <3>2, <3>3, <3>4, <3>5
  <2> QED
    BY <2>1, <2>2, <2>3 DEF Recibir
<1> HIDE DEF s, x
<1>13. Admitidos' = Admitidos /\ Quienes' = Quienes
  BY <1>10 DEF Admitidos, Quienes
<1>14. Forma'
  <2>1. \A e \in CPUs : EsSeq(aSafa'[e]) /\ DOMAIN cpu'[e] = CamposCPU /\ cpu'[e].muda \in BOOLEAN
    BY <1>1, <1>12 DEF Forma, s, x
  <2>2. \A e \in CPUs : EsSeq(aCpu'[e])
    BY <1>1, <1>9 DEF Forma
  <2> QED
    BY <1>1, <1>9, <1>10, <1>12, <1>13, <2>1, <2>2 DEF Forma
<1>15. ASSUME NEW e \in CPUs PROVE Turno(e)' /\ Fiel(e)'
  <2>1. CASE e = c
    <3>1. Turno(c)'
      <4>1. Si(planif[c].enMano) = 0 /\ Si(d # Nadie) = 1
        BY <1>6 DEF Si
      <4>2. Con(s, Reportes) \in Nat /\ Si(x.estado # "libre" \/ x.muda) \in Nat
        BY <1>12, ConTipo DEF Si
      <4>3. 0 + 0 + Si(x.estado # "libre" \/ x.muda) + Con(s, Reportes) = 1
        BY <1>12, <4>2
      <4> QED
        BY <1>9, <1>10, <1>12, <4>1, <4>3 DEF Turno, s, x
    <3>2. Fiel(c)'
      <4>1. Con(s, {"exit"}) <= Si(x.muda)
        BY <1>12 DEF Si
      <4> QED
        BY <1>8, <1>9, <1>10, <1>12, <4>1 DEF Fiel, s, x
    <3> QED
      BY <2>1, <3>1, <3>2
  <2>2. CASE e # c
    <3>1. Turno(e) /\ Fiel(e)
      BY <1>1
    <3>2. /\ aSafa'[e] = aSafa[e] /\ aCpu'[e] = aCpu[e] /\ cpu'[e] = cpu[e]
          /\ planif'[e] = planif[e] /\ manejador'[e] = manejador[e]
      BY <1>9, <1>10, <1>12, <2>2
    <3>3. Turno(e)'
      BY <3>1, <3>2 DEF Turno
    <3>4. Fiel(e)'
      BY <3>1, <3>2 DEF Fiel
    <3> QED
      BY <3>3, <3>4
  <2> QED
    BY <2>1, <2>2
<1>16. Lugares'
  BY <1>1, <1>10 DEF Lugares
<1>17. ASSUME NEW e \in CPUs PROVE ExitPrimero(e)'
  <2>1. CASE e = c
    BY <1>12, <2>1 DEF ExitPrimero, s
  <2>2. CASE e # c
    <3>1. ExitPrimero(e)
      BY <1>1 DEF Colas
    <3> QED
      BY <1>10, <1>12, <2>2, <3>1 DEF ExitPrimero
  <2> QED
    BY <2>1, <2>2
<1>18. Colas'
  <2>1. \A e \in CPUs : cpu[e].muda => cpu'[e].muda
    BY <1>6, <1>12
  <2> QED
    BY <1>10, <1>17, <2>1, ColasSiMuda
<1> QED
  BY <1>14, <1>15, <1>16, <1>18 DEF IInv
-----------------------------------------------------------------------------
(* Letting a GDT in. *)

LEMMA SeqMayor ==
  ASSUME NEW A, NEW B, A \subseteq B, NEW s \in Seq(A)
  PROVE  s \in Seq(B)
OBVIOUS

LEMMA TurnosIguales ==
  ASSUME IInv, UNCHANGED <<planif, manejador, aSafa, aCpu, cpu>>
  PROVE  \A c \in CPUs : Turno(c)' /\ Fiel(c)'
BY DEF IInv, Turno, Fiel

LEMMA TomarLugarPreserva ==
  ASSUME IInv, TomarLugar
  PROVE  IInv'
<1>1. Forma /\ Lugares /\ Colas /\ \A e \in CPUs : Turno(e) /\ Fiel(e)
  BY DEF IInv
<1>2. /\ UNCHANGED <<colaNew, colaReady, colaBloqueados, listaEjecutando, colaFinalizados, enNew, enReady, dtb>>
      /\ UNCHANGED <<consola, planif, manejador, aSafa, aCpu, deDam, cpu, quitados>>
      /\ puedeEntrar' = puedeEntrar - 1 /\ puedeEntrar > 0 /\ ~plp /\ plp'
      /\ plp' = TRUE
  BY DEF TomarLugar, red
<1>3. Admitidos' = Admitidos /\ Quienes' = Quienes
  BY <1>2 DEF Admitidos, Quienes
<1>4. Forma'
  <2>1. puedeEntrar' \in Nat /\ plp' \in BOOLEAN
    BY <1>1, <1>2 DEF Forma
  <2> QED
    BY <1>1, <1>2, <1>3, <2>1 DEF Forma
<1>5. Lugares'
  <2>1. /\ puedeEntrar \in Nat /\ Len(dtb) \in Nat /\ Len(colaNew) \in Nat
        /\ Si(plp) = 0 /\ Si(plp') = 1
    BY <1>1, <1>2, LosGDT DEF Forma, Si
  <2>2. puedeEntrar + 0 + (Len(dtb) - Len(colaNew)) = Grado + Len(colaFinalizados)
    BY <1>1, <2>1 DEF Lugares
  <2>3. (puedeEntrar - 1) + 1 + (Len(dtb) - Len(colaNew)) = Grado + Len(colaFinalizados)
    BY <2>1, <2>2
  <2>4. /\ puedeEntrar' = puedeEntrar - 1 /\ Len(dtb') = Len(dtb) /\ Len(colaNew') = Len(colaNew)
        /\ Len(colaFinalizados') = Len(colaFinalizados)
    BY <1>2
  <2> QED
    BY <2>1, <2>3, <2>4 DEF Lugares
<1>6. \A e \in CPUs : ExitPrimero(e)'
  BY <1>1, <1>2 DEF Colas, ExitPrimero
<1>7. Colas'
  BY <1>2, <1>6, ColasSiMuda
<1> QED
  BY <1>2, <1>4, <1>5, <1>7, TurnosIguales DEF IInv

(* A GDT that was not let in yet is in no place but New. *)
LEMMA SinAdmitir ==
  ASSUME IInv, NEW d \in Nat, d \notin Admitidos
  PROVE  /\ Veces(colaReady, d) = 0 /\ Veces(colaBloqueados, d) = 0 /\ Veces(listaEjecutando, d) = 0
         /\ Veces(colaFinalizados, d) = 0
         /\ ~EnMano(d) /\ ~Recolocando(d) /\ ~EnConsola(d) /\ d \notin quitados
<1>1. Forma /\ \A e \in CPUs : Fiel(e)
  BY DEF IInv
<1>2. /\ Veces(colaReady, d) = 0 /\ Veces(colaBloqueados, d) = 0 /\ Veces(listaEjecutando, d) = 0
      /\ Veces(colaFinalizados, d) = 0
  BY <1>1, Cuentas
<1>3. d # Nadie /\ \A c \in CPUs : planif[c].d # d
  BY <1>1, DeQuienPlanifica, NadieAssumption
<1>4. ~EnMano(d)
  <2> SUFFICES ASSUME NEW c \in CPUs, planif[c] = [d |-> d, enMano |-> TRUE] PROVE FALSE
    BY DEF EnMano
  <2>1. planif[c].d = d
    OBVIOUS
  <2> QED
    BY <1>3, <2>1
<1>5. ~Recolocando(d)
  <2> SUFFICES ASSUME NEW c \in CPUs, manejador[c] = [paso |-> "recolocar", r |-> d] PROVE FALSE
    BY DEF Recolocando
  <2>1. manejador[c].paso = "recolocar" /\ manejador[c].r = d
    OBVIOUS
  <2> QED
    BY <1>1, <1>3, <2>1 DEF Fiel
<1>6. ~EnConsola(d) /\ d \notin quitados
  BY <1>1 DEF EnConsola, Forma
<1> QED
  BY <1>2, <1>4, <1>5, <1>6

LEMMA EjecutarPreserva ==
  ASSUME IInv, Ejecutar
  PROVE  IInv'
<1> DEFINE n == Len(dtb) + 1
<1>1. Forma /\ Lugares /\ Colas /\ \A e \in CPUs : Turno(e) /\ Fiel(e)
  BY DEF IInv
<1>2. /\ Len(dtb) \in Nat /\ Len(colaNew) \in Nat /\ Len(colaNew) <= Len(dtb)
      /\ DOMAIN dtb = 1..Len(dtb) /\ DOMAIN colaNew = 1..Len(colaNew) /\ colaNew \in Seq(Nat)
  BY <1>1, LosGDT DEF Forma
<1>3. PICK s : dtb' = Append(dtb, [script |-> s, status |-> "NEW", PC |-> 0, quantumFaltante |-> 0, cantIOs |-> 0])
  BY DEF Ejecutar
<1> DEFINE x == [script |-> s, status |-> "NEW", PC |-> 0, quantumFaltante |-> 0, cantIOs |-> 0]
<1>4. DOMAIN x = CamposDTB /\ x.status \in Estados
  BY DEF CamposDTB, Estados
<1>5. dtb' = Append(dtb, x)
  BY <1>3
<1> HIDE DEF x
<1>6. /\ colaNew' = Append(colaNew, n) /\ enNew' = enNew + 1
      /\ UNCHANGED <<colaReady, colaBloqueados, listaEjecutando, colaFinalizados, puedeEntrar, enReady>>
      /\ UNCHANGED <<plp, consola, planif, manejador, aSafa, aCpu, deDam, cpu, quitados>>
      /\ consola.paso = "leer"
  BY DEF Ejecutar, Comando, red
<1>7. /\ EsSeq(dtb') /\ DOMAIN dtb' = 1..(Len(dtb) + 1) /\ Len(dtb') = Len(dtb) + 1
      /\ \A i \in 1..Len(dtb) : dtb'[i] = dtb[i]
      /\ dtb'[n] = x
  <2>1. EsSeq(dtb)
    BY <1>1 DEF Forma
  <2>2. /\ EsSeq(dtb') /\ DOMAIN dtb' = 1..(Len(dtb) + 1)
        /\ \A i \in 1..Len(dtb) : dtb'[i] = dtb[i]
        /\ dtb'[n] = x
    BY <1>5, <2>1, EsSeqAgregada
  <2>3. DOMAIN dtb' = 1..Len(dtb') /\ Len(dtb') \in Nat
    BY <2>2, LenProperties DEF EsSeq
  <2> QED
    BY <1>2, <2>2, <2>3
<1>8. n \in Nat /\ n \notin Admitidos
  BY <1>2 DEF Admitidos
<1>9. /\ colaNew' \in Seq(Nat) /\ Len(colaNew') = Len(colaNew) + 1
      /\ \A i \in 1..Len(colaNew) : colaNew'[i] = colaNew[i]
      /\ colaNew'[Len(colaNew) + 1] = n
  BY <1>2, <1>6, <1>8, AppendProperties
<1> HIDE DEF n
<1>10. DOMAIN colaNew' = 1..(Len(colaNew) + 1)
  BY <1>9, LenProperties
<1>11. Len(dtb') - Len(colaNew') = Len(dtb) - Len(colaNew)
  BY <1>2, <1>7, <1>9
<1>12. Admitidos' = Admitidos /\ Quienes' = Quienes
  BY <1>11 DEF Admitidos, Quienes
<1>13. \A i \in DOMAIN colaNew : colaNew[i] = Len(dtb) - Len(colaNew) + i
  BY <1>1 DEF Forma
<1>14. Forma'
  <2>1. \A d \in DOMAIN dtb' : DOMAIN dtb'[d] = CamposDTB /\ dtb'[d].status \in Estados
    <3> SUFFICES ASSUME NEW d \in DOMAIN dtb' PROVE DOMAIN dtb'[d] = CamposDTB /\ dtb'[d].status \in Estados
      OBVIOUS
    <3>1. CASE d \in 1..Len(dtb)
      <4>1. DOMAIN dtb[d] = CamposDTB /\ dtb[d].status \in Estados
        BY <1>1, <1>2, <3>1 DEF Forma
      <4> QED
        BY <1>7, <3>1, <4>1
    <3>2. CASE d \notin 1..Len(dtb)
      <4>1. d = n
        BY <1>2, <1>7, <3>2 DEF n
      <4> QED
        BY <1>4, <1>7, <4>1
    <3> QED
      BY <3>1, <3>2
  <2>2. \A i \in DOMAIN colaNew' : colaNew'[i] = Len(dtb') - Len(colaNew') + i
    <3> SUFFICES ASSUME NEW i \in DOMAIN colaNew' PROVE colaNew'[i] = Len(dtb') - Len(colaNew') + i
      OBVIOUS
    <3>1. CASE i \in 1..Len(colaNew)
      BY <1>2, <1>9, <1>11, <1>13, <3>1
    <3>2. CASE i \notin 1..Len(colaNew)
      <4>1. i = Len(colaNew) + 1
        BY <1>2, <1>10, <3>2
      <4> QED
        BY <1>2, <1>9, <1>11, <4>1 DEF n
    <3> QED
      BY <3>1, <3>2
  <2>3. Len(colaNew') <= Len(dtb') /\ enNew' = Len(colaNew')
    BY <1>1, <1>2, <1>6, <1>7, <1>9 DEF Forma
  <2> QED
    BY <1>1, <1>6, <1>7, <1>9, <1>12, <2>1, <2>2, <2>3 DEF Forma
<1>15. Lugares'
  BY <1>1, <1>6, <1>11 DEF Lugares
<1>16. \A d : /\ Veces(colaNew', d) = Veces(colaNew, d) + Si(n = d)
              /\ EnMano(d)' <=> EnMano(d)
              /\ Recolocando(d)' <=> Recolocando(d)
              /\ EnConsola(d)' <=> EnConsola(d)
              /\ Silenciado(d)' <=> Silenciado(d)
  BY <1>2, <1>6, VecesAgregada DEF EnMano, Recolocando, EnConsola, Silenciado
<1>17. Veces(colaNew, n) = 0
  <2>1. \A i \in DOMAIN colaNew : colaNew[i] # n
    BY <1>2, <1>13 DEF n
  <2> QED
    BY <1>2, <2>1, VecesTipo
<1>18. ASSUME NEW d \in DOMAIN dtb' PROVE UnSitio(d)'
  <2>0. /\ Veces(colaReady, d)' = Veces(colaReady, d) /\ Veces(colaBloqueados, d)' = Veces(colaBloqueados, d)
        /\ Veces(listaEjecutando, d)' = Veces(listaEjecutando, d)
        /\ Veces(colaFinalizados, d)' = Veces(colaFinalizados, d)
    BY <1>6
  <2>1. CASE d = n
    <3>1. /\ Veces(colaReady, d) = 0 /\ Veces(colaBloqueados, d) = 0 /\ Veces(listaEjecutando, d) = 0
          /\ Veces(colaFinalizados, d) = 0
          /\ ~EnMano(d) /\ ~Recolocando(d) /\ ~EnConsola(d) /\ d \notin quitados
      BY <1>8, <2>1, SinAdmitir
    <3>2. Sitios(d)' = 1
      BY <1>16, <1>17, <2>0, <2>1, <3>1 DEF Sitios, Si
    <3> QED
      BY <1>6, <1>16, <2>0, <3>1, <3>2 DEF UnSitio
  <2>2. CASE d # n
    <3>1. d \in DOMAIN dtb
      BY <1>2, <1>7, <2>2 DEF n
    <3>2. UnSitio(d)
      BY <1>1, <3>1 DEF Colas
    <3>3. Veces(colaNew', d) = Veces(colaNew, d)
      <4>1. Veces(colaNew, d) \in Nat
        BY <1>1, Cuentas
      <4> QED
        BY <1>16, <2>2, <4>1 DEF Si
    <3>4. Sitios(d)' = Sitios(d)
      BY <1>16, <2>0, <3>3 DEF Sitios, Si
    <3> QED
      BY <1>6, <1>16, <2>0, <3>2, <3>4 DEF UnSitio, Si
  <2> QED
    BY <2>1, <2>2
<1>19. Colas'
  <2>1. \A c \in CPUs : Vigente(c)' /\ ExitPrimero(c)'
    BY <1>1, <1>6 DEF Colas, Vigente, ExitPrimero
  <2> QED
    BY <1>1, <1>6, <1>18, <2>1 DEF Colas
<1> QED
  BY <1>6, <1>14, <1>15, <1>19, TurnosIguales DEF IInv
-----------------------------------------------------------------------------
(* The steps that move a GDT. *)

(* Nothing that is said of a GDT changes with what a step does to others.  *)
LEMMA UnSitioAjeno ==
  ASSUME NEW e, UnSitio(e),
         Veces(colaNew', e) = Veces(colaNew, e),
         Veces(colaReady', e) = Veces(colaReady, e),
         Veces(colaBloqueados', e) = Veces(colaBloqueados, e),
         Veces(listaEjecutando', e) = Veces(listaEjecutando, e),
         Veces(colaFinalizados', e) = Veces(colaFinalizados, e),
         EnMano(e)' <=> EnMano(e),
         Recolocando(e)' <=> Recolocando(e),
         EnConsola(e)' <=> EnConsola(e),
         Silenciado(e) => Silenciado(e)',
         e \in quitados' <=> e \in quitados
  PROVE  UnSitio(e)'
<1>1. Sitios(e)' = Sitios(e)
  BY DEF Sitios, Si
<1> QED
  BY <1>1 DEF UnSitio, Si

(* Another entry for one planner, or for one handler. *)
LEMMA OtroPlanif ==
  ASSUME Forma, NEW c \in CPUs, NEW q, planif' = [planif EXCEPT ![c] = q]
  PROVE  /\ DOMAIN planif' = CPUs /\ planif'[c] = q /\ \A f \in CPUs \ {c} : planif'[f] = planif[f]
         /\ \A e : planif[c].d # e /\ q.d # e => (EnMano(e)' <=> EnMano(e))
         /\ UNCHANGED cpu => \A e : planif[c].d # e /\ Silenciado(e) => Silenciado(e)'
<1>1. DOMAIN planif' = CPUs /\ planif'[c] = q /\ \A f \in CPUs \ {c} : planif'[f] = planif[f]
  BY DEF Forma
<1>2. ASSUME NEW e, planif[c].d # e, q.d # e PROVE EnMano(e)' <=> EnMano(e)
  <2> DEFINE marca == [d |-> e, enMano |-> TRUE]
  <2>1. marca.d = e
    OBVIOUS
  <2> HIDE DEF marca
  <2>2. planif[c] # marca /\ q # marca
    BY <1>2, <2>1
  <2>3. \A f \in CPUs : planif'[f] = marca <=> planif[f] = marca
    BY <1>1, <2>2
  <2> QED
    BY <2>3 DEF EnMano, marca
<1>3. ASSUME UNCHANGED cpu, NEW e, planif[c].d # e, Silenciado(e) PROVE Silenciado(e)'
  BY <1>1, <1>3 DEF Silenciado
<1> QED
  BY <1>1, <1>2, <1>3

LEMMA OtroManejador ==
  ASSUME Forma, NEW c \in CPUs, NEW q, manejador' = [manejador EXCEPT ![c] = q]
  PROVE  /\ DOMAIN manejador' = CPUs /\ manejador'[c] = q /\ \A f \in CPUs \ {c} : manejador'[f] = manejador[f]
         /\ \A e : (manejador[c].r # e \/ manejador[c].paso # "recolocar") /\ (q.r # e \/ q.paso # "recolocar")
                     => (Recolocando(e)' <=> Recolocando(e))
<1>1. DOMAIN manejador' = CPUs /\ manejador'[c] = q /\ \A f \in CPUs \ {c} : manejador'[f] = manejador[f]
  BY DEF Forma
<1>2. ASSUME NEW e, manejador[c].r # e \/ manejador[c].paso # "recolocar", q.r # e \/ q.paso # "recolocar"
      PROVE  Recolocando(e)' <=> Recolocando(e)
  <2> DEFINE marca == [paso |-> "recolocar", r |-> e]
  <2>1. marca.r = e /\ marca.paso = "recolocar"
    OBVIOUS
  <2> HIDE DEF marca
  <2>2. manejador[c] # marca /\ q # marca
    BY <1>2, <2>1
  <2>3. \A f \in CPUs : manejador'[f] = marca <=> manejador[f] = marca
    BY <1>1, <2>2
  <2> QED
    BY <2>3 DEF Recolocando, marca
<1> QED
  BY <1>1, <1>2

(* The one planner of a GDT says who has it. *)
LEMMA ElSuyo ==
  ASSUME IInv, NEW c \in CPUs, NEW d, planif[c].d = d, d # Nadie
  PROVE  /\ EnMano(d) <=> planif[c].enMano
         /\ Recolocando(d) <=> manejador[c].paso = "recolocar"
         /\ Silenciado(d) <=> cpu[c].muda
         /\ d \in Admitidos
<1>1. Forma /\ Colas /\ \A f \in CPUs : Fiel(f)
  BY DEF IInv
<1>2. \A f \in CPUs : planif[f].d = d => f = c
  BY <1>1 DEF Colas
<1>3. EnMano(d) <=> planif[c].enMano
  <2>1. ASSUME EnMano(d) PROVE planif[c].enMano
    <3>1. PICK f \in CPUs : planif[f] = [d |-> d, enMano |-> TRUE]
      BY <2>1 DEF EnMano
    <3>2. planif[f].d = d /\ planif[f].enMano
      BY <3>1
    <3> QED
      BY <1>2, <3>2
  <2>2. ASSUME planif[c].enMano PROVE EnMano(d)
    <3>1. planif[c] = [d |-> planif[c].d, enMano |-> planif[c].enMano] /\ planif[c].enMano \in BOOLEAN
      BY <1>1, DeQuienPlanifica
    <3>2. planif[c].enMano = TRUE
      BY <2>2, <3>1
    <3>3. planif[c] = [d |-> d, enMano |-> TRUE]
      BY <3>1, <3>2
    <3> QED
      BY <3>3 DEF EnMano
  <2> QED
    BY <2>1, <2>2
<1>4. Recolocando(d) <=> manejador[c].paso = "recolocar"
  <2>1. ASSUME Recolocando(d) PROVE manejador[c].paso = "recolocar"
    <3>1. PICK f \in CPUs : manejador[f] = [paso |-> "recolocar", r |-> d]
      BY <2>1 DEF Recolocando
    <3>2. manejador[f].paso = "recolocar" /\ manejador[f].r = d
      BY <3>1
    <3>3. planif[f].d = d
      BY <1>1, <3>2 DEF Fiel
    <3> QED
      BY <1>2, <3>2, <3>3
  <2>2. ASSUME manejador[c].paso = "recolocar" PROVE Recolocando(d)
    <3>1. manejador[c] = [paso |-> manejador[c].paso, r |-> manejador[c].r]
      BY <1>1 DEF Forma
    <3>2. manejador[c].r = d
      BY <1>1, <2>2 DEF Fiel
    <3>3. manejador[c] = [paso |-> "recolocar", r |-> d]
      BY <2>2, <3>1, <3>2
    <3> QED
      BY <3>3 DEF Recolocando
  <2> QED
    BY <2>1, <2>2
<1>5. Silenciado(d) <=> cpu[c].muda
  BY <1>2 DEF Silenciado
<1> QED
  BY <1>1, <1>3, <1>4, <1>5, DeQuienPlanifica

(* What waits to be planned is nowhere else, and nobody's turn. *)
LEMMA EstaListo ==
  ASSUME IInv, NEW d, Veces(colaReady, d) > 0
  PROVE  /\ d \in Admitidos /\ d \in DOMAIN dtb /\ d # Nadie /\ d \notin quitados
         /\ Veces(colaNew, d) = 0 /\ Veces(colaReady, d) = 1 /\ Veces(colaBloqueados, d) = 0
         /\ Veces(listaEjecutando, d) = 0 /\ Veces(colaFinalizados, d) = 0
         /\ ~EnMano(d) /\ ~Recolocando(d) /\ ~EnConsola(d)
         /\ \A f \in CPUs : planif[f].d # d
<1>1. Forma /\ Colas
  BY DEF IInv
<1>2. d \in Admitidos /\ d \in DOMAIN dtb /\ d # Nadie
  BY <1>1, Cuentas, LosGDT
<1>3. UnSitio(d)
  BY <1>1, <1>2 DEF Colas
<1>4. /\ Veces(colaNew, d) \in Nat /\ Veces(colaReady, d) \in Nat /\ Veces(colaBloqueados, d) \in Nat
      /\ Veces(listaEjecutando, d) \in Nat /\ Veces(colaFinalizados, d) \in Nat
      /\ Si(EnMano(d)) \in {0, 1} /\ Si(Recolocando(d)) \in {0, 1} /\ Si(EnConsola(d)) \in {0, 1}
  BY <1>1, Cuentas, SitiosTipo
<1>5. /\ Veces(colaNew, d) = 0 /\ Veces(colaReady, d) = 1 /\ Veces(colaBloqueados, d) = 0
      /\ Veces(listaEjecutando, d) = 0
      /\ Si(EnMano(d)) = 0 /\ Si(Recolocando(d)) = 0 /\ Si(EnConsola(d)) = 0
      /\ Sitios(d) = 1
  <2>1. Sitios(d) <= 1
    BY <1>3 DEF UnSitio
  <2> QED
    BY <1>4, <2>1 DEF Sitios
<1>6. ~EnMano(d) /\ ~Recolocando(d) /\ ~EnConsola(d)
  BY <1>5 DEF Si
<1>7. d \notin quitados /\ Veces(colaFinalizados, d) = 0
  BY <1>3, <1>4, <1>5, <1>6 DEF UnSitio
<1>8. ASSUME NEW f \in CPUs, planif[f].d = d PROVE FALSE
  <2>1. ~planif[f].enMano /\ manejador[f].paso # "recolocar"
    BY <1>2, <1>6, <1>8, ElSuyo
  <2>2. Vigente(f)
    BY <1>1 DEF Colas
  <2> QED
    BY <1>2, <1>5, <1>7, <1>8, <2>1, <2>2 DEF Vigente
<1> QED
  BY <1>2, <1>5, <1>6, <1>7, <1>8

(* A planner that waits for nobody has nothing under way. *)
LEMMA TurnoDeNadie ==
  ASSUME IInv, NEW c \in CPUs, planif[c].d = Nadie
  PROVE  /\ ~planif[c].enMano /\ Con(aCpu[c], {"ejecutar"}) = 0 /\ Con(aSafa[c], Reportes) = 0
         /\ cpu[c].estado = "libre" /\ ~cpu[c].muda /\ Con(aSafa[c], {"exit"}) = 0
         /\ manejador[c].paso # "recolocar"
<1>1. Forma /\ Turno(c) /\ Fiel(c)
  BY DEF IInv
<1>2. EsSeq(aCpu[c]) /\ EsSeq(aSafa[c])
  BY <1>1 DEF Forma
<1>3. Con(aCpu[c], {"ejecutar"}) \in Nat /\ Con(aSafa[c], Reportes) \in Nat /\ Con(aSafa[c], {"exit"}) \in Nat
  BY <1>2, ConTipo
<1>4. /\ ~planif[c].enMano /\ Con(aCpu[c], {"ejecutar"}) = 0 /\ Con(aSafa[c], Reportes) = 0
      /\ cpu[c].estado = "libre" /\ ~cpu[c].muda
  <2>1. Si(planif[c].d # Nadie) = 0
    BY DEF Si
  <2>2. /\ Si(planif[c].enMano) \in {0, 1} /\ (planif[c].enMano => Si(planif[c].enMano) = 1)
        /\ Si(cpu[c].estado # "libre" \/ cpu[c].muda) \in {0, 1}
        /\ (cpu[c].estado # "libre" \/ cpu[c].muda => Si(cpu[c].estado # "libre" \/ cpu[c].muda) = 1)
    BY DEF Si
  <2>3. Si(planif[c].enMano) + Con(aCpu[c], {"ejecutar"}) + Si(cpu[c].estado # "libre" \/ cpu[c].muda)
          + Con(aSafa[c], Reportes) = 0
    BY <1>1, <2>1 DEF Turno
  <2>4. /\ Si(planif[c].enMano) = 0 /\ Con(aCpu[c], {"ejecutar"}) = 0
        /\ Si(cpu[c].estado # "libre" \/ cpu[c].muda) = 0 /\ Con(aSafa[c], Reportes) = 0
    BY <1>3, <2>2, <2>3
  <2> QED
    BY <2>2, <2>4
<1>5. Con(aSafa[c], {"exit"}) = 0
  BY <1>1, <1>3, <1>4 DEF Fiel, Si
<1>6. manejador[c].paso = "recolocar" => aSafa[c] # <<>> /\ Head(aSafa[c]).que \in Reportes
  BY <1>1 DEF Fiel
<1> QED
  BY <1>2, <1>4, <1>5, <1>6, CabezaCuenta

LEMMA PlanificarPreserva ==
  ASSUME IInv, NEW c \in CPUs, Planificar(c)
  PROVE  IInv'
<1>1. Forma /\ Lugares /\ Colas /\ \A f \in CPUs : Turno(f) /\ Fiel(f)
  BY DEF IInv
<1>2. colaReady \in Seq(Admitidos) /\ DOMAIN colaReady = 1..Len(colaReady)
  BY <1>1, LenProperties DEF Forma
<1>3. Elegibles \subseteq DOMAIN colaReady
  BY DEF Elegibles
<1>4. PICK i \in DOMAIN colaReady :
        /\ PuedePlanificar(c)
        /\ enReady' = enReady - 1
        /\ colaReady' = RemoveAt(colaReady, i)
        /\ planif' = [planif EXCEPT ![c] = [d |-> colaReady[i], enMano |-> TRUE]]
  BY <1>3 DEF Planificar
<1>6. PICK d : d = colaReady[i]
  OBVIOUS
<1> DEFINE q == [d |-> d, enMano |-> TRUE]
<1>5. q.d = d /\ q.enMano = TRUE /\ q = [d |-> d, enMano |-> TRUE] /\ planif' = [planif EXCEPT ![c] = q]
  BY <1>4, <1>6
<1>7. /\ UNCHANGED <<colaNew, colaBloqueados, listaEjecutando, colaFinalizados, puedeEntrar, enNew, dtb>>
      /\ UNCHANGED <<plp, consola, manejador, aSafa, aCpu, deDam, cpu, quitados>>
      /\ planif[c].d = Nadie /\ enReady > 0
  BY <1>4 DEF Planificar, PuedePlanificar, red
<1> HIDE DEF q
<1>8. colaReady' \in Seq(Admitidos) /\ \A e : Veces(colaReady', e) = Veces(colaReady, e) - Si(d = e)
  BY <1>2, <1>4, <1>6, RemoveAtElementos, VecesQuitada
<1>9. Veces(colaReady, d) > 0
  <2>1. Veces(colaReady, d) # 0
    BY <1>2, <1>6, VecesTipo
  <2> QED
    BY <1>1, <2>1, Cuentas
<1>10. /\ d \in Admitidos /\ d \in DOMAIN dtb /\ d # Nadie /\ d \notin quitados
       /\ Veces(colaNew, d) = 0 /\ Veces(colaReady, d) = 1 /\ Veces(colaBloqueados, d) = 0
       /\ Veces(listaEjecutando, d) = 0 /\ Veces(colaFinalizados, d) = 0
       /\ ~EnMano(d) /\ ~Recolocando(d) /\ ~EnConsola(d)
       /\ \A f \in CPUs : planif[f].d # d
  BY <1>9, EstaListo
<1>11. /\ ~planif[c].enMano /\ Con(aCpu[c], {"ejecutar"}) = 0 /\ Con(aSafa[c], Reportes) = 0
       /\ cpu[c].estado = "libre" /\ ~cpu[c].muda /\ Con(aSafa[c], {"exit"}) = 0
       /\ manejador[c].paso # "recolocar"
  BY <1>7, TurnoDeNadie
<1>12. /\ DOMAIN planif' = CPUs /\ planif'[c] = q /\ \A f \in CPUs \ {c} : planif'[f] = planif[f]
       /\ \A e : Nadie # e /\ d # e => (EnMano(e)' <=> EnMano(e))
       /\ \A e : Nadie # e /\ Silenciado(e) => Silenciado(e)'
  BY <1>1, <1>5, <1>7, OtroPlanif
<1>13. Admitidos' = Admitidos /\ Quienes' = Quienes
  BY <1>7 DEF Admitidos, Quienes
<1>14. Forma'
  <2>1. planif' \in [CPUs -> [d : Quienes, enMano : BOOLEAN]]
    <3>1. q \in [d : Quienes, enMano : BOOLEAN]
      BY <1>5, <1>10 DEF Quienes
    <3> QED
      BY <1>1, <1>5, <3>1 DEF Forma
  <2>2. enReady' \in Nat
    BY <1>1, <1>4, <1>7 DEF Forma
  <2> QED
    BY <1>1, <1>7, <1>8, <1>13, <2>1, <2>2 DEF Forma
<1>15. ASSUME NEW f \in CPUs PROVE Turno(f)' /\ Fiel(f)'
  <2>1. CASE f = c
    <3>1. Turno(c)'
      <4>1. Si(q.enMano) = 1 /\ Si(q.d # Nadie) = 1 /\ Si(cpu[c].estado # "libre" \/ cpu[c].muda) = 0
        BY <1>5, <1>10, <1>11 DEF Si
      <4> QED
        BY <1>7, <1>11, <1>12, <4>1 DEF Turno
    <3>2. Fiel(c)'
      <4>1. EsSeq(aCpu[c]) /\ EsSeq(aSafa[c])
        BY <1>1 DEF Forma
      <4>2. Con(aSafa[c], Reportes \cup {"exit"}) = 0
        <5>1. /\ \A k \in DOMAIN aSafa[c] : aSafa[c][k].que \notin Reportes
              /\ \A k \in DOMAIN aSafa[c] : aSafa[c][k].que \notin {"exit"}
          BY <1>11, <4>1, ConTipo
        <5>2. \A k \in DOMAIN aSafa[c] : aSafa[c][k].que \notin Reportes \cup {"exit"}
          BY <5>1
        <5> QED
          BY <4>1, <5>2, ConTipo
      <4>3. Dice(aCpu[c], {"ejecutar"}, d) /\ Dice(aSafa[c], Reportes \cup {"exit"}, d)
        BY <1>11, <4>1, <4>2, DiceNada
      <4>4. Con(aSafa[c], {"exit"}) <= Si(cpu[c].muda)
        BY <1>11 DEF Si
      <4> QED
        BY <1>5, <1>7, <1>11, <1>12, <4>3, <4>4 DEF Fiel
    <3> QED
      BY <2>1, <3>1, <3>2
  <2>2. CASE f # c
    BY <1>1, <1>7, <1>12, <2>2 DEF Turno, Fiel
  <2> QED
    BY <2>1, <2>2
<1>16. Lugares'
  BY <1>1, <1>7 DEF Lugares
<1>17. \A e : /\ Veces(colaNew', e) = Veces(colaNew, e)
              /\ Veces(colaBloqueados', e) = Veces(colaBloqueados, e)
              /\ Veces(listaEjecutando', e) = Veces(listaEjecutando, e)
              /\ Veces(colaFinalizados', e) = Veces(colaFinalizados, e)
              /\ Recolocando(e)' <=> Recolocando(e)
              /\ EnConsola(e)' <=> EnConsola(e)
              /\ e \in quitados' <=> e \in quitados
  BY <1>7 DEF Recolocando, EnConsola
<1>18. ASSUME NEW e \in DOMAIN dtb PROVE UnSitio(e)'
  <2>1. CASE e = d
    <3>1. EnMano(d)'
      <4>1. planif'[c] = [d |-> d, enMano |-> TRUE]
        BY <1>5, <1>12
      <4> QED
        BY <4>1 DEF EnMano
    <3>2. Veces(colaReady', d) = 0
      BY <1>8, <1>10 DEF Si
    <3>3. Sitios(d)' = 1
      BY <1>10, <1>17, <3>1, <3>2 DEF Sitios, Si
    <3> QED
      BY <1>10, <1>17, <2>1, <3>3 DEF UnSitio
  <2>2. CASE e # d
    <3>1. UnSitio(e) /\ e # Nadie
      BY <1>1, LosGDT, NadieAssumption DEF Colas
    <3>2. Veces(colaReady', e) = Veces(colaReady, e)
      <4>1. Veces(colaReady, e) \in Nat
        BY <1>1, Cuentas
      <4> QED
        BY <1>8, <2>2, <4>1 DEF Si
    <3> QED
      BY <1>12, <1>17, <2>2, <3>1, <3>2, UnSitioAjeno
  <2> QED
    BY <2>1, <2>2
<1>19. \A f, g \in CPUs : planif'[f].d = planif'[g].d /\ planif'[f].d # Nadie => f = g
  BY <1>1, <1>5, <1>10, <1>12 DEF Colas
<1>20. ASSUME NEW f \in CPUs PROVE Vigente(f)' /\ ExitPrimero(f)'
  <2>1. CASE f = c
    BY <1>5, <1>7, <1>11, <1>12, <2>1 DEF Vigente, ExitPrimero
  <2>2. CASE f # c
    <3>1. Vigente(f) /\ ExitPrimero(f)
      BY <1>1 DEF Colas
    <3> QED
      BY <1>7, <1>12, <2>2, <3>1 DEF Vigente, ExitPrimero
  <2> QED
    BY <2>1, <2>2
<1>21. Colas'
  BY <1>7, <1>18, <1>19, <1>20 DEF Colas
<1> QED
  BY <1>14, <1>15, <1>16, <1>21 DEF IInv

LEMMA DespacharPreserva ==
  ASSUME IInv, NEW c \in CPUs, Despachar(c)
  PROVE  IInv'
<1>0. PICK d : d = planif[c].d
  OBVIOUS
<1> DEFINE q == [planif[c] EXCEPT !.enMano = FALSE]
           m == [que |-> "ejecutar", d |-> d, pc |-> dtb[d].PC, q |-> QuantumAEjecutar(d)]
<1>1. Forma /\ Lugares /\ Colas /\ \A f \in CPUs : Turno(f) /\ Fiel(f)
  BY DEF IInv
<1>2. /\ EsSeq(aSafa[c]) /\ EsSeq(aCpu[c]) /\ DOMAIN aCpu = CPUs
      /\ planif[c] \in [d : Quienes, enMano : BOOLEAN] /\ planif \in [CPUs -> [d : Quienes, enMano : BOOLEAN]]
  BY <1>1 DEF Forma
<1>3. /\ q.d = d /\ ~q.enMano /\ q.enMano \in BOOLEAN /\ q \in [d : Quienes, enMano : BOOLEAN]
      /\ planif' = [planif EXCEPT ![c] = q]
  <2>1. q.d = d /\ ~q.enMano /\ q \in [d : Quienes, enMano : BOOLEAN]
    BY <1>0, <1>2
  <2> QED
    BY <2>1 DEF Despachar
<1>4. m.que = "ejecutar" /\ m.d = d /\ aCpu' = [aCpu EXCEPT ![c] = Append(aCpu[c], m)]
  BY <1>0 DEF Despachar
<1>5. /\ UNCHANGED <<colaNew, colaReady, colaBloqueados, colaFinalizados, puedeEntrar, enNew, enReady>>
      /\ UNCHANGED <<plp, consola, manejador, aSafa, deDam, cpu, quitados>>
      /\ planif[c].enMano /\ dtb' = [dtb EXCEPT ![d].status = "RUNNING"]
      /\ listaEjecutando' = Append(listaEjecutando, d)
  BY <1>0 DEF Despachar
<1> HIDE DEF q, m
<1>6. MismosDTB
  <2>1. "RUNNING" \in Estados
    BY DEF Estados
  <2> QED
    BY <1>1, <1>5, <2>1, EscribirEstado
<1>7. d # Nadie
  <2>1. Con(aCpu[c], {"ejecutar"}) \in Nat /\ Con(aSafa[c], Reportes) \in Nat
    BY <1>2, ConTipo
  <2> QED
    BY <1>0, <1>1, <1>5, <2>1 DEF Turno, Si
<1>8. /\ Con(aCpu[c], {"ejecutar"}) = 0 /\ Con(aSafa[c], Reportes) = 0
      /\ cpu[c].estado = "libre" /\ ~cpu[c].muda
  <2>1. Con(aCpu[c], {"ejecutar"}) \in Nat /\ Con(aSafa[c], Reportes) \in Nat
    BY <1>2, ConTipo
  <2> QED
    BY <1>0, <1>1, <1>5, <1>7, <2>1 DEF Turno, Si
<1>9. EnMano(d) /\ ~Silenciado(d) /\ d \in Admitidos /\ d \in DOMAIN dtb
  BY <1>0, <1>1, <1>5, <1>7, <1>8, ElSuyo, LosGDT
<1>10. UnSitio(d)
  BY <1>1, <1>9 DEF Colas
<1>11. /\ Veces(colaNew, d) = 0 /\ Veces(colaReady, d) = 0 /\ Veces(colaBloqueados, d) = 0
       /\ Veces(listaEjecutando, d) = 0 /\ ~Recolocando(d) /\ ~EnConsola(d)
       /\ d \notin quitados /\ Veces(colaFinalizados, d) = 0
  <2>1. /\ Veces(colaNew, d) \in Nat /\ Veces(colaReady, d) \in Nat /\ Veces(colaBloqueados, d) \in Nat
        /\ Veces(listaEjecutando, d) \in Nat /\ Veces(colaFinalizados, d) \in Nat
        /\ Si(Recolocando(d)) \in {0, 1} /\ Si(EnConsola(d)) \in {0, 1} /\ Si(EnMano(d)) = 1
    BY <1>1, <1>9, Cuentas, SitiosTipo DEF Si
  <2>2. Sitios(d) <= 1
    BY <1>10 DEF UnSitio
  <2>3. /\ Veces(colaNew, d) = 0 /\ Veces(colaReady, d) = 0 /\ Veces(colaBloqueados, d) = 0
        /\ Veces(listaEjecutando, d) = 0 /\ Si(Recolocando(d)) = 0 /\ Si(EnConsola(d)) = 0 /\ Sitios(d) = 1
    BY <2>1, <2>2 DEF Sitios
  <2>4. ~Recolocando(d) /\ ~EnConsola(d)
    BY <2>3 DEF Si
  <2> QED
    BY <1>10, <2>1, <2>3, <2>4 DEF UnSitio
<1>12. /\ DOMAIN planif' = CPUs /\ planif'[c] = q /\ \A f \in CPUs \ {c} : planif'[f] = planif[f]
       /\ \A e : d # e => (EnMano(e)' <=> EnMano(e))
       /\ \A e : d # e /\ Silenciado(e) => Silenciado(e)'
  BY <1>0, <1>1, <1>3, <1>5, OtroPlanif
<1>13. listaEjecutando \in Seq(Admitidos)
  BY <1>1 DEF Forma
<1>14. listaEjecutando' \in Seq(Admitidos) /\ \A e : Veces(listaEjecutando', e) = Veces(listaEjecutando, e) + Si(d = e)
  BY <1>5, <1>9, <1>13, AppendProperties, VecesAgregada
<1>15. /\ DOMAIN aCpu' = CPUs /\ \A f \in CPUs \ {c} : aCpu'[f] = aCpu[f]
       /\ EsSeq(aCpu'[c]) /\ Con(aCpu'[c], {"ejecutar"}) = 1 /\ Dice(aCpu'[c], {"ejecutar"}, d)
  <2>1. DOMAIN aCpu' = CPUs /\ aCpu'[c] = Append(aCpu[c], m) /\ \A f \in CPUs \ {c} : aCpu'[f] = aCpu[f]
    BY <1>2, <1>4
  <2>2. Dice(aCpu[c], {"ejecutar"}, d)
    BY <1>0, <1>1 DEF Fiel
  <2>3. /\ EsSeq(Append(aCpu[c], m))
        /\ Con(Append(aCpu[c], m), {"ejecutar"}) = Con(aCpu[c], {"ejecutar"}) + Si(m.que \in {"ejecutar"})
        /\ Dice(Append(aCpu[c], m), {"ejecutar"}, d)
    BY <1>2, <1>4, <2>2, EsSeqAgregada, ConAgregada, DiceAgregada
  <2> QED
    BY <1>4, <1>8, <2>1, <2>3 DEF Si
<1>16. Admitidos' = Admitidos /\ Quienes' = Quienes
  BY <1>5, <1>6 DEF Admitidos, Quienes, MismosDTB
<1>17. Forma'
  <2>1. planif' \in [CPUs -> [d : Quienes, enMano : BOOLEAN]]
    BY <1>2, <1>3
  <2>2. \A f \in CPUs : EsSeq(aCpu'[f])
    BY <1>1, <1>15 DEF Forma
  <2>3. /\ EsSeq(dtb') /\ Len(dtb') = Len(dtb)
        /\ \A e \in DOMAIN dtb' : DOMAIN dtb'[e] = CamposDTB /\ dtb'[e].status \in Estados
    BY <1>6 DEF MismosDTB
  <2> QED
    BY <1>1, <1>5, <1>14, <1>15, <1>16, <2>1, <2>2, <2>3 DEF Forma
<1>18. ASSUME NEW f \in CPUs PROVE Turno(f)' /\ Fiel(f)'
  <2>1. CASE f = c
    <3>1. Turno(c)'
      <4>1. Si(q.enMano) = 0 /\ Si(q.d # Nadie) = 1 /\ Si(cpu[c].estado # "libre" \/ cpu[c].muda) = 0
        BY <1>3, <1>7, <1>8 DEF Si
      <4> QED
        BY <1>5, <1>8, <1>12, <1>15, <4>1 DEF Turno
    <3>2. Fiel(c)'
      BY <1>0, <1>1, <1>3, <1>5, <1>12, <1>15 DEF Fiel
    <3> QED
      BY <2>1, <3>1, <3>2
  <2>2. CASE f # c
    <3>1. /\ planif'[f] = planif[f] /\ aCpu'[f] = aCpu[f] /\ aSafa'[f] = aSafa[f]
          /\ cpu'[f] = cpu[f] /\ manejador'[f] = manejador[f]
      BY <1>5, <1>12, <1>15, <2>2
    <3>2. Turno(f)'
      <4>1. Turno(f)
        BY <1>1
      <4> QED
        BY <3>1, <4>1 DEF Turno
    <3>3. Fiel(f)'
      <4>1. Fiel(f)
        BY <1>1
      <4> QED
        BY <3>1, <4>1 DEF Fiel
    <3> QED
      BY <3>2, <3>3
  <2> QED
    BY <2>1, <2>2
<1>19. Lugares'
  BY <1>1, <1>5, <1>6 DEF Lugares, MismosDTB
<1>20. \A e : /\ Veces(colaNew', e) = Veces(colaNew, e)
              /\ Veces(colaReady', e) = Veces(colaReady, e)
              /\ Veces(colaBloqueados', e) = Veces(colaBloqueados, e)
              /\ Veces(colaFinalizados', e) = Veces(colaFinalizados, e)
              /\ Recolocando(e)' <=> Recolocando(e)
              /\ EnConsola(e)' <=> EnConsola(e)
              /\ e \in quitados' <=> e \in quitados
  BY <1>5 DEF Recolocando, EnConsola
<1>21. ASSUME NEW e \in DOMAIN dtb PROVE UnSitio(e)'
  <2>1. CASE e = d
    <3>1. ~EnMano(d)'
      <4> SUFFICES ASSUME NEW f \in CPUs, planif'[f] = [d |-> d, enMano |-> TRUE] PROVE FALSE
        BY DEF EnMano
      <4>1. planif'[f].d = d /\ planif'[f].enMano
        OBVIOUS
      <4>2. f # c
        BY <1>3, <1>12, <4>1
      <4> QED
        BY <1>0, <1>1, <1>7, <1>12, <4>1, <4>2 DEF Colas
    <3>2. Veces(listaEjecutando', d) = 1
      BY <1>11, <1>14 DEF Si
    <3>3. Sitios(d)' = 1
      BY <1>11, <1>20, <3>1, <3>2 DEF Sitios, Si
    <3> QED
      BY <1>11, <1>20, <2>1, <3>3 DEF UnSitio
  <2>2. CASE e # d
    <3>1. UnSitio(e)
      BY <1>1 DEF Colas
    <3>2. Veces(listaEjecutando', e) = Veces(listaEjecutando, e)
      <4>1. Veces(listaEjecutando, e) \in Nat
        BY <1>1, Cuentas
      <4> QED
        BY <1>14, <2>2, <4>1 DEF Si
    <3> QED
      BY <1>12, <1>20, <2>2, <3>1, <3>2, UnSitioAjeno
  <2> QED
    BY <2>1, <2>2
<1>22. \A f, g \in CPUs : planif'[f].d = planif'[g].d /\ planif'[f].d # Nadie => f = g
  BY <1>0, <1>1, <1>3, <1>12 DEF Colas
<1>23. ASSUME NEW f \in CPUs PROVE Vigente(f)' /\ ExitPrimero(f)'
  <2>0. Vigente(f) /\ ExitPrimero(f)
    BY <1>1 DEF Colas
  <2>1. CASE f = c
    <3>1. Veces(listaEjecutando', d) > 0
      BY <1>11, <1>14 DEF Si
    <3> QED
      BY <1>0, <1>3, <1>5, <1>12, <2>0, <2>1, <3>1 DEF Vigente, ExitPrimero
  <2>2. CASE f # c
    <3>1. \A e : Veces(listaEjecutando, e) > 0 => Veces(listaEjecutando', e) > 0
      <4>1. \A e : Veces(listaEjecutando, e) \in Nat
        BY <1>1, Cuentas
      <4> QED
        BY <1>14, <4>1 DEF Si
    <3> QED
      BY <1>5, <1>12, <2>0, <2>2, <3>1 DEF Vigente, ExitPrimero
  <2> QED
    BY <2>1, <2>2
<1>24. DOMAIN dtb' = DOMAIN dtb
  BY <1>6 DEF MismosDTB
<1>25. Colas'
  BY <1>21, <1>22, <1>23, <1>24 DEF Colas
<1> QED
  BY <1>17, <1>18, <1>19, <1>25 DEF IInv

LEMMA AdmitirPreserva ==
  ASSUME IInv, Admitir
  PROVE  IInv'
<1>1. Forma /\ Lugares /\ Colas /\ \A f \in CPUs : Turno(f) /\ Fiel(f)
  BY DEF IInv
<1>2. /\ Len(dtb) \in Nat /\ Len(colaNew) \in Nat \ {0} /\ Len(colaNew) <= Len(dtb)
      /\ DOMAIN dtb = 1..Len(dtb) /\ DOMAIN colaNew = 1..Len(colaNew) /\ colaNew \in Seq(Nat)
      /\ colaNew # <<>> /\ enNew = Len(colaNew)
  <2>1. enNew > 0 /\ enNew = Len(colaNew) /\ colaNew \in Seq(Nat)
    BY <1>1 DEF Admitir, Forma
  <2> QED
    BY <1>1, <2>1, LosGDT, EmptySeq
<1>3. PICK d : d = Head(colaNew)
  OBVIOUS
<1>4. /\ UNCHANGED <<colaBloqueados, listaEjecutando, colaFinalizados, puedeEntrar>>
      /\ UNCHANGED <<consola, planif, manejador, aSafa, aCpu, deDam, cpu, quitados>>
      /\ enNew' = enNew - 1 /\ colaNew' = Tail(colaNew)
      /\ dtb' = [dtb EXCEPT ![d].status = "READY"]
      /\ colaReady' = Append(colaReady, d) /\ enReady' = enReady + 1
      /\ plp /\ plp' = FALSE
  BY <1>3 DEF Admitir, AReady, red
<1>5. MismosDTB
  <2>1. "READY" \in Estados
    BY DEF Estados
  <2> QED
    BY <1>1, <1>4, <2>1, EscribirEstado
<1>6. Len(dtb') = Len(dtb) /\ DOMAIN dtb' = DOMAIN dtb
  BY <1>5 DEF MismosDTB
<1>7. /\ colaNew' \in Seq(Nat) /\ Len(colaNew') = Len(colaNew) - 1
      /\ \A i \in 1..Len(colaNew') : colaNew'[i] = colaNew[i + 1]
      /\ d = colaNew[1]
  BY <1>2, <1>3, <1>4, HeadTailProperties
<1>8. \A i \in DOMAIN colaNew : colaNew[i] = Len(dtb) - Len(colaNew) + i
  BY <1>1 DEF Forma
<1>9. d = Len(dtb) - Len(colaNew) + 1 /\ d \in DOMAIN dtb /\ d \in Nat
  BY <1>2, <1>7, <1>8
<1>10. Admitidos' = 1..(Len(dtb) - Len(colaNew) + 1)
  BY <1>2, <1>6, <1>7 DEF Admitidos
<1>11. Admitidos' = Admitidos \cup {d} /\ d \notin Admitidos
  BY <1>2, <1>9, <1>10 DEF Admitidos
<1>12. Admitidos \subseteq Admitidos' /\ Quienes \subseteq Quienes'
  BY <1>11 DEF Quienes
<1>13. /\ colaReady \in Seq(Admitidos) /\ colaBloqueados \in Seq(Admitidos)
       /\ listaEjecutando \in Seq(Admitidos) /\ colaFinalizados \in Seq(Admitidos)
  BY <1>1 DEF Forma
<1>14. PICK A : A = Admitidos'
  OBVIOUS
<1>15. Admitidos \subseteq A /\ d \in A
  BY <1>11, <1>14
<1>16. /\ colaReady \in Seq(A) /\ colaBloqueados \in Seq(A)
       /\ listaEjecutando \in Seq(A) /\ colaFinalizados \in Seq(A)
  BY <1>13, <1>15, SeqMayor
<1>17. colaReady' \in Seq(A) /\ \A e : Veces(colaReady', e) = Veces(colaReady, e) + Si(d = e)
  BY <1>4, <1>15, <1>16, AppendProperties, VecesAgregada
<1>18. \A e : Veces(colaNew', e) = Veces(colaNew, e) - Si(d = e)
  <2>1. colaNew \in Seq(Nat) /\ colaNew # <<>>
    BY <1>2, <1>3
  <2>2. colaNew' = Tail(colaNew) /\ d = Head(colaNew)
    BY <1>3, <1>4
  <2>3. \A e : Veces(Tail(colaNew), e) = Veces(colaNew, e) - Si(Head(colaNew) = e)
    BY <2>1, VecesResto, Zenon
  <2> QED
    BY <2>2, <2>3, Zenon
<1>19. Forma'
  <2>1. \A i \in DOMAIN colaNew' : colaNew'[i] = Len(dtb') - Len(colaNew') + i
    <3> SUFFICES ASSUME NEW i \in DOMAIN colaNew' PROVE colaNew'[i] = Len(dtb') - Len(colaNew') + i
      OBVIOUS
    <3>1. DOMAIN colaNew' = 1..Len(colaNew') /\ i \in Nat
      BY <1>7, LenProperties
    <3>2. i \in 1..Len(colaNew') /\ i + 1 \in DOMAIN colaNew
      BY <1>2, <1>7, <3>1
    <3> QED
      BY <1>2, <1>6, <1>7, <1>8, <3>1, <3>2
  <2>2. Len(colaNew') <= Len(dtb') /\ enNew' = Len(colaNew') /\ enReady' \in Nat /\ plp' \in BOOLEAN
    <3>1. enReady \in Nat
      BY <1>1 DEF Forma
    <3>2. Len(colaNew') <= Len(dtb') /\ enNew' = Len(colaNew')
      BY <1>2, <1>4, <1>6, <1>7
    <3>3. enReady' \in Nat
      BY <1>4, <3>1
    <3>4. plp' \in BOOLEAN
      BY <1>4
    <3> QED
      BY <3>2, <3>3, <3>4
  <2>3. EsSeq(dtb') /\ \A e \in DOMAIN dtb' : DOMAIN dtb'[e] = CamposDTB /\ dtb'[e].status \in Estados
    BY <1>5 DEF MismosDTB
  <2>4. planif' \in [CPUs -> [d : Quienes', enMano : BOOLEAN]]
    BY <1>1, <1>4, <1>12 DEF Forma
  <2>5. (consola'.paso = "encolar" => consola'.d \in Admitidos') /\ quitados' \subseteq Admitidos'
    BY <1>1, <1>4, <1>12 DEF Forma
  <2>6. /\ colaReady' \in Seq(Admitidos') /\ colaBloqueados' \in Seq(Admitidos')
        /\ listaEjecutando' \in Seq(Admitidos') /\ colaFinalizados' \in Seq(Admitidos')
    BY <1>4, <1>14, <1>16, <1>17
  <2> QED
    BY <1>1, <1>4, <1>7, <2>1, <2>2, <2>3, <2>4, <2>5, <2>6 DEF Forma
<1>20. Lugares'
  <2>1. puedeEntrar \in Nat /\ Si(plp) = 1 /\ Si(plp') = 0
    BY <1>1, <1>4 DEF Forma, Si
  <2>2. puedeEntrar + 1 + (Len(dtb) - Len(colaNew)) = Grado + Len(colaFinalizados)
    BY <1>1, <2>1 DEF Lugares
  <2>3. puedeEntrar + 0 + (Len(dtb) - (Len(colaNew) - 1)) = Grado + Len(colaFinalizados)
    BY <1>2, <2>1, <2>2
  <2>4. /\ puedeEntrar' = puedeEntrar /\ Len(dtb') = Len(dtb) /\ Len(colaNew') = Len(colaNew) - 1
        /\ Len(colaFinalizados') = Len(colaFinalizados)
    BY <1>4, <1>6, <1>7
  <2> QED
    BY <2>1, <2>3, <2>4 DEF Lugares
<1>21. \A e : /\ Veces(colaBloqueados', e) = Veces(colaBloqueados, e)
              /\ Veces(listaEjecutando', e) = Veces(listaEjecutando, e)
              /\ Veces(colaFinalizados', e) = Veces(colaFinalizados, e)
              /\ EnMano(e)' <=> EnMano(e)
              /\ Recolocando(e)' <=> Recolocando(e)
              /\ EnConsola(e)' <=> EnConsola(e)
              /\ Silenciado(e)' <=> Silenciado(e)
              /\ e \in quitados' <=> e \in quitados
  BY <1>4 DEF EnMano, Recolocando, EnConsola, Silenciado
<1>22. ASSUME NEW e \in DOMAIN dtb PROVE UnSitio(e)'
  <2>0. UnSitio(e)
    BY <1>1 DEF Colas
  <2>1. CASE e = d
    <3>1. /\ Veces(colaReady, d) = 0 /\ Veces(colaBloqueados, d) = 0 /\ Veces(listaEjecutando, d) = 0
          /\ Veces(colaFinalizados, d) = 0
          /\ ~EnMano(d) /\ ~Recolocando(d) /\ ~EnConsola(d) /\ d \notin quitados
      BY <1>9, <1>11, SinAdmitir
    <3>2. Veces(colaNew, d) = 1
      <4>1. Sitios(d) = 1 /\ Veces(colaNew, d) \in Nat
        BY <1>1, <2>0, <2>1, <3>1, Cuentas DEF UnSitio
      <4> QED
        BY <3>1, <4>1 DEF Sitios, Si
    <3>3. Veces(colaNew', d) = 0 /\ Veces(colaReady', d) = 1
      BY <1>17, <1>18, <3>1, <3>2 DEF Si
    <3>4. Sitios(d)' = 1
      BY <1>21, <3>1, <3>3 DEF Sitios, Si
    <3> QED
      BY <1>21, <2>1, <3>1, <3>4 DEF UnSitio
  <2>2. CASE e # d
    <3>1. Veces(colaNew', e) = Veces(colaNew, e) /\ Veces(colaReady', e) = Veces(colaReady, e)
      <4>1. Veces(colaNew, e) \in Nat /\ Veces(colaReady, e) \in Nat
        BY <1>1, Cuentas
      <4> QED
        BY <1>17, <1>18, <2>2, <4>1 DEF Si
    <3> QED
      BY <1>21, <2>0, <3>1, UnSitioAjeno
  <2> QED
    BY <2>1, <2>2
<1>23. \A f \in CPUs : Vigente(f)' /\ ExitPrimero(f)'
  BY <1>1, <1>4 DEF Colas, Vigente, ExitPrimero
<1>24. Colas'
  BY <1>1, <1>4, <1>6, <1>22, <1>23 DEF Colas
<1> QED
  BY <1>4, <1>19, <1>20, <1>24, TurnosIguales DEF IInv

(* The console holds what it takes out of a queue. *)
LEMMA QuitarPreserva ==
  ASSUME IInv, Quitar, consola'.paso = "encolar"
  PROVE  IInv'
<1>1. Forma /\ Lugares /\ Colas /\ \A f \in CPUs : Turno(f) /\ Fiel(f)
  BY DEF IInv
<1>2. PICK d : d = consola.d
  OBVIOUS
<1>3. PICK E, R, B : /\ E = Contains(listaEjecutando, d)
                     /\ R = (~E /\ Contains(colaReady, d))
                     /\ B = (~E /\ ~R /\ Contains(colaBloqueados, d))
  OBVIOUS
<1>4. /\ listaEjecutando' = Sin(listaEjecutando, d)
      /\ colaReady' = (IF R THEN Sin(colaReady, d) ELSE colaReady)
      /\ colaBloqueados' = (IF B THEN Sin(colaBloqueados, d) ELSE colaBloqueados)
      /\ quitados' = (IF E THEN quitados \cup {d} ELSE quitados)
      /\ IF E \/ R \/ B THEN consola' = [consola EXCEPT !.paso = "encolar"] ELSE Volver
      /\ consola.paso = "quitar"
  BY <1>2, <1>3 DEF Quitar
<1>5. /\ UNCHANGED <<colaNew, colaFinalizados, puedeEntrar, enNew, enReady, dtb>>
      /\ UNCHANGED <<plp, planif, manejador, aSafa, aCpu, deDam, cpu>>
  BY DEF Quitar, red
<1>6. DOMAIN consola = CamposConsola
  BY <1>1 DEF Forma
<1>7. E \/ R \/ B
  <2>1. Volver => consola'.paso = "leer"
    BY <1>6 DEF Volver, CamposConsola
  <2> QED
    BY <1>4, <2>1
<1>8. consola'.paso = "encolar" /\ consola'.d = d /\ DOMAIN consola' = CamposConsola
  BY <1>2, <1>4, <1>6, <1>7 DEF CamposConsola
<1>9. /\ colaReady \in Seq(Admitidos) /\ colaBloqueados \in Seq(Admitidos) /\ listaEjecutando \in Seq(Admitidos)
  BY <1>1 DEF Forma
<1>10. /\ Veces(colaNew, d) \in Nat /\ Veces(colaReady, d) \in Nat /\ Veces(colaBloqueados, d) \in Nat
       /\ Veces(listaEjecutando, d) \in Nat /\ Veces(colaFinalizados, d) \in Nat
       /\ Si(EnMano(d)) \in {0, 1} /\ Si(Recolocando(d)) \in {0, 1} /\ Si(EnConsola(d)) \in {0, 1}
       /\ (Contains(colaReady, d) <=> Veces(colaReady, d) > 0)
       /\ (Contains(colaBloqueados, d) <=> Veces(colaBloqueados, d) > 0)
       /\ (Contains(listaEjecutando, d) <=> Veces(listaEjecutando, d) > 0)
  BY <1>1, Cuentas, SitiosTipo
<1>11. d \in Admitidos /\ d \in DOMAIN dtb /\ d # Nadie
  BY <1>1, <1>3, <1>7, <1>10, Cuentas, LosGDT
<1>12. UnSitio(d)
  BY <1>1, <1>11 DEF Colas
<1>13. Sitios(d) = 1
  <2>1. Sitios(d) <= 1
    BY <1>12 DEF UnSitio
  <2>2. Veces(colaReady, d) > 0 \/ Veces(colaBloqueados, d) > 0 \/ Veces(listaEjecutando, d) > 0
    BY <1>3, <1>7, <1>10
  <2> QED
    BY <1>10, <2>1, <2>2 DEF Sitios
<1>14. \A e : ~EnConsola(e)
  BY <1>4 DEF EnConsola
<1>15. d \notin quitados
  BY <1>12, <1>13, <1>14 DEF UnSitio, Si
<1>16. /\ listaEjecutando' \in Seq(Admitidos) /\ colaReady' \in Seq(Admitidos) /\ colaBloqueados' \in Seq(Admitidos)
       /\ \A e : Veces(listaEjecutando', e) = Veces(listaEjecutando, e) - Si(e = d /\ E)
       /\ \A e : Veces(colaReady', e) = Veces(colaReady, e) - Si(e = d /\ R)
       /\ \A e : Veces(colaBloqueados', e) = Veces(colaBloqueados, e) - Si(e = d /\ B)
  <2>1. /\ Sin(listaEjecutando, d) \in Seq(Admitidos)
        /\ \A e : Veces(Sin(listaEjecutando, d), e) = Veces(listaEjecutando, e) - Si(e = d /\ E)
    BY <1>3, <1>9, SinUno
  <2>2. /\ colaReady' \in Seq(Admitidos)
        /\ \A e : Veces(colaReady', e) = Veces(colaReady, e) - Si(e = d /\ R)
    <3>1. CASE R
      <4>1. Contains(colaReady, d) /\ colaReady' = Sin(colaReady, d)
        BY <1>3, <1>4, <3>1
      <4>2. /\ Sin(colaReady, d) \in Seq(Admitidos)
            /\ \A e : Veces(Sin(colaReady, d), e) = Veces(colaReady, e) - Si(e = d /\ Contains(colaReady, d))
        BY <1>9, SinUno
      <4> QED
        BY <3>1, <4>1, <4>2 DEF Si
    <3>2. CASE ~R
      <4>1. \A e : Veces(colaReady, e) \in Nat
        BY <1>1, Cuentas
      <4> QED
        BY <1>4, <1>9, <3>2, <4>1 DEF Si
    <3> QED
      BY <3>1, <3>2
  <2>3. /\ colaBloqueados' \in Seq(Admitidos)
        /\ \A e : Veces(colaBloqueados', e) = Veces(colaBloqueados, e) - Si(e = d /\ B)
    <3>1. CASE B
      <4>1. Contains(colaBloqueados, d) /\ colaBloqueados' = Sin(colaBloqueados, d)
        BY <1>3, <1>4, <3>1
      <4>2. /\ Sin(colaBloqueados, d) \in Seq(Admitidos)
            /\ \A e : Veces(Sin(colaBloqueados, d), e)
                        = Veces(colaBloqueados, e) - Si(e = d /\ Contains(colaBloqueados, d))
        BY <1>9, SinUno
      <4> QED
        BY <3>1, <4>1, <4>2 DEF Si
    <3>2. CASE ~B
      <4>1. \A e : Veces(colaBloqueados, e) \in Nat
        BY <1>1, Cuentas
      <4> QED
        BY <1>4, <1>9, <3>2, <4>1 DEF Si
    <3> QED
      BY <3>1, <3>2
  <2> QED
    BY <1>4, <2>1, <2>2, <2>3
<1>17. Admitidos' = Admitidos /\ Quienes' = Quienes
  BY <1>5 DEF Admitidos, Quienes
<1>18. Forma'
  <2>1. quitados' \subseteq Admitidos /\ (consola'.paso = "encolar" => consola'.d \in Admitidos)
    BY <1>1, <1>4, <1>8, <1>11 DEF Forma
  <2> QED
    BY <1>1, <1>5, <1>8, <1>16, <1>17, <2>1 DEF Forma
<1>19. Lugares'
  BY <1>1, <1>5 DEF Lugares
<1>20. \A e : /\ Veces(colaNew', e) = Veces(colaNew, e)
              /\ Veces(colaFinalizados', e) = Veces(colaFinalizados, e)
              /\ EnMano(e)' <=> EnMano(e)
              /\ Recolocando(e)' <=> Recolocando(e)
              /\ Silenciado(e)' <=> Silenciado(e)
              /\ EnConsola(e)' <=> e = d
  BY <1>5, <1>8 DEF EnMano, Recolocando, EnConsola, Silenciado
<1>21. ASSUME NEW e \in DOMAIN dtb PROVE UnSitio(e)'
  <2>0. UnSitio(e)
    BY <1>1 DEF Colas
  <2>1. CASE e = d
    <3>1. Si(e = d /\ E) + Si(e = d /\ R) + Si(e = d /\ B) = 1
      <4>1. CASE E
        <5>1. ~R /\ ~B
          BY <1>3, <4>1
        <5> QED
          BY <2>1, <4>1, <5>1 DEF Si
      <4>2. CASE ~E /\ R
        <5>1. ~B
          BY <1>3, <4>2
        <5> QED
          BY <2>1, <4>2, <5>1 DEF Si
      <4>3. CASE ~E /\ ~R /\ B
        BY <2>1, <4>3 DEF Si
      <4> QED
        BY <1>7, <4>1, <4>2, <4>3
    <3>2. Si(EnConsola(d)) = 0 /\ Si(EnConsola(d)') = 1
      BY <1>14, <1>20 DEF Si
    <3>3. Si(EnMano(d)') = Si(EnMano(d)) /\ Si(Recolocando(d)') = Si(Recolocando(d))
      BY <1>20 DEF Si
    <3>4. Sitios(d)' = 1
      <4>1. /\ Si(e = d /\ E) \in {0, 1} /\ Si(e = d /\ R) \in {0, 1} /\ Si(e = d /\ B) \in {0, 1}
            /\ Veces(listaEjecutando', d) = Veces(listaEjecutando, d) - Si(e = d /\ E)
            /\ Veces(colaReady', d) = Veces(colaReady, d) - Si(e = d /\ R)
            /\ Veces(colaBloqueados', d) = Veces(colaBloqueados, d) - Si(e = d /\ B)
            /\ Veces(colaNew', d) = Veces(colaNew, d)
        BY <1>16, <1>20, <2>1 DEF Si
      <4>2. Sitios(d)' = Veces(colaNew', d) + Veces(colaReady', d) + Veces(colaBloqueados', d)
                           + Veces(listaEjecutando', d) + Si(EnMano(d)') + Si(Recolocando(d)') + Si(EnConsola(d)')
        BY DEF Sitios, Si
      <4>3. Sitios(d) = Veces(colaNew, d) + Veces(colaReady, d) + Veces(colaBloqueados, d)
                          + Veces(listaEjecutando, d) + Si(EnMano(d)) + Si(Recolocando(d)) + Si(EnConsola(d))
        BY DEF Sitios
      <4> QED
        BY <1>10, <1>13, <3>1, <3>2, <3>3, <4>1, <4>2, <4>3
    <3>5. Veces(colaFinalizados, d) > 0 => E
      BY <1>3, <1>10, <1>12, <1>13, <1>14 DEF UnSitio
    <3>6. Veces(colaFinalizados, d) > 0 => d \in quitados'
      BY <1>4, <3>5
    <3>7. EnConsola(d)' /\ Veces(colaFinalizados', d) = Veces(colaFinalizados, d)
      BY <1>20
    <3>8. /\ Veces(colaFinalizados', d) > 1 => d \in quitados'
          /\ Veces(colaFinalizados', d) > 0 => d \in quitados'
      BY <1>10, <3>6, <3>7
    <3>9. UnSitio(d)'
      BY <3>4, <3>7, <3>8 DEF UnSitio, Si
    <3> QED
      BY <2>1, <3>9
  <2>2. CASE e # d
    <3>1. /\ Veces(listaEjecutando', e) = Veces(listaEjecutando, e)
          /\ Veces(colaReady', e) = Veces(colaReady, e)
          /\ Veces(colaBloqueados', e) = Veces(colaBloqueados, e)
      <4>1. Veces(listaEjecutando, e) \in Nat /\ Veces(colaReady, e) \in Nat /\ Veces(colaBloqueados, e) \in Nat
        BY <1>1, Cuentas
      <4> QED
        BY <1>16, <2>2, <4>1 DEF Si
    <3>2. (EnConsola(e)' <=> EnConsola(e)) /\ (e \in quitados' <=> e \in quitados)
      BY <1>4, <1>14, <1>20, <2>2
    <3> QED
      BY <1>20, <2>0, <3>1, <3>2, UnSitioAjeno
  <2> QED
    BY <2>1, <2>2
<1>22. ASSUME NEW f \in CPUs PROVE Vigente(f)' /\ ExitPrimero(f)'
  <2>0. Vigente(f) /\ ExitPrimero(f) /\ quitados \subseteq quitados'
    BY <1>1, <1>4 DEF Colas
  <2>1. ExitPrimero(f)'
    BY <1>5, <2>0 DEF ExitPrimero
  <2>2. Vigente(f)'
    <3>1. CASE planif[f].d = d
      <4> SUFFICES ASSUME d \notin quitados' PROVE planif[f].enMano \/ Veces(listaEjecutando', d) > 0
                                                     \/ manejador[f].paso = "recolocar"
        BY <1>5, <3>1 DEF Vigente
      <4>1. ~E
        BY <1>4
      <4>2. Veces(listaEjecutando', d) = Veces(listaEjecutando, d)
        BY <1>10, <1>16, <4>1 DEF Si
      <4> QED
        BY <1>11, <1>15, <2>0, <3>1, <4>2 DEF Vigente
    <3>2. CASE planif[f].d # d
      <4>1. Veces(listaEjecutando', planif[f].d) = Veces(listaEjecutando, planif[f].d)
        <5>1. Veces(listaEjecutando, planif[f].d) \in Nat
          BY <1>1, Cuentas
        <5> QED
          BY <1>16, <3>2, <5>1 DEF Si
      <4> QED
        BY <1>5, <2>0, <4>1 DEF Vigente
    <3> QED
      BY <3>1, <3>2
  <2> QED
    BY <2>1, <2>2
<1>23. Colas'
  BY <1>1, <1>5, <1>21, <1>22 DEF Colas
<1> QED
  BY <1>5, <1>18, <1>19, <1>23, TurnosIguales DEF IInv

(* FinalizarDTB gives back the place that it counts. *)
LEMMA FinalizarCuenta ==
  ASSUME Forma, Lugares, NEW d \in Admitidos, FinalizarDTB(d), UNCHANGED <<colaNew, plp>>
  PROVE  /\ MismosDTB /\ Lugares' /\ puedeEntrar' \in Nat
         /\ colaFinalizados' \in Seq(Admitidos)
         /\ \A e : Veces(colaFinalizados', e) = Veces(colaFinalizados, e) + Si(d = e)
<1>1. /\ dtb' = [dtb EXCEPT ![d].status = "FINISHED"]
      /\ colaFinalizados' = Append(colaFinalizados, d)
      /\ puedeEntrar' = puedeEntrar + 1
  BY DEF FinalizarDTB
<1>2. MismosDTB
  <2>1. "FINISHED" \in Estados
    BY DEF Estados
  <2> QED
    BY <1>1, <2>1, EscribirEstado
<1>3. colaFinalizados \in Seq(Admitidos) /\ puedeEntrar \in Nat
  BY DEF Forma
<1>4. /\ colaFinalizados' \in Seq(Admitidos) /\ Len(colaFinalizados') = Len(colaFinalizados) + 1
      /\ Len(colaFinalizados) \in Nat
      /\ \A e : Veces(colaFinalizados', e) = Veces(colaFinalizados, e) + Si(d = e)
  BY <1>1, <1>3, AppendProperties, LenProperties, VecesAgregada
<1>5. Lugares'
  <2>1. Len(dtb) \in Nat /\ Len(colaNew) \in Nat /\ Si(plp) \in Nat /\ Grado \in Nat
    BY LosGDT, SAFAAssumption DEF Si
  <2>2. puedeEntrar + Si(plp) + (Len(dtb) - Len(colaNew)) = Grado + Len(colaFinalizados)
    BY DEF Lugares
  <2>3. (puedeEntrar + 1) + Si(plp) + (Len(dtb) - Len(colaNew)) = Grado + (Len(colaFinalizados) + 1)
    BY <1>3, <1>4, <2>1, <2>2
  <2>4. Len(dtb') = Len(dtb) /\ Len(colaNew') = Len(colaNew) /\ Si(plp') = Si(plp)
    BY <1>2 DEF MismosDTB
  <2> QED
    BY <1>1, <1>4, <2>3, <2>4 DEF Lugares
<1> QED
  BY <1>1, <1>2, <1>3, <1>4, <1>5

LEMMA EncolarPreserva ==
  ASSUME IInv, Encolar
  PROVE  IInv'
<1>1. Forma /\ Lugares /\ Colas /\ \A f \in CPUs : Turno(f) /\ Fiel(f)
  BY DEF IInv
<1>2. PICK d : d = consola.d
  OBVIOUS
<1>3. /\ UNCHANGED <<colaNew, colaReady, colaBloqueados, listaEjecutando, enNew, enReady>>
      /\ UNCHANGED <<plp, planif, manejador, aSafa, aCpu, deDam, cpu, quitados>>
      /\ FinalizarDTB(d) /\ Volver /\ consola.paso = "encolar"
  BY <1>2 DEF Encolar, red
<1>4. d \in Admitidos /\ d \in DOMAIN dtb /\ DOMAIN consola = CamposConsola
  BY <1>1, <1>2, <1>3, LosGDT DEF Forma
<1>5. /\ MismosDTB /\ Lugares' /\ puedeEntrar' \in Nat
      /\ colaFinalizados' \in Seq(Admitidos)
      /\ \A e : Veces(colaFinalizados', e) = Veces(colaFinalizados, e) + Si(d = e)
  BY <1>1, <1>3, <1>4, FinalizarCuenta
<1>6. consola'.paso = "leer" /\ DOMAIN consola' = CamposConsola
  BY <1>3, <1>4 DEF Volver, CamposConsola
<1>7. EnConsola(d) /\ \A e : (EnConsola(e) <=> e = d) /\ ~EnConsola(e)'
  BY <1>2, <1>3, <1>6 DEF EnConsola
<1>8. UnSitio(d)
  BY <1>1, <1>4 DEF Colas
<1>9. /\ Veces(colaNew, d) = 0 /\ Veces(colaReady, d) = 0 /\ Veces(colaBloqueados, d) = 0
      /\ Veces(listaEjecutando, d) = 0 /\ ~EnMano(d) /\ ~Recolocando(d)
      /\ Veces(colaFinalizados, d) \in Nat
  <2>1. /\ Veces(colaNew, d) \in Nat /\ Veces(colaReady, d) \in Nat /\ Veces(colaBloqueados, d) \in Nat
        /\ Veces(listaEjecutando, d) \in Nat /\ Veces(colaFinalizados, d) \in Nat
        /\ Si(Recolocando(d)) \in {0, 1} /\ Si(EnMano(d)) \in {0, 1} /\ Si(EnConsola(d)) = 1
    BY <1>1, <1>7, Cuentas, SitiosTipo DEF Si
  <2>2. Sitios(d) <= 1
    BY <1>8 DEF UnSitio
  <2>3. /\ Veces(colaNew, d) = 0 /\ Veces(colaReady, d) = 0 /\ Veces(colaBloqueados, d) = 0
        /\ Veces(listaEjecutando, d) = 0 /\ Si(Recolocando(d)) = 0 /\ Si(EnMano(d)) = 0
    BY <2>1, <2>2 DEF Sitios
  <2> QED
    BY <2>1, <2>3 DEF Si
<1>10. Admitidos' = Admitidos /\ Quienes' = Quienes
  BY <1>3, <1>5 DEF Admitidos, Quienes, MismosDTB
<1>11. Forma'
  <2>1. /\ EsSeq(dtb') /\ Len(dtb') = Len(dtb)
        /\ \A e \in DOMAIN dtb' : DOMAIN dtb'[e] = CamposDTB /\ dtb'[e].status \in Estados
    BY <1>5 DEF MismosDTB
  <2> QED
    BY <1>1, <1>3, <1>5, <1>6, <1>10, <2>1 DEF Forma
<1>12. \A e : /\ Veces(colaNew', e) = Veces(colaNew, e)
              /\ Veces(colaReady', e) = Veces(colaReady, e)
              /\ Veces(colaBloqueados', e) = Veces(colaBloqueados, e)
              /\ Veces(listaEjecutando', e) = Veces(listaEjecutando, e)
              /\ EnMano(e)' <=> EnMano(e)
              /\ Recolocando(e)' <=> Recolocando(e)
              /\ Silenciado(e)' <=> Silenciado(e)
              /\ e \in quitados' <=> e \in quitados
  BY <1>3 DEF EnMano, Recolocando, Silenciado
<1>13. ASSUME NEW e \in DOMAIN dtb PROVE UnSitio(e)'
  <2>0. UnSitio(e)
    BY <1>1 DEF Colas
  <2>1. CASE e = d
    <3>1. Sitios(d)' = 0
      BY <1>7, <1>9, <1>12 DEF Sitios, Si
    <3>2. Veces(colaFinalizados', d) = Veces(colaFinalizados, d) + 1
      BY <1>5 DEF Si
    <3>3. Veces(colaFinalizados', d) > 1 => d \in quitados'
      <4>1. Veces(colaFinalizados, d) > 0 => d \in quitados
        BY <1>7, <1>8 DEF UnSitio
      <4> QED
        BY <1>9, <1>12, <3>2, <4>1
    <3>4. ~EnConsola(d)' /\ Veces(colaFinalizados', d) # 0
      BY <1>7, <1>9, <3>2
    <3>5. UnSitio(d)'
      BY <3>1, <3>3, <3>4 DEF UnSitio, Si
    <3> QED
      BY <2>1, <3>5
  <2>2. CASE e # d
    <3>1. Veces(colaFinalizados', e) = Veces(colaFinalizados, e)
      <4>1. Veces(colaFinalizados, e) \in Nat
        BY <1>1, Cuentas
      <4> QED
        BY <1>5, <2>2, <4>1 DEF Si
    <3>2. EnConsola(e)' <=> EnConsola(e)
      BY <1>7, <2>2
    <3> QED
      BY <1>12, <2>0, <3>1, <3>2, UnSitioAjeno
  <2> QED
    BY <2>1, <2>2
<1>14. ASSUME NEW f \in CPUs PROVE Vigente(f)' /\ ExitPrimero(f)'
  <2>0. Vigente(f) /\ ExitPrimero(f)
    BY <1>1 DEF Colas
  <2>1. Vigente(f)'
    BY <1>3, <2>0 DEF Vigente
  <2>2. CASE planif[f].d = d
    <3> SUFFICES ASSUME Con(aSafa[f], {"exit"}) > 0, d \notin quitados PROVE FALSE
      BY <1>3, <2>1, <2>2 DEF ExitPrimero
    <3>1. Con(aSafa[f], {"exit"}) <= Si(cpu[f].muda) /\ Con(aSafa[f], {"exit"}) \in Nat
      BY <1>1, ConTipo DEF Fiel, Forma
    <3>2. cpu[f].muda
      BY <3>1 DEF Si
    <3>3. ~planif[f].enMano /\ d # Nadie /\ manejador[f].paso # "recolocar"
      BY <2>2, <3>2, TurnoMudo
    <3>4. Veces(listaEjecutando, d) > 0
      BY <2>2, <3>3, EnTurnoCorre
    <3> QED
      BY <1>9, <3>4
  <2>3. CASE planif[f].d # d
    <3>1. Veces(colaFinalizados', planif[f].d) = Veces(colaFinalizados, planif[f].d)
      <4>1. Veces(colaFinalizados, planif[f].d) \in Nat
        BY <1>1, Cuentas
      <4> QED
        BY <1>5, <2>3, <4>1 DEF Si
    <3> QED
      BY <1>3, <2>0, <2>1, <3>1 DEF ExitPrimero
  <2> QED
    BY <2>2, <2>3
<1>15. DOMAIN dtb' = DOMAIN dtb
  BY <1>5 DEF MismosDTB
<1>16. Colas'
  BY <1>1, <1>3, <1>13, <1>14, <1>15 DEF Colas
<1> QED
  BY <1>3, <1>5, <1>11, <1>16, TurnosIguales DEF IInv

(* What is at the head of a connection is about the GDT of its planner. *)
LEMMA LaCabeza ==
  ASSUME IInv, NEW c \in CPUs, aSafa[c] # <<>>, Head(aSafa[c]).que \in Reportes \cup {"exit"}, Leido(c)
  PROVE  /\ Head(aSafa[c]).d = planif[c].d
         /\ DOMAIN aSafa' = CPUs /\ \A f \in CPUs \ {c} : aSafa'[f] = aSafa[f]
         /\ EsSeq(aSafa'[c]) /\ Dice(aSafa'[c], Reportes \cup {"exit"}, planif[c].d)
         /\ Con(aSafa'[c], Reportes) = Con(aSafa[c], Reportes) - Si(Head(aSafa[c]).que \in Reportes)
         /\ Con(aSafa'[c], {"exit"}) = Con(aSafa[c], {"exit"}) - Si(Head(aSafa[c]).que = "exit")
<1>1. Forma /\ Fiel(c)
  BY DEF IInv
<1>2. EsSeq(aSafa[c]) /\ DOMAIN aSafa = CPUs
  BY <1>1 DEF Forma
<1>3. DOMAIN aSafa' = CPUs /\ aSafa'[c] = Tail(aSafa[c]) /\ \A f \in CPUs \ {c} : aSafa'[f] = aSafa[f]
  BY <1>2 DEF Leido
<1>4. Dice(aSafa[c], Reportes \cup {"exit"}, planif[c].d)
  BY <1>1 DEF Fiel
<1>5. /\ EsSeq(Tail(aSafa[c])) /\ Dice(Tail(aSafa[c]), Reportes \cup {"exit"}, planif[c].d)
      /\ Head(aSafa[c]).d = planif[c].d
      /\ Con(Tail(aSafa[c]), Reportes) = Con(aSafa[c], Reportes) - Si(Head(aSafa[c]).que \in Reportes)
      /\ Con(Tail(aSafa[c]), {"exit"}) = Con(aSafa[c], {"exit"}) - Si(Head(aSafa[c]).que \in {"exit"})
  BY <1>2, <1>4, EsSeqResto, DiceResto, ConResto
<1>6. Si(Head(aSafa[c]).que \in {"exit"}) = Si(Head(aSafa[c]).que = "exit")
  BY DEF Si
<1> QED
  BY <1>3, <1>5, <1>6

LEMMA AtenderExitPreserva ==
  ASSUME IInv, NEW c \in CPUs, AtenderExit(c)
  PROVE  IInv'
<1>1. Forma /\ Lugares /\ Colas /\ \A f \in CPUs : Turno(f) /\ Fiel(f)
  BY DEF IInv
<1>2. PICK d : d = planif[c].d
  OBVIOUS
<1>3. /\ UNCHANGED <<colaNew, colaReady, colaBloqueados, listaEjecutando, enNew, enReady>>
      /\ UNCHANGED <<plp, consola, planif, manejador, aCpu, deDam, cpu, quitados>>
      /\ aSafa[c] # <<>> /\ Head(aSafa[c]).que = "exit" /\ Leido(c)
      /\ PasarAExit(Head(aSafa[c]).d)
  BY DEF AtenderExit, Llega
<1>4. EsSeq(aSafa[c]) /\ EsSeq(aCpu[c])
  BY <1>1 DEF Forma
<1>5. Con(aSafa[c], {"exit"}) = 1 /\ cpu[c].muda
  <2>1. Con(aSafa[c], {"exit"}) \in Nat \ {0}
    BY <1>3, <1>4, CabezaCuenta
  <2>2. Con(aSafa[c], {"exit"}) <= Si(cpu[c].muda)
    BY <1>1 DEF Fiel
  <2> QED
    BY <2>1, <2>2 DEF Si
<1>6. /\ ~planif[c].enMano /\ Con(aSafa[c], Reportes) = 0 /\ d # Nadie /\ manejador[c].paso # "recolocar"
  BY <1>2, <1>5, TurnoMudo
<1>7. /\ Head(aSafa[c]).d = d
      /\ DOMAIN aSafa' = CPUs /\ \A f \in CPUs \ {c} : aSafa'[f] = aSafa[f]
      /\ EsSeq(aSafa'[c]) /\ Dice(aSafa'[c], Reportes \cup {"exit"}, d)
      /\ Con(aSafa'[c], Reportes) = 0 /\ Con(aSafa'[c], {"exit"}) = 0
  <2>1. Head(aSafa[c]).que \notin Reportes
    BY <1>3 DEF Reportes
  <2>2. Si(Head(aSafa[c]).que \in Reportes) = 0 /\ Si(Head(aSafa[c]).que = "exit") = 1
    BY <1>3, <2>1 DEF Si
  <2>3. Head(aSafa[c]).que \in Reportes \cup {"exit"}
    BY <1>3
  <2> QED
    <3>1. /\ Head(aSafa[c]).d = planif[c].d
          /\ DOMAIN aSafa' = CPUs /\ \A f \in CPUs \ {c} : aSafa'[f] = aSafa[f]
          /\ EsSeq(aSafa'[c]) /\ Dice(aSafa'[c], Reportes \cup {"exit"}, planif[c].d)
          /\ Con(aSafa'[c], Reportes) = Con(aSafa[c], Reportes) - Si(Head(aSafa[c]).que \in Reportes)
          /\ Con(aSafa'[c], {"exit"}) = Con(aSafa[c], {"exit"}) - Si(Head(aSafa[c]).que = "exit")
      BY <1>3, <2>3, LaCabeza
    <3>2. Con(aSafa'[c], Reportes) = 0
      BY <1>6, <2>2, <3>1
    <3>3. Con(aSafa'[c], {"exit"}) = 0
      BY <1>5, <2>2, <3>1
    <3> QED
      BY <1>2, <3>1, <3>2, <3>3
<1>8. EnMano(d) <=> FALSE
  BY <1>2, <1>6, ElSuyo
<1>9. ~Recolocando(d) /\ Silenciado(d) /\ d \in Admitidos /\ d \in DOMAIN dtb
  BY <1>1, <1>2, <1>5, <1>6, ElSuyo, LosGDT
<1>10. /\ MismosDTB /\ Lugares' /\ puedeEntrar' \in Nat
       /\ colaFinalizados' \in Seq(Admitidos)
       /\ \/ \A e : Veces(colaFinalizados', e) = Veces(colaFinalizados, e)
          \/ \A e : Veces(colaFinalizados', e) = Veces(colaFinalizados, e) + Si(d = e)
  <2>1. CASE EnElSistema(d)
    <3>1. FinalizarDTB(d)
      BY <1>3, <1>7, <2>1 DEF PasarAExit
    <3> QED
      BY <1>1, <1>3, <1>9, <3>1, FinalizarCuenta
  <2>2. CASE ~EnElSistema(d)
    <3>1. UNCHANGED <<dtb, colaFinalizados, puedeEntrar>>
      BY <1>3, <1>7, <2>2 DEF PasarAExit
    <3>2. MismosDTB
      BY <1>1, <3>1, DejarDTB
    <3>3. Lugares'
      BY <1>1, <1>3, <3>1 DEF Lugares
    <3> QED
      BY <1>1, <3>1, <3>2, <3>3 DEF Forma
  <2> QED
    BY <2>1, <2>2
<1>11. Admitidos' = Admitidos /\ Quienes' = Quienes
  BY <1>3, <1>10 DEF Admitidos, Quienes, MismosDTB
<1>12. Forma'
  <2>1. /\ EsSeq(dtb') /\ Len(dtb') = Len(dtb)
        /\ \A e \in DOMAIN dtb' : DOMAIN dtb'[e] = CamposDTB /\ dtb'[e].status \in Estados
    BY <1>10 DEF MismosDTB
  <2>2. \A f \in CPUs : EsSeq(aSafa'[f])
    BY <1>1, <1>7 DEF Forma
  <2> QED
    BY <1>1, <1>3, <1>7, <1>10, <1>11, <2>1, <2>2 DEF Forma
<1>13. ASSUME NEW f \in CPUs PROVE Turno(f)' /\ Fiel(f)'
  <2>1. CASE f = c
    <3>1. Turno(c)'
      BY <1>1, <1>3, <1>6, <1>7 DEF Turno
    <3>2. Fiel(c)'
      <4>1. Con(aSafa'[c], {"exit"}) <= Si(cpu[c].muda)
        BY <1>7 DEF Si
      <4> QED
        BY <1>1, <1>2, <1>3, <1>6, <1>7, <4>1 DEF Fiel
    <3> QED
      BY <2>1, <3>1, <3>2
  <2>2. CASE f # c
    BY <1>1, <1>3, <1>7, <2>2 DEF Turno, Fiel
  <2> QED
    BY <2>1, <2>2
<1>14. \A e : /\ Veces(colaNew', e) = Veces(colaNew, e)
              /\ Veces(colaReady', e) = Veces(colaReady, e)
              /\ Veces(colaBloqueados', e) = Veces(colaBloqueados, e)
              /\ Veces(listaEjecutando', e) = Veces(listaEjecutando, e)
              /\ EnMano(e)' <=> EnMano(e)
              /\ Recolocando(e)' <=> Recolocando(e)
              /\ EnConsola(e)' <=> EnConsola(e)
              /\ Silenciado(e)' <=> Silenciado(e)
              /\ e \in quitados' <=> e \in quitados
  BY <1>3 DEF EnMano, Recolocando, Silenciado, EnConsola
<1>15. ASSUME NEW e \in DOMAIN dtb PROVE UnSitio(e)'
  <2>0. UnSitio(e)
    BY <1>1 DEF Colas
  <2>1. CASE Veces(colaFinalizados', e) = Veces(colaFinalizados, e)
    BY <1>14, <2>0, <2>1, UnSitioAjeno
  <2>2. CASE Veces(colaFinalizados', e) # Veces(colaFinalizados, e)
    <3>1. Veces(colaFinalizados, e) \in Nat
      BY <1>1, Cuentas
    <3>2. e = d /\ Veces(colaFinalizados', d) = Veces(colaFinalizados, d) + 1
      BY <1>10, <2>2, <3>1 DEF Si
    <3>3. Sitios(d)' = Sitios(d) /\ Sitios(d) <= 1
      BY <1>14, <2>0, <3>2 DEF Sitios, Si, UnSitio
    <3>4. CASE d \in quitados
      <4>1. Sitios(d) = Si(EnConsola(d))
        BY <2>0, <3>2, <3>4 DEF UnSitio
      <4>2. Sitios(d) = 1 => EnConsola(d)
        BY <4>1 DEF Si
      <4>3. Veces(colaFinalizados', d) # 0
        BY <3>1, <3>2
      <4>4. UnSitio(d)'
        BY <1>14, <3>3, <3>4, <4>1, <4>2, <4>3 DEF UnSitio, Si
      <4> QED
        BY <3>2, <4>4
    <3>5. CASE d \notin quitados
      <4>1. Veces(listaEjecutando, d) > 0
        BY <1>2, <1>6, <3>5, EnTurnoCorre
      <4>2. ExitPrimero(c)
        BY <1>1 DEF Colas
      <4>3. Veces(colaFinalizados, d) = 0
        BY <1>2, <1>5, <3>5, <4>2 DEF ExitPrimero
      <4>4. ~EnConsola(d) /\ Sitios(d) = 1
        <5>1. /\ Veces(listaEjecutando, d) \in Nat /\ Si(EnConsola(d)) \in {0, 1} /\ Sitios(d) \in Nat
              /\ Sitios(d) >= Veces(listaEjecutando, d) + Si(EnConsola(d))
          BY <1>1, Cuentas, SitiosTipo
        <5>2. Si(EnConsola(d)) = 0 /\ Sitios(d) = 1
          BY <3>3, <4>1, <5>1
        <5> QED
          BY <5>2 DEF Si
      <4>5. Veces(colaFinalizados', d) = 1 /\ Veces(listaEjecutando', d) > 0
        BY <1>14, <3>2, <4>1, <4>3
      <4>6. UnSitio(d)'
        BY <1>9, <1>14, <3>3, <3>5, <4>4, <4>5 DEF UnSitio
      <4> QED
        BY <3>2, <4>6
    <3> QED
      BY <3>4, <3>5
  <2> QED
    BY <2>1, <2>2
<1>16. ASSUME NEW f \in CPUs PROVE Vigente(f)' /\ ExitPrimero(f)'
  <2>0. Vigente(f) /\ ExitPrimero(f)
    BY <1>1 DEF Colas
  <2>1. Vigente(f)'
    BY <1>3, <2>0 DEF Vigente
  <2>2. CASE f = c
    BY <1>7, <2>1, <2>2 DEF ExitPrimero
  <2>3. CASE f # c
    <3>1. planif[f].d # d
      BY <1>1, <1>2, <1>6, <2>3 DEF Colas
    <3>2. Veces(colaFinalizados', planif[f].d) = Veces(colaFinalizados, planif[f].d)
      <4>1. Veces(colaFinalizados, planif[f].d) \in Nat
        BY <1>1, Cuentas
      <4> QED
        BY <1>10, <3>1, <4>1 DEF Si
    <3> QED
      BY <1>3, <1>7, <2>0, <2>1, <2>3, <3>2 DEF ExitPrimero
  <2> QED
    BY <2>2, <2>3
<1>17. DOMAIN dtb' = DOMAIN dtb
  BY <1>10 DEF MismosDTB
<1>18. Colas'
  BY <1>1, <1>3, <1>15, <1>16, <1>17 DEF Colas
<1> QED
  BY <1>10, <1>12, <1>13, <1>18 DEF IInv

LEMMA SacarPreserva ==
  ASSUME IInv, NEW c \in CPUs, Sacar(c)
  PROVE  IInv'
<1>1. Forma /\ Lugares /\ Colas /\ \A f \in CPUs : Turno(f) /\ Fiel(f)
  BY DEF IInv
<1>2. PICK d : d = Head(aSafa[c]).d
  OBVIOUS
<1> DEFINE q == [paso |-> "recolocar", r |-> d]
<1>3. /\ UNCHANGED <<colaNew, colaReady, colaBloqueados, colaFinalizados, puedeEntrar, enNew, enReady, dtb>>
      /\ UNCHANGED <<plp, consola, planif, aSafa, aCpu, deDam, cpu, quitados>>
      /\ aSafa[c] # <<>> /\ Head(aSafa[c]).que \in Reportes
      /\ manejador[c].paso = "leer" /\ Contains(listaEjecutando, d)
      /\ listaEjecutando' = Sin(listaEjecutando, d)
      /\ manejador' = [manejador EXCEPT ![c] = q]
  BY <1>2 DEF Sacar, Fin, Llega, Corria, Reportes, red
<1>4. q.paso = "recolocar" /\ q.r = d /\ q = [paso |-> q.paso, r |-> q.r]
  OBVIOUS
<1> HIDE DEF q
<1>5. d = planif[c].d
  <2>1. EsSeq(aSafa[c])
    BY <1>1 DEF Forma
  <2>2. Dice(aSafa[c], Reportes \cup {"exit"}, planif[c].d)
    BY <1>1 DEF Fiel
  <2> QED
    BY <1>2, <1>3, <2>1, <2>2, DiceResto
<1>6. Con(aSafa[c], Reportes) # 0
  BY <1>1, <1>3, CabezaCuenta DEF Forma
<1>7. ~planif[c].enMano /\ d # Nadie /\ ~cpu[c].muda
  BY <1>5, <1>6, TurnoEnReporte
<1>8. Veces(listaEjecutando, d) > 0 /\ listaEjecutando \in Seq(Admitidos)
  BY <1>1, <1>3, Cuentas DEF Forma
<1>9. /\ d \in Admitidos /\ d \notin quitados /\ Veces(colaFinalizados, d) = 0 /\ ~EnConsola(d)
      /\ d \in DOMAIN dtb
  BY <1>1, <1>5, <1>7, <1>8, CorreSinTerminar, LosGDT
<1>10. ~Recolocando(d) /\ ~EnMano(d)
  BY <1>3, <1>5, <1>7, ElSuyo
<1>11. /\ listaEjecutando' \in Seq(Admitidos)
       /\ \A e : Veces(listaEjecutando', e) = Veces(listaEjecutando, e) - Si(e = d /\ Contains(listaEjecutando, d))
  BY <1>3, <1>8, SinUno
<1>12. /\ DOMAIN manejador' = CPUs /\ manejador'[c] = q /\ \A f \in CPUs \ {c} : manejador'[f] = manejador[f]
       /\ \A e : d # e => (Recolocando(e)' <=> Recolocando(e))
  BY <1>1, <1>3, <1>4, OtroManejador
<1>13. Admitidos' = Admitidos /\ Quienes' = Quienes
  BY <1>3 DEF Admitidos, Quienes
<1>14. Forma'
  <2>1. \A f \in CPUs : manejador'[f] = [paso |-> manejador'[f].paso, r |-> manejador'[f].r]
    BY <1>1, <1>4, <1>12 DEF Forma
  <2> QED
    BY <1>1, <1>3, <1>11, <1>12, <1>13, <2>1 DEF Forma
<1>15. ASSUME NEW f \in CPUs PROVE Turno(f)' /\ Fiel(f)'
  <2>1. Turno(f)'
    BY <1>1, <1>3 DEF Turno
  <2>2. CASE f = c
    BY <1>1, <1>3, <1>4, <1>5, <1>12, <2>1, <2>2 DEF Fiel
  <2>3. CASE f # c
    BY <1>1, <1>3, <1>12, <2>1, <2>3 DEF Fiel
  <2> QED
    BY <2>2, <2>3
<1>16. Lugares'
  BY <1>1, <1>3 DEF Lugares
<1>17. \A e : /\ Veces(colaNew', e) = Veces(colaNew, e)
              /\ Veces(colaReady', e) = Veces(colaReady, e)
              /\ Veces(colaBloqueados', e) = Veces(colaBloqueados, e)
              /\ Veces(colaFinalizados', e) = Veces(colaFinalizados, e)
              /\ EnMano(e)' <=> EnMano(e)
              /\ EnConsola(e)' <=> EnConsola(e)
              /\ Silenciado(e)' <=> Silenciado(e)
              /\ e \in quitados' <=> e \in quitados
  BY <1>3 DEF EnMano, EnConsola, Silenciado
<1>18. ASSUME NEW e \in DOMAIN dtb PROVE UnSitio(e)'
  <2>0. UnSitio(e)
    BY <1>1 DEF Colas
  <2>1. CASE e = d
    <3>1. Sitios(d) = 1
      BY <1>9, <2>0, <2>1 DEF UnSitio
    <3>2. Recolocando(d)'
      <4>1. manejador'[c] = [paso |-> "recolocar", r |-> d]
        BY <1>4, <1>12
      <4> QED
        BY <4>1 DEF Recolocando
    <3>3. Veces(listaEjecutando', d) = Veces(listaEjecutando, d) - 1
      BY <1>3, <1>11 DEF Si
    <3>4. Sitios(d)' = 1
      <4>1. /\ Veces(colaNew, d) \in Nat /\ Veces(colaReady, d) \in Nat /\ Veces(colaBloqueados, d) \in Nat
            /\ Veces(listaEjecutando, d) \in Nat
        BY <1>1, Cuentas
      <4>2. Veces(colaNew, d) + Veces(colaReady, d) + Veces(colaBloqueados, d) + Veces(listaEjecutando, d) = 1
        BY <1>9, <1>10, <3>1, <4>1 DEF Sitios, Si
      <4>3. Sitios(d)' = Veces(colaNew, d) + Veces(colaReady, d) + Veces(colaBloqueados, d)
                           + (Veces(listaEjecutando, d) - 1) + 0 + 1 + 0
        BY <1>9, <1>10, <1>17, <3>2, <3>3 DEF Sitios, Si
      <4> QED
        BY <4>1, <4>2, <4>3
    <3>5. UnSitio(d)'
      BY <1>9, <1>17, <3>4 DEF UnSitio
    <3> QED
      BY <2>1, <3>5
  <2>2. CASE e # d
    <3>1. Veces(listaEjecutando', e) = Veces(listaEjecutando, e)
      <4>1. Veces(listaEjecutando, e) \in Nat
        BY <1>1, Cuentas
      <4> QED
        BY <1>11, <2>2, <4>1 DEF Si
    <3> QED
      BY <1>12, <1>17, <2>0, <2>2, <3>1, UnSitioAjeno
  <2> QED
    BY <2>1, <2>2
<1>19. ASSUME NEW f \in CPUs PROVE Vigente(f)' /\ ExitPrimero(f)'
  <2>0. Vigente(f) /\ ExitPrimero(f)
    BY <1>1 DEF Colas
  <2>1. ExitPrimero(f)'
    BY <1>3, <2>0 DEF ExitPrimero
  <2>2. CASE f = c
    BY <1>4, <1>12, <2>1, <2>2 DEF Vigente
  <2>3. CASE f # c
    <3>1. planif[f].d # d
      BY <1>1, <1>5, <1>7, <2>3 DEF Colas
    <3>2. Veces(listaEjecutando', planif[f].d) = Veces(listaEjecutando, planif[f].d)
      <4>1. Veces(listaEjecutando, planif[f].d) \in Nat
        BY <1>1, Cuentas
      <4> QED
        BY <1>11, <3>1, <4>1 DEF Si
    <3> QED
      BY <1>3, <1>12, <2>0, <2>1, <2>3, <3>2 DEF Vigente
  <2> QED
    BY <2>2, <2>3
<1>20. Colas'
  BY <1>1, <1>3, <1>18, <1>19 DEF Colas
<1> QED
  BY <1>14, <1>15, <1>16, <1>20 DEF IInv

(* The report ends the turn. *)
LEMMA TurnoTermina ==
  ASSUME IInv, NEW c \in CPUs, aSafa[c] # <<>>, Head(aSafa[c]).que \in Reportes, Leido(c), Desocupar(c),
         UNCHANGED <<aCpu, cpu>>, manejador'[c].paso # "recolocar",
         \A f \in CPUs \ {c} : manejador'[f] = manejador[f]
  PROVE  /\ \A f \in CPUs : Turno(f)' /\ Fiel(f)' /\ EsSeq(aSafa'[f])
         /\ DOMAIN aSafa' = CPUs /\ Con(aSafa'[c], {"exit"}) = 0 /\ Head(aSafa[c]).d = planif[c].d
         /\ \A f \in CPUs \ {c} : aSafa'[f] = aSafa[f]
         /\ planif' \in [CPUs -> [d : Quienes, enMano : BOOLEAN]]
         /\ DOMAIN planif' = CPUs /\ planif'[c].d = Nadie /\ ~planif'[c].enMano
         /\ \A f \in CPUs \ {c} : planif'[f] = planif[f]
         /\ \A e : Nadie # e /\ planif[c].d # e =>
              (EnMano(e)' <=> EnMano(e)) /\ (Silenciado(e) => Silenciado(e)')
<1>1. Forma /\ \A f \in CPUs : Turno(f) /\ Fiel(f)
  BY DEF IInv
<1> DEFINE q == Ocioso
<1>2. q.d = Nadie /\ ~q.enMano /\ q \in [d : Quienes, enMano : BOOLEAN] /\ planif' = [planif EXCEPT ![c] = q]
  BY DEF Ocioso, Quienes, Desocupar
<1> HIDE DEF q
<1>3. EsSeq(aSafa[c]) /\ EsSeq(aCpu[c])
  BY <1>1 DEF Forma
<1>4. Con(aSafa[c], Reportes) # 0
  BY <1>3, CabezaCuenta
<1>5. /\ Con(aCpu[c], {"ejecutar"}) = 0 /\ Con(aSafa[c], Reportes) = 1
      /\ ~cpu[c].muda /\ cpu[c].estado = "libre" /\ Con(aSafa[c], {"exit"}) = 0
  BY <1>4, TurnoEnReporte
<1>6. /\ Head(aSafa[c]).d = planif[c].d
      /\ DOMAIN aSafa' = CPUs /\ \A f \in CPUs \ {c} : aSafa'[f] = aSafa[f]
      /\ EsSeq(aSafa'[c])
      /\ Con(aSafa'[c], Reportes) = Con(aSafa[c], Reportes) - Si(Head(aSafa[c]).que \in Reportes)
      /\ Con(aSafa'[c], {"exit"}) = Con(aSafa[c], {"exit"}) - Si(Head(aSafa[c]).que = "exit")
  BY LaCabeza
<1>7. Si(Head(aSafa[c]).que \in Reportes) = 1 /\ Si(Head(aSafa[c]).que = "exit") = 0
  BY DEF Si, Reportes
<1>8. Con(aSafa'[c], Reportes) = 0
  BY <1>5, <1>6, <1>7
<1>9. Con(aSafa'[c], {"exit"}) = 0
  BY <1>5, <1>6, <1>7
<1>10. /\ DOMAIN planif' = CPUs /\ planif'[c] = q /\ \A f \in CPUs \ {c} : planif'[f] = planif[f]
       /\ \A e : planif[c].d # e /\ q.d # e => (EnMano(e)' <=> EnMano(e))
       /\ \A e : planif[c].d # e /\ Silenciado(e) => Silenciado(e)'
  BY <1>1, <1>2, OtroPlanif
<1>11. planif' \in [CPUs -> [d : Quienes, enMano : BOOLEAN]]
  BY <1>1, <1>2 DEF Forma
<1>12. ASSUME NEW f \in CPUs PROVE Turno(f)' /\ Fiel(f)' /\ EsSeq(aSafa'[f])
  <2>1. CASE f = c
    <3>1. Turno(c)'
      <4>1. Si(q.enMano) = 0 /\ Si(q.d # Nadie) = 0 /\ Si(cpu[c].estado # "libre" \/ cpu[c].muda) = 0
        BY <1>2, <1>5 DEF Si
      <4> QED
        BY <1>5, <1>8, <1>10, <4>1 DEF Turno
    <3>2. Fiel(c)'
      <4>1. Con(aSafa'[c], Reportes \cup {"exit"}) = 0
        <5>1. /\ \A k \in DOMAIN aSafa'[c] : aSafa'[c][k].que \notin Reportes
              /\ \A k \in DOMAIN aSafa'[c] : aSafa'[c][k].que \notin {"exit"}
          BY <1>6, <1>8, <1>9, ConTipo
        <5>2. \A k \in DOMAIN aSafa'[c] : aSafa'[c][k].que \notin Reportes \cup {"exit"}
          BY <5>1
        <5> QED
          BY <1>6, <5>2, ConTipo
      <4>2. Dice(aCpu[c], {"ejecutar"}, Nadie) /\ Dice(aSafa'[c], Reportes \cup {"exit"}, Nadie)
        BY <1>3, <1>5, <1>6, <4>1, DiceNada
      <4>3. Con(aSafa'[c], {"exit"}) <= Si(cpu[c].muda)
        BY <1>9 DEF Si
      <4> QED
        BY <1>2, <1>5, <1>10, <4>2, <4>3 DEF Fiel
    <3> QED
      BY <1>6, <2>1, <3>1, <3>2
  <2>2. CASE f # c
    <3>1. EsSeq(aSafa'[f])
      BY <1>1, <1>6, <2>2 DEF Forma
    <3>2. Turno(f) /\ Fiel(f)
      BY <1>1
    <3>3. /\ aSafa'[f] = aSafa[f] /\ planif'[f] = planif[f] /\ manejador'[f] = manejador[f]
          /\ aCpu'[f] = aCpu[f] /\ cpu'[f] = cpu[f]
      BY <1>6, <1>10, <2>2
    <3>4. Turno(f)'
      BY <3>2, <3>3 DEF Turno
    <3>5. Fiel(f)'
      BY <3>2, <3>3 DEF Fiel
    <3> QED
      BY <3>1, <3>4, <3>5
  <2> QED
    BY <2>1, <2>2
<1> QED
  BY <1>2, <1>6, <1>9, <1>10, <1>11, <1>12

LEMMA AtenderFinDeNadiePreserva ==
  ASSUME IInv, NEW c \in CPUs, AtenderFinDeNadie(c)
  PROVE  IInv'
<1>1. Forma /\ Lugares /\ Colas /\ \A f \in CPUs : Turno(f) /\ Fiel(f)
  BY DEF IInv
<1>2. PICK d : d = planif[c].d
  OBVIOUS
<1>3. /\ UNCHANGED <<colaNew, colaReady, colaBloqueados, listaEjecutando, colaFinalizados, puedeEntrar, enNew, enReady, dtb>>
      /\ UNCHANGED <<plp, consola, manejador, aCpu, deDam, cpu, quitados>>
      /\ aSafa[c] # <<>> /\ Head(aSafa[c]).que \in Reportes /\ Leido(c) /\ Desocupar(c)
      /\ manejador[c].paso = "leer" /\ ~Contains(listaEjecutando, Head(aSafa[c]).d)
  BY DEF AtenderFinDeNadie, Fin, Llega, Corria, Reportes, colas
<1>4. /\ \A f \in CPUs : Turno(f)' /\ Fiel(f)' /\ EsSeq(aSafa'[f])
      /\ DOMAIN aSafa' = CPUs /\ Con(aSafa'[c], {"exit"}) = 0 /\ Head(aSafa[c]).d = d
      /\ \A f \in CPUs \ {c} : aSafa'[f] = aSafa[f]
      /\ planif' \in [CPUs -> [d : Quienes, enMano : BOOLEAN]]
      /\ DOMAIN planif' = CPUs /\ planif'[c].d = Nadie /\ ~planif'[c].enMano
      /\ \A f \in CPUs \ {c} : planif'[f] = planif[f]
      /\ \A e : Nadie # e /\ d # e => (EnMano(e)' <=> EnMano(e)) /\ (Silenciado(e) => Silenciado(e)')
  BY <1>2, <1>3, TurnoTermina
<1>5. Con(aSafa[c], Reportes) # 0
  BY <1>1, <1>3, CabezaCuenta DEF Forma
<1>6. ~planif[c].enMano /\ d # Nadie /\ ~cpu[c].muda
  BY <1>2, <1>5, TurnoEnReporte
<1>7. ~EnMano(d) /\ ~Silenciado(d)
  BY <1>2, <1>6, ElSuyo
<1>8. ~EnMano(d)'
  <2> SUFFICES ASSUME NEW f \in CPUs, planif'[f] = [d |-> d, enMano |-> TRUE] PROVE FALSE
    BY DEF EnMano
  <2>1. planif'[f].d = d /\ planif'[f].enMano
    OBVIOUS
  <2>2. f # c
    BY <1>4, <2>1
  <2> QED
    BY <1>1, <1>2, <1>4, <1>6, <2>1, <2>2 DEF Colas
<1>9. Admitidos' = Admitidos /\ Quienes' = Quienes
  BY <1>3 DEF Admitidos, Quienes
<1>10. Forma'
  BY <1>1, <1>3, <1>4, <1>9 DEF Forma
<1>11. Lugares'
  BY <1>1, <1>3 DEF Lugares
<1>12. ASSUME NEW e \in DOMAIN dtb PROVE UnSitio(e)'
  <2>0. UnSitio(e) /\ e # Nadie
    BY <1>1, LosGDT, NadieAssumption DEF Colas
  <2>1. (EnMano(e)' <=> EnMano(e)) /\ (Silenciado(e) => Silenciado(e)')
    BY <1>4, <1>7, <1>8, <2>0
  <2>2. (Recolocando(e)' <=> Recolocando(e)) /\ (EnConsola(e)' <=> EnConsola(e))
    BY <1>3 DEF Recolocando, EnConsola
  <2> QED
    BY <1>3, <2>0, <2>1, <2>2, UnSitioAjeno
<1>13. \A f, g \in CPUs : planif'[f].d = planif'[g].d /\ planif'[f].d # Nadie => f = g
  BY <1>1, <1>4 DEF Colas
<1>14. ASSUME NEW f \in CPUs PROVE Vigente(f)' /\ ExitPrimero(f)'
  <2>0. Vigente(f) /\ ExitPrimero(f)
    BY <1>1 DEF Colas
  <2>1. CASE f = c
    BY <1>4, <2>1 DEF Vigente, ExitPrimero
  <2>2. CASE f # c
    BY <1>3, <1>4, <2>0, <2>2 DEF Vigente, ExitPrimero
  <2> QED
    BY <2>1, <2>2
<1>15. Colas'
  BY <1>3, <1>12, <1>13, <1>14 DEF Colas
<1> QED
  BY <1>4, <1>10, <1>11, <1>15 DEF IInv

(* It goes to one queue. *)
LEMMA RecolocarCuenta ==
  ASSUME Forma, Lugares, NEW d \in Admitidos, NEW m, NEW dummy \in BOOLEAN, Recolocar(d, m, dummy),
         UNCHANGED <<colaNew, plp>>
  PROVE  /\ MismosDTB /\ Lugares' /\ puedeEntrar' \in Nat /\ enReady' \in Nat
         /\ colaFinalizados' \in Seq(Admitidos) /\ colaReady' \in Seq(Admitidos)
         /\ colaBloqueados' \in Seq(Admitidos)
         /\ \E x, y, z \in {0, 1} :
              /\ x + y + z = 1
              /\ \A e : /\ Veces(colaFinalizados', e) = Veces(colaFinalizados, e) + (IF d = e THEN x ELSE 0)
                        /\ Veces(colaReady', e) = Veces(colaReady, e) + (IF d = e THEN y ELSE 0)
                        /\ Veces(colaBloqueados', e) = Veces(colaBloqueados, e) + (IF d = e THEN z ELSE 0)
<1>1. /\ colaFinalizados \in Seq(Admitidos) /\ colaReady \in Seq(Admitidos) /\ colaBloqueados \in Seq(Admitidos)
      /\ puedeEntrar \in Nat /\ enReady \in Nat /\ d \in DOMAIN dtb
  BY LosGDT DEF Forma
<1>2. \A e : /\ Veces(colaFinalizados, e) \in Nat /\ Veces(colaReady, e) \in Nat /\ Veces(colaBloqueados, e) \in Nat
  BY Cuentas
<1>3. CASE dtb[d].status = "FINISHED" \/ m.que = "finalizar"
  <2>1. FinalizarDTB(d) /\ UNCHANGED <<colaReady, enReady, colaBloqueados>>
    BY <1>3 DEF Recolocar
  <2>2. /\ MismosDTB /\ Lugares' /\ puedeEntrar' \in Nat
        /\ colaFinalizados' \in Seq(Admitidos)
        /\ \A e : Veces(colaFinalizados', e) = Veces(colaFinalizados, e) + Si(d = e)
    BY <2>1, FinalizarCuenta
  <2>3. \A e : /\ Veces(colaFinalizados', e) = Veces(colaFinalizados, e) + (IF d = e THEN 1 ELSE 0)
               /\ Veces(colaReady', e) = Veces(colaReady, e) + (IF d = e THEN 0 ELSE 0)
               /\ Veces(colaBloqueados', e) = Veces(colaBloqueados, e) + (IF d = e THEN 0 ELSE 0)
    BY <1>2, <2>1, <2>2 DEF Si
  <2>4. 1 + 0 + 0 = 1 /\ 0 \in {0, 1} /\ 1 \in {0, 1}
    OBVIOUS
  <2> QED
    BY <1>1, <2>1, <2>2, <2>3, <2>4
<1>4. CASE ~(dtb[d].status = "FINISHED" \/ m.que = "finalizar") /\ m.que = "continuar"
  <2> DEFINE x == [Avanza(d, m, FALSE) EXCEPT !.status = "READY"]
  <2>1. /\ dtb' = [dtb EXCEPT ![d] = x]
        /\ colaReady' = Append(colaReady, d) /\ enReady' = enReady + 1
        /\ UNCHANGED <<colaFinalizados, puedeEntrar, colaBloqueados>>
    BY <1>4 DEF Recolocar, AReady
  <2>2. DOMAIN x = CamposDTB /\ x.status \in Estados
    <3>1. DOMAIN Avanza(d, m, FALSE) = CamposDTB
      BY <1>1 DEF Avanza, Forma
    <3> QED
      BY <3>1 DEF CamposDTB, Estados
  <2> HIDE DEF x
  <2>3. MismosDTB
    BY <2>1, <2>2, EscribirDTB
  <2>4. Lugares'
    <3>1. Len(dtb') = Len(dtb)
      BY <2>3 DEF MismosDTB
    <3> QED
      BY <2>1, <3>1 DEF Lugares
  <2>5. colaReady' \in Seq(Admitidos) /\ \A e : Veces(colaReady', e) = Veces(colaReady, e) + Si(d = e)
    BY <1>1, <2>1, AppendProperties, VecesAgregada
  <2>6. \A e : /\ Veces(colaFinalizados', e) = Veces(colaFinalizados, e) + (IF d = e THEN 0 ELSE 0)
               /\ Veces(colaReady', e) = Veces(colaReady, e) + (IF d = e THEN 1 ELSE 0)
               /\ Veces(colaBloqueados', e) = Veces(colaBloqueados, e) + (IF d = e THEN 0 ELSE 0)
    BY <1>2, <2>1, <2>5 DEF Si
  <2>7. 0 + 1 + 0 = 1 /\ 0 \in {0, 1} /\ 1 \in {0, 1}
    OBVIOUS
  <2> QED
    BY <1>1, <2>1, <2>3, <2>4, <2>5, <2>6, <2>7
<1>5. CASE ~(dtb[d].status = "FINISHED" \/ m.que = "finalizar") /\ m.que # "continuar"
  <2> DEFINE x == [Avanza(d, m, dummy) EXCEPT !.status = "BLOCKED", !.cantIOs = @ + m.io]
  <2>1. /\ dtb' = [dtb EXCEPT ![d] = x]
        /\ colaBloqueados' = Append(colaBloqueados, d)
        /\ UNCHANGED <<colaReady, enReady, colaFinalizados, puedeEntrar>>
    BY <1>5 DEF Recolocar
  <2>2. DOMAIN x = CamposDTB /\ x.status \in Estados
    <3>1. DOMAIN Avanza(d, m, dummy) = CamposDTB
      BY <1>1 DEF Avanza, Forma
    <3> QED
      BY <3>1 DEF CamposDTB, Estados
  <2> HIDE DEF x
  <2>3. MismosDTB
    BY <2>1, <2>2, EscribirDTB
  <2>4. Lugares'
    <3>1. Len(dtb') = Len(dtb)
      BY <2>3 DEF MismosDTB
    <3> QED
      BY <2>1, <3>1 DEF Lugares
  <2>5. colaBloqueados' \in Seq(Admitidos) /\ \A e : Veces(colaBloqueados', e) = Veces(colaBloqueados, e) + Si(d = e)
    BY <1>1, <2>1, AppendProperties, VecesAgregada
  <2>6. \A e : /\ Veces(colaFinalizados', e) = Veces(colaFinalizados, e) + (IF d = e THEN 0 ELSE 0)
               /\ Veces(colaReady', e) = Veces(colaReady, e) + (IF d = e THEN 0 ELSE 0)
               /\ Veces(colaBloqueados', e) = Veces(colaBloqueados, e) + (IF d = e THEN 1 ELSE 0)
    BY <1>2, <2>1, <2>5 DEF Si
  <2>7. 0 + 0 + 1 = 1 /\ 0 \in {0, 1} /\ 1 \in {0, 1}
    OBVIOUS
  <2> QED
    BY <1>1, <2>1, <2>3, <2>4, <2>5, <2>6, <2>7
<1> QED
  BY <1>3, <1>4, <1>5

LEMMA AtenderFinPreserva ==
  ASSUME IInv, NEW c \in CPUs, AtenderFin(c)
  PROVE  IInv'
<1>1. Forma /\ Lugares /\ Colas /\ \A f \in CPUs : Turno(f) /\ Fiel(f)
  BY DEF IInv
<1>2. PICK d : d = planif[c].d
  OBVIOUS
<1> DEFINE q == [paso |-> "leer", r |-> Nadie]
<1>3. /\ UNCHANGED <<colaNew, listaEjecutando, enNew>>
      /\ UNCHANGED <<plp, consola, aCpu, deDam, cpu, quitados>>
      /\ aSafa[c] # <<>> /\ Head(aSafa[c]).que \in Reportes /\ Leido(c) /\ Desocupar(c)
      /\ manejador[c].paso = "recolocar" /\ manejador' = [manejador EXCEPT ![c] = q]
  BY DEF AtenderFin, Fin, Llega, Atendido, Reportes
<1>4. q.paso = "leer" /\ q = [paso |-> q.paso, r |-> q.r]
  OBVIOUS
<1> HIDE DEF q
<1>5. /\ DOMAIN manejador' = CPUs /\ manejador'[c] = q /\ \A f \in CPUs \ {c} : manejador'[f] = manejador[f]
      /\ \A e : manejador[c].r # e => (Recolocando(e)' <=> Recolocando(e))
  BY <1>1, <1>3, <1>4, OtroManejador
<1>6. manejador'[c].paso # "recolocar" /\ manejador[c].r = d
  BY <1>1, <1>2, <1>3, <1>4, <1>5 DEF Fiel
<1>7. /\ \A f \in CPUs : Turno(f)' /\ Fiel(f)' /\ EsSeq(aSafa'[f])
      /\ DOMAIN aSafa' = CPUs /\ Con(aSafa'[c], {"exit"}) = 0 /\ Head(aSafa[c]).d = d
      /\ \A f \in CPUs \ {c} : aSafa'[f] = aSafa[f]
      /\ planif' \in [CPUs -> [d : Quienes, enMano : BOOLEAN]]
      /\ DOMAIN planif' = CPUs /\ planif'[c].d = Nadie /\ ~planif'[c].enMano
      /\ \A f \in CPUs \ {c} : planif'[f] = planif[f]
      /\ \A e : Nadie # e /\ d # e => (EnMano(e)' <=> EnMano(e)) /\ (Silenciado(e) => Silenciado(e)')
  BY <1>2, <1>3, <1>5, <1>6, TurnoTermina
<1>8. Con(aSafa[c], Reportes) # 0
  BY <1>1, <1>3, CabezaCuenta DEF Forma
<1>9. ~planif[c].enMano /\ d # Nadie /\ ~cpu[c].muda
  BY <1>2, <1>8, TurnoEnReporte
<1>10. Recolocando(d) /\ d \in Admitidos /\ d \in DOMAIN dtb
  BY <1>1, <1>2, <1>3, <1>9, ElSuyo, LosGDT
<1>11. UnSitio(d)
  BY <1>1, <1>10 DEF Colas
<1>12. /\ Veces(colaNew, d) = 0 /\ Veces(colaReady, d) = 0 /\ Veces(colaBloqueados, d) = 0
       /\ Veces(listaEjecutando, d) = 0 /\ ~EnMano(d) /\ ~EnConsola(d)
       /\ d \notin quitados /\ Veces(colaFinalizados, d) = 0
  <2>1. /\ Veces(colaNew, d) \in Nat /\ Veces(colaReady, d) \in Nat /\ Veces(colaBloqueados, d) \in Nat
        /\ Veces(listaEjecutando, d) \in Nat /\ Veces(colaFinalizados, d) \in Nat
        /\ Si(EnMano(d)) \in {0, 1} /\ Si(EnConsola(d)) \in {0, 1} /\ Si(Recolocando(d)) = 1
    BY <1>1, <1>10, Cuentas, SitiosTipo DEF Si
  <2>2. Sitios(d) <= 1
    BY <1>11 DEF UnSitio
  <2>3. /\ Veces(colaNew, d) = 0 /\ Veces(colaReady, d) = 0 /\ Veces(colaBloqueados, d) = 0
        /\ Veces(listaEjecutando, d) = 0 /\ Si(EnMano(d)) = 0 /\ Si(EnConsola(d)) = 0 /\ Sitios(d) = 1
    BY <2>1, <2>2 DEF Sitios
  <2>4. ~EnMano(d) /\ ~EnConsola(d)
    BY <2>3 DEF Si
  <2> QED
    BY <1>11, <2>1, <2>3, <2>4 DEF UnSitio
<1>13. PICK dummy \in BOOLEAN : Recolocar(d, Head(aSafa[c]), dummy)
  BY <1>7 DEF AtenderFin
<1>14. /\ MismosDTB /\ Lugares' /\ puedeEntrar' \in Nat /\ enReady' \in Nat
       /\ colaFinalizados' \in Seq(Admitidos) /\ colaReady' \in Seq(Admitidos)
       /\ colaBloqueados' \in Seq(Admitidos)
       /\ \E x, y, z \in {0, 1} :
            /\ x + y + z = 1
            /\ \A e : /\ Veces(colaFinalizados', e) = Veces(colaFinalizados, e) + (IF d = e THEN x ELSE 0)
                      /\ Veces(colaReady', e) = Veces(colaReady, e) + (IF d = e THEN y ELSE 0)
                      /\ Veces(colaBloqueados', e) = Veces(colaBloqueados, e) + (IF d = e THEN z ELSE 0)
  <2> HIDE DEF Recolocar
  <2> QED
    BY <1>1, <1>3, <1>10, <1>13, RecolocarCuenta
<1>15. PICK x, y, z \in {0, 1} :
            /\ x + y + z = 1
            /\ \A e : /\ Veces(colaFinalizados', e) = Veces(colaFinalizados, e) + (IF d = e THEN x ELSE 0)
                      /\ Veces(colaReady', e) = Veces(colaReady, e) + (IF d = e THEN y ELSE 0)
                      /\ Veces(colaBloqueados', e) = Veces(colaBloqueados, e) + (IF d = e THEN z ELSE 0)
  BY <1>14
<1>16. Admitidos' = Admitidos /\ Quienes' = Quienes
  BY <1>3, <1>14 DEF Admitidos, Quienes, MismosDTB
<1>17. Forma'
  <2>1. /\ EsSeq(dtb') /\ Len(dtb') = Len(dtb)
        /\ \A e \in DOMAIN dtb' : DOMAIN dtb'[e] = CamposDTB /\ dtb'[e].status \in Estados
    BY <1>14 DEF MismosDTB
  <2>2. \A f \in CPUs : manejador'[f] = [paso |-> manejador'[f].paso, r |-> manejador'[f].r]
    BY <1>1, <1>4, <1>5 DEF Forma
  <2> QED
    BY <1>1, <1>3, <1>5, <1>7, <1>14, <1>16, <2>1, <2>2 DEF Forma
<1>18. \A e : /\ Veces(colaNew', e) = Veces(colaNew, e)
              /\ Veces(listaEjecutando', e) = Veces(listaEjecutando, e)
              /\ EnConsola(e)' <=> EnConsola(e)
              /\ e \in quitados' <=> e \in quitados
  BY <1>3 DEF EnConsola
<1>19. ~EnMano(d)' /\ ~Recolocando(d)'
  <2>1. \A f \in CPUs \ {c} : planif[f].d # d
    BY <1>1, <1>2, <1>9 DEF Colas
  <2>2. ASSUME NEW f \in CPUs, planif'[f] = [d |-> d, enMano |-> TRUE] PROVE FALSE
    <3>1. planif'[f].d = d
      BY <2>2
    <3> QED
      BY <1>7, <1>9, <2>1, <3>1
  <2>3. ASSUME NEW f \in CPUs, manejador'[f] = [paso |-> "recolocar", r |-> d] PROVE FALSE
    <3>1. manejador'[f].paso = "recolocar" /\ manejador'[f].r = d
      BY <2>3
    <3>2. f # c /\ manejador[f].paso = "recolocar" /\ manejador[f].r = d
      BY <1>5, <1>6, <3>1
    <3>3. planif[f].d = d
      BY <1>1, <3>2 DEF Fiel
    <3> QED
      BY <2>1, <3>2, <3>3
  <2> QED
    BY <2>2, <2>3 DEF EnMano, Recolocando
<1>20. ASSUME NEW e \in DOMAIN dtb PROVE UnSitio(e)'
  <2>0. UnSitio(e) /\ e # Nadie
    BY <1>1, LosGDT, NadieAssumption DEF Colas
  <2>1. CASE e = d
    <3>1. Veces(colaFinalizados', d) = x /\ Veces(colaReady', d) = y /\ Veces(colaBloqueados', d) = z
      BY <1>12, <1>15
    <3>2. Sitios(d)' = y + z
      BY <1>12, <1>15, <1>18, <1>19, <3>1 DEF Sitios, Si
    <3>3. ~EnConsola(d)' /\ d \notin quitados'
      BY <1>12, <1>18
    <3>4. UnSitio(d)'
      BY <1>15, <3>1, <3>2, <3>3 DEF UnSitio
    <3> QED
      BY <2>1, <3>4
  <2>2. CASE e # d
    <3>1. /\ Veces(colaFinalizados', e) = Veces(colaFinalizados, e)
          /\ Veces(colaReady', e) = Veces(colaReady, e)
          /\ Veces(colaBloqueados', e) = Veces(colaBloqueados, e)
      <4>1. Veces(colaFinalizados, e) \in Nat /\ Veces(colaReady, e) \in Nat /\ Veces(colaBloqueados, e) \in Nat
        BY <1>1, Cuentas
      <4> QED
        BY <1>15, <2>2, <4>1
    <3>2. (EnMano(e)' <=> EnMano(e)) /\ (Silenciado(e) => Silenciado(e)') /\ (Recolocando(e)' <=> Recolocando(e))
      BY <1>5, <1>6, <1>7, <2>0, <2>2
    <3> QED
      BY <1>18, <2>0, <3>1, <3>2, UnSitioAjeno
  <2> QED
    BY <2>1, <2>2
<1>21. \A f, g \in CPUs : planif'[f].d = planif'[g].d /\ planif'[f].d # Nadie => f = g
  BY <1>1, <1>7 DEF Colas
<1>22. ASSUME NEW f \in CPUs PROVE Vigente(f)' /\ ExitPrimero(f)'
  <2>0. Vigente(f) /\ ExitPrimero(f)
    BY <1>1 DEF Colas
  <2>1. CASE f = c
    BY <1>7, <2>1 DEF Vigente, ExitPrimero
  <2>2. CASE f # c
    <3>1. planif[f].d # d
      BY <1>1, <1>2, <1>9, <2>2 DEF Colas
    <3>2. Veces(colaFinalizados', planif[f].d) = Veces(colaFinalizados, planif[f].d)
      <4>1. Veces(colaFinalizados, planif[f].d) \in Nat
        BY <1>1, Cuentas
      <4> QED
        BY <1>15, <3>1, <4>1
    <3> QED
      BY <1>3, <1>5, <1>7, <2>0, <2>2, <3>2 DEF Vigente, ExitPrimero
  <2> QED
    BY <2>1, <2>2
<1>23. DOMAIN dtb' = DOMAIN dtb
  BY <1>14 DEF MismosDTB
<1>24. Colas'
  BY <1>20, <1>21, <1>22, <1>23 DEF Colas
<1> QED
  BY <1>7, <1>14, <1>17, <1>24 DEF IInv
-----------------------------------------------------------------------------
(* The invariant, from the start and at every step. *)

LEMMA IniciaIInv ==
  ASSUME Init
  PROVE  IInv
<1>1. /\ colaNew = <<>> /\ colaReady = <<>> /\ colaBloqueados = <<>> /\ listaEjecutando = <<>> /\ colaFinalizados = <<>>
      /\ puedeEntrar = Grado /\ enNew = 0 /\ enReady = 0 /\ dtb = <<>> /\ plp = FALSE
      /\ consola = [paso |-> "leer", d |-> Nadie, fin |-> 0, pausas |-> 0, continuadas |-> 0]
      /\ planif = [c \in CPUs |-> Ocioso]
      /\ manejador = [c \in CPUs |-> [paso |-> "leer", r |-> Nadie]]
      /\ aSafa = [c \in CPUs |-> <<>>] /\ aCpu = [c \in CPUs |-> <<>>]
      /\ deDam = <<>> /\ cpu = [c \in CPUs |-> CPU0] /\ quitados = {}
  BY DEF Init
<1>2. Len(<<>>) = 0 /\ DOMAIN <<>> = {} /\ \A S : <<>> \in Seq(S)
  OBVIOUS
<1>3. \A c \in CPUs : planif[c] = Ocioso /\ planif[c].d = Nadie /\ planif[c].enMano = FALSE
  BY <1>1 DEF Ocioso
<1>4. \A c \in CPUs : aSafa[c] = <<>> /\ aCpu[c] = <<>>
  BY <1>1
<1>5. \A c \in CPUs : /\ DOMAIN cpu[c] = CamposCPU /\ cpu[c].estado = "libre" /\ cpu[c].muda = FALSE
  BY <1>1 DEF CPU0, CamposCPU
<1>6. \A c \in CPUs : manejador[c].paso = "leer" /\ manejador[c] = [paso |-> manejador[c].paso, r |-> manejador[c].r]
  BY <1>1
<1>7. Grado \in Nat
  BY SAFAAssumption
<1>8. Forma
  <2>1. EsSeq(<<>>)
    BY DEF EsSeq
  <2>2. planif \in [CPUs -> [d : Quienes, enMano : BOOLEAN]]
    BY <1>1 DEF Ocioso, Quienes
  <2>3. DOMAIN consola = CamposConsola /\ consola.paso = "leer"
    BY <1>1 DEF CamposConsola
  <2>4. DOMAIN manejador = CPUs /\ DOMAIN aSafa = CPUs /\ DOMAIN aCpu = CPUs /\ DOMAIN cpu = CPUs
    BY <1>1
  <2>5. plp \in BOOLEAN
    BY <1>1
  <2>6. EsSeq(dtb) /\ EsSeq(deDam) /\ \A c \in CPUs : EsSeq(aSafa[c]) /\ EsSeq(aCpu[c])
    BY <1>1, <1>4, <2>1
  <2>7. /\ \A d \in DOMAIN dtb : DOMAIN dtb[d] = CamposDTB /\ dtb[d].status \in Estados
        /\ \A i \in DOMAIN colaNew : colaNew[i] = Len(dtb) - Len(colaNew) + i
        /\ \A i \in DOMAIN deDam : deDam[i].d = IdGuardado
    BY <1>1, <1>2
  <2>8. /\ colaNew \in Seq(Nat) /\ colaReady \in Seq(Admitidos) /\ colaBloqueados \in Seq(Admitidos)
        /\ listaEjecutando \in Seq(Admitidos) /\ colaFinalizados \in Seq(Admitidos)
        /\ Len(colaNew) <= Len(dtb) /\ enNew = Len(colaNew) /\ enReady \in Nat /\ puedeEntrar \in Nat
    BY <1>1, <1>2, <1>7
  <2> QED
    BY <1>1, <1>5, <1>6, <2>2, <2>3, <2>4, <2>5, <2>6, <2>7, <2>8 DEF Forma
<1>9. ASSUME NEW c \in CPUs PROVE Turno(c) /\ Fiel(c)
  <2>1. \A Q : Con(aSafa[c], Q) = 0 /\ Con(aCpu[c], Q) = 0
    BY <1>4, ConVacia
  <2>2. \A Q : Dice(aSafa[c], Q, planif[c].d) /\ Dice(aCpu[c], Q, planif[c].d)
    BY <1>2, <1>4 DEF Dice
  <2>3. Turno(c)
    BY <1>3, <1>5, <2>1 DEF Turno, Si
  <2>4. Con(aSafa[c], {"exit"}) <= Si(cpu[c].muda)
    BY <2>1, <1>5 DEF Si
  <2>5. manejador[c].paso # "recolocar" /\ cpu[c].estado \notin {"ejecutando", "turno"}
    BY <1>5, <1>6
  <2> QED
    BY <1>5, <1>6, <2>2, <2>3, <2>4, <2>5 DEF Fiel
<1>10. Lugares
  BY <1>1, <1>2, <1>7 DEF Lugares, Si
<1>11. Colas
  <2>1. \A c \in CPUs : Vigente(c) /\ ExitPrimero(c)
    BY <1>3, <1>4, ConVacia DEF Vigente, ExitPrimero
  <2> QED
    BY <1>1, <1>2, <1>3, <2>1 DEF Colas
<1> QED
  BY <1>8, <1>9, <1>10, <1>11 DEF IInv

LEMMA PasoIInv ==
  ASSUME IInv, [Next]_vars
  PROVE  IInv'
<1>0. Forma
  BY DEF IInv
<1>1. CASE Consola
  <2>1. CASE (\E d \in GDTs : Finalizar(d)) \/ Marcar \/ Pausar \/ Trabar \/ Continuar \/ Avisar
    BY <1>0, <2>1, ConsolaLlana, LlanoPreserva
  <2>2. CASE Ejecutar
    BY <2>2, EjecutarPreserva
  <2>3. CASE Quitar /\ consola'.paso = "encolar"
    BY <2>3, QuitarPreserva
  <2>4. CASE Quitar /\ consola'.paso # "encolar"
    BY <1>0, <2>4, OtrosLlanos, LlanoPreserva
  <2>5. CASE Encolar
    BY <2>5, EncolarPreserva
  <2> QED
    BY <1>1, <2>1, <2>2, <2>3, <2>4, <2>5 DEF Consola
<1>2. CASE TomarLugar
  BY <1>2, TomarLugarPreserva
<1>3. CASE Admitir
  BY <1>3, AdmitirPreserva
<1>4. ASSUME NEW c \in CPUs, DeCPU(c) PROVE IInv'
  <2>1. CASE Recibir(c) /\ Head(aCpu[c]).que = "ejecutar"
    BY <2>1, RecibirPreserva
  <2>2. CASE Recibir(c) /\ Head(aCpu[c]).que # "ejecutar"
    BY <1>0, <2>2, RecibirLlano, LlanoPreserva
  <2>3. CASE Sentencia(c)
    BY <1>0, <2>3, SentenciaEsPaso, CPUPreserva
  <2> QED
    BY <1>4, <2>1, <2>2, <2>3 DEF DeCPU, Sentencia
<1>5. ASSUME NEW c \in CPUs, DeSAFA(c) PROVE IInv'
  <2>1. CASE Planificar(c)
    BY <2>1, PlanificarPreserva
  <2>2. CASE PlanificarNadie(c)
    BY <1>0, <2>2, OtrosLlanos, LlanoPreserva
  <2>3. CASE Despachar(c)
    BY <2>3, DespacharPreserva
  <2>4. CASE AtenderExit(c)
    BY <2>4, AtenderExitPreserva
  <2>5. CASE AtenderVerificar(c)
    BY <1>0, <2>5, VerificarLlano, LlanoPreserva
  <2>6. CASE Sacar(c)
    BY <2>6, SacarPreserva
  <2>7. CASE AtenderFin(c)
    BY <2>7, AtenderFinPreserva
  <2>8. CASE AtenderFinDeNadie(c)
    BY <2>8, AtenderFinDeNadiePreserva
  <2>9. CASE BuscarRecurso(c) \/ CrearRecurso(c) \/ DarRecurso(c) \/ LiberarRecurso(c) \/ EliminarRecurso(c)
    BY <1>0, <2>9, RecursoLlano, LlanoPreserva
  <2> QED
    BY <1>5, <2>1, <2>2, <2>3, <2>4, <2>5, <2>6, <2>7, <2>8, <2>9 DEF DeSAFA
<1>6. CASE ResponderExiste
  BY <1>0, <1>6, ExisteLlano, LlanoPreserva
<1>7. CASE ResponderCrear \/ AtenderDam
  BY <1>0, <1>7, DamLlano, LlanoPreserva
<1>8. CASE Caer \/ UNCHANGED vars
  BY <1>0, <1>8, OtrosLlanos, LlanoPreserva
<1> QED
  BY <1>1, <1>2, <1>3, <1>4, <1>5, <1>6, <1>7, <1>8 DEF Next

(* In every state that the program reaches the queues, the planners and    *)
(* the messages under way agree on where each GDT is and whose turn it is. *)
THEOREM SiempreIInv == Spec => []IInv
<1>1. Init => IInv
  BY IniciaIInv
<1>2. IInv /\ [Next]_vars => IInv'
  BY PasoIInv
<1> QED
  BY <1>1, <1>2, PTL DEF Spec

(* The queues hold GDTs there are, the semaphores never go below zero, and *)
(* a planner waits for a GDT there is or for none.                         *)
THEOREM SafaBienTipado == Spec => []TypeOK
<1>1. ASSUME IInv PROVE TypeOK
  <2>1. Forma
    BY <1>1 DEF IInv
  <2>2. /\ Len(dtb) \in Nat /\ Len(colaNew) \in Nat /\ Len(colaNew) <= Len(dtb)
        /\ DOMAIN dtb = 1..Len(dtb) /\ DOMAIN colaNew = 1..Len(colaNew)
        /\ Admitidos \subseteq DOMAIN dtb
    BY <2>1, LosGDT
  <2>3. colaNew \in Seq(DOMAIN dtb)
    <3>1. colaNew \in [1..Len(colaNew) -> Nat] /\ \A i \in 1..Len(colaNew) : colaNew[i] = Len(dtb) - Len(colaNew) + i
      BY <2>1, <2>2, SeqDef DEF Forma
    <3>2. \A i \in 1..Len(colaNew) : colaNew[i] \in 1..Len(dtb)
      BY <2>2, <3>1
    <3>3. colaNew \in [1..Len(colaNew) -> DOMAIN dtb]
      BY <2>2, <3>1, <3>2
    <3> QED
      BY <2>2, <3>3, SeqDef
  <2>4. /\ colaReady \in Seq(DOMAIN dtb) /\ colaBloqueados \in Seq(DOMAIN dtb)
        /\ listaEjecutando \in Seq(DOMAIN dtb) /\ colaFinalizados \in Seq(DOMAIN dtb)
    BY <2>1, <2>2, SeqMayor DEF Forma
  <2>5. planif \in [CPUs -> [d : DOMAIN dtb \cup {Nadie}, enMano : BOOLEAN]] /\ quitados \subseteq DOMAIN dtb
    BY <2>1, <2>2 DEF Forma, Quienes
  <2>6. /\ \A d \in DOMAIN dtb : dtb[d].status \in Estados
        /\ puedeEntrar \in Nat /\ enNew \in Nat /\ enReady \in Nat /\ plp \in BOOLEAN
    BY <2>1, <2>2 DEF Forma
  <2> QED
    BY <2>3, <2>4, <2>5, <2>6 DEF TypeOK
<1> QED
  BY <1>1, SiempreIInv, PTL

(* The places of the degree of multiprogramming are never lost, nor made   *)
(* but by a GDT that ends twice, however the console, the planners and the *)
(* handlers of the CPUs interleave, until two of them race on a queue.     *)
THEOREM GradoSiempreRespetado == Spec => []GradoRespetado
<1>1. ASSUME IInv PROVE GradoRespetado
  <2> DEFINE F == ToSet(colaFinalizados)
             vivos == {d \in DOMAIN dtb : ~Contains(colaNew, d) /\ ~Contains(colaFinalizados, d)}
             n == Len(dtb) - Len(colaNew)
  <2>1. Forma /\ Lugares
    BY <1>1 DEF IInv
  <2>2. /\ Len(dtb) \in Nat /\ Len(colaNew) \in Nat /\ Len(colaNew) <= Len(dtb)
        /\ DOMAIN dtb = 1..Len(dtb) /\ DOMAIN colaNew = 1..Len(colaNew)
        /\ colaFinalizados \in Seq(Admitidos) /\ Len(colaFinalizados) \in Nat
        /\ puedeEntrar \in Nat /\ Si(plp) \in Nat /\ Grado \in Nat
    BY <2>1, LosGDT, LenProperties, SAFAAssumption DEF Forma, Si
  <2>3. n \in Nat /\ Admitidos = 1..n
    BY <2>2 DEF Admitidos
  <2>4. IsFiniteSet(Admitidos) /\ Cardinality(Admitidos) = n
    BY <2>3, FS_Interval
  <2>5. F \subseteq Admitidos
    BY <2>2, FinitosLosDeUnaSeq
  <2>6. \A d \in DOMAIN dtb : Contains(colaNew, d) <=> d \notin Admitidos
    <3> SUFFICES ASSUME NEW d \in DOMAIN dtb PROVE Contains(colaNew, d) <=> d \notin Admitidos
      OBVIOUS
    <3>1. \A i \in 1..Len(colaNew) : colaNew[i] = n + i
      BY <2>1, <2>2 DEF Forma
    <3>2. ASSUME d \notin Admitidos PROVE Contains(colaNew, d)
      <4>1. d - n \in 1..Len(colaNew) /\ colaNew[d - n] = d
        BY <2>2, <2>3, <3>1, <3>2
      <4> QED
        BY <4>1 DEF Contains
    <3>3. ASSUME Contains(colaNew, d) PROVE d \notin Admitidos
      <4>1. PICK i \in 1..Len(colaNew) : colaNew[i] = d
        BY <3>3 DEF Contains
      <4> QED
        BY <2>2, <2>3, <3>1, <4>1
    <3> QED
      BY <3>2, <3>3
  <2>7. \A d : Contains(colaFinalizados, d) <=> d \in F
    BY <2>2, LenProperties DEF Contains, ToSet
  <2>8. vivos = Admitidos \ F
    BY <2>2, <2>3, <2>6, <2>7
  <2>9. Cardinality(vivos) = n - Cardinality(F) /\ Cardinality(F) \in Nat
    <3>1. Admitidos \cap F = F
      BY <2>5
    <3> HIDE DEF F
    <3>2. Cardinality(Admitidos \ F) = Cardinality(Admitidos) - Cardinality(Admitidos \cap F)
      BY <2>4, FS_Difference
    <3>3. IsFiniteSet(F)
      BY <2>4, <2>5, FS_Subset
    <3> QED
      BY <2>4, <2>8, <3>1, <3>2, <3>3, FS_CardinalityType
  <2>10. puedeEntrar + Si(plp) + n = Grado + Len(colaFinalizados)
    BY <2>1 DEF Lugares
  <2> HIDE DEF F, vivos, n
  <2>11. puedeEntrar + Si(plp) + Cardinality(vivos) = Grado + Len(colaFinalizados) - Cardinality(F)
    <3>1. \A a, b, g, l, x, v, m \in Int : a + b + m = g + l /\ v = m - x => a + b + v = g + l - x
      OBVIOUS
    <3>2. n \in Int /\ Cardinality(F) \in Int /\ Cardinality(vivos) \in Int
      BY <2>3, <2>9
    <3>3. puedeEntrar \in Int /\ Si(plp) \in Int /\ Grado \in Int /\ Len(colaFinalizados) \in Int
      BY <2>2
    <3> QED
      BY <2>9, <2>10, <3>1, <3>2, <3>3
  <2> QED
    BY <2>11 DEF GradoRespetado, F, vivos, Si
<1> QED
  BY <1>1, SiempreIInv, PTL

(* A planner that waits for its CPU has exactly one turn under way, or its *)
(* CPU will never report; one that does not wait has none: whatever the    *)
(* CPU executes and whatever the console does meanwhile, until two threads *)
(* race on a queue.                                                        *)
THEOREM SiempreUnReportePorTurno == Spec => []UnReportePorTurno
<1>1. ASSUME IInv PROVE UnReportePorTurno
  <2> SUFFICES ASSUME NEW c \in CPUs
               PROVE  (IF planif[c].enMano THEN 1 ELSE 0)
                        + Cardinality({i \in DOMAIN aCpu[c] : aCpu[c][i].que = "ejecutar"})
                        + (IF cpu[c].estado # "libre" \/ cpu[c].muda THEN 1 ELSE 0)
                        + Cardinality({i \in DOMAIN aSafa[c] : aSafa[c][i].que \in Reportes})
                      = (IF planif[c].d = Nadie THEN 0 ELSE 1)
    BY DEF UnReportePorTurno
  <2>1. Turno(c)
    BY <1>1 DEF IInv
  <2>2. {i \in DOMAIN aCpu[c] : aCpu[c][i].que = "ejecutar"} = {i \in DOMAIN aCpu[c] : aCpu[c][i].que \in {"ejecutar"}}
    OBVIOUS
  <2> QED
    BY <2>1, <2>2 DEF Turno, Con, Si
<1> QED
  BY <1>1, SiempreIInv, PTL

LEMMA UnoOCero ==
  ASSUME NEW A, \A x, y \in A : x = y
  PROVE  Cardinality(A) = Si(A # {})
<1>1. CASE A = {}
  BY <1>1, FS_EmptySet DEF Si
<1>2. CASE A # {}
  <2>1. PICK x : A = {x}
    BY <1>2
  <2> QED
    BY <2>1, FS_Singleton DEF Si
<1> QED
  BY <1>1, <1>2

(* A GDT is in one queue, or held by the one thread that moves it, until   *)
(* it has ended; what ends twice was taken by the console while it ran.    *)
(* That holds until two threads race on a queue: encolarDTB and            *)
(* desencolarDTB lock a copy of its mutex (libSAFA.c:6-17).                *)
THEOREM SiempreUnaColaPorGDT == Spec => []UnaColaPorGDT
<1>1. ASSUME IInv PROVE UnaColaPorGDT
  <2>1. Forma /\ Colas /\ \A c \in CPUs : Fiel(c)
    BY <1>1 DEF IInv
  <2> SUFFICES ASSUME NEW d \in DOMAIN dtb
               PROVE  LET donde == Veces(colaNew \o colaReady \o colaBloqueados \o listaEjecutando, d) + Tienen(d)
                          final == Veces(colaFinalizados, d)
                      IN  /\ donde <= 1 /\ (final = 0 => donde = 1)
                          /\ (final > 0 /\ donde = 1) =>
                               EnConsola(d) \/ (Contains(listaEjecutando, d) /\ \E c \in CPUs : planif[c].d = d /\ cpu[c].muda)
                          /\ final > 1 => d \in quitados
    BY DEF UnaColaPorGDT
  <2>2. d # Nadie /\ UnSitio(d)
    BY <2>1, LosGDT, NadieAssumption DEF Colas
  <2>3. Veces(colaNew \o colaReady \o colaBloqueados \o listaEjecutando, d)
          = Veces(colaNew, d) + Veces(colaReady, d) + Veces(colaBloqueados, d) + Veces(listaEjecutando, d)
    <3>1. Admitidos \subseteq Nat
      BY <2>1, LosGDT
    <3>2. colaNew \in Seq(Nat) /\ colaReady \in Seq(Nat) /\ colaBloqueados \in Seq(Nat) /\ listaEjecutando \in Seq(Nat)
      BY <2>1, <3>1, SeqMayor DEF Forma
    <3>3. colaNew \o colaReady \in Seq(Nat) /\ colaNew \o colaReady \o colaBloqueados \in Seq(Nat)
      BY <3>2, ConcatProperties
    <3> DEFINE ab == colaNew \o colaReady
               abc == ab \o colaBloqueados
               abcd == abc \o listaEjecutando
    <3>4. ab \in Seq(Nat) /\ abc \in Seq(Nat)
      BY <3>3
    <3>5. Cuantos(ab, {d}) = Cuantos(colaNew, {d}) + Cuantos(colaReady, {d})
      BY <3>2, CuantosConcat
    <3> HIDE DEF ab
    <3>6. Cuantos(abc, {d}) = Cuantos(ab, {d}) + Cuantos(colaBloqueados, {d})
      BY <3>2, <3>4, CuantosConcat
    <3> HIDE DEF abc
    <3>7. Cuantos(abcd, {d}) = Cuantos(abc, {d}) + Cuantos(listaEjecutando, {d})
      BY <3>2, <3>4, CuantosConcat
    <3> HIDE DEF abcd
    <3>8. Veces(abcd, d) = Veces(colaNew, d) + Veces(colaReady, d) + Veces(colaBloqueados, d) + Veces(listaEjecutando, d)
      BY <3>5, <3>6, <3>7, VecesEsCuantos
    <3> QED
      BY <3>8 DEF abcd, abc, ab
  <2>4. Tienen(d) = Si(EnMano(d)) + Si(Recolocando(d)) + Si(EnConsola(d))
    <3> DEFINE M == {c \in CPUs : planif[c] = [d |-> d, enMano |-> TRUE]}
               R == {c \in CPUs : manejador[c] = [paso |-> "recolocar", r |-> d]}
    <3>1. \A x, y \in M : x = y
      <4> SUFFICES ASSUME NEW x \in M, NEW y \in M PROVE x = y
        OBVIOUS
      <4>1. x \in CPUs /\ y \in CPUs /\ planif[x].d = d /\ planif[y].d = d
        OBVIOUS
      <4> QED
        BY <2>1, <2>2, <4>1 DEF Colas
    <3>2. \A x, y \in R : x = y
      <4> SUFFICES ASSUME NEW x \in R, NEW y \in R PROVE x = y
        OBVIOUS
      <4>1. /\ x \in CPUs /\ y \in CPUs
            /\ manejador[x].paso = "recolocar" /\ manejador[x].r = d
            /\ manejador[y].paso = "recolocar" /\ manejador[y].r = d
        OBVIOUS
      <4>2. planif[x].d = d /\ planif[y].d = d
        BY <2>1, <4>1 DEF Fiel
      <4> QED
        BY <2>1, <2>2, <4>1, <4>2 DEF Colas
    <3>3. (M # {} <=> EnMano(d)) /\ (R # {} <=> Recolocando(d))
      BY DEF EnMano, Recolocando
    <3>4. Tienen(d) = Cardinality(M) + Cardinality(R) + Si(EnConsola(d))
      BY DEF Tienen, Si
    <3> HIDE DEF M, R
    <3>5. Cardinality(M) = Si(M # {}) /\ Cardinality(R) = Si(R # {})
      BY <3>1, <3>2, UnoOCero
    <3> QED
      BY <3>3, <3>4, <3>5 DEF Si
  <2>5. /\ Veces(colaNew, d) \in Nat /\ Veces(colaReady, d) \in Nat /\ Veces(colaBloqueados, d) \in Nat
        /\ Veces(listaEjecutando, d) \in Nat
        /\ (Contains(listaEjecutando, d) <=> Veces(listaEjecutando, d) > 0)
        /\ Si(EnMano(d)) \in {0, 1} /\ Si(Recolocando(d)) \in {0, 1} /\ Si(EnConsola(d)) \in {0, 1}
    BY <2>1, Cuentas, SitiosTipo
  <2> DEFINE donde == Veces(colaNew \o colaReady \o colaBloqueados \o listaEjecutando, d) + Tienen(d)
  <2>6. donde = Sitios(d)
    BY <2>3, <2>4, <2>5 DEF Sitios
  <2> HIDE DEF donde
  <2>7. /\ donde <= 1 /\ (Veces(colaFinalizados, d) = 0 => donde = 1)
        /\ (Veces(colaFinalizados, d) > 0 /\ donde = 1) =>
             EnConsola(d) \/ (Contains(listaEjecutando, d) /\ \E c \in CPUs : planif[c].d = d /\ cpu[c].muda)
        /\ Veces(colaFinalizados, d) > 1 => d \in quitados
    BY <2>2, <2>5, <2>6 DEF UnSitio, Silenciado
  <2> QED
    BY <2>7 DEF donde
<1> QED
  BY <1>1, SiempreIInv, PTL
=============================================================================
