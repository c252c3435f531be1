----------------------------- MODULE Team_proofs -----------------------------
(***************************************************************************)
(* Proofs about a Team: the semaphores count the queues, the accounts of   *)
(* what is captured, lacked and left over add up, and a trainer is in one  *)
(* queue for as long as none that waits for a CAUGHT is chosen again.      *)
(***************************************************************************)
EXTENDS Team, Integers, SequencesExt, SequenceTheorems, FiniteSetTheorems, WellFoundedInduction, TLAPS

-----------------------------------------------------------------------------
(* Facts about sequences and finite sets of numbers.                       *)

(* RemoveAt drops one entry of a sequence and keeps the order of the rest. *)
LEMMA RemoveAtElementos ==
  ASSUME NEW S, NEW s \in Seq(S), NEW k \in DOMAIN s
  PROVE  /\ RemoveAt(s, k) \in Seq(S)
         /\ Len(RemoveAt(s, k)) = Len(s) - 1
         /\ DOMAIN RemoveAt(s, k) = 1..(Len(s) - 1)
         /\ \A j \in 1..(Len(s) - 1) :
              RemoveAt(s, k)[j] = IF j < k THEN s[j] ELSE s[j + 1]
<1> DEFINE izq == SubSeq(s, 1, k - 1)
           der == SubSeq(s, k + 1, Len(s))
<1>1. /\ Len(s) \in Nat /\ DOMAIN s = 1..Len(s) /\ k \in 1..Len(s)
      /\ \A i \in 1..Len(s) : s[i] \in S
  BY LenProperties
<1>2. /\ izq \in Seq(S)
      /\ Len(izq) = k - 1
      /\ \A i \in 1..(k - 1) : izq[i] = s[i]
  BY <1>1, SubSeqProperties
<1>3. /\ der \in Seq(S)
      /\ Len(der) = Len(s) - k
      /\ \A i \in 1..(Len(s) - k) : der[i] = s[k + i]
  <2>1. /\ der \in Seq(S)
        /\ Len(der) = IF k + 1 <= Len(s) THEN Len(s) - (k + 1) + 1 ELSE 0
        /\ \A i \in 1..(Len(s) - (k + 1) + 1) : der[i] = s[(k + 1) + i - 1]
    BY <1>1, SubSeqProperties
  <2> HIDE DEF der
  <2>2. Len(s) - (k + 1) + 1 = Len(s) - k
    BY <1>1
  <2>3. Len(der) = Len(s) - k
    BY <1>1, <2>1
  <2>4. ASSUME NEW i \in 1..(Len(s) - k) PROVE der[i] = s[k + i]
    <3>1. (k + 1) + i - 1 = k + i
      BY <1>1
    <3> QED
      BY <2>1, <2>2, <3>1
  <2> QED
    BY <2>1, <2>3, <2>4
<1> HIDE DEF izq, der
<1>4. /\ izq \o der \in Seq(S)
      /\ Len(izq \o der) = Len(s) - 1
      /\ \A i \in 1..(Len(s) - 1) :
           (izq \o der)[i] = IF i <= k - 1 THEN izq[i] ELSE der[i - (k - 1)]
  <2>1. /\ izq \o der \in Seq(S)
        /\ Len(izq \o der) = Len(izq) + Len(der)
        /\ \A i \in 1..(Len(izq) + Len(der)) :
             (izq \o der)[i] = IF i <= Len(izq) THEN izq[i] ELSE der[i - Len(izq)]
    BY <1>2, <1>3, ConcatProperties
  <2>2. Len(izq) + Len(der) = Len(s) - 1
    BY <1>1, <1>2, <1>3
  <2> QED
    BY <1>2, <2>1, <2>2
<1>5. ASSUME NEW j \in 1..(Len(s) - 1)
      PROVE  (izq \o der)[j] = IF j < k THEN s[j] ELSE s[j + 1]
  <2>1. CASE j < k
    BY <1>1, <1>2, <1>4, <2>1
  <2>2. CASE ~(j < k)
    <3>1. j - (k - 1) \in 1..(Len(s) - k) /\ ~(j <= k - 1) /\ k + (j - (k - 1)) = j + 1
      BY <1>1, <2>2
    <3>2. (izq \o der)[j] = der[j - (k - 1)]
      BY <1>4, <3>1
    <3> QED
      BY <1>3, <2>2, <3>1, <3>2
  <2> QED
    BY <2>1, <2>2
<1>6. DOMAIN (izq \o der) = 1..(Len(s) - 1)
  BY <1>4, LenProperties
<1> QED
  BY <1>4, <1>5, <1>6 DEF RemoveAt, izq, der

(* The least element of a set of numbers: what lets an induction be made   *)
(* over the least counterexample.                                          *)
LEMMA MinimoNat ==
  ASSUME NEW S \in SUBSET Nat, S # {}
  PROVE  \E x \in S : \A y \in S : x <= y
<1> DEFINE T == {1..n : n \in S}
           R == StrictSubsetOrdering(Nat)
<1>1. T \subseteq FiniteSubsetsOf(Nat)
  <2> SUFFICES ASSUME NEW n \in S PROVE 1..n \in FiniteSubsetsOf(Nat)
    OBVIOUS
  <2> QED
    BY FS_Interval DEF FiniteSubsetsOf
<1>2. T # {}
  OBVIOUS
<1>3. IsWellFoundedOn(R, FiniteSubsetsOf(Nat))
  BY FS_StrictSubsetOrderingWellFounded
<1>4. PICK A \in T : \A B \in T : <<B, A>> \notin R
  <2> HIDE DEF T, R
  <2> QED
    BY <1>1, <1>2, <1>3, WFMin
<1>5. PICK x \in S : A = 1..x
  OBVIOUS
<1>6. ASSUME NEW y \in S, y < x PROVE FALSE
  <2>1. 1..y \subseteq 1..x /\ x \in 1..x /\ x \notin 1..y
    BY <1>6
  <2>2. 1..y \in SUBSET Nat /\ 1..x \in SUBSET Nat
    BY <1>6
  <2>3. <<1..y, 1..x>> \in R
    BY <2>1, <2>2 DEF StrictSubsetOrdering
  <2> QED
    BY <1>4, <1>5, <2>3
<1> QED
  BY <1>6

LEMMA MinEsElemento ==
  ASSUME NEW S \in SUBSET Nat, S # {}
  PROVE  Min(S) \in S /\ \A y \in S : Min(S) <= y
<1>1. PICK x \in S : \A y \in S : x <= y
  BY MinimoNat
<1> QED
  BY <1>1 DEF Min

(* Induction, for a set of numbers. *)
LEMMA InduccionNat ==
  ASSUME NEW S \in SUBSET Nat, 0 \in S, \A n \in S : n + 1 \in S
  PROVE  S = Nat
<1> SUFFICES ASSUME Nat \ S # {} PROVE FALSE
  OBVIOUS
<1>1. PICK x \in Nat \ S : \A y \in Nat \ S : x <= y
  BY MinimoNat
<1>2. x # 0 /\ x - 1 \in Nat /\ ~(x <= x - 1) /\ (x - 1) + 1 = x
  BY <1>1
<1>3. x - 1 \in S
  BY <1>1, <1>2
<1> QED
  BY <1>1, <1>2, <1>3

(* The numbers a sequence lists are bounded. *)
LEMMA ListaAcotada ==
  ASSUME NEW m \in Nat, NEW f \in [1..m -> Nat]
  PROVE  \E b \in Nat : \A i \in 1..m : f[i] <= b
<1> DEFINE A == {k \in 0..m : \E b \in Nat : \A i \in 1..k : f[i] <= b}
           B == (0..m) \ A
<1>1. 0 \in A
  <2>1. \A i \in 1..0 : f[i] <= 0
    OBVIOUS
  <2> QED
    BY <2>1
<1>2. ASSUME B # {} PROVE FALSE
  <2>1. B \in SUBSET Nat
    OBVIOUS
  <2>2. PICK k \in B : \A j \in B : k <= j
    BY <1>2, <2>1, MinimoNat
  <2>3. k \in 1..m /\ k - 1 \in 0..m /\ k - 1 \notin B
    <3> HIDE DEF A
    <3>1. k \in 0..m /\ k # 0
      BY <1>1, <2>2
    <3>2. k \in 1..m /\ k - 1 \in 0..m /\ ~(k <= k - 1)
      BY <3>1
    <3> HIDE DEF B
    <3> QED
      BY <2>2, <3>2
  <2>4. PICK b \in Nat : \A i \in 1..(k - 1) : f[i] <= b
    BY <2>3
  <2> DEFINE c == IF f[k] <= b THEN b ELSE f[k]
  <2>5. c \in Nat /\ b <= c /\ f[k] <= c
    BY <2>3
  <2> HIDE DEF c
  <2>6. ASSUME NEW i \in 1..k PROVE f[i] <= c
    <3>1. f[i] \in Nat
      BY <2>3
    <3>2. CASE i = k
      BY <2>5, <3>2
    <3>3. CASE i # k
      <4>1. f[i] <= b
        BY <2>3, <2>4, <3>3
      <4> QED
        BY <2>5, <3>1, <4>1
    <3> QED
      BY <3>2, <3>3
  <2>7. k \in A
    BY <2>2, <2>5, <2>6
  <2> QED
    BY <2>2, <2>7
<1>3. m \in A
  <2> HIDE DEF A
  <2> QED
    BY <1>2
<1> QED
  BY <1>3

LEMMA MaxEsElemento ==
  ASSUME NEW S \in SUBSET Nat, S # {}, IsFiniteSet(S)
  PROVE  Max(S) \in S /\ \A y \in S : y <= Max(S)
<1>1. PICK m \in Nat : ExistsSurjection(1..m, S)
  BY FS_NatSurjection
<1>2. PICK f \in Surjection(1..m, S) : TRUE
  BY <1>1 DEF ExistsSurjection
<1>3. f \in [1..m -> Nat] /\ \A x \in S : \E i \in 1..m : f[i] = x
  BY <1>2 DEF Surjection
<1>4. PICK b \in Nat : \A i \in 1..m : f[i] <= b
  BY <1>3, ListaAcotada
<1> DEFINE N == {n \in Nat : \A x \in S : x <= n}
<1>5. b \in N
  BY <1>3, <1>4
<1>6. PICK n \in N : \A k \in N : n <= k
  <2>1. N \in SUBSET Nat /\ N # {}
    BY <1>5
  <2> QED
    BY <2>1, MinimoNat
<1>7. n \in S
  <2> SUFFICES ASSUME n \notin S PROVE FALSE
    OBVIOUS
  <2>1. n \in Nat /\ \A x \in S : x \in Nat /\ x < n
    BY <1>6
  <2>2. n - 1 \in Nat
    <3>1. PICK x \in S : TRUE
      OBVIOUS
    <3>2. n \in Nat /\ x \in Nat /\ x < n
      BY <2>1
    <3> QED
      BY <3>2
  <2>3. n - 1 \in N
    BY <2>1, <2>2
  <2> QED
    BY <1>6, <2>1, <2>3
<1>8. \E x \in S : \A y \in S : x >= y
  BY <1>6, <1>7
<1>9. Max(S) \in S /\ \A y \in S : Max(S) >= y
  BY <1>8 DEF Max
<1> QED
  BY <1>9

LEMMA FinitaImagen ==
  ASSUME NEW S, IsFiniteSet(S), NEW f, DOMAIN f = S
  PROVE  IsFiniteSet({f[x] : x \in S})
<1> DEFINE I == {f[x] : x \in S}
<1>1. [x \in S |-> f[x]] \in Surjection(S, I)
  BY DEF Surjection
<1> QED
  BY <1>1, FS_Surjection

LEMMA FinitosLosDeUnaSeq ==
  ASSUME NEW S, NEW s \in Seq(S)
  PROVE  IsFiniteSet(ToSet(s)) /\ \A x \in ToSet(s) : x \in S /\ \E i \in DOMAIN s : s[i] = x
<1>1. Len(s) \in Nat /\ DOMAIN s = 1..Len(s) /\ \A i \in 1..Len(s) : s[i] \in S
  BY LenProperties, ElementOfSeq
<1>2. IsFiniteSet(1..Len(s))
  BY <1>1, FS_Interval
<1>3. IsFiniteSet({s[i] : i \in 1..Len(s)})
  BY <1>1, <1>2, FinitaImagen
<1> QED
  BY <1>1, <1>3 DEF ToSet

(* How many entries of a sequence are in V. *)
Cuantos(s, V) == Cardinality({i \in DOMAIN s : s[i] \in V})

LEMMA CuantosTipo ==
  ASSUME NEW S, NEW s \in Seq(S), NEW V
  PROVE  /\ IsFiniteSet({i \in DOMAIN s : s[i] \in V})
         /\ Cuantos(s, V) \in Nat
         /\ Cuantos(s, V) = 0 <=> \A i \in DOMAIN s : s[i] \notin V
<1> DEFINE I == {i \in DOMAIN s : s[i] \in V}
<1>1. IsFiniteSet(1..Len(s)) /\ DOMAIN s = 1..Len(s)
  BY LenProperties, FS_Interval
<1>2. I \in SUBSET (1..Len(s))
  BY <1>1
<1>3. IsFiniteSet(I)
  <2> HIDE DEF I
  <2> QED
    BY <1>1, <1>2, FS_Subset
<1>4. Cardinality(I) \in Nat /\ (Cardinality(I) = 0 <=> I = {})
  <2> HIDE DEF I
  <2> QED
    BY <1>3, FS_CardinalityType, FS_EmptySet
<1>5. I = {} <=> \A i \in DOMAIN s : s[i] \notin V
  OBVIOUS
<1> QED
  BY <1>3, <1>4, <1>5 DEF Cuantos

(* Dropping the k-th entry takes away one if that entry was in V. *)
LEMMA CuantosSaltea ==
  ASSUME NEW n \in Nat \ {0}, NEW s, DOMAIN s = 1..n, NEW t, DOMAIN t = 1..(n - 1), NEW k \in 1..n,
         \A j \in 1..(n - 1) : t[j] = IF j < k THEN s[j] ELSE s[j + 1],
         NEW V
  PROVE  Cuantos(t, V) = Cuantos(s, V) - (IF s[k] \in V THEN 1 ELSE 0)
<1> DEFINE I == {i \in DOMAIN s : s[i] \in V}
           J == {j \in DOMAIN t : t[j] \in V}
           K == I \ {k}
           f == [j \in J |-> IF j < k THEN j ELSE j + 1]
<1>1. IsFiniteSet(I)
  <2>1. IsFiniteSet(1..n)
    BY FS_Interval
  <2>2. I \in SUBSET (1..n)
    OBVIOUS
  <2> HIDE DEF I
  <2> QED
    BY <2>1, <2>2, FS_Subset
<1>2. IsFiniteSet(K) /\ Cardinality(K) = IF k \in I THEN Cardinality(I) - 1 ELSE Cardinality(I)
  <2> HIDE DEF I
  <2> QED
    BY <1>1, FS_RemoveElement
<1>3. f \in [J -> K]
  <2> SUFFICES ASSUME NEW j \in J PROVE f[j] \in K
    OBVIOUS
  <2>1. j \in 1..(n - 1) /\ t[j] \in V
    OBVIOUS
  <2>2. CASE j < k
    <3>1. f[j] = j /\ j \in 1..n /\ j # k /\ s[j] \in V
      BY <2>1, <2>2
    <3> QED
      BY <3>1
  <2>3. CASE ~(j < k)
    <3>1. f[j] = j + 1 /\ j + 1 \in 1..n /\ j + 1 # k /\ s[j + 1] \in V
      BY <2>1, <2>3
    <3> QED
      BY <3>1
  <2> QED
    BY <2>2, <2>3
<1>4. \A a, b \in J : f[a] = f[b] => a = b
  <2> SUFFICES ASSUME NEW a \in J, NEW b \in J, f[a] = f[b] PROVE a = b
    OBVIOUS
  <2>1. a \in 1..(n - 1) /\ b \in 1..(n - 1)
    OBVIOUS
  <2>2. f[a] = (IF a < k THEN a ELSE a + 1) /\ f[b] = (IF b < k THEN b ELSE b + 1)
    OBVIOUS
  <2> QED
    BY <2>1, <2>2
<1>5. \A x \in K : \E j \in J : f[j] = x
  <2> SUFFICES ASSUME NEW x \in K PROVE \E j \in J : f[j] = x
    OBVIOUS
  <2>1. x \in 1..n /\ x # k /\ s[x] \in V
    OBVIOUS
  <2>2. CASE x < k
    <3>1. x \in 1..(n - 1) /\ t[x] \in V
      BY <2>1, <2>2
    <3>2. x \in J
      BY <3>1
    <3>3. f[x] = x
      BY <2>2, <3>2
    <3> QED
      BY <3>2, <3>3
  <2>3. CASE ~(x < k)
    <3>1. x - 1 \in 1..(n - 1) /\ ~(x - 1 < k) /\ (x - 1) + 1 = x
      BY <2>1, <2>3
    <3>2. t[x - 1] = s[x]
      BY <3>1
    <3>3. x - 1 \in J
      BY <2>1, <3>1, <3>2
    <3>4. f[x - 1] = x
      BY <3>1, <3>3
    <3> QED
      BY <3>3, <3>4
  <2> QED
    BY <2>2, <2>3
<1> HIDE DEF f, J, K
<1>6. f \in Bijection(J, K)
  BY <1>3, <1>4, <1>5 DEF Bijection, Injection, Surjection, IsInjective
<1>7. Cardinality(J) = Cardinality(K)
  <2>1. f \in Surjection(J, K) /\ f \in Injection(J, K)
    BY <1>6 DEF Bijection
  <2>2. Cardinality(J) <= Cardinality(K) /\ (Cardinality(J) = Cardinality(K) <=> f \in Surjection(J, K))
    BY <1>2, <2>1, FS_Injection
  <2> QED
    BY <2>1, <2>2
<1>8. k \in I <=> s[k] \in V
  OBVIOUS
<1>9. Cardinality(I) \in Nat
  <2> HIDE DEF I
  <2> QED
    BY <1>1, FS_CardinalityType
<1> QED
  BY <1>2, <1>7, <1>8, <1>9 DEF Cuantos, J

LEMMA CuantosVacia ==
  ASSUME NEW V
  PROVE  Cuantos(<<>>, V) = 0
<1>1. {i \in DOMAIN <<>> : <<>>[i] \in V} = {}
  OBVIOUS
<1> QED
  BY <1>1, FS_EmptySet DEF Cuantos

LEMMA CuantosAppend ==
  ASSUME NEW S, NEW s \in Seq(S), NEW x, NEW V
  PROVE  Cuantos(Append(s, x), V) = Cuantos(s, V) + (IF x \in V THEN 1 ELSE 0)
<1>1. s \in Seq(S \cup {x}) /\ Len(s) \in Nat /\ DOMAIN s = 1..Len(s)
  BY LenProperties
<1> DEFINE t == Append(s, x)
           n == Len(s) + 1
<1>2. /\ DOMAIN t = 1..n /\ t[n] = x
      /\ \A j \in 1..(n - 1) : t[j] = s[j]
  <2>1. /\ t \in Seq(S \cup {x}) /\ Len(t) = n
        /\ \A i \in 1..Len(s) : t[i] = s[i]
        /\ t[n] = x
    BY <1>1, AppendProperties
  <2> HIDE DEF t
  <2>2. DOMAIN t = 1..Len(t)
    BY <2>1, LenProperties
  <2> QED
    BY <1>1, <2>1, <2>2
<1>3. n \in Nat \ {0} /\ n - 1 = Len(s) /\ n \in 1..n
  BY <1>1
<1>4. Cuantos(s, V) \in Nat
  BY CuantosTipo
<1>5. Cuantos(t, V) \in Nat
  <2>1. t \in Seq(S \cup {x})
    BY <1>1, AppendProperties
  <2> HIDE DEF t
  <2> QED
    BY <2>1, CuantosTipo
<1> HIDE DEF t, n
<1>6. DOMAIN s = 1..(n - 1)
  BY <1>1, <1>3
<1>7. \A j \in 1..(n - 1) : s[j] = IF j < n THEN t[j] ELSE t[j + 1]
  BY <1>2, <1>3
<1>8. Cuantos(s, V) = Cuantos(t, V) - (IF t[n] \in V THEN 1 ELSE 0)
  BY <1>2, <1>3, <1>6, <1>7, CuantosSaltea
<1>9. Cuantos(t, V) = Cuantos(s, V) + (IF x \in V THEN 1 ELSE 0)
  BY <1>2, <1>4, <1>5, <1>8
<1> QED
  BY <1>9 DEF t

LEMMA CuantosRemoveAt ==
  ASSUME NEW S, NEW s \in Seq(S), NEW k \in DOMAIN s, NEW V
  PROVE  Cuantos(RemoveAt(s, k), V) = Cuantos(s, V) - (IF s[k] \in V THEN 1 ELSE 0)
<1> DEFINE t == RemoveAt(s, k)
           n == Len(s)
<1>1. n \in Nat \ {0} /\ DOMAIN s = 1..n /\ k \in 1..n
  BY LenProperties
<1>2. /\ DOMAIN t = 1..(n - 1)
      /\ \A j \in 1..(n - 1) : t[j] = IF j < k THEN s[j] ELSE s[j + 1]
  BY RemoveAtElementos
<1> HIDE DEF t, n
<1>4. DOMAIN s = 1..n /\ DOMAIN t = 1..(n - 1) /\ k \in 1..n /\ n \in Nat \ {0}
  BY <1>1, <1>2
<1>5. \A j \in 1..(n - 1) : t[j] = IF j < k THEN s[j] ELSE s[j + 1]
  BY <1>2
<1>3. Cuantos(t, V) = Cuantos(s, V) - (IF s[k] \in V THEN 1 ELSE 0)
  <2>1. ASSUME NEW i \in 1..n, \A j \in 1..(n - 1) : t[j] = IF j < i THEN s[j] ELSE s[j + 1]
        PROVE  Cuantos(t, V) = Cuantos(s, V) - (IF s[i] \in V THEN 1 ELSE 0)
    BY <1>4, <2>1, CuantosSaltea
  <2> QED
    BY <1>4, <1>5, <2>1
<1> QED
  BY <1>3 DEF t

-----------------------------------------------------------------------------
(* Sums.                                                                   *)

LEMMA UnidadesDe ==
  ASSUME NEW D, NEW f \in [D -> Nat]
  PROVE  /\ Unidades(f) = UNION {{x} \X (1..f[x]) : x \in D}
         /\ \A x, k : <<x, k>> \in Unidades(f) <=> x \in D /\ k \in 1..f[x]
         /\ \A u \in Unidades(f) : u = <<u[1], u[2]>> /\ u[1] \in D /\ u[2] \in 1..f[u[1]]
BY DEF Unidades

LEMMA SumaTipo ==
  ASSUME NEW D, IsFiniteSet(D), NEW f \in [D -> Nat]
  PROVE  IsFiniteSet(Unidades(f)) /\ Suma(f) \in Nat
<1> DEFINE F == {{x} \X (1..f[x]) : x \in D}
<1>1. IsFiniteSet(F)
  <2> DEFINE g == [x \in D |-> {x} \X (1..f[x])]
  <2>1. DOMAIN g = D /\ {g[x] : x \in D} = F
    OBVIOUS
  <2> HIDE DEF g, F
  <2> QED
    BY <2>1, FinitaImagen
<1>2. ASSUME NEW x \in D PROVE IsFiniteSet({x} \X (1..f[x]))
  <2>1. f[x] \in Nat
    OBVIOUS
  <2>2. IsFiniteSet({x})
    BY FS_Singleton
  <2>3. IsFiniteSet(1..f[x])
    BY <2>1, FS_Interval
  <2> QED
    BY <2>2, <2>3, FS_Product
<1>3. IsFiniteSet(UNION F)
  BY <1>1, <1>2, FS_UNION
<1>4. IsFiniteSet(Unidades(f))
  BY <1>3, UnidadesDe
<1> QED
  BY <1>4, FS_CardinalityType DEF Suma

(* The part of a sum that one element gives, and the rest. *)
LEMMA SumaParte ==
  ASSUME NEW D, IsFiniteSet(D), NEW f \in [D -> Nat], NEW d \in D
  PROVE  /\ IsFiniteSet(Unidades(f) \ ({d} \X (1..f[d])))
         /\ Cardinality(Unidades(f) \ ({d} \X (1..f[d]))) = Suma(f) - f[d]
<1> DEFINE A == {d} \X (1..f[d])
<1>1. IsFiniteSet(Unidades(f)) /\ Suma(f) \in Nat
  BY SumaTipo
<1>2. A \subseteq Unidades(f)
  BY UnidadesDe
<1>3. Cardinality(A) = f[d]
  <2>1. f[d] \in Nat
    OBVIOUS
  <2>2. IsFiniteSet({d}) /\ Cardinality({d}) = 1
    BY FS_Singleton
  <2>3. IsFiniteSet(1..f[d]) /\ Cardinality(1..f[d]) = f[d]
    BY <2>1, FS_Interval
  <2> DEFINE S == {d}
             T == 1..f[d]
  <2>4. A = S \X T /\ IsFiniteSet(S) /\ IsFiniteSet(T) /\ Cardinality(S) = 1 /\ Cardinality(T) = f[d]
    BY <2>2, <2>3
  <2>5. Cardinality(S \X T) = Cardinality(S) * Cardinality(T)
    <3> HIDE DEF A, S, T
    <3> QED
      BY <2>4, FS_Product
  <2> HIDE DEF A, S, T
  <2>6. Cardinality(A) = 1 * f[d]
    BY <2>4, <2>5
  <2> QED
    BY <2>1, <2>6
<1>4. Unidades(f) \cap A = A
  BY <1>2
<1> HIDE DEF A
<1>5. /\ IsFiniteSet(Unidades(f) \ A)
      /\ Cardinality(Unidades(f) \ A) = Cardinality(Unidades(f)) - Cardinality(Unidades(f) \cap A)
  BY <1>1, FS_Difference
<1> QED
  BY <1>3, <1>4, <1>5 DEF Suma, A

(* Only one of the numbers changes. *)
LEMMA SumaCambio ==
  ASSUME NEW D, IsFiniteSet(D), NEW f \in [D -> Nat], NEW g \in [D -> Nat], NEW d \in D,
         \A x \in D \ {d} : g[x] = f[x]
  PROVE  Suma(g) = Suma(f) - f[d] + g[d]
<1>1. /\ Cardinality(Unidades(f) \ ({d} \X (1..f[d]))) = Suma(f) - f[d]
      /\ Cardinality(Unidades(g) \ ({d} \X (1..g[d]))) = Suma(g) - g[d]
  BY SumaParte
<1>2. Unidades(f) \ ({d} \X (1..f[d])) = Unidades(g) \ ({d} \X (1..g[d]))
  <2> DEFINE F == Unidades(f) \ ({d} \X (1..f[d]))
             G == Unidades(g) \ ({d} \X (1..g[d]))
  <2>1. ASSUME NEW u \in F PROVE u \in G
    <3>1. u = <<u[1], u[2]>> /\ u[1] \in D /\ u[2] \in 1..f[u[1]] /\ u[1] # d
      BY UnidadesDe
    <3>2. u[2] \in 1..g[u[1]]
      BY <3>1
    <3>3. <<u[1], u[2]>> \in Unidades(g)
      BY <3>1, <3>2, UnidadesDe
    <3> QED
      BY <3>1, <3>3
  <2>2. ASSUME NEW u \in G PROVE u \in F
    <3>1. u = <<u[1], u[2]>> /\ u[1] \in D /\ u[2] \in 1..g[u[1]] /\ u[1] # d
      BY UnidadesDe
    <3>2. u[2] \in 1..f[u[1]]
      BY <3>1
    <3>3. <<u[1], u[2]>> \in Unidades(f)
      BY <3>1, <3>2, UnidadesDe
    <3> QED
      BY <3>1, <3>3
  <2> QED
    BY <2>1, <2>2
<1>3. Suma(f) \in Nat /\ Suma(g) \in Nat /\ f[d] \in Nat /\ g[d] \in Nat
  BY SumaTipo
<1>4. Suma(f) - f[d] = Suma(g) - g[d]
  BY <1>1, <1>2
<1> QED
  BY <1>3, <1>4

(* Two of them change. *)
LEMMA SumaCambioDos ==
  ASSUME NEW D, IsFiniteSet(D), NEW f \in [D -> Nat], NEW g \in [D -> Nat], NEW d \in D, NEW e \in D,
         d # e, \A x \in D \ {d, e} : g[x] = f[x]
  PROVE  Suma(g) = Suma(f) - f[d] - f[e] + g[d] + g[e]
<1> DEFINE h == [f EXCEPT ![d] = g[d]]
<1>1. h \in [D -> Nat] /\ h[d] = g[d] /\ h[e] = f[e] /\ \A x \in D \ {d} : h[x] = f[x]
  OBVIOUS
<1>2. \A x \in D \ {e} : g[x] = h[x]
  OBVIOUS
<1> HIDE DEF h
<1>3. Suma(h) = Suma(f) - f[d] + h[d]
  BY <1>1, SumaCambio
<1>4. Suma(g) = Suma(h) - h[e] + g[e]
  BY <1>1, <1>2, SumaCambio
<1>5. Suma(f) \in Nat /\ Suma(g) \in Nat /\ Suma(h) \in Nat /\ f[d] \in Nat /\ g[d] \in Nat /\ f[e] \in Nat /\ g[e] \in Nat
  BY <1>1, SumaTipo
<1> QED
  BY <1>1, <1>3, <1>4, <1>5

LEMMA SumaNula ==
  ASSUME NEW D, IsFiniteSet(D), NEW f \in [D -> Nat]
  PROVE  Suma(f) = 0 <=> \A d \in D : f[d] = 0
<1>1. IsFiniteSet(Unidades(f)) /\ Suma(f) \in Nat
  BY SumaTipo
<1>2. Suma(f) = 0 <=> Unidades(f) = {}
  BY <1>1, FS_EmptySet DEF Suma
<1>3. ASSUME Unidades(f) = {}, NEW d \in D PROVE f[d] = 0
  <2>1. <<d, 1>> \notin Unidades(f) /\ f[d] \in Nat
    BY <1>3
  <2> QED
    BY <2>1, UnidadesDe
<1>4. ASSUME \A d \in D : f[d] = 0 PROVE Unidades(f) = {}
  BY <1>4, UnidadesDe
<1> QED
  BY <1>2, <1>3, <1>4

(* The elements of a finite set, counted by what a function makes of them. *)
LEMMA Fibras ==
  ASSUME NEW D, IsFiniteSet(D)
  PROVE  \A T, h : IsFiniteSet(T) /\ h \in [T -> D] =>
           Suma([d \in D |-> Cardinality({t \in T : h[t] = d})]) = Cardinality(T)
<1> DEFINE Caso(T, h) == Suma([d \in D |-> Cardinality({t \in T : h[t] = d})]) = Cardinality(T)
           N == {n \in Nat : \A T, h : IsFiniteSet(T) /\ Cardinality(T) = n /\ h \in [T -> D] => Caso(T, h)}
<1>1. ASSUME NEW T, NEW h, IsFiniteSet(T), h \in [T -> D]
      PROVE  [d \in D |-> Cardinality({t \in T : h[t] = d})] \in [D -> Nat]
  <2>1. ASSUME NEW d \in D PROVE Cardinality({t \in T : h[t] = d}) \in Nat
    <3>1. {t \in T : h[t] = d} \in SUBSET T
      OBVIOUS
    <3>2. IsFiniteSet({t \in T : h[t] = d})
      BY <1>1, <3>1, FS_Subset
    <3> QED
      BY <3>2, FS_CardinalityType
  <2> QED
    BY <2>1
<1>2. 0 \in N
  <2> SUFFICES ASSUME NEW T, NEW h, IsFiniteSet(T), Cardinality(T) = 0, h \in [T -> D] PROVE Caso(T, h)
    OBVIOUS
  <2> DEFINE f == [d \in D |-> Cardinality({t \in T : h[t] = d})]
  <2>1. T = {}
    BY FS_EmptySet
  <2>2. \A d \in D : f[d] = 0
    BY <2>1, FS_EmptySet
  <2>3. f \in [D -> Nat]
    BY <2>2
  <2> HIDE DEF f
  <2>4. Suma(f) = 0
    BY <2>2, <2>3, SumaNula
  <2> QED
    BY <2>4 DEF f
<1>3. ASSUME NEW n \in N PROVE n + 1 \in N
  <2> SUFFICES ASSUME NEW T, NEW h, IsFiniteSet(T), Cardinality(T) = n + 1, h \in [T -> D] PROVE Caso(T, h)
    OBVIOUS
  <2>1. n \in Nat /\ T # {}
    BY FS_EmptySet
  <2>2. PICK x \in T : TRUE
    BY <2>1
  <2> DEFINE U == T \ {x}
             k == [t \in U |-> h[t]]
             f == [d \in D |-> Cardinality({t \in U : k[t] = d})]
             g == [d \in D |-> Cardinality({t \in T : h[t] = d})]
  <2>3. IsFiniteSet(U) /\ Cardinality(U) = n
    <3>1. IsFiniteSet(T \ {x}) /\ Cardinality(T \ {x}) = Cardinality(T) - 1
      BY <2>2, FS_RemoveElement
    <3> QED
      BY <2>1, <3>1
  <2>4. k \in [U -> D] /\ \A t \in U : k[t] = h[t]
    OBVIOUS
  <2>5. h[x] \in D
    OBVIOUS
  <2>6. Suma(f) = n /\ f \in [D -> Nat] /\ g \in [D -> Nat]
    <3> HIDE DEF U, k
    <3>1. Caso(U, k)
      BY <2>3, <2>4
    <3> QED
      BY <1>1, <2>3, <2>4, <3>1
  <2>7. ASSUME NEW d \in D \ {h[x]} PROVE g[d] = f[d]
    <3>1. {t \in T : h[t] = d} = {t \in U : k[t] = d}
      BY <2>4, <2>7
    <3> QED
      BY <3>1
  <2>8. g[h[x]] = f[h[x]] + 1
    <3> DEFINE A == {t \in U : k[t] = h[x]}
    <3>1. {t \in T : h[t] = h[x]} = A \cup {x} /\ x \notin A
      BY <2>2, <2>4
    <3>2. IsFiniteSet(A)
      <4>1. A \in SUBSET U
        OBVIOUS
      <4> QED
        BY <2>3, <4>1, FS_Subset
    <3>3. f[h[x]] = Cardinality(A) /\ g[h[x]] = Cardinality({t \in T : h[t] = h[x]})
      BY <2>5
    <3> HIDE DEF A, f, g
    <3>4. Cardinality(A \cup {x}) = Cardinality(A) + 1
      BY <3>1, <3>2, FS_AddElement
    <3> QED
      BY <3>1, <3>3, <3>4
  <2> HIDE DEF f, g
  <2>9. Suma(g) = Suma(f) - f[h[x]] + g[h[x]]
    BY <2>5, <2>6, <2>7, SumaCambio
  <2>10. f[h[x]] \in Nat
    BY <2>5, <2>6
  <2>11. Suma(g) = n + 1
    BY <2>1, <2>6, <2>8, <2>9, <2>10
  <2> QED
    BY <2>11 DEF g
<1>4. N = Nat
  <2> HIDE DEF N
  <2>1. N \in SUBSET Nat
    BY DEF N
  <2> QED
    BY <1>2, <1>3, <2>1, InduccionNat
<1> SUFFICES ASSUME NEW T, NEW h, IsFiniteSet(T), h \in [T -> D] PROVE Caso(T, h)
  OBVIOUS
<1>5. Cardinality(T) \in N
  BY <1>4, FS_CardinalityType
<1> QED
  BY <1>5

(* A table adds up to the same by rows and by columns. *)
LEMMA DobleSuma ==
  ASSUME NEW D, IsFiniteSet(D), NEW E, IsFiniteSet(E), NEW g \in [D -> [E -> Nat]]
  PROVE  Suma([d \in D |-> Suma(g[d])]) = Suma([e \in E |-> Suma([d \in D |-> g[d][e]])])
<1> DEFINE filas == [d \in D |-> Suma(g[d])]
           T == Unidades([x \in D \X E |-> g[x[1]][x[2]]])
           f == [x \in D \X E |-> g[x[1]][x[2]]]
           col(e) == [d \in D |-> g[d][e]]
           h1 == [t \in T |-> t[1][1]]
           h2 == [t \in T |-> t[1][2]]
<1>1. f \in [D \X E -> Nat] /\ IsFiniteSet(D \X E)
  BY FS_Product
<1>2. IsFiniteSet(T)
  <2> HIDE DEF f
  <2>1. T = Unidades(f)
    BY DEF f
  <2> HIDE DEF T
  <2> QED
    BY <1>1, <2>1, SumaTipo
<1>3. /\ \A x, k : <<x, k>> \in T <=> x \in D \X E /\ k \in 1..g[x[1]][x[2]]
      /\ \A u \in T : u = <<u[1], u[2]>> /\ u[1] \in D \X E /\ u[2] \in 1..g[u[1][1]][u[1][2]]
  <2>1. /\ \A x, k : <<x, k>> \in Unidades(f) <=> x \in D \X E /\ k \in 1..f[x]
        /\ \A u \in Unidades(f) : u = <<u[1], u[2]>> /\ u[1] \in D \X E /\ u[2] \in 1..f[u[1]]
    <3> HIDE DEF f
    <3> QED
      BY <1>1, UnidadesDe
  <2> QED
    BY <2>1
<1>4. h1 \in [T -> D] /\ h2 \in [T -> E]
  <2> HIDE DEF T
  <2>1. \A t \in T : t[1] \in D \X E
    BY <1>3
  <2> QED
    BY <2>1
<1>5. ASSUME NEW d \in D PROVE Cardinality({t \in T : h1[t] = d}) = Suma(g[d])
  <2> DEFINE A == {t \in T : t[1][1] = d}
             b == [u \in Unidades(g[d]) |-> <<<<d, u[1]>>, u[2]>>]
  <2>1. g[d] \in [E -> Nat]
    OBVIOUS
  <2>2. /\ \A x, k : <<x, k>> \in Unidades(g[d]) <=> x \in E /\ k \in 1..g[d][x]
        /\ \A u \in Unidades(g[d]) : u = <<u[1], u[2]>> /\ u[1] \in E /\ u[2] \in 1..g[d][u[1]]
    BY <2>1, UnidadesDe
  <2> HIDE DEF T
  <2>3. ASSUME NEW u \in Unidades(g[d]) PROVE b[u] \in A
    <3>1. b[u] = <<<<d, u[1]>>, u[2]>> /\ u[1] \in E /\ u[2] \in 1..g[d][u[1]]
      BY <2>2
    <3> QED
      BY <1>3, <3>1
  <2>4. ASSUME NEW u \in Unidades(g[d]), NEW v \in Unidades(g[d]), b[u] = b[v] PROVE u = v
    <3>1. u[1] = v[1] /\ u[2] = v[2]
      BY <2>4
    <3> QED
      BY <2>2, <3>1
  <2>5. ASSUME NEW t \in A PROVE \E u \in Unidades(g[d]) : b[u] = t
    <3>1. t = <<t[1], t[2]>> /\ t[1] \in D \X E /\ t[2] \in 1..g[t[1][1]][t[1][2]] /\ t[1][1] = d
      BY <1>3
    <3>2. t[1] = <<d, t[1][2]>> /\ t[1][2] \in E /\ t[2] \in 1..g[d][t[1][2]]
      BY <3>1
    <3>3. <<t[1][2], t[2]>> \in Unidades(g[d])
      BY <2>2, <3>2
    <3>4. b[<<t[1][2], t[2]>>] = t
      BY <3>1, <3>2, <3>3
    <3> QED
      BY <3>3, <3>4
  <2>6. b \in Bijection(Unidades(g[d]), A)
    <3>1. b \in [Unidades(g[d]) -> A]
      BY <2>3
    <3> HIDE DEF b, A
    <3> QED
      BY <2>4, <2>5, <3>1 DEF Bijection, Injection, IsInjective, Surjection
  <2>7. Cardinality(A) = Cardinality(Unidades(g[d]))
    <3>1. IsFiniteSet(Unidades(g[d]))
      BY <2>1, SumaTipo
    <3> HIDE DEF b, A
    <3> QED
      BY <2>6, <3>1, FS_Bijection DEF ExistsBijection
  <2>8. {t \in T : h1[t] = d} = A
    OBVIOUS
  <2> QED
    BY <2>7, <2>8 DEF Suma
<1>6. ASSUME NEW e \in E PROVE Cardinality({t \in T : h2[t] = e}) = Suma(col(e))
  <2> DEFINE A == {t \in T : t[1][2] = e}
             c == col(e)
             b == [u \in Unidades(c) |-> <<<<u[1], e>>, u[2]>>]
  <2>1. c \in [D -> Nat] /\ \A d \in D : c[d] = g[d][e]
    OBVIOUS
  <2> HIDE DEF c
  <2>2. /\ \A x, k : <<x, k>> \in Unidades(c) <=> x \in D /\ k \in 1..g[x][e]
        /\ \A u \in Unidades(c) : u = <<u[1], u[2]>> /\ u[1] \in D /\ u[2] \in 1..g[u[1]][e]
    BY <2>1, UnidadesDe
  <2> HIDE DEF T
  <2>3. ASSUME NEW u \in Unidades(c) PROVE b[u] \in A
    <3>1. b[u] = <<<<u[1], e>>, u[2]>> /\ u[1] \in D /\ u[2] \in 1..g[u[1]][e]
      BY <2>2
    <3> QED
      BY <1>3, <3>1
  <2>4. ASSUME NEW u \in Unidades(c), NEW v \in Unidades(c), b[u] = b[v] PROVE u = v
    <3>1. u[1] = v[1] /\ u[2] = v[2]
      BY <2>4
    <3> QED
      BY <2>2, <3>1
  <2>5. ASSUME NEW t \in A PROVE \E u \in Unidades(c) : b[u] = t
    <3>1. t = <<t[1], t[2]>> /\ t[1] \in D \X E /\ t[2] \in 1..g[t[1][1]][t[1][2]] /\ t[1][2] = e
      BY <1>3
    <3>2. t[1] = <<t[1][1], e>> /\ t[1][1] \in D /\ t[2] \in 1..g[t[1][1]][e]
      BY <3>1
    <3>3. <<t[1][1], t[2]>> \in Unidades(c)
      BY <2>2, <3>2
    <3>4. b[<<t[1][1], t[2]>>] = t
      BY <3>1, <3>2, <3>3
    <3> QED
      BY <3>3, <3>4
  <2>6. b \in Bijection(Unidades(c), A)
    <3>1. b \in [Unidades(c) -> A]
      BY <2>3
    <3> HIDE DEF b, A
    <3> QED
      BY <2>4, <2>5, <3>1 DEF Bijection, Injection, IsInjective, Surjection
  <2>7. Cardinality(A) = Cardinality(Unidades(c))
    <3>1. IsFiniteSet(Unidades(c))
      BY <2>1, SumaTipo
    <3> HIDE DEF b, A
    <3> QED
      BY <2>6, <3>1, FS_Bijection DEF ExistsBijection
  <2>8. {t \in T : h2[t] = e} = A
    OBVIOUS
  <2> QED
    BY <2>7, <2>8 DEF Suma, c
<1>7. Suma([d \in D |-> Cardinality({t \in T : h1[t] = d})]) = Cardinality(T)
  <2>1. IsFiniteSet(T) /\ h1 \in [T -> D]
    BY <1>2, <1>4
  <2> HIDE DEF T, h1, h2, f, filas
  <2>2. \A U, h : IsFiniteSet(U) /\ h \in [U -> D] =>
          Suma([d \in D |-> Cardinality({t \in U : h[t] = d})]) = Cardinality(U)
    BY Fibras, Zenon
  <2> QED
    BY <2>1, <2>2, Zenon
<1>8. Suma([e \in E |-> Cardinality({t \in T : h2[t] = e})]) = Cardinality(T)
  <2> HIDE DEF T, h2
  <2> QED
    BY <1>2, <1>4, Fibras
<1>9. [d \in D |-> Cardinality({t \in T : h1[t] = d})] = [d \in D |-> Suma(g[d])]
  <2> HIDE DEF T, h1
  <2> QED
    BY <1>5
<1>10. [e \in E |-> Cardinality({t \in T : h2[t] = e})] = [e \in E |-> Suma(col(e))]
  <2> HIDE DEF T, h2, col
  <2> QED
    BY <1>6
<1> HIDE DEF T, h1, h2
<1> QED
  BY <1>7, <1>8, <1>9, <1>10

-----------------------------------------------------------------------------
(* Lists.                                                                  *)

LEMMA VecesTipo ==
  ASSUME NEW S, NEW s \in Seq(S), NEW x
  PROVE  Veces(x, s) \in Nat /\ (Veces(x, s) > 0 <=> Contains(s, x))
<1>1. Veces(x, s) = Cuantos(s, {x})
  BY DEF Veces, Cuantos
<1>2. Cuantos(s, {x}) \in Nat /\ (Cuantos(s, {x}) = 0 <=> \A i \in DOMAIN s : s[i] \notin {x})
  BY CuantosTipo
<1>3. DOMAIN s = 1..Len(s)
  BY LenProperties
<1> QED
  BY <1>1, <1>2, <1>3 DEF Contains

LEMMA VecesVacia ==
  ASSUME NEW x
  PROVE  Veces(x, <<>>) = 0
<1>1. Veces(x, <<>>) = Cuantos(<<>>, {x})
  BY DEF Veces, Cuantos
<1> QED
  BY <1>1, CuantosVacia

LEMMA VecesAppend ==
  ASSUME NEW S, NEW s \in Seq(S), NEW y \in S, NEW x
  PROVE  /\ Append(s, y) \in Seq(S) /\ Len(Append(s, y)) = Len(s) + 1
         /\ Veces(x, Append(s, y)) = Veces(x, s) + (IF x = y THEN 1 ELSE 0)
<1>1. Veces(x, s) = Cuantos(s, {x}) /\ Veces(x, Append(s, y)) = Cuantos(Append(s, y), {x})
  BY DEF Veces, Cuantos
<1>2. Cuantos(Append(s, y), {x}) = Cuantos(s, {x}) + (IF y \in {x} THEN 1 ELSE 0)
  BY CuantosAppend
<1>3. Append(s, y) \in Seq(S) /\ Len(Append(s, y)) = Len(s) + 1
  BY AppendProperties
<1> QED
  BY <1>1, <1>2, <1>3

(* The first entry that is y is taken out. *)
LEMMA VecesRemoveFirst ==
  ASSUME NEW S, NEW s \in Seq(S), NEW y, Contains(s, y), NEW x
  PROVE  /\ RemoveFirst(s, y) \in Seq(S) /\ Len(RemoveFirst(s, y)) = Len(s) - 1 /\ Len(s) > 0
         /\ Veces(x, RemoveFirst(s, y)) = Veces(x, s) - (IF x = y THEN 1 ELSE 0)
<1> DEFINE I == {i \in 1..Len(s) : s[i] = y}
           k == Min(I)
<1>1. Len(s) \in Nat /\ DOMAIN s = 1..Len(s)
  BY LenProperties
<1>2. k \in DOMAIN s /\ s[k] = y
  <2>1. I # {} /\ I \in SUBSET Nat
    BY <1>1 DEF Contains
  <2>2. Min(I) \in I
    BY <2>1, MinEsElemento
  <2> QED
    BY <1>1, <2>2
<1>3. RemoveFirst(s, y) = RemoveAt(s, k)
  <2>1. SelectInSeq(s, LAMBDA v : v = y) = k
    BY <1>1, <1>2 DEF SelectInSeq
  <2>2. \E i \in 1..Len(s) : s[i] = y
    BY <1>1, <1>2
  <2> HIDE DEF k, I
  <2> QED
    BY <2>1, <2>2 DEF RemoveFirst
<1> HIDE DEF k, I
<1>4. RemoveAt(s, k) \in Seq(S) /\ Len(RemoveAt(s, k)) = Len(s) - 1
  BY <1>2, RemoveAtElementos
<1>5. Cuantos(RemoveAt(s, k), {x}) = Cuantos(s, {x}) - (IF s[k] \in {x} THEN 1 ELSE 0)
  BY <1>2, CuantosRemoveAt
<1>6. Veces(x, s) = Cuantos(s, {x}) /\ Veces(x, RemoveAt(s, k)) = Cuantos(RemoveAt(s, k), {x})
  BY DEF Veces, Cuantos
<1> QED
  BY <1>1, <1>2, <1>3, <1>4, <1>5, <1>6

(* There is a place where d is least. *)
LEMMA MasCercaEsta ==
  ASSUME NEW I \in SUBSET Nat, I # {}, NEW d \in [I -> Nat]
  PROVE  MasCerca(d) \in I
<1> DEFINE V == {d[i] : i \in I}
<1>1. V \in SUBSET Nat /\ V # {}
  OBVIOUS
<1>2. PICK v \in V : \A w \in V : v <= w
  BY <1>1, MinimoNat
<1> DEFINE J == {i \in I : d[i] = v}
<1>3. J \in SUBSET Nat /\ J # {}
  BY <1>2
<1>4. PICK i \in J : \A j \in J : i <= j
  BY <1>3, MinimoNat
<1>5. ASSUME NEW j \in I PROVE d[i] < d[j] \/ (d[i] = d[j] /\ i <= j)
  <2>1. d[i] = v /\ v <= d[j] /\ d[j] \in Nat /\ v \in Nat
    BY <1>1, <1>2, <1>4
  <2>2. CASE d[j] = v
    BY <1>4, <2>1, <2>2
  <2>3. CASE d[j] # v
    BY <2>1, <2>3
  <2> QED
    BY <2>2, <2>3
<1>6. i \in I /\ DOMAIN d = I
  OBVIOUS
<1>7. \E k \in DOMAIN d : \A j \in DOMAIN d : d[k] < d[j] \/ (d[k] = d[j] /\ k <= j)
  BY <1>5, <1>6
<1>8. MasCerca(d) \in DOMAIN d
  BY <1>7 DEF MasCerca
<1> QED
  BY <1>6, <1>8

LEMMA PrimeraParejaEsta ==
  ASSUME colas["BLOCKED"] \in Seq(Entrenadores), Parejas # {}
  PROVE  PrimeraPareja \in Parejas
<1>1. \A p \in Parejas : p = <<p[1], p[2]>> /\ p[1] \in Nat /\ p[2] \in Nat
  BY LenProperties DEF Parejas, Bloqueados
<1> DEFINE V == {p[1] : p \in Parejas}
<1> HIDE DEF Parejas
<1>2. V \in SUBSET Nat /\ V # {}
  BY <1>1
<1>3. PICK v \in V : \A w \in V : v <= w
  BY <1>2, MinimoNat
<1> DEFINE W == {p[2] : p \in {q \in Parejas : q[1] = v}}
<1>4. W \in SUBSET Nat /\ W # {}
  BY <1>1, <1>3
<1>5. PICK w \in W : \A x \in W : w <= x
  BY <1>4, MinimoNat
<1>6. PICK p \in Parejas : p[1] = v /\ p[2] = w
  OBVIOUS
<1>7. ASSUME NEW q \in Parejas PROVE p[1] < q[1] \/ (p[1] = q[1] /\ p[2] <= q[2])
  <2>1. v <= q[1] /\ q[1] \in Nat /\ v \in Nat
    BY <1>1, <1>2, <1>3
  <2>2. CASE q[1] = v
    BY <1>5, <1>6, <2>2
  <2>3. CASE q[1] # v
    BY <1>6, <2>1, <2>3
  <2> QED
    BY <2>2, <2>3
<1>8. \E r \in Parejas : \A q \in Parejas : r[1] < q[1] \/ (r[1] = q[1] /\ r[2] <= q[2])
  BY <1>7
<1> QED
  BY <1>8 DEF PrimeraPareja

(* A finite set of numbers has a first element, a second and so on. *)
LEMMA Enesimo ==
  \A J : J \in SUBSET Nat /\ IsFiniteSet(J) =>
    \A k \in 1..Cardinality(J) : \E i \in J : Cardinality({j \in J : j <= i}) = k
<1> DEFINE Caso(J) == \A k \in 1..Cardinality(J) : \E i \in J : Cardinality({j \in J : j <= i}) = k
           N == {n \in Nat : \A J : J \in SUBSET Nat /\ IsFiniteSet(J) /\ Cardinality(J) = n => Caso(J)}
<1>1. 0 \in N
  <2>1. ASSUME NEW J, Cardinality(J) = 0 PROVE Caso(J)
    BY <2>1
  <2> HIDE DEF Caso
  <2> QED
    BY <2>1
<1>2. ASSUME NEW n \in N PROVE n + 1 \in N
  <2> HIDE DEF Caso
  <2> SUFFICES ASSUME NEW J, J \in SUBSET Nat, IsFiniteSet(J), Cardinality(J) = n + 1 PROVE Caso(J)
    OBVIOUS
  <2> USE DEF Caso
  <2> SUFFICES ASSUME NEW k \in 1..Cardinality(J)
               PROVE  \E i \in J : Cardinality({j \in J : j <= i}) = k
    OBVIOUS
  <2>1. n \in Nat /\ J # {} /\ k \in 1..(n + 1)
    BY FS_EmptySet
  <2> DEFINE m == Max(J)
             H == J \ {m}
  <2>2. m \in J /\ \A y \in J : y <= m
    BY <2>1, MaxEsElemento
  <2> HIDE DEF m
  <2>3. IsFiniteSet(H) /\ Cardinality(H) = n
    <3>1. IsFiniteSet(J \ {m}) /\ Cardinality(J \ {m}) = Cardinality(J) - 1
      BY <2>2, FS_RemoveElement
    <3> QED
      BY <2>1, <3>1
  <2>4. CASE k = n + 1
    <3>1. {j \in J : j <= m} = J
      BY <2>2
    <3> QED
      BY <2>2, <2>4, <3>1
  <2>5. CASE k # n + 1
    <3>1. k \in 1..Cardinality(H)
      BY <2>1, <2>3, <2>5
    <3>2. Caso(H)
      BY <2>3
    <3>3. PICK i \in H : Cardinality({j \in H : j <= i}) = k
      BY <3>1, <3>2
    <3>4. ~(m <= i)
      BY <2>2, <3>3
    <3>5. {j \in H : j <= i} = {j \in J : j <= i}
      BY <3>4
    <3> QED
      BY <3>3, <3>5
  <2> QED
    BY <2>4, <2>5
<1>3. N = Nat
  <2> HIDE DEF N
  <2>1. N \in SUBSET Nat
    BY DEF N
  <2> QED
    BY <1>1, <1>2, <2>1, InduccionNat
<1> SUFFICES ASSUME NEW J, J \in SUBSET Nat, IsFiniteSet(J) PROVE Caso(J)
  OBVIOUS
<1>4. Cardinality(J) \in N
  BY <1>3, FS_CardinalityType
<1> QED
  BY <1>4

LEMMA EntradasTipo ==
  ASSUME NEW S, NEW s \in Seq(S), NEW I \in SUBSET DOMAIN s
  PROVE  Entradas(s, I) \in Seq(S)
<1>1. Len(s) \in Nat /\ DOMAIN s = 1..Len(s)
  BY LenProperties
<1>2. I \in SUBSET Nat /\ IsFiniteSet(I)
  <2>1. IsFiniteSet(1..Len(s))
    BY <1>1, FS_Interval
  <2> QED
    BY <1>1, <2>1, FS_Subset
<1>3. Cardinality(I) \in Nat
  BY <1>2, FS_CardinalityType
<1>4. ASSUME NEW k \in 1..Cardinality(I)
      PROVE  s[CHOOSE i \in I : Cardinality({j \in I : j <= i}) = k] \in S
  <2>1. \E i \in I : Cardinality({j \in I : j <= i}) = k
    BY <1>2, Enesimo
  <2>2. (CHOOSE i \in I : Cardinality({j \in I : j <= i}) = k) \in I
    BY <2>1
  <2> QED
    BY <1>1, <2>2, ElementOfSeq
<1>5. Entradas(s, I) \in [1..Cardinality(I) -> S]
  BY <1>4 DEF Entradas
<1> QED
  BY <1>3, <1>5, SeqDef

-----------------------------------------------------------------------------
(* The inductive invariant.                                                *)

(* What a trainer's thread has of the CPU: an order to run or a step.  It  *)
(* is in colaExecute as long as that.                                      *)
EnCPU(e) == hilos[e].turno + (IF hilos[e].paso \in {"decidir", "transicion"} THEN 1 ELSE 0)

Semaforos ==
  /\ sem.requeridos = Len(requeridos)
  /\ sem.listos = Len(colas["READY"])
  /\ sem.cpu + Len(colas["EXECUTE"]) = 1
  /\ sem.equipo = Len(colas["FINISHED"])
  /\ \A e \in Entrenadores : EnCPU(e) = Veces(e, colas["EXECUTE"])

(* Its thread swapped, and has not put the two in their queues yet. *)
Vuelve(e) == hilos[e].paso \in {"transicion", "asentar", "transicionSocio"}

(* Its CATCH was sent, or failed, and it is not in colaBlocked yet. *)
Enviando(e) == hilos[e].paso = "bloquear"

(* A thread that blocks sent a CATCH; one that swaps has a partner. *)
Hizo(e) ==
  /\ Enviando(e) => \E c \in DOMAIN catchs : catchs[c].de = e
  /\ Vuelve(e) => hilos[e].socio \in Entrenadores

(* The last CATCH of a trainer that blocks, when it is its own thread that *)
(* accounts for it, has not been accounted for.                            *)
SuUltimo(e, c) == catchs[c].de = e /\ \A d \in DOMAIN catchs : catchs[d].de = e => d <= c

PorBloquear(e) ==
  Enviando(e) =>
    \A c \in DOMAIN catchs : SuUltimo(e, c) /\ catchs[c].propio => catchs[c].paso = "fallido"

(* Nobody keeps what it still lacks. *)
SobraDeMas == \A e \in Entrenadores, s \in Especies : Veces(s, ent[e].sobra) > 0 => ent[e].falta[s] = 0

GlobalesCuadran ==
  \A s \in Especies :
    globales[s] + Suma([e \in Entrenadores |-> Veces(s, ent[e].sobra)])
      = Suma([e \in Entrenadores |-> ent[e].falta[s]])

CuposCuadran == \A e \in Entrenadores : ent[e].cupo + Len(ent[e].sobra) = Suma(ent[e].falta)

Cuentas == SobraDeMas /\ GlobalesCuadran /\ CuposCuadran

(* Each capture is an objective less, and then a token of sem.capturas. *)
PorSoltar == {c \in DOMAIN catchs : catchs[c].paso = "soltar"}

Capturas ==
  Suma(globales) + Cardinality(PorSoltar) + sem.capturas
    + (IF finCapturas THEN CantidadCapturas ELSE 0) = CantidadCapturas

General ==
  TypeOK /\ Semaforos /\ (\A e \in Entrenadores : Hizo(e) /\ PorBloquear(e)) /\ Cuentas /\ Capturas

(* The rest holds until a trainer that waits for a CAUGHT is chosen. *)
Suyas(e) ==
  Veces(e, colas["NEW"]) + Veces(e, colas["READY"]) + Veces(e, colas["EXECUTE"])
    + Veces(e, colas["BLOCKED"]) + Veces(e, colas["FINISHED"]) + (IF EnManos(e) THEN 1 ELSE 0)

UnaCola == \A e \in Entrenadores : Suyas(e) = 1

Esta(e, cola) == Veces(e, colas[cola]) = 1

(* The captures of a CATCH whose result was not dealt with. *)
Abierta(c) == catchs[c].paso \in {"fallido", "enBroker", "acreditar", "auxiliar"}

Elegida(e) == seleccion # Nadie /\ seleccion.entrenador = e

EnCaptura(e) == Elegida(e) \/ ent[e].captura # Nadie \/ Enviando(e) \/ ent[e].catch # Nadie

(* A capture under way is of a trainer that may capture, and is its only   *)
(* one.                                                                    *)
CapturaDe(e) ==
  /\ ent[e].cupo >= 0
  /\ EnCaptura(e) => ent[e].cupo > 0
  /\ ent[e].catch # Nadie => Esta(e, "BLOCKED")
  /\ Elegida(e) => ent[e].catch = Nadie /\ (Esta(e, "NEW") \/ Esta(e, "BLOCKED"))

CatchDe(c) ==
  Abierta(c) =>
    LET e == catchs[c].de IN
    /\ Enviando(e) \/ ent[e].catch # Nadie
    /\ \A d \in DOMAIN catchs : catchs[d].de = e =>
         /\ Abierta(d) => d = c
         /\ Enviando(e) => d <= c

UnaCaptura == (\A e \in Entrenadores : CapturaDe(e)) /\ (\A c \in DOMAIN catchs : CatchDe(c))

CuposDelTeam == Suma([e \in Entrenadores |-> ent[e].cupo]) = Suma(globales)

(* The swaps: a trainer on its way to its partner, and a thread that has   *)
(* swapped and has its partner to move still.                              *)
Va(e) == ent[e].destino \notin {Nadie, Colgado}

Espera(e, o) == (Va(e) /\ ent[e].destino.socio = o) \/ (Vuelve(e) /\ hilos[e].socio = o)

(* A partner waits in BLOCKED for one trainer, and for one swap with it.   *)
IntercambioDe(e) ==
  /\ Va(e) \/ Vuelve(e) => finCapturas
  /\ Va(e) => ent[e].ocupado /\ ~Esta(e, "BLOCKED") /\ hilos[e].paso \notin {"transicion", "asentar"}
  /\ \A o \in Entrenadores : Espera(e, o) =>
       /\ Esta(o, "BLOCKED") /\ ent[o].ocupado /\ ~Va(o)
       /\ \A f \in Entrenadores : Espera(f, o) => f = e
       /\ ~(Va(e) /\ ent[e].destino.socio = o /\ Vuelve(e) /\ hilos[e].socio = o)

Intercambios == \A e \in Entrenadores : IntercambioDe(e)

Ordenado == UnaCola /\ UnaCaptura /\ CuposDelTeam /\ Intercambios

IInv == General /\ (~reelegido => Ordenado)

-----------------------------------------------------------------------------
(* Types.                                                                  *)

LEMMA ColaTipo ==
  ASSUME TypeOK, NEW c \in Colas
  PROVE  /\ colas[c] \in Seq(Entrenadores) /\ Len(colas[c]) \in Nat /\ DOMAIN colas[c] = 1..Len(colas[c])
         /\ \A i \in DOMAIN colas[c] : colas[c][i] \in Entrenadores
         /\ \A x : Veces(x, colas[c]) \in Nat /\ (Veces(x, colas[c]) > 0 <=> Contains(colas[c], x))
<1>1. colas[c] \in Seq(Entrenadores)
  BY DEF TypeOK
<1>2. Len(colas[c]) \in Nat /\ DOMAIN colas[c] = 1..Len(colas[c])
  BY <1>1, LenProperties
<1>3. \A i \in DOMAIN colas[c] : colas[c][i] \in Entrenadores
  BY <1>1, <1>2, ElementOfSeq
<1> QED
  BY <1>1, <1>2, <1>3, VecesTipo

(* A trainer moves from a queue, if it is there, to another. *)
LEMMA Mover1Colas ==
  ASSUME TypeOK, NEW e \in Entrenadores, NEW de \in Colas, NEW a \in Colas, de # a,
         colas' = Mover1(e, de, a)
  PROVE  LET quita == IF Contains(colas[de], e) THEN 1 ELSE 0 IN
         /\ colas' \in [Colas -> Seq(Entrenadores)]
         /\ Len(colas'[de]) = Len(colas[de]) - quita
         /\ Len(colas'[a]) = Len(colas[a]) + 1
         /\ \A x : Veces(x, colas'[de]) = Veces(x, colas[de]) - (IF x = e THEN quita ELSE 0)
         /\ \A x : Veces(x, colas'[a]) = Veces(x, colas[a]) + (IF x = e THEN 1 ELSE 0)
         /\ \A c \in Colas \ {de, a} : colas'[c] = colas[c]
<1>1. colas \in [Colas -> Seq(Entrenadores)]
  BY DEF TypeOK
<1>2. /\ colas[de] \in Seq(Entrenadores) /\ Len(colas[de]) \in Nat /\ \A x : Veces(x, colas[de]) \in Nat
      /\ colas[a] \in Seq(Entrenadores)
  BY ColaTipo
<1>3. /\ colas' = [colas EXCEPT ![de] = RemoveFirst(colas[de], e), ![a] = Append(colas[a], e)]
      /\ colas'[de] = RemoveFirst(colas[de], e) /\ colas'[a] = Append(colas[a], e)
      /\ \A c \in Colas \ {de, a} : colas'[c] = colas[c]
  BY <1>1 DEF Mover1
<1>4. /\ Append(colas[a], e) \in Seq(Entrenadores) /\ Len(Append(colas[a], e)) = Len(colas[a]) + 1
      /\ \A x : Veces(x, Append(colas[a], e)) = Veces(x, colas[a]) + (IF x = e THEN 1 ELSE 0)
  BY <1>2, VecesAppend
<1>5. CASE Contains(colas[de], e)
  <2>1. /\ RemoveFirst(colas[de], e) \in Seq(Entrenadores) /\ Len(RemoveFirst(colas[de], e)) = Len(colas[de]) - 1
        /\ \A x : Veces(x, RemoveFirst(colas[de], e)) = Veces(x, colas[de]) - (IF x = e THEN 1 ELSE 0)
    BY <1>2, <1>5, VecesRemoveFirst
  <2>2. colas' \in [Colas -> Seq(Entrenadores)]
    BY <1>1, <1>3, <1>4, <2>1
  <2> QED
    BY <1>3, <1>4, <1>5, <2>1, <2>2
<1>6. CASE ~Contains(colas[de], e)
  <2>1. RemoveFirst(colas[de], e) = colas[de]
    BY <1>6 DEF RemoveFirst, Contains
  <2>2. colas' \in [Colas -> Seq(Entrenadores)]
    BY <1>1, <1>2, <1>3, <1>4, <2>1
  <2> QED
    BY <1>2, <1>3, <1>4, <1>6, <2>1, <2>2
<1> QED
  BY <1>5, <1>6

TSem ==
  [requeridos : Nat, seleccionar : Nat, listos : Nat, cpu : Nat, capturas : Nat, deadlock : Nat, equipo : Nat]

LEMMA SemTipo ==
  ASSUME TypeOK
  PROVE  /\ sem \in TSem
         /\ sem.requeridos \in Nat /\ sem.seleccionar \in Nat /\ sem.listos \in Nat /\ sem.cpu \in Nat
         /\ sem.capturas \in Nat /\ sem.deadlock \in Nat /\ sem.equipo \in Nat
<1>1. sem \in TSem
  BY DEF TypeOK, TSem
<1> QED
  BY <1>1 DEF TSem

(* The move of a trainer that is in the queue it leaves. *)
LEMMA Mover1Presente ==
  ASSUME TypeOK, NEW e \in Entrenadores, NEW de \in Colas, NEW a \in Colas, de # a,
         colas' = Mover1(e, de, a), Contains(colas[de], e)
  PROVE  /\ Len(colas'[de]) = Len(colas[de]) - 1
         /\ Len(colas'[a]) = Len(colas[a]) + 1
         /\ \A x : Veces(x, colas'[de]) = Veces(x, colas[de]) - (IF x = e THEN 1 ELSE 0)
         /\ \A c \in Colas \ {de, a} : colas'[c] = colas[c]
<1> DEFINE quita == IF Contains(colas[de], e) THEN 1 ELSE 0
<1>1. quita = 1
  OBVIOUS
<1> HIDE DEF quita
<1>2. /\ Len(colas'[de]) = Len(colas[de]) - quita
      /\ Len(colas'[a]) = Len(colas[a]) + 1
      /\ \A x : Veces(x, colas'[de]) = Veces(x, colas[de]) - (IF x = e THEN quita ELSE 0)
      /\ \A c \in Colas \ {de, a} : colas'[c] = colas[c]
  BY Mover1Colas DEF quita
<1> QED
  BY <1>1, <1>2

LEMMA EntTipo ==
  ASSUME TypeOK, NEW e \in Entrenadores
  PROVE  /\ ent[e] \in TEntrenador
         /\ \A y \in TEntrenador : [ent EXCEPT ![e] = y] \in [Entrenadores -> TEntrenador]
BY DEF TypeOK

LEMMA PokemonTipo ==
  ASSUME NEW p \in Pokemones
  PROVE  /\ p = <<p[1], p[2]>> /\ p[1] \in Mensajes /\ p[2] \in DOMAIN Lugares[p[1]]
         /\ EspecieDe(p) \in Especies /\ PosDe(p) \in Nat
<1>1. p = <<p[1], p[2]>> /\ p[1] \in Mensajes /\ p[2] \in DOMAIN Lugares[p[1]]
  BY DEF Pokemones
<1>2. Lugares[p[1]] \in Seq(Nat) /\ Especie[p[1]] \in Especies
  BY <1>1, TeamAssumption
<1>3. Lugares[p[1]][p[2]] \in Nat
  BY <1>1, <1>2, LenProperties, ElementOfSeq
<1> QED
  BY <1>1, <1>2, <1>3 DEF EspecieDe, PosDe

LEMMA DistanciaTipo ==
  ASSUME NEW a \in Nat, NEW b \in Nat
  PROVE  Distancia(a, b) \in Nat
BY DEF Distancia

LEMMA MetaTipo ==
  ASSUME TypeOK, NEW e \in Entrenadores, ~SinMeta(e)
  PROVE  /\ Meta(e) \in Nat
         /\ ~Captura(e) => ent[e].destino \in [socio : Entrenadores, pos : Nat] /\ Va(e)
<1>1. ent[e] \in TEntrenador
  BY EntTipo
<1>2. CASE Captura(e)
  <2>1. ent[e].captura \in Pokemones
    BY <1>1, <1>2 DEF TEntrenador, Captura
  <2> QED
    BY <1>2, <2>1, PokemonTipo DEF Meta
<1>3. CASE ~Captura(e)
  <2>1. ent[e].destino \in [socio : Entrenadores, pos : Nat] /\ ent[e].destino \notin {Nadie, Colgado}
    BY <1>1, <1>3 DEF TEntrenador, SinMeta
  <2>2. ent[e].destino.pos \in Nat
    BY <2>1
  <2> QED
    BY <1>3, <2>1, <2>2 DEF Meta, Va
<1> QED
  BY <1>2, <1>3

LEMMA InitTipos == Init => TypeOK
<1> SUFFICES ASSUME Init PROVE TypeOK
  OBVIOUS
<1>1. ASSUME NEW e \in Entrenadores PROVE Entrenador0(e) \in TEntrenador
  <2>1. Objetivo[e] \in [Especies -> Nat] /\ PosInicial[e] \in Nat
    BY TeamAssumption
  <2>2. Cupo(e) \in Nat
    BY <2>1, SumaTipo, TeamAssumption DEF Cupo
  <2>3. <<>> \in Seq(Especies)
    BY EmptySeq
  <2> QED
    BY <2>1, <2>2, <2>3 DEF Entrenador0, TEntrenador
<1>2. ent \in [Entrenadores -> TEntrenador]
  BY <1>1 DEF Init
<1>3. hilos \in [Entrenadores -> [paso : PasosHilo, turno : Nat, socio : Entrenadores \cup {Nadie}]]
  BY DEF Init, PasosHilo
<1>4. Cardinality(Entrenadores) \in Nat
  BY TeamAssumption, FS_CardinalityType
<1>5. colas \in [Colas -> Seq(Entrenadores)]
  <2>1. [e \in Entrenadores |-> e] \in [1..Cardinality(Entrenadores) -> Entrenadores]
    BY TeamAssumption
  <2>2. [e \in Entrenadores |-> e] \in Seq(Entrenadores)
    BY <1>4, <2>1, SeqDef
  <2>3. <<>> \in Seq(Entrenadores)
    BY EmptySeq
  <2> QED
    BY <2>2, <2>3 DEF Init, Colas
<1>6. globales \in [Especies -> Nat]
  <2>1. ASSUME NEW s \in Especies PROVE Suma([e \in Entrenadores |-> Objetivo[e][s]]) \in Nat
    <3>1. [e \in Entrenadores |-> Objetivo[e][s]] \in [Entrenadores -> Nat]
      BY TeamAssumption
    <3> QED
      BY <3>1, SumaTipo, TeamAssumption
  <2> QED
    BY <2>1 DEF Init, ObjetivosDelTeam
<1>7. sem \in [requeridos : Nat, seleccionar : Nat, listos : Nat, cpu : Nat, capturas : Nat,
               deadlock : Nat, equipo : Nat]
  BY <1>4 DEF Init
<1>8. requeridos \in Seq(Pokemones) /\ respaldo \in Seq(Pokemones)
  BY EmptySeq DEF Init
<1>9. DOMAIN mensajes = Mensajes /\ \A m \in Mensajes : mensajes[m] \in -1 .. Len(Lugares[m])
  <2>1. ASSUME NEW m \in Mensajes PROVE Len(Lugares[m]) \in Nat
    BY LenProperties, TeamAssumption
  <2> QED
    BY <2>1 DEF Init
<1>10. catchs \in Seq([de : Entrenadores, propio : BOOLEAN, fallo : BOOLEAN, paso : PasosCatch])
  BY EmptySeq DEF Init
<1>11. recibidos \in [Especies -> Nat] /\ seleccion = Nadie
  BY DEF Init
<1>12. finCapturas \in BOOLEAN /\ terminado \in BOOLEAN /\ caido \in BOOLEAN /\ derroche \in BOOLEAN
       /\ reelegido \in BOOLEAN
  BY DEF Init
<1> QED
  BY <1>2, <1>3, <1>5, <1>6, <1>7, <1>8, <1>9, <1>10, <1>11, <1>12 DEF TypeOK

(* The threads of the messages and of the selection. *)
LEMMA MensajesTipos ==
  ASSUME TypeOK, NEW m \in Mensajes, Recibir(m) \/ Incluir(m)
  PROVE  TypeOK'
<1>1. UNCHANGED <<ent, hilos, colas, globales, seleccion, catchs, finCapturas, terminado, caido, derroche, reelegido>>
  BY DEF Recibir, Incluir, fin
<1>2. Len(Lugares[m]) \in Nat /\ Lugares[m] \in Seq(Nat) /\ mensajes[m] \in -1 .. Len(Lugares[m]) /\ DOMAIN mensajes = Mensajes
  BY LenProperties, TeamAssumption DEF TypeOK
<1>3. \A n \in Mensajes : mensajes[n] \in -1 .. Len(Lugares[n])
  BY DEF TypeOK
<1>4. DOMAIN mensajes' = Mensajes /\ \A n \in Mensajes : mensajes'[n] \in -1 .. Len(Lugares[n])
  <2>1. CASE Recibir(m)
    <3>1. PICK x \in {0, Len(Lugares[m])} : mensajes' = [mensajes EXCEPT ![m] = x]
      BY <2>1 DEF Recibir
    <3>2. ASSUME NEW n \in Mensajes PROVE mensajes'[n] \in -1 .. Len(Lugares[n])
      BY <1>2, <1>3, <3>1
    <3> QED
      BY <1>2, <3>1, <3>2
  <2>2. CASE Incluir(m)
    <3>1. mensajes' = [mensajes EXCEPT ![m] = @ + 1] /\ mensajes[m] \in 0 .. (Len(Lugares[m]) - 1)
      BY <2>2 DEF Incluir
    <3>2. ASSUME NEW n \in Mensajes PROVE mensajes'[n] \in -1 .. Len(Lugares[n])
      BY <1>2, <1>3, <3>1
    <3> QED
      BY <1>2, <3>1, <3>2
  <2> QED
    BY <2>1, <2>2
<1>5. /\ requeridos' \in Seq(Pokemones) /\ respaldo' \in Seq(Pokemones) /\ recibidos' \in [Especies -> Nat]
      /\ sem' \in TSem
  <2>1. CASE Recibir(m)
    BY <2>1, SemTipo DEF Recibir, listas, TypeOK
  <2>2. CASE Incluir(m)
    <3> DEFINE p == <<m, mensajes[m] + 1>>
    <3>1. mensajes[m] \in 0 .. (Len(Lugares[m]) - 1)
      BY <2>2 DEF Incluir
    <3>2. mensajes[m] + 1 \in DOMAIN Lugares[m]
      BY <1>2, <3>1, LenProperties
    <3>3. p \in Pokemones
      BY <3>2 DEF Pokemones
    <3>4. requeridos \in Seq(Pokemones) /\ respaldo \in Seq(Pokemones)
      BY DEF TypeOK
    <3>5. Append(requeridos, p) \in Seq(Pokemones) /\ Append(respaldo, p) \in Seq(Pokemones)
      BY <3>3, <3>4, AppendProperties
    <3>6. requeridos' \in {requeridos, Append(requeridos, p)} /\ respaldo' \in {respaldo, Append(respaldo, p)}
      BY <2>2 DEF Incluir
    <3>7. /\ recibidos' = recibidos \/ recibidos' = [recibidos EXCEPT ![Especie[m]] = @ + 1]
          /\ sem' = sem \/ sem' = [sem EXCEPT !.requeridos = @ + 1]
      BY <2>2 DEF Incluir
    <3> HIDE DEF p
    <3>8. requeridos' \in Seq(Pokemones) /\ respaldo' \in Seq(Pokemones)
      BY <3>4, <3>5, <3>6
    <3>9. recibidos' \in [Especies -> Nat]
      <4>1. recibidos \in [Especies -> Nat] /\ Especie[m] \in Especies
        BY TeamAssumption DEF TypeOK
      <4> QED
        BY <3>7, <4>1
    <3>10. sem' \in TSem
      BY <3>7, SemTipo DEF TSem
    <3> QED
      BY <3>8, <3>9, <3>10
  <2> QED
    BY <2>1, <2>2
<1> QED
  BY <1>1, <1>4, <1>5 DEF TypeOK, TSem

(* The trainer and the pokemon that Elegir chooses are there. *)
LEMMA ElegidoTipo ==
  ASSUME TypeOK, Semaforos, PuedeElegir, ~ElegirCae
  PROVE  /\ Elegido \in Entrenadores /\ Disponible(Elegido)
         /\ Contains(colas["NEW"], Elegido) \/ Contains(colas["BLOCKED"], Elegido)
         /\ MasCerca([k \in DOMAIN requeridos |-> Distancia(ent[Elegido].pos, PosDe(requeridos[k]))])
              \in DOMAIN requeridos
<1> DEFINE nueva == colas["NEW"]
           bloq == colas["BLOCKED"]
<1>1. /\ nueva \in Seq(Entrenadores) /\ bloq \in Seq(Entrenadores)
      /\ DOMAIN bloq = 1..Len(bloq) /\ Len(bloq) \in Nat /\ Len(nueva) \in Nat
  BY ColaTipo DEF Colas
<1>2. /\ EnEspera \in Seq(Entrenadores) /\ Len(EnEspera) = Len(nueva) + Len(bloq)
      /\ \A i \in 1..(Len(nueva) + Len(bloq)) :
           EnEspera[i] = IF i <= Len(nueva) THEN nueva[i] ELSE bloq[i - Len(nueva)]
  BY <1>1, ConcatProperties DEF EnEspera
<1>3. requeridos \in Seq(Pokemones) /\ Len(requeridos) \in Nat /\ DOMAIN requeridos = 1..Len(requeridos)
  BY LenProperties DEF TypeOK
<1>4. Len(requeridos) > 0
  BY DEF Semaforos, PuedeElegir
<1>5. \A k \in DOMAIN requeridos : PosDe(requeridos[k]) \in Nat
  BY <1>3, ElementOfSeq, PokemonTipo
<1>6. \A e \in Entrenadores : ent[e].pos \in Nat
  BY EntTipo DEF TEntrenador
<1>7. /\ Elegido \in Entrenadores /\ Disponible(Elegido)
      /\ Contains(nueva, Elegido) \/ Contains(bloq, Elegido)
  <2>1. CASE UnPokemon
    <3> DEFINE I == Disponibles(EnEspera)
               d == [i \in I |-> Distancia(ent[EnEspera[i]].pos, PosDe(requeridos[1]))]
    <3>1. Len(EnEspera) \in Nat /\ DOMAIN EnEspera = 1..Len(EnEspera)
      BY <1>2, LenProperties
    <3>2. I \in SUBSET Nat /\ I # {} /\ I \subseteq DOMAIN EnEspera
      BY <2>1, <3>1 DEF Disponibles, UnPokemon
    <3>3. \A i \in I : EnEspera[i] \in Entrenadores /\ Disponible(EnEspera[i])
      BY <1>2, <3>1, ElementOfSeq DEF Disponibles
    <3>4. d \in [I -> Nat]
      <4>1. ASSUME NEW i \in I PROVE Distancia(ent[EnEspera[i]].pos, PosDe(requeridos[1])) \in Nat
        <5>1. 1 \in DOMAIN requeridos
          BY <1>3, <1>4
        <5>2. PosDe(requeridos[1]) \in Nat /\ ent[EnEspera[i]].pos \in Nat
          BY <1>5, <1>6, <3>3, <5>1
        <5> QED
          BY <5>2, DistanciaTipo
      <4> QED
        BY <4>1
    <3> HIDE DEF I, d
    <3>5. MasCerca(d) \in I
      BY <3>2, <3>4, MasCercaEsta
    <3>6. Elegido = EnEspera[MasCerca(d)]
      BY <2>1 DEF Elegido, MasCercano, d, I
    <3>7. PICK i \in I : i = MasCerca(d)
      BY <3>5
    <3>8. i \in 1..(Len(nueva) + Len(bloq))
      BY <1>2, <3>1, <3>2
    <3>9. CASE i <= Len(nueva)
      <4>1. EnEspera[i] = nueva[i]
        BY <1>2, <3>8, <3>9
      <4>3. i \in 1..Len(nueva) /\ DOMAIN nueva = 1..Len(nueva)
        <5> HIDE DEF nueva, bloq
        <5> QED
          BY <1>1, <3>8, <3>9, LenProperties
      <4>2. Contains(nueva, EnEspera[i])
        BY <4>1, <4>3 DEF Contains
      <4> QED
        BY <3>3, <3>6, <3>7, <4>2
    <3>10. CASE ~(i <= Len(nueva))
      <4>1. EnEspera[i] = bloq[i - Len(nueva)]
        BY <1>2, <3>8, <3>10
      <4>3. i - Len(nueva) \in 1..Len(bloq)
        <5> HIDE DEF nueva, bloq
        <5> QED
          BY <1>1, <3>8, <3>10
      <4>2. Contains(bloq, EnEspera[i])
        BY <4>1, <4>3 DEF Contains
      <4> QED
        BY <3>3, <3>6, <3>7, <4>2
    <3> QED
      BY <3>9, <3>10
  <2>2. CASE ~UnPokemon
    <3> DEFINE I == Disponibles(bloq)
    <3>1. I # {} /\ I \in SUBSET Nat
      BY <1>1, <2>2 DEF ElegirCae, Disponibles
    <3>2. Min(I) \in I
      BY <3>1, MinEsElemento
    <3>3. Elegido = bloq[Min(I)]
      BY <2>2 DEF Elegido
    <3>4. PICK i \in I : i = Min(I)
      BY <3>2
    <3>5. i \in 1..Len(bloq) /\ Disponible(bloq[i])
      BY <1>1 DEF Disponibles
    <3>6. bloq[i] \in Entrenadores
      BY <1>1, <3>5, ElementOfSeq
    <3> QED
      BY <3>3, <3>4, <3>5, <3>6 DEF Contains
  <2> QED
    BY <2>1, <2>2
<1>8. MasCerca([k \in DOMAIN requeridos |-> Distancia(ent[Elegido].pos, PosDe(requeridos[k]))]) \in DOMAIN requeridos
  <2> DEFINE d == [k \in DOMAIN requeridos |-> Distancia(ent[Elegido].pos, PosDe(requeridos[k]))]
  <2>1. d \in [DOMAIN requeridos -> Nat]
    BY <1>5, <1>6, <1>7, DistanciaTipo
  <2>2. DOMAIN requeridos \in SUBSET Nat /\ DOMAIN requeridos # {}
    BY <1>3, <1>4
  <2> HIDE DEF d
  <2>3. MasCerca(d) \in DOMAIN requeridos
    BY <2>1, <2>2, MasCercaEsta
  <2> QED
    BY <2>3 DEF d
<1> QED
  BY <1>7, <1>8

LEMMA ElegirTipos ==
  ASSUME TypeOK, Semaforos, Elegir
  PROVE  TypeOK' /\ Len(requeridos') = Len(requeridos) - 1
<1> DEFINE i == MasCerca([k \in DOMAIN requeridos |-> Distancia(ent[Elegido].pos, PosDe(requeridos[k]))])
<1>1. PuedeElegir /\ ~ElegirCae
  BY DEF Elegir
<1>2. Elegido \in Entrenadores /\ i \in DOMAIN requeridos
  BY <1>1, ElegidoTipo
<1>3. /\ seleccion' = [entrenador |-> Elegido, pokemon |-> requeridos[i]]
      /\ requeridos' = RemoveAt(requeridos, i)
      /\ sem' = [sem EXCEPT !.requeridos = @ - 1, !.seleccionar = @ - 1]
      /\ reelegido' = (reelegido \/ ent[Elegido].catch # Nadie)
      /\ UNCHANGED <<ent, hilos, colas, globales, respaldo, liberados, recibidos, mensajes, catchs, finCapturas, terminado, caido, derroche>>
  BY DEF Elegir, entrada, fin
<1> HIDE DEF i
<1>4. requeridos \in Seq(Pokemones)
  BY DEF TypeOK
<1>5. requeridos[i] \in Pokemones
  BY <1>2, <1>4, LenProperties, ElementOfSeq
<1>6. requeridos' \in Seq(Pokemones) /\ Len(requeridos') = Len(requeridos) - 1
  BY <1>2, <1>3, <1>4, RemoveAtElementos
<1>7. sem' \in TSem
  <2>1. sem.requeridos - 1 \in Nat /\ sem.seleccionar - 1 \in Nat
    BY <1>1, SemTipo DEF PuedeElegir
  <2> QED
    BY <1>3, <2>1, SemTipo DEF TSem
<1>8. seleccion' \in [entrenador : Entrenadores, pokemon : Pokemones] \cup {Nadie}
  BY <1>2, <1>3, <1>5
<1>9. reelegido' \in BOOLEAN
  BY <1>3 DEF TypeOK
<1> QED
  BY <1>3, <1>6, <1>7, <1>8, <1>9 DEF TypeOK, TSem

LEMMA SacarTipos ==
  ASSUME TypeOK, Sacar
  PROVE  /\ TypeOK' /\ seleccion.entrenador \in Entrenadores /\ seleccion.pokemon \in Pokemones
         /\ ColaDe(seleccion.entrenador) \in {"NEW", "BLOCKED"}
         /\ Contains(colas[ColaDe(seleccion.entrenador)], seleccion.entrenador)
<1> DEFINE e == seleccion.entrenador
<1>1. e \in Entrenadores /\ seleccion.pokemon \in Pokemones
  BY DEF Sacar, TypeOK
<1>2. ColaDe(e) \in {"NEW", "BLOCKED"} /\ Contains(colas[ColaDe(e)], e)
  BY DEF Sacar, SacarCae, ColaDe
<1>3. /\ colas' = Mover1(e, ColaDe(e), "READY")
      /\ ent' = [ent EXCEPT ![e].captura = seleccion.pokemon]
      /\ sem' = [sem EXCEPT !.listos = @ + 1] /\ seleccion' = Nadie
      /\ UNCHANGED <<hilos, globales, requeridos, respaldo, liberados, recibidos, mensajes, catchs, finCapturas, terminado,
                     caido, derroche, reelegido>>
  BY DEF Sacar, listas, entrada, fin
<1> HIDE DEF e
<1>4. colas' \in [Colas -> Seq(Entrenadores)]
  BY <1>1, <1>2, <1>3, Mover1Colas DEF Colas
<1>5. ent' \in [Entrenadores -> TEntrenador]
  <2>1. [ent[e] EXCEPT !.captura = seleccion.pokemon] \in TEntrenador
    BY <1>1, EntTipo DEF TEntrenador
  <2> QED
    BY <1>1, <1>3, <2>1, EntTipo
<1>6. sem' \in TSem
  BY <1>3, SemTipo DEF TSem
<1>7. TypeOK'
  BY <1>3, <1>4, <1>5, <1>6 DEF TypeOK, TSem
<1> QED
  BY <1>1, <1>2, <1>7 DEF e

(* The fields of a thread. *)
THilo == [paso : PasosHilo, turno : Nat, socio : Entrenadores \cup {Nadie}]

LEMMA HiloTipo ==
  ASSUME TypeOK, NEW e \in Entrenadores
  PROVE  /\ hilos[e] \in THilo /\ hilos[e].paso \in PasosHilo /\ hilos[e].turno \in Nat
         /\ hilos[e].socio \in Entrenadores \cup {Nadie}
         /\ \A y \in THilo : [hilos EXCEPT ![e] = y] \in [Entrenadores -> THilo]
         /\ \A p : Ir(e, p) => hilos' = [hilos EXCEPT ![e] = [hilos[e] EXCEPT !.paso = p]]
<1>1. hilos \in [Entrenadores -> THilo]
  BY DEF TypeOK, THilo
<1> QED
  BY <1>1 DEF THilo, Ir

(* The planner and the threads of the trainers. *)
LEMMA PlanificarTipos ==
  ASSUME TypeOK, Semaforos, Planificar
  PROVE  /\ TypeOK'
         /\ \E e \in Entrenadores :
              /\ Contains(colas["READY"], e)
              /\ colas' = Mover1(e, "READY", "EXECUTE")
              /\ hilos' = [hilos EXCEPT ![e].turno = @ + 1]
              /\ \E q, k \in Nat : ent' = [ent EXCEPT ![e].quantum = q, ![e].contador = k]
<1> USE DEF Colas
<1>1. /\ Len(colas["READY"]) \in Nat /\ DOMAIN colas["READY"] = 1..Len(colas["READY"])
      /\ \A i \in DOMAIN colas["READY"] : colas["READY"][i] \in Entrenadores
  BY ColaTipo
<1>2. sem.listos > 0 /\ sem.cpu > 0 /\ Len(colas["READY"]) > 0
  BY DEF Planificar, PuedePlanificar, Semaforos
<1>3. PICK i \in Elegibles :
        LET e == colas["READY"][i] IN
        /\ colas' = Mover1(e, "READY", "EXECUTE")
        /\ ent' = [ent EXCEPT ![e].quantum = QuantumOtorgado(e), ![e].contador = CiclosDeIntercambio(e)]
        /\ hilos' = [hilos EXCEPT ![e].turno = @ + 1]
  BY DEF Planificar
<1>4. i \in DOMAIN colas["READY"]
  BY <1>1, <1>2, <1>3 DEF Elegibles
<1> DEFINE e == colas["READY"][i]
<1>5. e \in Entrenadores /\ Contains(colas["READY"], e)
  BY <1>1, <1>4 DEF Contains
<1>6. /\ colas' = Mover1(e, "READY", "EXECUTE")
      /\ ent' = [ent EXCEPT ![e].quantum = QuantumOtorgado(e), ![e].contador = CiclosDeIntercambio(e)]
      /\ hilos' = [hilos EXCEPT ![e].turno = @ + 1]
      /\ sem' = [sem EXCEPT !.listos = @ - 1, !.cpu = @ - 1]
      /\ UNCHANGED <<globales, requeridos, respaldo, recibidos, mensajes, seleccion, catchs, finCapturas, terminado,
                     caido, derroche, reelegido>>
  BY <1>3 DEF Planificar, listas, entrada, fin
<1> HIDE DEF e
<1>7. QuantumOtorgado(e) \in Nat /\ CiclosDeIntercambio(e) \in Nat
  <2>1. ent[e].quantum \in Nat /\ ent[e].contador \in Nat
    BY <1>5, EntTipo DEF TEntrenador
  <2> QED
    BY <2>1, TeamAssumption DEF QuantumOtorgado, CiclosDeIntercambio
<1>8. colas' \in [Colas -> Seq(Entrenadores)]
  BY <1>5, <1>6, Mover1Colas
<1>9. ent' \in [Entrenadores -> TEntrenador]
  <2>1. [ent[e] EXCEPT !.quantum = QuantumOtorgado(e), !.contador = CiclosDeIntercambio(e)] \in TEntrenador
    BY <1>5, <1>7, EntTipo DEF TEntrenador
  <2>2. ent' = [ent EXCEPT ![e] = [ent[e] EXCEPT !.quantum = QuantumOtorgado(e), !.contador = CiclosDeIntercambio(e)]]
    BY <1>5, <1>6 DEF TypeOK
  <2> QED
    BY <1>5, <2>1, <2>2, EntTipo
<1>10. sem' \in TSem
  <2>1. sem.listos - 1 \in Nat /\ sem.cpu - 1 \in Nat
    BY <1>2, SemTipo
  <2> QED
    BY <1>6, <2>1, SemTipo DEF TSem
<1>11. hilos' \in [Entrenadores -> THilo]
  <2>1. hilos[e].turno + 1 \in Nat /\ hilos[e] \in THilo
    BY <1>5, HiloTipo
  <2>2. [hilos[e] EXCEPT !.turno = hilos[e].turno + 1] \in THilo
    BY <2>1 DEF THilo
  <2>3. hilos' = [hilos EXCEPT ![e] = [hilos[e] EXCEPT !.turno = hilos[e].turno + 1]]
    BY <1>5, <1>6 DEF TypeOK
  <2> QED
    BY <1>5, <2>2, <2>3, HiloTipo
<1>12. TypeOK'
  BY <1>6, <1>8, <1>9, <1>10, <1>11 DEF TypeOK, TSem, THilo
<1> QED
  BY <1>5, <1>6, <1>7, <1>12

LEMMA MoverTipos ==
  ASSUME TypeOK, NEW e \in Entrenadores, Mover(e)
  PROVE  /\ TypeOK'
         /\ \E p, q \in Nat : ent' = [ent EXCEPT ![e].pos = p, ![e].quantum = q]
<1>1. /\ Meta(e) \in Nat /\ ent[e] \in TEntrenador /\ ent[e].pos \in Nat /\ ent[e].quantum \in Nat
      /\ hilos[e].turno > 0 /\ hilos[e].turno \in Nat /\ hilos[e] \in THilo
  BY MetaTipo, EntTipo, HiloTipo DEF Mover, Despierta, TEntrenador
<1>2. /\ Pasos(e) \in Nat /\ (~(ent[e].pos < Meta(e)) => Pasos(e) <= ent[e].pos) /\ (Limitado => Pasos(e) <= ent[e].quantum)
  <2> DEFINE d == Distancia(ent[e].pos, Meta(e))
  <2>1. d \in Nat /\ (~(ent[e].pos < Meta(e)) => d <= ent[e].pos)
    BY <1>1 DEF Distancia
  <2>2. Pasos(e) = IF Limitado /\ ent[e].quantum < d THEN ent[e].quantum ELSE d
    BY DEF Pasos
  <2> HIDE DEF d
  <2> QED
    BY <1>1, <2>1, <2>2
<1> DEFINE p == IF ent[e].pos < Meta(e) THEN ent[e].pos + Pasos(e) ELSE ent[e].pos - Pasos(e)
           q == IF Limitado THEN ent[e].quantum - Pasos(e) ELSE ent[e].quantum
<1>3. p \in Nat /\ q \in Nat
  BY <1>1, <1>2
<1>4. /\ ent' = [ent EXCEPT ![e].pos = p, ![e].quantum = q]
      /\ hilos' = [hilos EXCEPT ![e].paso = "decidir", ![e].turno = @ - 1]
      /\ UNCHANGED <<colas, sem, globales, requeridos, respaldo, recibidos, mensajes, seleccion, catchs, finCapturas,
                     terminado, caido, derroche, reelegido>>
  BY DEF Mover, listas, entrada, fin, TypeOK
<1> HIDE DEF p, q
<1>5. ent' \in [Entrenadores -> TEntrenador]
  <2>1. [ent[e] EXCEPT !.pos = p, !.quantum = q] \in TEntrenador
    BY <1>1, <1>3 DEF TEntrenador
  <2>2. ent' = [ent EXCEPT ![e] = [ent[e] EXCEPT !.pos = p, !.quantum = q]]
    BY <1>4 DEF TypeOK
  <2> QED
    BY <2>1, <2>2, EntTipo
<1>6. hilos' \in [Entrenadores -> THilo]
  <2>0. hilos[e].turno - 1 \in Nat
    BY <1>1
  <2>1. [hilos[e] EXCEPT !.paso = "decidir", !.turno = @ - 1] \in THilo
    BY <1>1, <2>0 DEF THilo, PasosHilo
  <2>2. hilos' = [hilos EXCEPT ![e] = [hilos[e] EXCEPT !.paso = "decidir", !.turno = @ - 1]]
    BY <1>4 DEF TypeOK
  <2> QED
    BY <2>1, <2>2, HiloTipo
<1>7. TypeOK'
  BY <1>4, <1>5, <1>6 DEF TypeOK, THilo
<1> QED
  BY <1>3, <1>4, <1>7

LEMMA VolverTipos ==
  ASSUME TypeOK, NEW e \in Entrenadores, VolverAReady(e)
  PROVE  /\ TypeOK'
         /\ \E k, q \in Nat : ent' = [ent EXCEPT ![e].contador = k, ![e].quantum = q]
<1> USE DEF Colas
<1>1. ent[e] \in TEntrenador /\ ent[e].contador \in Nat /\ ent[e].quantum \in Nat /\ hilos[e] \in THilo
  BY EntTipo, HiloTipo DEF TEntrenador
<1>2. ent[e].contador - CiclosAhora(e) \in Nat /\ ent[e].quantum - CiclosAhora(e) \in Nat
  BY <1>1 DEF CiclosAhora
<1>3. /\ colas' = Mover1(e, "EXECUTE", "READY")
      /\ ent' = [ent EXCEPT ![e].contador = @ - CiclosAhora(e), ![e].quantum = @ - CiclosAhora(e)]
      /\ sem' = [sem EXCEPT !.cpu = @ + 1, !.listos = @ + 1]
      /\ Ir(e, "dormido")
      /\ UNCHANGED <<globales, requeridos, respaldo, recibidos, mensajes, seleccion, catchs, finCapturas, terminado,
                     caido, derroche, reelegido>>
  BY DEF VolverAReady, DejarCPU, listas, entrada, fin
<1> DEFINE k == ent[e].contador - CiclosAhora(e)
           q == ent[e].quantum - CiclosAhora(e)
<1>4. ent' = [ent EXCEPT ![e].contador = k, ![e].quantum = q]
  BY <1>3 DEF TypeOK
<1>5. k \in Nat /\ q \in Nat
  BY <1>2
<1> HIDE DEF k, q
<1>6. ent' \in [Entrenadores -> TEntrenador]
  <2>1. [ent[e] EXCEPT !.contador = k, !.quantum = q] \in TEntrenador
    BY <1>1, <1>5 DEF TEntrenador
  <2>2. ent' = [ent EXCEPT ![e] = [ent[e] EXCEPT !.contador = k, !.quantum = q]]
    BY <1>4 DEF TypeOK
  <2> QED
    BY <2>1, <2>2, EntTipo
<1>7. hilos' \in [Entrenadores -> THilo]
  <2>1. [hilos[e] EXCEPT !.paso = "dormido"] \in THilo
    BY <1>1 DEF THilo, PasosHilo
  <2> QED
    BY <1>3, <2>1, HiloTipo
<1>8. sem' \in TSem
  <2>1. sem.cpu + 1 \in Nat /\ sem.listos + 1 \in Nat
    BY SemTipo
  <2> QED
    BY <1>3, <2>1, SemTipo DEF TSem
<1>9. colas' \in [Colas -> Seq(Entrenadores)]
  BY <1>3, Mover1Colas
<1>10. TypeOK'
  BY <1>3, <1>6, <1>7, <1>8, <1>9 DEF TypeOK, THilo, TSem
<1> QED
  BY <1>4, <1>5, <1>10

(* A CATCH. *)
TCatch == [de : Entrenadores, propio : BOOLEAN, fallo : BOOLEAN, paso : PasosCatch]

LEMMA CatchTipo ==
  ASSUME TypeOK
  PROVE  /\ catchs \in Seq(TCatch) /\ Len(catchs) \in Nat /\ DOMAIN catchs = 1..Len(catchs)
         /\ \A c \in DOMAIN catchs :
              /\ catchs[c] \in TCatch /\ catchs[c].de \in Entrenadores /\ catchs[c].paso \in PasosCatch
              /\ c \in Nat
              /\ \A y \in TCatch : [catchs EXCEPT ![c] = y] \in Seq(TCatch) /\ Len([catchs EXCEPT ![c] = y]) = Len(catchs)
<1>1. catchs \in Seq(TCatch)
  BY DEF TypeOK, TCatch
<1>2. Len(catchs) \in Nat /\ DOMAIN catchs = 1..Len(catchs)
  BY <1>1, LenProperties
<1>3. ASSUME NEW c \in DOMAIN catchs
      PROVE  /\ catchs[c] \in TCatch /\ catchs[c].de \in Entrenadores /\ catchs[c].paso \in PasosCatch
             /\ c \in Nat
             /\ \A y \in TCatch : [catchs EXCEPT ![c] = y] \in Seq(TCatch) /\ Len([catchs EXCEPT ![c] = y]) = Len(catchs)
  <2>1. catchs[c] \in TCatch /\ c \in Nat
    BY <1>1, <1>2, ElementOfSeq
  <2>2. ASSUME NEW y \in TCatch
        PROVE  [catchs EXCEPT ![c] = y] \in Seq(TCatch) /\ Len([catchs EXCEPT ![c] = y]) = Len(catchs)
    BY <1>1, ExceptSeq
  <2> QED
    BY <2>1, <2>2 DEF TCatch
<1> QED
  BY <1>1, <1>2, <1>3

(* The step of a thread that deals with a CATCH. *)
LEMMA PasoCatchTipo ==
  ASSUME TypeOK, NEW c \in DOMAIN catchs, NEW p \in PasosCatch, catchs' = [catchs EXCEPT ![c].paso = p]
  PROVE  /\ catchs' \in Seq(TCatch) /\ DOMAIN catchs' = DOMAIN catchs
         /\ catchs'[c].paso = p /\ catchs'[c].de = catchs[c].de /\ catchs'[c].propio = catchs[c].propio
         /\ \A d \in DOMAIN catchs : d # c => catchs'[d] = catchs[d]
         /\ \A d \in DOMAIN catchs : catchs'[d].de = catchs[d].de
<1>1. catchs[c] \in TCatch
  BY CatchTipo
<1>2. [catchs[c] EXCEPT !.paso = p] \in TCatch
  BY <1>1 DEF TCatch
<1>3. catchs' = [catchs EXCEPT ![c] = [catchs[c] EXCEPT !.paso = p]]
  BY CatchTipo
<1>4. catchs' \in Seq(TCatch)
  BY <1>2, <1>3, CatchTipo
<1> QED
  BY <1>1, <1>3, <1>4 DEF TCatch

LEMMA EnviarTipos ==
  ASSUME TypeOK, NEW e \in Entrenadores, EnviarCatch(e)
  PROVE  /\ TypeOK'
         /\ Len(catchs') = Len(catchs) + 1 /\ DOMAIN catchs' = DOMAIN catchs \cup {Len(catchs) + 1}
         /\ \A c \in DOMAIN catchs : catchs'[c] = catchs[c]
         /\ catchs'[Len(catchs) + 1].de = e /\ catchs'[Len(catchs) + 1].paso \in {"fallido", "enBroker"}
         /\ catchs'[Len(catchs) + 1].propio => catchs'[Len(catchs) + 1].paso = "fallido"
         /\ colas' = [colas EXCEPT !["EXECUTE"] = RemoveFirst(colas["EXECUTE"], e)]
<1> USE DEF Colas
<1>1. ent[e] \in TEntrenador /\ hilos[e] \in THilo
  BY EntTipo, HiloTipo
<1>2. PICK sinBroker \in BOOLEAN :
        catchs' = Append(catchs, [de |-> e, propio |-> sinBroker, fallo |-> FALSE,
                                  paso |-> IF sinBroker THEN "fallido" ELSE "enBroker"])
  BY DEF EnviarCatch
<1>3. /\ colas' = [colas EXCEPT !["EXECUTE"] = RemoveFirst(colas["EXECUTE"], e)]
      /\ sem' = [sem EXCEPT !.cpu = @ + 1]
      /\ Ir(e, "bloquear")
      /\ ent' = [ent EXCEPT ![e].quantum = 0]
      /\ UNCHANGED <<globales, requeridos, respaldo, recibidos, mensajes, seleccion, finCapturas, terminado, caido, derroche,
                     reelegido>>
  BY DEF EnviarCatch, listas, entrada, fin, TypeOK
<1> DEFINE y == [de |-> e, propio |-> sinBroker, fallo |-> FALSE, paso |-> IF sinBroker THEN "fallido" ELSE "enBroker"]
<1>4. y \in TCatch /\ y.de = e /\ y.paso \in {"fallido", "enBroker"} /\ (y.propio => y.paso = "fallido")
  BY DEF TCatch, PasosCatch
<1>5. catchs' = Append(catchs, y)
  BY <1>2
<1> HIDE DEF y
<1>6. /\ catchs' \in Seq(TCatch) /\ Len(catchs') = Len(catchs) + 1
      /\ \A c \in 1..Len(catchs) : catchs'[c] = catchs[c]
      /\ catchs'[Len(catchs) + 1] = y
  BY <1>4, <1>5, CatchTipo, AppendProperties
<1>7. DOMAIN catchs' = DOMAIN catchs \cup {Len(catchs) + 1}
  <2>1. DOMAIN catchs' = 1..Len(catchs')
    BY <1>6, LenProperties
  <2> QED
    BY <1>6, <2>1, CatchTipo
<1>8. ent' \in [Entrenadores -> TEntrenador]
  <2>1. [ent[e] EXCEPT !.quantum = 0] \in TEntrenador
    BY <1>1 DEF TEntrenador
  <2> QED
    BY <1>3, <2>1, EntTipo
<1>9. hilos' \in [Entrenadores -> THilo]
  <2>1. [hilos[e] EXCEPT !.paso = "bloquear"] \in THilo
    BY <1>1 DEF THilo, PasosHilo
  <2> QED
    BY <1>3, <2>1, HiloTipo
<1>10. sem' \in TSem
  <2>1. sem.cpu + 1 \in Nat
    BY SemTipo
  <2> QED
    BY <1>3, <2>1, SemTipo DEF TSem
<1>11. colas' \in [Colas -> Seq(Entrenadores)]
  <2>1. colas["EXECUTE"] \in Seq(Entrenadores)
    BY ColaTipo
  <2>2. RemoveFirst(colas["EXECUTE"], e) \in Seq(Entrenadores)
    <3>1. CASE Contains(colas["EXECUTE"], e)
      BY <2>1, <3>1, VecesRemoveFirst
    <3>2. CASE ~Contains(colas["EXECUTE"], e)
      BY <2>1, <3>2 DEF RemoveFirst, Contains
    <3> QED
      BY <3>1, <3>2
  <2> QED
    BY <1>3, <2>2 DEF TypeOK
<1>12. TypeOK'
  BY <1>3, <1>6, <1>8, <1>9, <1>10, <1>11 DEF TypeOK, TSem, THilo, TCatch
<1> QED
  BY <1>3, <1>4, <1>6, <1>7, <1>12, CatchTipo

(* What a trainer that gets a pokemon becomes. *)
LEMMA ObtenerTipo ==
  ASSUME NEW x \in TEntrenador, NEW s \in Especies
  PROVE  LET y == Obtener(x, s) IN
         /\ y \in TEntrenador
         /\ x.falta[s] > 0 => y.falta = [x.falta EXCEPT ![s] = x.falta[s] - 1] /\ y.sobra = x.sobra
         /\ ~(x.falta[s] > 0) => y.falta = x.falta /\ y.sobra = Append(x.sobra, s)
         /\ y.cupo = x.cupo /\ y.pos = x.pos /\ y.quantum = x.quantum /\ y.contador = x.contador
         /\ y.ocupado = x.ocupado /\ y.captura = x.captura /\ y.catch = x.catch
         /\ y.destino = x.destino /\ y.aCambiar = x.aCambiar
<1>1. x.falta \in [Especies -> Nat] /\ x.sobra \in Seq(Especies)
  BY DEF TEntrenador
<1>2. CASE x.falta[s] > 0
  <2>1. Obtener(x, s) = [x EXCEPT !.falta = [x.falta EXCEPT ![s] = x.falta[s] - 1]]
    BY <1>2 DEF Obtener, TEntrenador
  <2>2. [x.falta EXCEPT ![s] = x.falta[s] - 1] \in [Especies -> Nat]
    BY <1>1, <1>2
  <2> QED
    BY <1>2, <2>1, <2>2 DEF TEntrenador
<1>3. CASE ~(x.falta[s] > 0)
  <2>1. Obtener(x, s) = [x EXCEPT !.sobra = Append(x.sobra, s)]
    BY <1>3 DEF Obtener
  <2>2. Append(x.sobra, s) \in Seq(Especies)
    BY <1>1, AppendProperties
  <2> QED
    BY <1>3, <2>1, <2>2 DEF TEntrenador
<1> QED
  BY <1>2, <1>3

(* The CATCH a trainer waits for is its last. *)
LEMMA SuCatchEs ==
  ASSUME TypeOK, NEW e \in Entrenadores, Hizo(e), Enviando(e)
  PROVE  /\ SuCatch(e) \in DOMAIN catchs /\ catchs[SuCatch(e)].de = e
         /\ \A c \in DOMAIN catchs : catchs[c].de = e => c <= SuCatch(e)
<1> DEFINE I == {c \in DOMAIN catchs : catchs[c].de = e}
<1>1. DOMAIN catchs = 1..Len(catchs) /\ Len(catchs) \in Nat
  BY CatchTipo
<1>2. I \in SUBSET Nat /\ IsFiniteSet(I)
  <2>1. IsFiniteSet(1..Len(catchs))
    BY <1>1, FS_Interval
  <2> QED
    BY <1>1, <2>1, FS_Subset
<1>3. I # {}
  BY DEF Hizo, Vuelve
<1> HIDE DEF I
<1>4. Max(I) \in I /\ \A y \in I : y <= Max(I)
  BY <1>2, <1>3, MaxEsElemento
<1>5. SuCatch(e) = Max(I)
  BY DEF SuCatch, I
<1>6. SuCatch(e) \in I /\ \A y \in I : y <= SuCatch(e)
  BY <1>4, <1>5
<1> QED
  BY <1>6 DEF I

LEMMA BloquearTipos ==
  ASSUME TypeOK, NEW e \in Entrenadores, Hizo(e), Bloquear(e)
  PROVE  /\ TypeOK' /\ Enviando(e) /\ MensajeCatch(e) # Nadie
         /\ colas' = [colas EXCEPT !["BLOCKED"] = Append(colas["BLOCKED"], e)]
         /\ catchs' = catchs \/ catchs' = [catchs EXCEPT ![SuCatch(e)].paso = "acreditar"]
<1> USE DEF Colas
<1>1. ent[e] \in TEntrenador /\ hilos[e] \in THilo
  BY EntTipo, HiloTipo
<1>2. Enviando(e) /\ ent[e].captura \in Pokemones
  BY <1>1 DEF Bloquear, En, Enviando, TEntrenador
<1>3. SuCatch(e) \in DOMAIN catchs /\ SuCatch(e) \in Nat
  BY <1>2, SuCatchEs, CatchTipo
<1>4. MensajeCatch(e) \in [id : Nat, especie : Especies] /\ MensajeCatch(e) # Nadie
  <2>1. EspecieDe(ent[e].captura) \in Especies
    BY <1>2, PokemonTipo
  <2>2. MensajeCatch(e) \in [id : Nat, especie : Especies]
    BY <1>3, <2>1 DEF MensajeCatch
  <2> QED
    BY <2>2, NadieAssumption
<1>5. /\ colas' = [colas EXCEPT !["BLOCKED"] = Append(colas["BLOCKED"], e)]
      /\ ent' = [ent EXCEPT ![e].catch = MensajeCatch(e)]
      /\ catchs' = catchs \/ catchs' = [catchs EXCEPT ![SuCatch(e)].paso = "acreditar"]
      /\ Ir(e, "dormido")
      /\ UNCHANGED <<sem, globales, requeridos, respaldo, recibidos, mensajes, seleccion, finCapturas, terminado, caido, derroche,
                     reelegido>>
  BY DEF Bloquear, listas, entrada, fin, TypeOK
<1>6. catchs' \in Seq(TCatch)
  <2>1. "acreditar" \in PasosCatch
    BY DEF PasosCatch
  <2> QED
    BY <1>3, <1>5, <2>1, CatchTipo, PasoCatchTipo
<1>7. ent' \in [Entrenadores -> TEntrenador]
  <2>1. [ent[e] EXCEPT !.catch = MensajeCatch(e)] \in TEntrenador
    BY <1>1, <1>4 DEF TEntrenador
  <2> QED
    BY <1>5, <2>1, EntTipo
<1>8. hilos' \in [Entrenadores -> THilo]
  <2>1. [hilos[e] EXCEPT !.paso = "dormido"] \in THilo
    BY <1>1 DEF THilo, PasosHilo
  <2> QED
    BY <1>5, <2>1, HiloTipo
<1>9. colas' \in [Colas -> Seq(Entrenadores)]
  <2>1. Append(colas["BLOCKED"], e) \in Seq(Entrenadores)
    BY ColaTipo, AppendProperties
  <2> QED
    BY <1>5, <2>1 DEF TypeOK
<1>10. TypeOK'
  BY <1>5, <1>6, <1>7, <1>8, <1>9 DEF TypeOK, THilo, TCatch
<1> QED
  BY <1>2, <1>4, <1>5, <1>10

(* The threads of the CAUGHT. *)
LEMMA CaughtTipos ==
  ASSUME TypeOK, NEW c \in DOMAIN catchs, Caught(c)
  PROVE  /\ TypeOK' /\ catchs[c].paso = "enBroker" /\ DOMAIN catchs' = DOMAIN catchs
         /\ catchs'[c].paso \in {"perdido", "auxiliar", "acreditar"}
         /\ \A d \in DOMAIN catchs : d # c => catchs'[d] = catchs[d]
         /\ \A d \in DOMAIN catchs : catchs'[d].de = catchs[d].de /\ catchs'[d].propio = catchs[d].propio
<1>1. PICK fallo \in BOOLEAN :
        catchs' = [catchs EXCEPT
            ![c].fallo = fallo,
            ![c].paso = IF ~Esperando(c) THEN "perdido" ELSE IF fallo THEN "auxiliar" ELSE "acreditar"]
  BY DEF Caught
<1> DEFINE p == IF ~Esperando(c) THEN "perdido" ELSE IF fallo THEN "auxiliar" ELSE "acreditar"
           y == [catchs[c] EXCEPT !.fallo = fallo, !.paso = p]
<1>2. p \in {"perdido", "auxiliar", "acreditar"}
  OBVIOUS
<1>3. catchs' = [catchs EXCEPT ![c] = y]
  BY <1>1, CatchTipo
<1> HIDE DEF p
<1>4. y \in TCatch /\ y.paso = p /\ y.de = catchs[c].de /\ y.propio = catchs[c].propio
  <2>1. catchs[c] \in TCatch
    BY CatchTipo
  <2> QED
    BY <1>2, <2>1 DEF TCatch, PasosCatch
<1> HIDE DEF y
<1>5. catchs' \in Seq(TCatch)
  BY <1>3, <1>4, CatchTipo
<1>6. /\ catchs[c].paso = "enBroker"
      /\ UNCHANGED <<ent, hilos, colas, sem, globales, requeridos, respaldo, recibidos, mensajes, seleccion, finCapturas,
                     terminado, caido, derroche, reelegido>>
  BY DEF Caught, listas, entrada, fin
<1>7. TypeOK'
  BY <1>5, <1>6 DEF TypeOK, TCatch
<1> QED
  BY <1>2, <1>3, <1>4, <1>6, <1>7

LEMMA AcreditarTipos ==
  ASSUME TypeOK, NEW c \in DOMAIN catchs, Acreditar(c)
  PROVE  LET e == catchs[c].de
             s == ent[e].catch.especie
             y == Obtener(ent[e], s)
         IN  /\ TypeOK' /\ ent[e].catch # Nadie /\ s \in Especies /\ globales[s] > 0
             /\ globales' = [globales EXCEPT ![s] = globales[s] - 1]
             /\ catchs' = [catchs EXCEPT ![c].paso = "soltar"]
             /\ ent' = [ent EXCEPT ![e] = [y EXCEPT !.catch = Nadie, !.captura = Nadie, !.ocupado = FALSE, !.cupo = y.cupo - 1]]
<1> DEFINE e == catchs[c].de
           s == ent[e].catch.especie
           y == Obtener(ent[e], s)
           z == [y EXCEPT !.catch = Nadie, !.captura = Nadie, !.ocupado = FALSE, !.cupo = y.cupo - 1]
<1>1. e \in Entrenadores /\ ent[e] \in TEntrenador
  BY CatchTipo, EntTipo
<1>2. ent[e].catch # Nadie /\ globales[s] > 0
  BY DEF Acreditar, AcreditarCae, LoNecesito
<1>3. s \in Especies
  BY <1>1, <1>2 DEF TEntrenador
<1>4. /\ globales' = [globales EXCEPT ![s] = globales[s] - 1]
      /\ respaldo' = IF Ultimo(s) THEN Entradas(respaldo, DOMAIN respaldo \ DeRespaldo(s)) ELSE respaldo
      /\ ent' = [ent EXCEPT ![e] = z]
      /\ catchs' = [catchs EXCEPT ![c].paso = "soltar"]
      /\ UNCHANGED <<hilos, colas, sem, requeridos, recibidos, mensajes, seleccion, finCapturas, terminado, caido, derroche, reelegido>>
  <2>1. /\ respaldo' = IF Ultimo(s) THEN Entradas(respaldo, DOMAIN respaldo \ DeRespaldo(s)) ELSE respaldo
        /\ catchs' = [catchs EXCEPT ![c].paso = "soltar"]
        /\ UNCHANGED <<hilos, colas, sem, requeridos, recibidos, mensajes, seleccion, finCapturas, terminado, caido, derroche, reelegido>>
    BY DEF Acreditar, entrada, fin
  <2>2. globales' = [globales EXCEPT ![s] = globales[s] - 1]
    BY <1>3 DEF Acreditar, TypeOK
  <2>3. ent' = [ent EXCEPT ![e] = [y EXCEPT !.catch = Nadie, !.captura = Nadie, !.ocupado = FALSE, !.cupo = @ - 1]]
    BY DEF Acreditar
  <2>4. ent' = [ent EXCEPT ![e] = z]
    <3>1. y \in TEntrenador
      BY <1>1, <1>3, ObtenerTipo
    <3>2. ent' = [ent EXCEPT ![e] = [y EXCEPT !.catch = Nadie, !.captura = Nadie, !.ocupado = FALSE, !.cupo = @ - 1]]
      BY <1>1, <2>3
    <3> HIDE DEF y, s, e
    <3>3. [y EXCEPT !.catch = Nadie, !.captura = Nadie, !.ocupado = FALSE, !.cupo = @ - 1] = z
      BY <3>1 DEF TEntrenador
    <3> QED
      BY <3>2, <3>3
  <2> QED
    BY <2>1, <2>2, <2>4
<1>5. y \in TEntrenador
  BY <1>1, <1>3, ObtenerTipo
<1> HIDE DEF y, s, e
<1>6. z \in TEntrenador
  <2>1. y.cupo - 1 \in Int
    BY <1>5 DEF TEntrenador
  <2> QED
    BY <1>5, <2>1 DEF TEntrenador
<1>7. ent' \in [Entrenadores -> TEntrenador]
  BY <1>1, <1>4, <1>6, EntTipo
<1>8. globales' \in [Especies -> Nat]
  BY <1>2, <1>3, <1>4 DEF TypeOK
<1>9. respaldo' \in Seq(Pokemones)
  <2>1. respaldo \in Seq(Pokemones)
    BY DEF TypeOK
  <2>2. DOMAIN respaldo \ DeRespaldo(s) \in SUBSET DOMAIN respaldo
    OBVIOUS
  <2>3. Entradas(respaldo, DOMAIN respaldo \ DeRespaldo(s)) \in Seq(Pokemones)
    BY <2>1, <2>2, EntradasTipo
  <2> QED
    BY <1>4, <2>1, <2>3
<1>10. catchs' \in Seq(TCatch)
  <2>1. "soltar" \in PasosCatch
    BY DEF PasosCatch
  <2> QED
    BY <1>4, <2>1, PasoCatchTipo
<1>11. TypeOK'
  BY <1>4, <1>7, <1>8, <1>9, <1>10 DEF TypeOK, TCatch
<1> QED
  BY <1>2, <1>3, <1>4, <1>11 DEF y, s, e

LEMMA SoltarTipos ==
  ASSUME TypeOK, NEW c \in DOMAIN catchs, Soltar(c)
  PROVE  LET e == catchs[c].de
             listo == Ninguno(ent[e].falta)
         IN  /\ TypeOK' /\ (listo => Contains(colas["BLOCKED"], e))
             /\ catchs' = [catchs EXCEPT ![c].paso = "fin"]
             /\ colas' = IF listo THEN Mover1(e, "BLOCKED", "FINISHED") ELSE colas
             /\ sem'.equipo = (IF listo THEN sem.equipo + 1 ELSE sem.equipo) /\ sem'.capturas = sem.capturas + 1
             /\ sem'.requeridos = sem.requeridos /\ sem'.listos = sem.listos /\ sem'.cpu = sem.cpu
<1> USE DEF Colas
<1> DEFINE e == catchs[c].de
           listo == Ninguno(ent[e].falta)
<1>1. e \in Entrenadores
  BY CatchTipo
<1>2. listo => Contains(colas["BLOCKED"], e)
  BY DEF Soltar, SoltarCae
<1>3. /\ colas' = IF listo THEN Mover1(e, "BLOCKED", "FINISHED") ELSE colas
      /\ sem' = [sem EXCEPT !.equipo = IF listo THEN @ + 1 ELSE @,
                            !.seleccionar = IF ent[e].cupo # 0 THEN @ + 1 ELSE @,
                            !.capturas = @ + 1]
      /\ catchs' = [catchs EXCEPT ![c].paso = "fin"]
      /\ UNCHANGED <<ent, hilos, globales, requeridos, respaldo, recibidos, mensajes, seleccion, finCapturas, terminado,
                     caido, derroche, reelegido>>
  BY DEF Soltar, listas, entrada, fin
<1> HIDE DEF e, listo
<1>4. /\ sem' \in TSem
      /\ sem'.equipo = (IF listo THEN sem.equipo + 1 ELSE sem.equipo) /\ sem'.capturas = sem.capturas + 1
      /\ sem'.requeridos = sem.requeridos /\ sem'.listos = sem.listos /\ sem'.cpu = sem.cpu
  <2>1. sem.equipo + 1 \in Nat /\ sem.seleccionar + 1 \in Nat /\ sem.capturas + 1 \in Nat
    BY SemTipo
  <2> QED
    BY <1>3, <2>1, SemTipo DEF TSem
<1>5. colas' \in [Colas -> Seq(Entrenadores)]
  <2>1. CASE listo
    BY <1>1, <1>3, <2>1, Mover1Colas
  <2>2. CASE ~listo
    BY <1>3, <2>2 DEF TypeOK
  <2> QED
    BY <2>1, <2>2
<1>6. catchs' \in Seq(TCatch)
  <2>1. "fin" \in PasosCatch
    BY DEF PasosCatch
  <2> QED
    BY <1>3, <2>1, PasoCatchTipo
<1>7. TypeOK'
  BY <1>3, <1>4, <1>5, <1>6 DEF TypeOK, TCatch, TSem
<1> QED
  BY <1>2, <1>3, <1>4, <1>7 DEF e, listo

LEMMA AuxiliarTipos ==
  ASSUME TypeOK, Semaforos, NEW c \in DOMAIN catchs, Auxiliar(c)
  PROVE  LET e == catchs[c].de
         IN  /\ TypeOK' /\ ent[e].catch # Nadie
             /\ catchs' = [catchs EXCEPT ![c].paso = "fin"]
             /\ ent' = [ent EXCEPT ![e].catch = Nadie, ![e].ocupado = FALSE]
             /\ sem'.requeridos = Len(requeridos') /\ sem'.capturas = sem.capturas
             /\ sem'.listos = sem.listos /\ sem'.cpu = sem.cpu /\ sem'.equipo = sem.equipo
<1> DEFINE e == catchs[c].de
           otros == DeRespaldo(EspecieDe(ent[e].captura))
<1>1. e \in Entrenadores /\ ent[e] \in TEntrenador
  BY CatchTipo, EntTipo
<1>2. ent[e].catch # Nadie
  BY DEF Auxiliar, AuxiliarCae
<1>3. /\ ent' = [ent EXCEPT ![e].catch = Nadie, ![e].ocupado = FALSE]
      /\ requeridos' = IF otros = {} THEN requeridos ELSE Append(requeridos, respaldo[Min(otros)])
      /\ sem' = [sem EXCEPT !.requeridos = IF otros = {} THEN @ ELSE @ + 1, !.seleccionar = @ + 1]
      /\ catchs' = [catchs EXCEPT ![c].paso = "fin"]
      /\ UNCHANGED <<hilos, colas, globales, respaldo, recibidos, mensajes, seleccion, finCapturas, terminado, caido, derroche, reelegido>>
  BY DEF Auxiliar, entrada, fin
<1> HIDE DEF e
<1>4. respaldo \in Seq(Pokemones) /\ requeridos \in Seq(Pokemones) /\ Len(requeridos) \in Nat
  BY LenProperties DEF TypeOK
<1>5. otros # {} => respaldo[Min(otros)] \in Pokemones
  <2> SUFFICES ASSUME otros # {} PROVE respaldo[Min(otros)] \in Pokemones
    OBVIOUS
  <2>1. DOMAIN respaldo = 1..Len(respaldo) /\ Len(respaldo) \in Nat
    BY <1>4, LenProperties
  <2>2. otros \in SUBSET Nat /\ otros \subseteq DOMAIN respaldo
    BY <2>1 DEF DeRespaldo
  <2> HIDE DEF otros
  <2>3. Min(otros) \in otros
    BY <2>2, MinEsElemento
  <2> QED
    BY <1>4, <2>1, <2>2, <2>3, ElementOfSeq
<1> HIDE DEF otros
<1>6. requeridos' \in Seq(Pokemones) /\ Len(requeridos') = Len(requeridos) + (IF otros = {} THEN 0 ELSE 1)
  <2>1. CASE otros = {}
    BY <1>3, <1>4, <2>1
  <2>2. CASE otros # {}
    BY <1>3, <1>4, <1>5, <2>2, AppendProperties
  <2> QED
    BY <2>1, <2>2
<1>7. /\ sem' \in TSem
      /\ sem'.requeridos = (IF otros = {} THEN sem.requeridos ELSE sem.requeridos + 1) /\ sem'.capturas = sem.capturas
      /\ sem'.listos = sem.listos /\ sem'.cpu = sem.cpu /\ sem'.equipo = sem.equipo
  <2>1. sem.requeridos + 1 \in Nat /\ sem.seleccionar + 1 \in Nat
    BY SemTipo
  <2> QED
    BY <1>3, <2>1, SemTipo DEF TSem
<1>8. ent' \in [Entrenadores -> TEntrenador]
  <2>1. [ent[e] EXCEPT !.catch = Nadie, !.ocupado = FALSE] \in TEntrenador
    BY <1>1 DEF TEntrenador
  <2>2. ent' = [ent EXCEPT ![e] = [ent[e] EXCEPT !.catch = Nadie, !.ocupado = FALSE]]
    BY <1>1, <1>3 DEF TypeOK
  <2> QED
    BY <1>1, <2>1, <2>2, EntTipo
<1>9. catchs' \in Seq(TCatch)
  <2>1. "fin" \in PasosCatch
    BY DEF PasosCatch
  <2> QED
    BY <1>3, <2>1, PasoCatchTipo
<1>10. TypeOK'
  BY <1>3, <1>6, <1>7, <1>8, <1>9 DEF TypeOK, TCatch, TSem
<1>11. sem'.requeridos = Len(requeridos')
  BY <1>4, <1>6, <1>7 DEF Semaforos
<1> QED
  BY <1>2, <1>3, <1>7, <1>10, <1>11 DEF e

(* The end of the captures and the swaps. *)
LEMMA FinCapturasTipos ==
  ASSUME TypeOK, FinCapturas
  PROVE  /\ TypeOK' /\ ~finCapturas /\ finCapturas'
         /\ CantidadCapturas \in Nat /\ sem'.capturas = sem.capturas - CantidadCapturas
         /\ sem'.requeridos = sem.requeridos /\ sem'.listos = sem.listos /\ sem'.cpu = sem.cpu /\ sem'.equipo = sem.equipo
<1> USE DEF Colas
<1>1. ~finCapturas /\ finCapturas' = TRUE /\ sem.capturas >= CantidadCapturas
      /\ sem' = [sem EXCEPT !.capturas = @ - CantidadCapturas, !.deadlock = @ + Sobrantes]
      /\ UNCHANGED <<ent, hilos, colas, globales, requeridos, respaldo, recibidos, mensajes, seleccion, catchs, terminado,
                     caido, derroche, reelegido>>
  BY DEF FinCapturas, listas, entrada
<1>2. CantidadCapturas \in Nat
  <2>1. ASSUME NEW s \in Especies PROVE Suma([e \in Entrenadores |-> Objetivo[e][s]]) \in Nat
    <3>1. [e \in Entrenadores |-> Objetivo[e][s]] \in [Entrenadores -> Nat]
      BY TeamAssumption
    <3> QED
      BY <3>1, SumaTipo, TeamAssumption
  <2>2. ObjetivosDelTeam \in [Especies -> Nat]
    BY <2>1 DEF ObjetivosDelTeam
  <2> QED
    BY <2>2, SumaTipo, TeamAssumption DEF CantidadCapturas
<1>3. Sobrantes \in Nat
  <2> DEFINE D == DOMAIN colas["BLOCKED"]
             f == [i \in D |-> Len(ent[colas["BLOCKED"][i]].sobra)]
  <2>1. IsFiniteSet(D)
    <3>1. Len(colas["BLOCKED"]) \in Nat /\ D = 1..Len(colas["BLOCKED"])
      BY ColaTipo
    <3> QED
      BY <3>1, FS_Interval
  <2>2. f \in [D -> Nat]
    <3>1. ASSUME NEW i \in D PROVE Len(ent[colas["BLOCKED"][i]].sobra) \in Nat
      <4>1. colas["BLOCKED"][i] \in Entrenadores
        BY ColaTipo
      <4>2. ent[colas["BLOCKED"][i]].sobra \in Seq(Especies)
        BY <4>1, EntTipo DEF TEntrenador
      <4> QED
        BY <4>2, LenProperties
    <3> QED
      BY <3>1
  <2>3. Sobrantes = Suma(f)
    BY DEF Sobrantes
  <2> HIDE DEF f, D
  <2> QED
    BY <2>1, <2>2, <2>3, SumaTipo
<1>4. /\ sem' \in TSem
      /\ sem'.capturas = sem.capturas - CantidadCapturas
      /\ sem'.requeridos = sem.requeridos /\ sem'.listos = sem.listos /\ sem'.cpu = sem.cpu /\ sem'.equipo = sem.equipo
  <2>1. sem.capturas - CantidadCapturas \in Nat /\ sem.deadlock + Sobrantes \in Nat
    BY <1>1, <1>2, <1>3, SemTipo
  <2> QED
    BY <1>1, <2>1, SemTipo DEF TSem
<1>5. TypeOK'
  BY <1>1, <1>4 DEF TypeOK, TSem
<1> QED
  BY <1>1, <1>2, <1>4, <1>5

(* Two trainers of BLOCKED, one of which lacks what the other has. *)
LEMMA AsignarTipos ==
  ASSUME TypeOK, NEW e \in Entrenadores, NEW o \in Entrenadores, e # o, Necesita(e, o), Asignar(e, o)
  PROVE  /\ ent' \in [Entrenadores -> TEntrenador] /\ colas' = Mover1(e, "BLOCKED", "READY")
         /\ colas' \in [Colas -> Seq(Entrenadores)]
         /\ \E d \in Especies \cup {Nadie, Colgado}, k \in Especies :
              ent' = [ent EXCEPT ![e] = [ent[e] EXCEPT !.ocupado = TRUE, !.destino = [socio |-> o, pos |-> ent[o].pos],
                                                       !.aCambiar = k],
                                 ![o] = [ent[o] EXCEPT !.ocupado = TRUE, !.aCambiar = d]]
<1> USE DEF Colas
<1>1. ASSUME NEW a \in Entrenadores, NEW b \in Entrenadores, Necesita(a, b)
      PROVE  LeDa(b, a) \in Especies
  <2>1. ent[b].sobra \in Seq(Especies)
    BY <1>1, EntTipo DEF TEntrenador
  <2>2. DOMAIN ent[b].sobra = 1..Len(ent[b].sobra) /\ Len(ent[b].sobra) \in Nat
    BY <2>1, LenProperties
  <2>3. LeSirven(a, b) \in SUBSET Nat /\ LeSirven(a, b) \subseteq DOMAIN ent[b].sobra /\ LeSirven(a, b) # {}
    BY <1>1, <2>2 DEF LeSirven, Necesita
  <2>4. Min(LeSirven(a, b)) \in LeSirven(a, b)
    BY <2>3, MinEsElemento
  <2> QED
    BY <2>1, <2>2, <2>3, <2>4, ElementOfSeq DEF LeDa
<1> DEFINE k == LeDa(o, e)
           d == IF Necesita(o, e) THEN LeDa(e, o) ELSE ent[o].aCambiar
           x == [ent[e] EXCEPT !.ocupado = TRUE, !.destino = [socio |-> o, pos |-> ent[o].pos], !.aCambiar = k]
           y == [ent[o] EXCEPT !.ocupado = TRUE, !.aCambiar = d]
<1>2. ent[e] \in TEntrenador /\ ent[o] \in TEntrenador
  BY EntTipo
<1>3. k \in Especies /\ d \in Especies \cup {Nadie, Colgado}
  BY <1>1, <1>2 DEF TEntrenador
<1>4. ent' = [ent EXCEPT ![e] = x, ![o] = y] /\ colas' = Mover1(e, "BLOCKED", "READY")
  BY <1>2 DEF Asignar, TypeOK, TEntrenador
<1> HIDE DEF k, d
<1>5. x \in TEntrenador /\ y \in TEntrenador
  <2>1. x \in TEntrenador
    <3>1. [socio |-> o, pos |-> ent[o].pos] \in [socio : Entrenadores, pos : Nat]
      BY <1>2 DEF TEntrenador
    <3> DEFINE lugar == [socio |-> o, pos |-> ent[o].pos]
    <3> HIDE DEF lugar
    <3>2. x = [ent[e] EXCEPT !.ocupado = TRUE, !.destino = lugar, !.aCambiar = k]
      BY DEF lugar
    <3>3. lugar \in [socio : Entrenadores, pos : Nat]
      BY <3>1 DEF lugar
    <3> HIDE DEF x
    <3> QED
      BY <1>2, <1>3, <3>2, <3>3 DEF TEntrenador
  <2>2. y \in TEntrenador
    BY <1>2, <1>3 DEF TEntrenador
  <2> QED
    BY <2>1, <2>2
<1>6. ent' \in [Entrenadores -> TEntrenador]
  <2> HIDE DEF x, y
  <2> QED
    BY <1>4, <1>5 DEF TypeOK
<1>7. colas' \in [Colas -> Seq(Entrenadores)]
  BY <1>4, Mover1Colas
<1> QED
  BY <1>3, <1>4, <1>6, <1>7

(* Who lacks a pokemon is not who has it left over. *)
LEMMA OtroLoTiene ==
  ASSUME TypeOK, SobraDeMas, NEW e \in Entrenadores, NEW o \in Entrenadores, NEW s \in Especies,
         ent[e].falta[s] # 0, s \in ToSet(ent[o].sobra)
  PROVE  e # o
<1>1. ent[o].sobra \in Seq(Especies)
  BY EntTipo DEF TEntrenador
<1>2. Contains(ent[o].sobra, s)
  BY <1>1, LenProperties DEF ToSet, Contains
<1>3. Veces(s, ent[o].sobra) > 0
  BY <1>1, <1>2, VecesTipo
<1> QED
  BY <1>3 DEF SobraDeMas

(* The two that the detection chooses. *)
LEMMA DetectarTipos ==
  ASSUME TypeOK, SobraDeMas, DetectarDeadlock
  PROVE  /\ TypeOK' /\ finCapturas
         /\ sem'.requeridos = sem.requeridos /\ sem'.capturas = sem.capturas /\ sem'.cpu = sem.cpu /\ sem'.equipo = sem.equipo
         /\ \/ ent' = ent /\ colas' = colas /\ sem'.listos = sem.listos
            \/ /\ sem'.listos = sem.listos + 1
               /\ \E e, o \in Entrenadores, d \in Especies \cup {Nadie, Colgado}, k \in Especies :
                    /\ e # o /\ Contains(colas["BLOCKED"], e) /\ Contains(colas["BLOCKED"], o)
                    /\ ~ent[e].ocupado /\ ~ent[o].ocupado
                    /\ colas' = Mover1(e, "BLOCKED", "READY")
                    /\ ent' = [ent EXCEPT
                         ![e] = [ent[e] EXCEPT !.ocupado = TRUE, !.destino = [socio |-> o, pos |-> ent[o].pos],
                                               !.aCambiar = k],
                         ![o] = [ent[o] EXCEPT !.ocupado = TRUE, !.aCambiar = d]]
<1> USE DEF Colas
<1>1. /\ sem.deadlock >= 2 /\ finCapturas
      /\ sem' = [sem EXCEPT !.deadlock = @ - 2, !.listos = IF Parejas = {} THEN @ ELSE @ + 1]
      /\ UNCHANGED <<hilos, globales, requeridos, respaldo, recibidos, mensajes, seleccion, catchs, finCapturas, terminado,
                     caido, reelegido>>
      /\ derroche' \in BOOLEAN
  BY DEF DetectarDeadlock, listas, entrada, fin, TypeOK
<1>2. /\ sem' \in TSem
      /\ sem'.requeridos = sem.requeridos /\ sem'.capturas = sem.capturas /\ sem'.cpu = sem.cpu /\ sem'.equipo = sem.equipo
      /\ sem'.listos = IF Parejas = {} THEN sem.listos ELSE sem.listos + 1
  <2>1. sem.deadlock - 2 \in Nat /\ sem.listos + 1 \in Nat
    BY <1>1, SemTipo
  <2> QED
    BY <1>1, <2>1, SemTipo DEF TSem
<1>3. CASE Parejas = {}
  <2>1. ent' = ent /\ colas' = colas
    BY <1>3 DEF DetectarDeadlock
  <2>2. TypeOK'
    BY <1>1, <1>2, <2>1 DEF TypeOK, TSem
  <2> QED
    BY <1>1, <1>2, <1>3, <2>1, <2>2
<1>4. CASE Parejas # {}
  <2> DEFINE a == colas["BLOCKED"][PrimeraPareja[1]]
             b == colas["BLOCKED"][PrimeraPareja[2]]
             Entra(e, o) == /\ e \in Entrenadores /\ o \in Entrenadores /\ Necesita(e, o) /\ Asignar(e, o)
                            /\ Contains(colas["BLOCKED"], e) /\ Contains(colas["BLOCKED"], o)
                            /\ ~ent[e].ocupado /\ ~ent[o].ocupado
  <2>1. PrimeraPareja \in Parejas
    BY <1>4, ColaTipo, PrimeraParejaEsta
  <2>2. /\ PrimeraPareja[1] \in Bloqueados /\ PrimeraPareja[2] \in Bloqueados
        /\ Necesita(a, b) \/ Necesita(b, a)
    BY <2>1 DEF Parejas
  <2>3. /\ a \in Entrenadores /\ b \in Entrenadores /\ ~ent[a].ocupado /\ ~ent[b].ocupado
        /\ Contains(colas["BLOCKED"], a) /\ Contains(colas["BLOCKED"], b)
    BY <2>2, ColaTipo DEF Bloqueados, Contains
  <2>4. IF Necesita(a, b) THEN Asignar(a, b) ELSE Asignar(b, a)
    BY <1>4 DEF DetectarDeadlock
  <2>5. Entra(a, b) \/ Entra(b, a)
    BY <2>2, <2>3, <2>4
  <2> HIDE DEF a, b
  <2>6. \E e, o \in Entrenadores : Entra(e, o)
    BY <2>5
  <2>7. PICK e \in Entrenadores, o \in Entrenadores : Entra(e, o)
    BY <2>6
  <2>8. e # o
    <3>1. PICK i \in DOMAIN ent[o].sobra : ent[e].falta[ent[o].sobra[i]] > 0
      BY <2>7 DEF Necesita, LeSirven
    <3>2. ent[o].sobra \in Seq(Especies) /\ ent[e].falta \in [Especies -> Nat]
      BY EntTipo DEF TEntrenador
    <3>3. ent[o].sobra[i] \in Especies /\ ent[o].sobra[i] \in ToSet(ent[o].sobra)
      BY <3>1, <3>2, LenProperties, ElementOfSeq DEF ToSet
    <3>4. ent[e].falta[ent[o].sobra[i]] # 0
      BY <3>1, <3>2, <3>3
    <3> QED
      BY <3>3, <3>4, OtroLoTiene
  <2>9. /\ ent' \in [Entrenadores -> TEntrenador] /\ colas' = Mover1(e, "BLOCKED", "READY")
        /\ colas' \in [Colas -> Seq(Entrenadores)]
        /\ \E d \in Especies \cup {Nadie, Colgado}, k \in Especies :
             ent' = [ent EXCEPT ![e] = [ent[e] EXCEPT !.ocupado = TRUE, !.destino = [socio |-> o, pos |-> ent[o].pos],
                                                      !.aCambiar = k],
                                ![o] = [ent[o] EXCEPT !.ocupado = TRUE, !.aCambiar = d]]
    BY <2>7, <2>8, AsignarTipos
  <2>10. TypeOK'
    BY <1>1, <1>2, <2>9 DEF TypeOK, TSem
  <2>11. PICK d \in Especies \cup {Nadie, Colgado}, k \in Especies :
           ent' = [ent EXCEPT ![e] = [ent[e] EXCEPT !.ocupado = TRUE, !.destino = [socio |-> o, pos |-> ent[o].pos],
                                                    !.aCambiar = k],
                              ![o] = [ent[o] EXCEPT !.ocupado = TRUE, !.aCambiar = d]]
    BY <2>9
  <2>12. sem'.listos = sem.listos + 1
    BY <1>2, <1>4
  <2>13. \E f, p \in Entrenadores, g \in Especies \cup {Nadie, Colgado}, h \in Especies :
           /\ f # p /\ Contains(colas["BLOCKED"], f) /\ Contains(colas["BLOCKED"], p)
           /\ ~ent[f].ocupado /\ ~ent[p].ocupado
           /\ colas' = Mover1(f, "BLOCKED", "READY")
           /\ ent' = [ent EXCEPT
                ![f] = [ent[f] EXCEPT !.ocupado = TRUE, !.destino = [socio |-> p, pos |-> ent[p].pos],
                                      !.aCambiar = h],
                ![p] = [ent[p] EXCEPT !.ocupado = TRUE, !.aCambiar = g]]
    <3> WITNESS e \in Entrenadores, o \in Entrenadores, d \in Especies \cup {Nadie, Colgado}, k \in Especies
    <3> QED
      BY <2>7, <2>8, <2>9, <2>11
  <2> QED
    BY <1>1, <1>2, <2>10, <2>12, <2>13
<1> QED
  BY <1>3, <1>4

(* The trainer that moved gets what it lacks, and its partner something    *)
(* that it lacks or not.                                                   *)
LEMMA IntercambiarTipos ==
  ASSUME TypeOK, SobraDeMas, NEW e \in Entrenadores, Intercambiar(e)
  PROVE  LET o == ent[e].destino.socio
             a == ent[e].aCambiar
             b == ParaElSocio(e)
             y == [ent[o] EXCEPT !.sobra = RemoveFirst(ent[o].sobra, a)]
             z == Obtener(y, b)
         IN  /\ TypeOK' /\ Va(e) /\ o \in Entrenadores /\ e # o /\ hilos[e].paso = "decidir"
             /\ a \in Especies /\ b \in Especies /\ ent[e].falta[a] > 0
             /\ Contains(ent[o].sobra, a) /\ Contains(ent[e].sobra, b) /\ Contains(colas["BLOCKED"], o)
             /\ y \in TEntrenador /\ z \in TEntrenador
             /\ ent' = [ent EXCEPT ![e] = [ent[e] EXCEPT !.falta = [ent[e].falta EXCEPT ![a] = ent[e].falta[a] - 1],
                                                         !.sobra = RemoveFirst(ent[e].sobra, b),
                                                         !.destino = Colgado, !.aCambiar = Colgado],
                                   ![o] = [z EXCEPT !.captura = Nadie, !.aCambiar = Nadie]]
             /\ hilos' = [hilos EXCEPT ![e].paso = "transicion", ![e].socio = o]
<1> DEFINE o == ent[e].destino.socio
           a == ent[e].aCambiar
           b == ParaElSocio(e)
           y == [ent[o] EXCEPT !.sobra = RemoveFirst(ent[o].sobra, a)]
           z == Obtener(y, b)
           x == Obtener(ent[e], a)
<1>1. /\ Va(e) /\ o \in Entrenadores /\ hilos[e].paso = "decidir"
  <2>1. ~SinMeta(e) /\ ~Captura(e) /\ hilos[e].paso = "decidir"
    BY DEF Intercambiar, Intercambiando, Decidiendo, En
  <2> QED
    BY <2>1, MetaTipo
<1>2. /\ Contains(colas["BLOCKED"], o) /\ a \in ToSet(ent[o].sobra) /\ ent[e].falta[a] # 0 /\ b \in ToSet(ent[e].sobra)
  BY DEF Intercambiar, IntercambiarCae
<1>3. /\ ent[e] \in TEntrenador /\ ent[o] \in TEntrenador /\ hilos[e] \in THilo
      /\ ent[e].sobra \in Seq(Especies) /\ ent[o].sobra \in Seq(Especies) /\ ent[e].falta \in [Especies -> Nat]
  BY <1>1, EntTipo, HiloTipo DEF TEntrenador
<1>4. a \in Especies /\ b \in Especies /\ Contains(ent[o].sobra, a) /\ Contains(ent[e].sobra, b) /\ ent[e].falta[a] > 0
  <2>1. a \in Especies /\ b \in Especies
    BY <1>2, <1>3, FinitosLosDeUnaSeq
  <2>2. Contains(ent[o].sobra, a) /\ Contains(ent[e].sobra, b)
    BY <1>2, <1>3, LenProperties DEF ToSet, Contains
  <2> QED
    BY <1>2, <1>3, <2>1, <2>2
<1>5. e # o
  BY <1>1, <1>2, <1>4, OtroLoTiene
<1>6. /\ ent' = [ent EXCEPT
           ![e] = [x EXCEPT !.sobra = RemoveFirst(@, b), !.destino = Colgado, !.aCambiar = Colgado],
           ![o] = [z EXCEPT !.captura = Nadie, !.aCambiar = Nadie]]
      /\ hilos' = [hilos EXCEPT ![e].paso = "transicion", ![e].socio = o]
      /\ UNCHANGED <<colas, sem, globales, requeridos, respaldo, recibidos, mensajes, seleccion, catchs, finCapturas,
                     terminado, caido, derroche, reelegido>>
  <2>1. y = [ent[o] EXCEPT !.sobra = RemoveFirst(@, a)]
    BY <1>3 DEF TEntrenador
  <2> HIDE DEF y
  <2> QED
    BY <2>1 DEF Intercambiar, listas, entrada, fin
<1> HIDE DEF o, a, b
<1>7. y \in TEntrenador
  <2>1. RemoveFirst(ent[o].sobra, a) \in Seq(Especies)
    BY <1>3, <1>4, VecesRemoveFirst
  <2> QED
    BY <1>3, <2>1 DEF TEntrenador
<1> HIDE DEF y
<1>8. z \in TEntrenador
  BY <1>4, <1>7, ObtenerTipo
<1>9. x = [ent[e] EXCEPT !.falta = [ent[e].falta EXCEPT ![a] = ent[e].falta[a] - 1]]
  BY <1>3, <1>4 DEF Obtener, TEntrenador
<1> DEFINE v == [ent[e] EXCEPT !.falta = [ent[e].falta EXCEPT ![a] = ent[e].falta[a] - 1],
                               !.sobra = RemoveFirst(ent[e].sobra, b), !.destino = Colgado, !.aCambiar = Colgado]
           w == [z EXCEPT !.captura = Nadie, !.aCambiar = Nadie]
<1>10. [x EXCEPT !.sobra = RemoveFirst(@, b), !.destino = Colgado, !.aCambiar = Colgado] = v
  BY <1>3, <1>9 DEF TEntrenador
<1>11. v \in TEntrenador /\ w \in TEntrenador
  <2>1. RemoveFirst(ent[e].sobra, b) \in Seq(Especies)
    BY <1>3, <1>4, VecesRemoveFirst
  <2>2. [ent[e].falta EXCEPT ![a] = ent[e].falta[a] - 1] \in [Especies -> Nat]
    BY <1>3, <1>4
  <2>3. v \in TEntrenador
    BY <1>3, <2>1, <2>2 DEF TEntrenador
  <2> HIDE DEF v, z
  <2>4. w \in TEntrenador
    BY <1>8 DEF TEntrenador
  <2> QED
    BY <2>3, <2>4
<1>12. ent' = [ent EXCEPT ![e] = v, ![o] = w]
  BY <1>6, <1>10
<1>13. ent' \in [Entrenadores -> TEntrenador]
  <2> HIDE DEF v, w
  <2> QED
    BY <1>1, <1>11, <1>12 DEF TypeOK
<1>14. hilos' \in [Entrenadores -> THilo]
  <2>1. [hilos[e] EXCEPT !.paso = "transicion", !.socio = o] \in THilo
    BY <1>1, <1>3 DEF THilo, PasosHilo
  <2>2. hilos' = [hilos EXCEPT ![e] = [hilos[e] EXCEPT !.paso = "transicion", !.socio = o]]
    BY <1>6 DEF TypeOK
  <2> QED
    BY <2>1, <2>2, HiloTipo
<1>15. TypeOK'
  BY <1>6, <1>13, <1>14 DEF TypeOK, THilo
<1> QED
  BY <1>1, <1>2, <1>4, <1>5, <1>6, <1>7, <1>8, <1>12, <1>15 DEF o, a, b, y

(* What a swap leaves to do. *)
LEMMA TransicionTipos ==
  ASSUME TypeOK, Semaforos, NEW e \in Entrenadores, Hizo(e), NEW x \in Entrenadores,
         \/ x = e /\ Asentar(e)
         \/ x = hilos[e].socio /\ TransicionarSocio(e)
  PROVE  LET listo == Ninguno(ent[x].falta)
         IN  /\ ent' = [ent EXCEPT ![x].ocupado = FALSE]
             /\ ent' \in [Entrenadores -> TEntrenador]
             /\ sem' \in TSem /\ sem'.requeridos = sem.requeridos /\ sem'.capturas = sem.capturas
             /\ sem'.listos = sem.listos /\ sem'.cpu = sem.cpu
             /\ sem'.equipo = IF listo THEN sem.equipo + 1 ELSE sem.equipo
<1> DEFINE listo == Ninguno(ent[x].falta)
<1>1. ent' = [ent EXCEPT ![x].ocupado = FALSE]
  BY DEF Asentar, TransicionarSocio
<1>2. ent' \in [Entrenadores -> TEntrenador]
  <2>1. ent[x] \in TEntrenador /\ \A r \in TEntrenador : [ent EXCEPT ![x] = r] \in [Entrenadores -> TEntrenador]
    BY EntTipo
  <2> DEFINE libre == [ent[x] EXCEPT !.ocupado = FALSE]
  <2>2. libre \in TEntrenador
    BY <2>1 DEF TEntrenador
  <2>3. ent' = [ent EXCEPT ![x] = libre]
    BY <1>1
  <2> HIDE DEF libre
  <2> QED
    BY <2>1, <2>2, <2>3
<1>3. sem' = [sem EXCEPT !.equipo = IF listo THEN @ + 1 ELSE @, !.deadlock = IF listo THEN @ ELSE @ + 1]
  BY DEF Asentar, TransicionarSocio
<1> HIDE DEF listo
<1>4. /\ sem' \in TSem /\ sem'.requeridos = sem.requeridos /\ sem'.capturas = sem.capturas
      /\ sem'.listos = sem.listos /\ sem'.cpu = sem.cpu
      /\ sem'.equipo = IF listo THEN sem.equipo + 1 ELSE sem.equipo
  <2>1. sem.equipo + 1 \in Nat /\ sem.deadlock + 1 \in Nat
    BY SemTipo
  <2> QED
    BY <1>3, <2>1, SemTipo DEF TSem
<1> QED
  BY <1>1, <1>2, <1>4 DEF listo

(* The CPU is left. *)
LEMMA MovidoTipos ==
  ASSUME TypeOK, NEW e \in Entrenadores, TransicionarMovido(e)
  PROVE  /\ TypeOK' /\ hilos[e].paso = "transicion"
         /\ colas' = [colas EXCEPT !["EXECUTE"] = RemoveFirst(colas["EXECUTE"], e)]
         /\ sem'.requeridos = sem.requeridos /\ sem'.capturas = sem.capturas /\ sem'.listos = sem.listos
         /\ sem'.cpu = sem.cpu + 1 /\ sem'.equipo = sem.equipo
<1> USE DEF Colas
<1>1. /\ hilos[e].paso = "transicion" /\ Ir(e, "asentar")
      /\ colas' = [colas EXCEPT !["EXECUTE"] = RemoveFirst(colas["EXECUTE"], e)]
      /\ sem' = [sem EXCEPT !.cpu = @ + 1]
      /\ UNCHANGED <<ent, globales, requeridos, respaldo, recibidos, mensajes, seleccion, catchs, finCapturas, terminado,
                     caido, derroche, reelegido>>
  BY DEF TransicionarMovido, En, listas, entrada, fin, TypeOK
<1>2. /\ sem' \in TSem /\ sem'.requeridos = sem.requeridos /\ sem'.capturas = sem.capturas /\ sem'.listos = sem.listos
      /\ sem'.cpu = sem.cpu + 1 /\ sem'.equipo = sem.equipo
  <2>1. sem.cpu + 1 \in Nat
    BY SemTipo
  <2> QED
    BY <1>1, <2>1, SemTipo DEF TSem
<1>3. colas' \in [Colas -> Seq(Entrenadores)]
  <2>1. colas["EXECUTE"] \in Seq(Entrenadores)
    BY ColaTipo
  <2>2. RemoveFirst(colas["EXECUTE"], e) \in Seq(Entrenadores)
    <3>1. CASE Contains(colas["EXECUTE"], e)
      BY <2>1, <3>1, VecesRemoveFirst
    <3>2. CASE ~Contains(colas["EXECUTE"], e)
      BY <2>1, <3>2 DEF RemoveFirst, Contains
    <3> QED
      BY <3>1, <3>2
  <2> QED
    BY <1>1, <2>2 DEF TypeOK
<1>4. hilos' \in [Entrenadores -> THilo]
  <2>1. [hilos[e] EXCEPT !.paso = "asentar"] \in THilo
    BY HiloTipo DEF THilo, PasosHilo
  <2> QED
    BY <1>1, <2>1, HiloTipo
<1>5. TypeOK'
  BY <1>1, <1>2, <1>3, <1>4 DEF TypeOK, TSem, THilo
<1> QED
  BY <1>1, <1>2, <1>5

LEMMA AsentarTipos ==
  ASSUME TypeOK, Semaforos, NEW e \in Entrenadores, Hizo(e), Asentar(e)
  PROVE  LET listo == Ninguno(ent[e].falta)
             cola == IF listo THEN "FINISHED" ELSE "BLOCKED"
         IN  /\ TypeOK' /\ hilos[e].paso = "asentar"
             /\ ent' = [ent EXCEPT ![e].ocupado = FALSE]
             /\ colas' = [colas EXCEPT ![cola] = Append(colas[cola], e)]
             /\ sem'.requeridos = sem.requeridos /\ sem'.capturas = sem.capturas /\ sem'.listos = sem.listos
             /\ sem'.cpu = sem.cpu /\ sem'.equipo = IF listo THEN sem.equipo + 1 ELSE sem.equipo
<1> USE DEF Colas
<1> DEFINE listo == Ninguno(ent[e].falta)
           cola == IF listo THEN "FINISHED" ELSE "BLOCKED"
<1>1. /\ hilos[e].paso = "asentar" /\ Ir(e, "transicionSocio")
      /\ colas' = [colas EXCEPT ![cola] = Append(@, e)]
      /\ UNCHANGED <<globales, requeridos, respaldo, recibidos, mensajes, seleccion, catchs, finCapturas, terminado, caido,
                     derroche, reelegido>>
  BY DEF Asentar, En, listas, entrada, fin
<1>2. /\ ent' = [ent EXCEPT ![e].ocupado = FALSE] /\ ent' \in [Entrenadores -> TEntrenador]
      /\ sem' \in TSem /\ sem'.requeridos = sem.requeridos /\ sem'.capturas = sem.capturas
      /\ sem'.listos = sem.listos /\ sem'.cpu = sem.cpu
      /\ sem'.equipo = IF listo THEN sem.equipo + 1 ELSE sem.equipo
  BY TransicionTipos
<1>3. cola \in Colas
  OBVIOUS
<1> HIDE DEF listo, cola
<1>4. colas' = [colas EXCEPT ![cola] = Append(colas[cola], e)]
  BY <1>1, <1>3 DEF TypeOK
<1>5. colas' \in [Colas -> Seq(Entrenadores)]
  <2>1. Append(colas[cola], e) \in Seq(Entrenadores)
    BY <1>3, ColaTipo, AppendProperties
  <2> QED
    BY <1>3, <1>4, <2>1 DEF TypeOK
<1>6. hilos' \in [Entrenadores -> THilo]
  <2>1. [hilos[e] EXCEPT !.paso = "transicionSocio"] \in THilo
    BY HiloTipo DEF THilo, PasosHilo
  <2> QED
    BY <1>1, <2>1, HiloTipo
<1>7. TypeOK'
  BY <1>1, <1>2, <1>5, <1>6 DEF TypeOK, TSem, THilo
<1> QED
  BY <1>1, <1>2, <1>4, <1>7 DEF listo, cola

LEMMA SocioTipos ==
  ASSUME TypeOK, Semaforos, NEW e \in Entrenadores, Hizo(e), TransicionarSocio(e)
  PROVE  LET o == hilos[e].socio
             listo == Ninguno(ent[o].falta)
         IN  /\ TypeOK' /\ hilos[e].paso = "transicionSocio" /\ o \in Entrenadores
             /\ ent' = [ent EXCEPT ![o].ocupado = FALSE]
             /\ colas' = IF listo THEN Mover1(o, "BLOCKED", "FINISHED") ELSE colas
             /\ hilos' = [hilos EXCEPT ![e].paso = "dormido", ![e].socio = Nadie]
             /\ sem'.requeridos = sem.requeridos /\ sem'.capturas = sem.capturas /\ sem'.listos = sem.listos
             /\ sem'.cpu = sem.cpu /\ sem'.equipo = IF listo THEN sem.equipo + 1 ELSE sem.equipo
<1> USE DEF Colas
<1> DEFINE o == hilos[e].socio
           listo == Ninguno(ent[o].falta)
<1>1. /\ hilos[e].paso = "transicionSocio"
      /\ colas' = IF listo THEN Mover1(o, "BLOCKED", "FINISHED") ELSE colas
      /\ hilos' = [hilos EXCEPT ![e].paso = "dormido", ![e].socio = Nadie]
      /\ sem' = [sem EXCEPT !.equipo = IF listo THEN @ + 1 ELSE @, !.deadlock = IF listo THEN @ ELSE @ + 1]
      /\ UNCHANGED <<globales, requeridos, respaldo, recibidos, mensajes, seleccion, catchs, finCapturas, terminado, caido,
                     derroche, reelegido>>
  BY DEF TransicionarSocio, En, listas, entrada, fin
<1>2. o \in Entrenadores
  BY <1>1, HiloTipo DEF Hizo, Vuelve
<1> HIDE DEF o
<1>3. /\ ent' = [ent EXCEPT ![o].ocupado = FALSE] /\ ent' \in [Entrenadores -> TEntrenador]
      /\ sem' \in TSem /\ sem'.requeridos = sem.requeridos /\ sem'.capturas = sem.capturas
      /\ sem'.listos = sem.listos
      /\ sem'.equipo = IF listo THEN sem.equipo + 1 ELSE sem.equipo
  BY <1>2, TransicionTipos DEF o
<1> HIDE DEF listo
<1>4. sem'.cpu = sem.cpu
  BY <1>1, SemTipo DEF TSem
<1>5. colas' \in [Colas -> Seq(Entrenadores)]
  <2>1. CASE listo
    BY <1>1, <1>2, <2>1, Mover1Colas
  <2>2. CASE ~listo
    BY <1>1, <2>2 DEF TypeOK
  <2> QED
    BY <2>1, <2>2
<1>6. hilos' \in [Entrenadores -> THilo]
  <2>1. [hilos[e] EXCEPT !.paso = "dormido", !.socio = Nadie] \in THilo
    BY HiloTipo DEF THilo, PasosHilo
  <2>2. hilos' = [hilos EXCEPT ![e] = [hilos[e] EXCEPT !.paso = "dormido", !.socio = Nadie]]
    BY <1>1 DEF TypeOK
  <2> QED
    BY <2>1, <2>2, HiloTipo
<1>7. TypeOK'
  BY <1>1, <1>3, <1>5, <1>6 DEF TypeOK, TSem, THilo
<1> QED
  BY <1>1, <1>2, <1>3, <1>4, <1>7 DEF o, listo

LEMMA QuietoTipos ==
  ASSUME TypeOK, Finalizar \/ Caer \/ UNCHANGED vars
  PROVE  /\ TypeOK'
         /\ UNCHANGED <<ent, hilos, colas, sem, globales, requeridos, respaldo, recibidos, mensajes, seleccion, catchs,
                        finCapturas, reelegido>>
<1>1. UNCHANGED <<ent, hilos, colas, sem, globales, requeridos, respaldo, recibidos, mensajes, seleccion, catchs,
                  finCapturas, reelegido>>
  BY DEF Finalizar, Caer, vars, listas, entrada, fin
<1>2. terminado' \in BOOLEAN /\ caido' \in BOOLEAN /\ derroche' \in BOOLEAN
  BY DEF Finalizar, Caer, vars, fin, TypeOK
<1>3. TypeOK'
  BY <1>1, <1>2 DEF TypeOK
<1> QED
  BY <1>1, <1>3

-----------------------------------------------------------------------------
(* The semaphores count the queues.                                        *)

LEMMA SemaforosIguales ==
  ASSUME Semaforos, UNCHANGED <<colas, hilos>>, sem'.requeridos = Len(requeridos'),
         sem'.listos = sem.listos, sem'.cpu = sem.cpu, sem'.equipo = sem.equipo
  PROVE  Semaforos'
<1>1. \A e \in Entrenadores : EnCPU(e)' = EnCPU(e)
  BY DEF EnCPU
<1> QED
  BY <1>1 DEF Semaforos

(* A trainer's thread goes from a step to another. *)
LEMMA SemaforosDe ==
  ASSUME TypeOK, Semaforos, NEW e \in Entrenadores,
         \A f \in Entrenadores : f # e => hilos'[f] = hilos[f],
         EnCPU(e)' = Veces(e, colas'["EXECUTE"]),
         \A f \in Entrenadores : f # e => Veces(f, colas'["EXECUTE"]) = Veces(f, colas["EXECUTE"]),
         sem'.requeridos = sem.requeridos, requeridos' = requeridos,
         sem'.listos = Len(colas'["READY"]), sem'.cpu + Len(colas'["EXECUTE"]) = 1,
         sem'.equipo = Len(colas'["FINISHED"])
  PROVE  Semaforos'
<1>1. \A f \in Entrenadores : f # e => EnCPU(f)' = EnCPU(f)
  BY DEF EnCPU
<1>2. \A f \in Entrenadores : EnCPU(f)' = Veces(f, colas["EXECUTE"])'
  BY <1>1 DEF Semaforos
<1> QED
  BY <1>2 DEF Semaforos

(* Whose thread has the CPU is in colaExecute. *)
LEMMA EstaEnEjecucion ==
  ASSUME TypeOK, Semaforos, NEW e \in Entrenadores, EnCPU(e) > 0
  PROVE  Contains(colas["EXECUTE"], e)
BY ColaTipo DEF Colas, Semaforos

LEMMA HizoIgual ==
  ASSUME UNCHANGED hilos, \A c \in DOMAIN catchs : c \in DOMAIN catchs' /\ catchs'[c].de = catchs[c].de,
         NEW e \in Entrenadores, Hizo(e)
  PROVE  Hizo(e)'
BY DEF Hizo, Vuelve, Enviando

LEMMA SeleccionSemaforos ==
  ASSUME TypeOK, Semaforos, \A e \in Entrenadores : Hizo(e),
         (\E m \in Mensajes : Recibir(m) \/ Incluir(m)) \/ Elegir \/ Sacar
  PROVE  TypeOK' /\ Semaforos' /\ \A e \in Entrenadores : Hizo(e)'
<1> USE DEF Colas
<1>0. \A e \in Entrenadores : Hizo(e)'
  <2>1. UNCHANGED <<hilos, catchs>>
    BY DEF Recibir, Incluir, Elegir, Sacar
  <2> QED
    BY <2>1, HizoIgual
<1>1. ASSUME NEW m \in Mensajes, Recibir(m) PROVE TypeOK' /\ Semaforos'
  <2>1. UNCHANGED <<colas, hilos, sem, requeridos>>
    BY <1>1 DEF Recibir, listas
  <2> QED
    BY <1>1, <2>1, MensajesTipos, SemaforosIguales DEF Semaforos
<1>2. ASSUME NEW m \in Mensajes, Incluir(m) PROVE TypeOK' /\ Semaforos'
  <2>1. /\ UNCHANGED <<colas, hilos>>
        /\ \/ UNCHANGED <<requeridos, sem>>
           \/ /\ requeridos' = Append(requeridos, <<m, mensajes[m] + 1>>)
              /\ sem' = [sem EXCEPT !.requeridos = @ + 1]
    BY <1>2 DEF Incluir
  <2>2. requeridos \in Seq(Pokemones) /\ TypeOK'
    BY <1>2, MensajesTipos DEF TypeOK
  <2>3. CASE UNCHANGED <<requeridos, sem>>
    BY <2>1, <2>2, <2>3, SemaforosIguales DEF Semaforos
  <2>4. CASE requeridos' = Append(requeridos, <<m, mensajes[m] + 1>>) /\ sem' = [sem EXCEPT !.requeridos = @ + 1]
    <3>1. /\ sem'.requeridos = sem.requeridos + 1
          /\ sem'.listos = sem.listos /\ sem'.cpu = sem.cpu /\ sem'.equipo = sem.equipo
      BY <2>4, SemTipo DEF TSem
    <3>2. requeridos' \in Seq(Pokemones) /\ DOMAIN requeridos' = 1..(Len(requeridos) + 1) /\ Len(requeridos) \in Nat
      <4>1. requeridos' \in Seq(Pokemones)
        BY <2>2 DEF TypeOK
      <4>2. Len(requeridos) \in Nat
        BY <2>2, LenProperties
      <4>3. Len(requeridos') = Len(requeridos) + 1
        BY <2>2, <2>4, AppendProperties
      <4>4. DOMAIN requeridos' = 1..(Len(requeridos) + 1)
        BY <4>1, <4>3, LenProperties
      <4> QED
        BY <4>1, <4>2, <4>4
    <3>3. DOMAIN requeridos' = 1..Len(requeridos') /\ Len(requeridos') \in Nat
      BY <3>2, LenProperties
    <3>4. Len(requeridos') = Len(requeridos) + 1
      BY <3>2, <3>3
    <3> QED
      BY <2>1, <2>2, <3>1, <3>4, SemaforosIguales DEF Semaforos
  <2> QED
    BY <2>1, <2>3, <2>4
<1>3. CASE Elegir
  <2>1. /\ sem' = [sem EXCEPT !.requeridos = @ - 1, !.seleccionar = @ - 1]
        /\ UNCHANGED <<colas, hilos>>
    BY <1>3 DEF Elegir
  <2>2. /\ sem'.requeridos = sem.requeridos - 1
        /\ sem'.listos = sem.listos /\ sem'.cpu = sem.cpu /\ sem'.equipo = sem.equipo
    BY <2>1, SemTipo DEF TSem
  <2>3. TypeOK' /\ Len(requeridos') = Len(requeridos) - 1
    BY <1>3, ElegirTipos
  <2>4. sem'.requeridos = Len(requeridos')
    BY <2>2, <2>3 DEF Semaforos
  <2> QED
    BY <1>0, <2>1, <2>2, <2>3, <2>4, SemaforosIguales
<1>4. CASE Sacar
  <2> DEFINE e == seleccion.entrenador
             de == ColaDe(e)
  <2>1. TypeOK' /\ e \in Entrenadores /\ de \in {"NEW", "BLOCKED"}
    BY <1>4, SacarTipos
  <2>2. /\ colas' = Mover1(e, de, "READY") /\ sem' = [sem EXCEPT !.listos = @ + 1]
        /\ UNCHANGED <<hilos, requeridos>>
    BY <1>4 DEF Sacar, listas
  <2> HIDE DEF e, de
  <2>3. /\ sem'.listos = sem.listos + 1
        /\ sem'.requeridos = sem.requeridos /\ sem'.cpu = sem.cpu /\ sem'.equipo = sem.equipo
    BY <2>2, SemTipo DEF TSem
  <2>4. /\ Len(colas'["READY"]) = Len(colas["READY"]) + 1
        /\ \A c \in Colas \ {de, "READY"} : colas'[c] = colas[c]
    BY <2>1, <2>2, Mover1Colas
  <2>5. colas'["EXECUTE"] = colas["EXECUTE"] /\ colas'["FINISHED"] = colas["FINISHED"]
    BY <2>1, <2>4
  <2>6. \A f \in Entrenadores : EnCPU(f)' = EnCPU(f)
    BY <2>2 DEF EnCPU
  <2>7. \A f \in Entrenadores : EnCPU(f)' = Veces(f, colas["EXECUTE"])'
    BY <2>5, <2>6 DEF Semaforos
  <2>8. /\ sem'.requeridos = Len(requeridos') /\ sem'.listos = Len(colas'["READY"])
        /\ sem'.cpu + Len(colas'["EXECUTE"]) = 1 /\ sem'.equipo = Len(colas'["FINISHED"])
    BY <2>2, <2>3, <2>4, <2>5 DEF Semaforos
  <2> QED
    BY <1>0, <2>1, <2>7, <2>8 DEF Semaforos
<1> QED
  BY <1>0, <1>1, <1>2, <1>3, <1>4

LEMMA PlanificarSemaforos ==
  ASSUME TypeOK, Semaforos, \A e \in Entrenadores : Hizo(e), Planificar
  PROVE  TypeOK' /\ Semaforos' /\ \A e \in Entrenadores : Hizo(e)'
<1> USE DEF Colas
<1>1. PICK e \in Entrenadores :
        /\ Contains(colas["READY"], e)
        /\ colas' = Mover1(e, "READY", "EXECUTE")
        /\ hilos' = [hilos EXCEPT ![e].turno = @ + 1]
  BY PlanificarTipos
<1>2. TypeOK'
  BY PlanificarTipos
<1>3. /\ sem' = [sem EXCEPT !.listos = @ - 1, !.cpu = @ - 1]
      /\ UNCHANGED <<catchs, requeridos>>
  BY DEF Planificar, listas
<1>4. /\ sem'.listos = sem.listos - 1 /\ sem'.cpu = sem.cpu - 1
      /\ sem'.requeridos = sem.requeridos /\ sem'.equipo = sem.equipo /\ sem.cpu \in Nat
  BY <1>3, SemTipo DEF TSem
<1>5. /\ Len(colas'["READY"]) = Len(colas["READY"]) - 1
      /\ Len(colas'["EXECUTE"]) = Len(colas["EXECUTE"]) + 1
      /\ \A x : Veces(x, colas'["EXECUTE"]) = Veces(x, colas["EXECUTE"]) + (IF x = e THEN 1 ELSE 0)
      /\ colas'["FINISHED"] = colas["FINISHED"]
      /\ \A x : Veces(x, colas["EXECUTE"]) \in Nat
      /\ Len(colas["EXECUTE"]) \in Nat
  BY <1>1, Mover1Colas, ColaTipo
<1>6. /\ hilos'[e].turno = hilos[e].turno + 1 /\ hilos'[e].paso = hilos[e].paso
      /\ \A f \in Entrenadores : f # e => hilos'[f] = hilos[f]
      /\ \A f \in Entrenadores : hilos'[f].paso = hilos[f].paso /\ hilos'[f].socio = hilos[f].socio
  BY <1>1, HiloTipo DEF TypeOK, THilo
<1>7. EnCPU(e)' = EnCPU(e) + 1
  BY <1>6, HiloTipo DEF EnCPU
<1>8. EnCPU(e)' = Veces(e, colas'["EXECUTE"])
  BY <1>5, <1>7 DEF Semaforos
<1>9. \A f \in Entrenadores : f # e => Veces(f, colas'["EXECUTE"]) = Veces(f, colas["EXECUTE"])
  BY <1>5
<1>10. Semaforos'
  <2>1. /\ sem'.listos = Len(colas'["READY"]) /\ sem'.cpu + Len(colas'["EXECUTE"]) = 1
        /\ sem'.equipo = Len(colas'["FINISHED"])
    BY <1>4, <1>5 DEF Semaforos
  <2> QED
    BY <1>3, <1>4, <1>6, <1>8, <1>9, <2>1, SemaforosDe
<1>11. \A f \in Entrenadores : Hizo(f)'
  BY <1>3, <1>6 DEF Hizo, Vuelve, Enviando
<1> QED
  BY <1>2, <1>10, <1>11

(* The steps of a trainer's thread. *)
LEMMA MoverSemaforos ==
  ASSUME TypeOK, Semaforos, \A f \in Entrenadores : Hizo(f), NEW e \in Entrenadores, Mover(e)
  PROVE  TypeOK' /\ Semaforos' /\ \A f \in Entrenadores : Hizo(f)'
<1> USE DEF Colas
<1>1. TypeOK' /\ hilos[e].paso = "dormido"
  BY MoverTipos DEF Mover, Despierta, En
<1>2. /\ hilos' = [hilos EXCEPT ![e].paso = "decidir", ![e].turno = @ - 1]
      /\ UNCHANGED <<colas, sem, requeridos, catchs>>
  BY DEF Mover, listas
<1>3. /\ hilos'[e].turno = hilos[e].turno - 1 /\ hilos'[e].paso = "decidir"
      /\ \A f \in Entrenadores : f # e => hilos'[f] = hilos[f]
      /\ hilos[e].turno \in Nat
  BY <1>2, HiloTipo DEF TypeOK, THilo
<1>4. EnCPU(e)' = EnCPU(e)
  BY <1>1, <1>3 DEF EnCPU
<1>5. EnCPU(e)' = Veces(e, colas'["EXECUTE"])
  BY <1>2, <1>4 DEF Semaforos
<1>6. Semaforos'
  <2>1. /\ sem'.listos = Len(colas'["READY"]) /\ sem'.cpu + Len(colas'["EXECUTE"]) = 1
        /\ sem'.equipo = Len(colas'["FINISHED"])
    BY <1>2 DEF Semaforos
  <2> QED
    BY <1>2, <1>3, <1>5, <2>1, SemaforosDe
<1>7. \A f \in Entrenadores : Hizo(f)'
  BY <1>2, <1>3 DEF Hizo, Vuelve, Enviando
<1> QED
  BY <1>1, <1>6, <1>7

LEMMA VolverSemaforos ==
  ASSUME TypeOK, Semaforos, \A f \in Entrenadores : Hizo(f), NEW e \in Entrenadores, VolverAReady(e)
  PROVE  TypeOK' /\ Semaforos' /\ \A f \in Entrenadores : Hizo(f)'
<1> USE DEF Colas
<1>1. TypeOK' /\ hilos[e].paso = "decidir"
  BY VolverTipos DEF VolverAReady, Decidiendo, En
<1>2. /\ colas' = Mover1(e, "EXECUTE", "READY")
      /\ sem' = [sem EXCEPT !.cpu = @ + 1, !.listos = @ + 1]
      /\ Ir(e, "dormido")
      /\ UNCHANGED <<requeridos, catchs>>
  BY DEF VolverAReady, DejarCPU, listas
<1>3. /\ hilos'[e].turno = hilos[e].turno /\ hilos'[e].paso = "dormido" /\ hilos[e].turno \in Nat
      /\ \A f \in Entrenadores : f # e => hilos'[f] = hilos[f]
  BY <1>2, HiloTipo DEF TypeOK, THilo, Ir
<1>4. EnCPU(e)' = EnCPU(e) - 1 /\ EnCPU(e) > 0 /\ EnCPU(e) \in Nat
  BY <1>1, <1>3 DEF EnCPU
<1>5. Contains(colas["EXECUTE"], e)
  BY <1>4, EstaEnEjecucion
<1>6. /\ Len(colas'["READY"]) = Len(colas["READY"]) + 1
      /\ Len(colas'["EXECUTE"]) = Len(colas["EXECUTE"]) - 1
      /\ \A x : Veces(x, colas'["EXECUTE"]) = Veces(x, colas["EXECUTE"]) - (IF x = e THEN 1 ELSE 0)
      /\ colas'["FINISHED"] = colas["FINISHED"]
      /\ \A x : Veces(x, colas["EXECUTE"]) \in Nat
      /\ Len(colas["EXECUTE"]) \in Nat
  <2>1. /\ Len(colas'["EXECUTE"]) = Len(colas["EXECUTE"]) - 1
        /\ Len(colas'["READY"]) = Len(colas["READY"]) + 1
        /\ \A x : Veces(x, colas'["EXECUTE"]) = Veces(x, colas["EXECUTE"]) - (IF x = e THEN 1 ELSE 0)
        /\ \A c \in Colas \ {"EXECUTE", "READY"} : colas'[c] = colas[c]
    <3>1. "EXECUTE" \in Colas /\ "READY" \in Colas
      BY DEF Colas
    <3>2. colas' = Mover1(e, "EXECUTE", "READY")
      BY <1>2
    <3> QED
      BY <1>5, <3>1, <3>2, Mover1Presente
  <2>2. \A x : Veces(x, colas["EXECUTE"]) \in Nat
    BY ColaTipo DEF Colas
  <2>3. Len(colas["EXECUTE"]) \in Nat
    BY ColaTipo DEF Colas
  <2> QED
    BY <2>1, <2>2, <2>3 DEF Colas
<1>7. EnCPU(e)' = Veces(e, colas'["EXECUTE"])
  BY <1>4, <1>6 DEF Semaforos
<1>8. /\ sem'.listos = sem.listos + 1 /\ sem'.cpu = sem.cpu + 1 /\ sem.cpu \in Nat
      /\ sem'.requeridos = sem.requeridos /\ sem'.equipo = sem.equipo
  BY <1>2, SemTipo DEF TSem
<1>9. \A f \in Entrenadores : f # e => Veces(f, colas'["EXECUTE"]) = Veces(f, colas["EXECUTE"])
  BY <1>6
<1>10. Semaforos'
  <2>1. /\ sem'.listos = Len(colas'["READY"]) /\ sem'.cpu + Len(colas'["EXECUTE"]) = 1
        /\ sem'.equipo = Len(colas'["FINISHED"])
    BY <1>6, <1>8 DEF Semaforos
  <2> QED
    BY <1>2, <1>3, <1>7, <1>8, <1>9, <2>1, SemaforosDe
<1>11. \A f \in Entrenadores : Hizo(f)'
  BY <1>2, <1>3 DEF Hizo, Vuelve, Enviando
<1> QED
  BY <1>1, <1>10, <1>11

LEMMA EnviarSemaforos ==
  ASSUME TypeOK, Semaforos, \A f \in Entrenadores : Hizo(f), NEW e \in Entrenadores, EnviarCatch(e)
  PROVE  /\ TypeOK' /\ Semaforos' /\ \A f \in Entrenadores : Hizo(f)'
         /\ Contains(colas["EXECUTE"], e)
<1> USE DEF Colas
<1>1. TypeOK' /\ hilos[e].paso = "decidir"
  BY EnviarTipos DEF EnviarCatch, Decidiendo, En
<1>2. /\ colas' = [colas EXCEPT !["EXECUTE"] = RemoveFirst(colas["EXECUTE"], e)]
      /\ DOMAIN catchs' = DOMAIN catchs \cup {Len(catchs) + 1}
      /\ \A c \in DOMAIN catchs : catchs'[c] = catchs[c]
      /\ catchs'[Len(catchs) + 1].de = e
  BY EnviarTipos
<1>3. /\ sem' = [sem EXCEPT !.cpu = @ + 1] /\ Ir(e, "bloquear") /\ requeridos' = requeridos
  BY DEF EnviarCatch, listas
<1>4. /\ hilos'[e].turno = hilos[e].turno /\ hilos'[e].paso = "bloquear" /\ hilos[e].turno \in Nat
      /\ \A f \in Entrenadores : f # e => hilos'[f] = hilos[f]
  BY <1>3, HiloTipo DEF TypeOK, THilo, Ir
<1>5. EnCPU(e)' = EnCPU(e) - 1 /\ EnCPU(e) > 0 /\ EnCPU(e) \in Nat
  BY <1>1, <1>4 DEF EnCPU
<1>6. Contains(colas["EXECUTE"], e)
  BY <1>5, EstaEnEjecucion
<1>7. /\ colas'["EXECUTE"] = RemoveFirst(colas["EXECUTE"], e)
      /\ colas'["READY"] = colas["READY"] /\ colas'["FINISHED"] = colas["FINISHED"]
      /\ colas["EXECUTE"] \in Seq(Entrenadores) /\ Len(colas["EXECUTE"]) \in Nat
  BY <1>2, ColaTipo DEF TypeOK
<1>8. /\ Len(colas'["EXECUTE"]) = Len(colas["EXECUTE"]) - 1
      /\ \A x : Veces(x, colas'["EXECUTE"]) = Veces(x, colas["EXECUTE"]) - (IF x = e THEN 1 ELSE 0)
      /\ \A x : Veces(x, colas["EXECUTE"]) \in Nat
  BY <1>6, <1>7, VecesRemoveFirst, VecesTipo
<1>9. EnCPU(e)' = Veces(e, colas'["EXECUTE"])
  BY <1>5, <1>8 DEF Semaforos
<1>10. /\ sem'.cpu = sem.cpu + 1 /\ sem.cpu \in Nat
       /\ sem'.listos = sem.listos /\ sem'.requeridos = sem.requeridos /\ sem'.equipo = sem.equipo
  BY <1>3, SemTipo DEF TSem
<1>11. \A f \in Entrenadores : f # e => Veces(f, colas'["EXECUTE"]) = Veces(f, colas["EXECUTE"])
  BY <1>8
<1>12. Semaforos'
  <2>1. /\ sem'.listos = Len(colas'["READY"]) /\ sem'.cpu + Len(colas'["EXECUTE"]) = 1
        /\ sem'.equipo = Len(colas'["FINISHED"])
    BY <1>7, <1>8, <1>10 DEF Semaforos
  <2> QED
    BY <1>3, <1>4, <1>9, <1>10, <1>11, <2>1, SemaforosDe
<1>13. \A f \in Entrenadores : Hizo(f)'
  <2> SUFFICES ASSUME NEW f \in Entrenadores PROVE Hizo(f)'
    OBVIOUS
  <2>1. CASE f = e
    BY <1>2, <1>4, <2>1 DEF Hizo, Vuelve, Enviando
  <2>2. CASE f # e
    BY <1>2, <1>4, <2>2 DEF Hizo, Vuelve, Enviando
  <2> QED
    BY <2>1, <2>2
<1> QED
  BY <1>1, <1>6, <1>12, <1>13

LEMMA BloquearSemaforos ==
  ASSUME TypeOK, Semaforos, \A f \in Entrenadores : Hizo(f), NEW e \in Entrenadores, Bloquear(e)
  PROVE  TypeOK' /\ Semaforos' /\ \A f \in Entrenadores : Hizo(f)'
<1> USE DEF Colas
<1>1. /\ TypeOK' /\ hilos[e].paso = "bloquear"
      /\ colas' = [colas EXCEPT !["BLOCKED"] = Append(colas["BLOCKED"], e)]
      /\ catchs' = catchs \/ catchs' = [catchs EXCEPT ![SuCatch(e)].paso = "acreditar"]
  BY BloquearTipos DEF Enviando
<1>2. /\ Ir(e, "dormido") /\ sem' = sem /\ requeridos' = requeridos
  BY DEF Bloquear, listas
<1>3. /\ hilos'[e].turno = hilos[e].turno /\ hilos'[e].paso = "dormido" /\ hilos[e].turno \in Nat
      /\ \A f \in Entrenadores : f # e => hilos'[f] = hilos[f]
  BY <1>2, HiloTipo DEF TypeOK, THilo, Ir
<1>4. EnCPU(e)' = EnCPU(e)
  BY <1>1, <1>3 DEF EnCPU
<1>5. /\ colas'["EXECUTE"] = colas["EXECUTE"]
      /\ colas'["READY"] = colas["READY"] /\ colas'["FINISHED"] = colas["FINISHED"]
  BY <1>1 DEF TypeOK
<1>6. EnCPU(e)' = Veces(e, colas'["EXECUTE"])
  BY <1>4, <1>5 DEF Semaforos
<1>7. Semaforos'
  <2>1. /\ sem'.listos = Len(colas'["READY"]) /\ sem'.cpu + Len(colas'["EXECUTE"]) = 1
        /\ sem'.equipo = Len(colas'["FINISHED"])
    BY <1>2, <1>5 DEF Semaforos
  <2> QED
    BY <1>2, <1>3, <1>5, <1>6, <2>1, SemaforosDe
<1>8. \A c \in DOMAIN catchs : c \in DOMAIN catchs' /\ catchs'[c].de = catchs[c].de
  <2>1. SuCatch(e) \in DOMAIN catchs
    BY <1>1, SuCatchEs DEF Enviando
  <2>2. "acreditar" \in PasosCatch
    BY DEF PasosCatch
  <2> QED
    BY <1>1, <2>1, <2>2, PasoCatchTipo
<1>9. \A f \in Entrenadores : Hizo(f)'
  BY <1>3, <1>8 DEF Hizo, Vuelve, Enviando
<1> QED
  BY <1>1, <1>7, <1>9

(* The threads of the CAUGHT, the end of the captures and the swaps. *)
LEMMA CaughtSemaforos ==
  ASSUME TypeOK, Semaforos, \A f \in Entrenadores : Hizo(f), NEW c \in DOMAIN catchs,
         Caught(c) \/ Acreditar(c) \/ Soltar(c) \/ Auxiliar(c)
  PROVE  TypeOK' /\ Semaforos' /\ \A f \in Entrenadores : Hizo(f)'
<1> USE DEF Colas
<1>1. hilos' = hilos
  BY DEF Caught, Acreditar, Soltar, Auxiliar
<1>2. /\ TypeOK'
      /\ \A d \in DOMAIN catchs : d \in DOMAIN catchs' /\ catchs'[d].de = catchs[d].de
  <2>1. "soltar" \in PasosCatch /\ "fin" \in PasosCatch
    BY DEF PasosCatch
  <2>2. CASE Caught(c)
    BY <2>2, CaughtTipos
  <2>3. CASE Acreditar(c)
    BY <2>1, <2>3, AcreditarTipos, PasoCatchTipo
  <2>4. CASE Soltar(c)
    BY <2>1, <2>4, SoltarTipos, PasoCatchTipo
  <2>5. CASE Auxiliar(c)
    BY <2>1, <2>5, AuxiliarTipos, PasoCatchTipo
  <2> QED
    BY <2>2, <2>3, <2>4, <2>5
<1>3. \A f \in Entrenadores : Hizo(f)'
  BY <1>1, <1>2, HizoIgual
<1>4. ASSUME Caught(c) \/ Acreditar(c) PROVE Semaforos'
  <2>1. UNCHANGED <<colas, sem, requeridos>>
    BY <1>4 DEF Caught, Acreditar, listas
  <2> QED
    BY <1>1, <2>1, SemaforosIguales DEF Semaforos
<1>5. ASSUME Soltar(c) PROVE Semaforos'
  <2> DEFINE e == catchs[c].de
             listo == Ninguno(ent[e].falta)
  <2>1. /\ listo => Contains(colas["BLOCKED"], e)
        /\ colas' = IF listo THEN Mover1(e, "BLOCKED", "FINISHED") ELSE colas
        /\ sem'.equipo = (IF listo THEN sem.equipo + 1 ELSE sem.equipo)
        /\ sem'.requeridos = sem.requeridos /\ sem'.listos = sem.listos /\ sem'.cpu = sem.cpu
    BY <1>5, SoltarTipos
  <2>2. e \in Entrenadores /\ requeridos' = requeridos
    BY <1>5, CatchTipo DEF Soltar, listas
  <2> HIDE DEF e, listo
  <2>3. CASE ~listo
    BY <1>1, <2>1, <2>2, <2>3, SemaforosIguales DEF Semaforos
  <2>4. CASE listo
    <3>1. /\ Len(colas'["FINISHED"]) = Len(colas["FINISHED"]) + 1
          /\ colas'["EXECUTE"] = colas["EXECUTE"] /\ colas'["READY"] = colas["READY"]
      BY <2>1, <2>2, <2>4, Mover1Colas
    <3>2. \A f \in Entrenadores : EnCPU(f)' = EnCPU(f)
      BY <1>1 DEF EnCPU
    <3>3. \A f \in Entrenadores : EnCPU(f)' = Veces(f, colas["EXECUTE"])'
      BY <3>1, <3>2 DEF Semaforos
    <3>4. /\ sem'.requeridos = Len(requeridos') /\ sem'.listos = Len(colas'["READY"])
          /\ sem'.cpu + Len(colas'["EXECUTE"]) = 1 /\ sem'.equipo = Len(colas'["FINISHED"])
      BY <2>1, <2>2, <2>4, <3>1 DEF Semaforos
    <3> QED
      BY <3>3, <3>4 DEF Semaforos
  <2> QED
    BY <2>3, <2>4
<1>6. ASSUME Auxiliar(c) PROVE Semaforos'
  <2>1. UNCHANGED colas
    BY <1>6 DEF Auxiliar
  <2> QED
    BY <1>1, <1>6, <2>1, AuxiliarTipos, SemaforosIguales
<1> QED
  BY <1>2, <1>3, <1>4, <1>5, <1>6

LEMMA FinCapturasSemaforos ==
  ASSUME TypeOK, Semaforos, \A f \in Entrenadores : Hizo(f), FinCapturas
  PROVE  TypeOK' /\ Semaforos' /\ \A f \in Entrenadores : Hizo(f)'
<1>1. UNCHANGED <<hilos, colas, requeridos, catchs>>
  BY DEF FinCapturas, listas
<1>2. sem'.requeridos = Len(requeridos')
  BY <1>1, FinCapturasTipos DEF Semaforos
<1> QED
  BY <1>1, <1>2, FinCapturasTipos, SemaforosIguales, HizoIgual

LEMMA DetectarSemaforos ==
  ASSUME TypeOK, Semaforos, \A f \in Entrenadores : Hizo(f), SobraDeMas, DetectarDeadlock
  PROVE  TypeOK' /\ Semaforos' /\ \A f \in Entrenadores : Hizo(f)'
<1> USE DEF Colas
<1>1. UNCHANGED <<hilos, requeridos, catchs>>
  BY DEF DetectarDeadlock, listas
<1>2. /\ TypeOK' /\ sem'.requeridos = sem.requeridos /\ sem'.cpu = sem.cpu /\ sem'.equipo = sem.equipo
      /\ \/ colas' = colas /\ sem'.listos = sem.listos
         \/ sem'.listos = sem.listos + 1 /\ \E e \in Entrenadores : colas' = Mover1(e, "BLOCKED", "READY")
  BY DetectarTipos
<1>3. \A f \in Entrenadores : Hizo(f)'
  BY <1>1, HizoIgual
<1>4. CASE colas' = colas /\ sem'.listos = sem.listos
  BY <1>1, <1>2, <1>3, <1>4, SemaforosIguales DEF Semaforos
<1>5. CASE sem'.listos = sem.listos + 1 /\ \E e \in Entrenadores : colas' = Mover1(e, "BLOCKED", "READY")
  <2>1. PICK e \in Entrenadores : colas' = Mover1(e, "BLOCKED", "READY")
    BY <1>5
  <2>2. /\ Len(colas'["READY"]) = Len(colas["READY"]) + 1
        /\ colas'["EXECUTE"] = colas["EXECUTE"] /\ colas'["FINISHED"] = colas["FINISHED"]
    BY <2>1, Mover1Colas
  <2>3. \A f \in Entrenadores : EnCPU(f)' = EnCPU(f)
    BY <1>1 DEF EnCPU
  <2>4. \A f \in Entrenadores : EnCPU(f)' = Veces(f, colas["EXECUTE"])'
    BY <2>2, <2>3 DEF Semaforos
  <2>5. /\ sem'.requeridos = Len(requeridos') /\ sem'.listos = Len(colas'["READY"])
        /\ sem'.cpu + Len(colas'["EXECUTE"]) = 1 /\ sem'.equipo = Len(colas'["FINISHED"])
    BY <1>1, <1>2, <1>5, <2>2 DEF Semaforos
  <2>6. Semaforos'
    BY <2>4, <2>5 DEF Semaforos
  <2> QED
    BY <1>2, <1>3, <2>6
<1> QED
  BY <1>2, <1>4, <1>5

LEMMA IntercambiarSemaforos ==
  ASSUME TypeOK, Semaforos, \A f \in Entrenadores : Hizo(f), SobraDeMas, NEW e \in Entrenadores, Intercambiar(e)
  PROVE  TypeOK' /\ Semaforos' /\ \A f \in Entrenadores : Hizo(f)'
<1> USE DEF Colas
<1> DEFINE o == ent[e].destino.socio
<1>1. /\ TypeOK' /\ o \in Entrenadores /\ hilos[e].paso = "decidir"
      /\ hilos' = [hilos EXCEPT ![e].paso = "transicion", ![e].socio = o]
  BY IntercambiarTipos
<1>2. UNCHANGED <<colas, sem, requeridos, catchs>>
  BY DEF Intercambiar, listas
<1> HIDE DEF o
<1>3. /\ hilos'[e].turno = hilos[e].turno /\ hilos'[e].paso = "transicion" /\ hilos'[e].socio = o
      /\ \A f \in Entrenadores : f # e => hilos'[f] = hilos[f]
  BY <1>1, HiloTipo DEF TypeOK, THilo
<1>4. \A f \in Entrenadores : EnCPU(f)' = EnCPU(f)
  BY <1>1, <1>3 DEF EnCPU
<1>5. Semaforos'
  BY <1>2, <1>4 DEF Semaforos
<1>6. \A f \in Entrenadores : Hizo(f)'
  <2> SUFFICES ASSUME NEW f \in Entrenadores PROVE Hizo(f)'
    OBVIOUS
  <2>1. CASE f = e
    BY <1>1, <1>3, <2>1 DEF Hizo, Vuelve, Enviando
  <2>2. CASE f # e
    BY <1>2, <1>3, <2>2 DEF Hizo, Vuelve, Enviando
  <2> QED
    BY <2>1, <2>2
<1> QED
  BY <1>1, <1>5, <1>6

LEMMA MovidoSemaforos ==
  ASSUME TypeOK, Semaforos, \A f \in Entrenadores : Hizo(f), NEW e \in Entrenadores, TransicionarMovido(e)
  PROVE  /\ TypeOK' /\ Semaforos' /\ \A f \in Entrenadores : Hizo(f)'
         /\ Contains(colas["EXECUTE"], e)
<1> USE DEF Colas
<1>1. /\ TypeOK' /\ hilos[e].paso = "transicion"
      /\ colas' = [colas EXCEPT !["EXECUTE"] = RemoveFirst(colas["EXECUTE"], e)]
      /\ sem'.requeridos = sem.requeridos /\ sem'.listos = sem.listos
      /\ sem'.cpu = sem.cpu + 1 /\ sem'.equipo = sem.equipo
  BY MovidoTipos
<1>2. Ir(e, "asentar") /\ UNCHANGED <<requeridos, catchs>>
  BY DEF TransicionarMovido, listas
<1>3. /\ hilos'[e].turno = hilos[e].turno /\ hilos'[e].paso = "asentar" /\ hilos[e].turno \in Nat
      /\ hilos'[e].socio = hilos[e].socio
      /\ \A f \in Entrenadores : f # e => hilos'[f] = hilos[f]
  BY <1>2, HiloTipo DEF TypeOK, THilo, Ir
<1>4. EnCPU(e)' = EnCPU(e) - 1 /\ EnCPU(e) > 0 /\ EnCPU(e) \in Nat
  BY <1>1, <1>3 DEF EnCPU
<1>5. Contains(colas["EXECUTE"], e)
  BY <1>4, EstaEnEjecucion
<1>6. /\ colas'["EXECUTE"] = RemoveFirst(colas["EXECUTE"], e)
      /\ colas'["READY"] = colas["READY"] /\ colas'["FINISHED"] = colas["FINISHED"]
      /\ colas["EXECUTE"] \in Seq(Entrenadores) /\ Len(colas["EXECUTE"]) \in Nat
  BY <1>1, ColaTipo DEF TypeOK
<1>7. /\ Len(colas'["EXECUTE"]) = Len(colas["EXECUTE"]) - 1
      /\ \A x : Veces(x, colas'["EXECUTE"]) = Veces(x, colas["EXECUTE"]) - (IF x = e THEN 1 ELSE 0)
      /\ \A x : Veces(x, colas["EXECUTE"]) \in Nat
  BY <1>5, <1>6, VecesRemoveFirst, VecesTipo
<1>8. EnCPU(e)' = Veces(e, colas'["EXECUTE"])
  BY <1>4, <1>7 DEF Semaforos
<1>9. \A f \in Entrenadores : f # e => Veces(f, colas'["EXECUTE"]) = Veces(f, colas["EXECUTE"])
  BY <1>7
<1>10. Semaforos'
  <2>1. sem.cpu \in Nat
    BY SemTipo
  <2>2. /\ sem'.listos = Len(colas'["READY"]) /\ sem'.cpu + Len(colas'["EXECUTE"]) = 1
        /\ sem'.equipo = Len(colas'["FINISHED"])
    BY <1>1, <1>6, <1>7, <2>1 DEF Semaforos
  <2> QED
    BY <1>1, <1>2, <1>3, <1>8, <1>9, <2>2, SemaforosDe
<1>11. \A f \in Entrenadores : Hizo(f)'
  <2> SUFFICES ASSUME NEW f \in Entrenadores PROVE Hizo(f)'
    OBVIOUS
  <2>1. CASE f = e
    BY <1>1, <1>3, <2>1 DEF Hizo, Vuelve, Enviando
  <2>2. CASE f # e
    BY <1>2, <1>3, <2>2 DEF Hizo, Vuelve, Enviando
  <2> QED
    BY <2>1, <2>2
<1> QED
  BY <1>1, <1>5, <1>10, <1>11

LEMMA AsentarSemaforos ==
  ASSUME TypeOK, Semaforos, \A f \in Entrenadores : Hizo(f), NEW e \in Entrenadores, Asentar(e)
  PROVE  /\ TypeOK' /\ Semaforos' /\ \A f \in Entrenadores : Hizo(f)'
<1> USE DEF Colas
<1> DEFINE listo == Ninguno(ent[e].falta)
           cola == IF listo THEN "FINISHED" ELSE "BLOCKED"
<1>1. /\ TypeOK' /\ hilos[e].paso = "asentar"
      /\ colas' = [colas EXCEPT ![cola] = Append(colas[cola], e)]
      /\ sem'.requeridos = sem.requeridos /\ sem'.listos = sem.listos
      /\ sem'.cpu = sem.cpu /\ sem'.equipo = IF listo THEN sem.equipo + 1 ELSE sem.equipo
  BY AsentarTipos
<1>2. Ir(e, "transicionSocio") /\ UNCHANGED <<requeridos, catchs>>
  BY DEF Asentar, listas
<1> HIDE DEF listo
<1>3. /\ hilos'[e].turno = hilos[e].turno /\ hilos'[e].paso = "transicionSocio" /\ hilos[e].turno \in Nat
      /\ hilos'[e].socio = hilos[e].socio
      /\ \A f \in Entrenadores : f # e => hilos'[f] = hilos[f]
  BY <1>2, HiloTipo DEF TypeOK, THilo, Ir
<1>4. EnCPU(e)' = EnCPU(e)
  BY <1>1, <1>3 DEF EnCPU
<1>5. cola \in {"FINISHED", "BLOCKED"} /\ (cola = "FINISHED" <=> listo)
  OBVIOUS
<1> HIDE DEF cola
<1>6. /\ colas'["READY"] = colas["READY"] /\ colas'["EXECUTE"] = colas["EXECUTE"]
      /\ colas'[cola] = Append(colas[cola], e) /\ \A q \in Colas : q # cola => colas'[q] = colas[q]
  BY <1>1, <1>5 DEF TypeOK
<1>7. /\ Len(colas'["FINISHED"]) = Len(colas["FINISHED"]) + (IF listo THEN 1 ELSE 0)
      /\ Len(colas["FINISHED"]) \in Nat
  <2>1. colas["FINISHED"] \in Seq(Entrenadores) /\ Len(colas["FINISHED"]) \in Nat
    BY ColaTipo
  <2>2. CASE listo
    BY <1>5, <1>6, <2>1, <2>2, AppendProperties
  <2>3. CASE ~listo
    BY <1>5, <1>6, <2>1, <2>3
  <2> QED
    BY <2>2, <2>3
<1>8. EnCPU(e)' = Veces(e, colas'["EXECUTE"])
  BY <1>4, <1>6 DEF Semaforos
<1>9. Semaforos'
  <2>1. sem'.listos = Len(colas'["READY"]) /\ sem'.cpu + Len(colas'["EXECUTE"]) = 1
    BY <1>1, <1>6 DEF Semaforos
  <2>2. sem'.equipo = Len(colas'["FINISHED"])
    <3>1. sem.equipo = Len(colas["FINISHED"])
      BY DEF Semaforos
    <3>2. CASE listo
      BY <1>1, <1>7, <3>1, <3>2
    <3>3. CASE ~listo
      BY <1>1, <1>7, <3>1, <3>3
    <3> QED
      BY <3>2, <3>3
  <2> QED
    BY <1>1, <1>2, <1>3, <1>6, <1>8, <2>1, <2>2, SemaforosDe
<1>10. \A f \in Entrenadores : Hizo(f)'
  <2> SUFFICES ASSUME NEW f \in Entrenadores PROVE Hizo(f)'
    OBVIOUS
  <2>1. CASE f = e
    BY <1>1, <1>3, <2>1 DEF Hizo, Vuelve, Enviando
  <2>2. CASE f # e
    BY <1>2, <1>3, <2>2 DEF Hizo, Vuelve, Enviando
  <2> QED
    BY <2>1, <2>2
<1> QED
  BY <1>1, <1>9, <1>10

(* The partner was in colaBlocked, and is found there. *)
LEMMA SocioSemaforos ==
  ASSUME TypeOK, Semaforos, \A f \in Entrenadores : Hizo(f), NEW e \in Entrenadores, TransicionarSocio(e)
  PROVE  TypeOK' /\ Semaforos' /\ \A f \in Entrenadores : Hizo(f)'
<1> USE DEF Colas
<1> DEFINE o == hilos[e].socio
           listo == Ninguno(ent[o].falta)
<1>1. /\ TypeOK' /\ hilos[e].paso = "transicionSocio" /\ o \in Entrenadores
      /\ colas' = IF listo THEN Mover1(o, "BLOCKED", "FINISHED") ELSE colas
      /\ hilos' = [hilos EXCEPT ![e].paso = "dormido", ![e].socio = Nadie]
      /\ sem'.requeridos = sem.requeridos /\ sem'.listos = sem.listos
      /\ sem'.cpu = sem.cpu /\ sem'.equipo = IF listo THEN sem.equipo + 1 ELSE sem.equipo
  BY SocioTipos
<1>2. UNCHANGED <<requeridos, catchs>>
  BY DEF TransicionarSocio, listas
<1> HIDE DEF o, listo
<1>3. /\ hilos'[e].turno = hilos[e].turno /\ hilos'[e].paso = "dormido" /\ hilos[e].turno \in Nat
      /\ \A f \in Entrenadores : f # e => hilos'[f] = hilos[f]
  BY <1>1, HiloTipo DEF TypeOK, THilo
<1>4. \A f \in Entrenadores : EnCPU(f)' = EnCPU(f)
  BY <1>1, <1>3 DEF EnCPU
<1>5. /\ colas'["READY"] = colas["READY"] /\ colas'["EXECUTE"] = colas["EXECUTE"]
      /\ Len(colas'["FINISHED"]) = Len(colas["FINISHED"]) + (IF listo THEN 1 ELSE 0)
  <2>1. CASE listo
    BY <1>1, <2>1, Mover1Colas
  <2>2. CASE ~listo
    BY <1>1, <2>2, ColaTipo
  <2> QED
    BY <2>1, <2>2
<1>6. \A f \in Entrenadores : EnCPU(f)' = Veces(f, colas["EXECUTE"])'
  BY <1>4, <1>5 DEF Semaforos
<1>7. /\ sem'.requeridos = Len(requeridos') /\ sem'.listos = Len(colas'["READY"])
      /\ sem'.cpu + Len(colas'["EXECUTE"]) = 1 /\ sem'.equipo = Len(colas'["FINISHED"])
  BY <1>1, <1>2, <1>5, ColaTipo DEF Semaforos
<1>8. Semaforos'
  BY <1>6, <1>7 DEF Semaforos
<1>9. \A f \in Entrenadores : Hizo(f)'
  BY <1>2, <1>3 DEF Hizo, Vuelve, Enviando
<1> QED
  BY <1>1, <1>8, <1>9

(* Every step of the Team. *)
LEMMA SemaforosSiguen ==
  ASSUME TypeOK, Semaforos, \A e \in Entrenadores : Hizo(e), SobraDeMas, [Next]_vars
  PROVE  TypeOK' /\ Semaforos' /\ \A e \in Entrenadores : Hizo(e)'
<1>1. CASE (\E m \in Mensajes : Recibir(m) \/ Incluir(m)) \/ Elegir \/ Sacar
  BY <1>1, SeleccionSemaforos
<1>2. CASE Planificar
  BY <1>2, PlanificarSemaforos
<1>3. CASE \E e \in Entrenadores : HiloEntrenador(e)
  <2>1. PICK e \in Entrenadores : HiloEntrenador(e)
    BY <1>3
  <2>2. CASE Mover(e)
    BY <2>2, MoverSemaforos
  <2>3. CASE VolverAReady(e)
    BY <2>3, VolverSemaforos
  <2>4. CASE EnviarCatch(e)
    BY <2>4, EnviarSemaforos
  <2>5. CASE Bloquear(e)
    BY <2>5, BloquearSemaforos
  <2>6. CASE Intercambiar(e)
    BY <2>6, IntercambiarSemaforos
  <2>7. CASE TransicionarMovido(e)
    BY <2>7, MovidoSemaforos
  <2>8. CASE Asentar(e)
    BY <2>8, AsentarSemaforos
  <2>9. CASE TransicionarSocio(e)
    BY <2>9, SocioSemaforos
  <2> QED
    BY <2>1, <2>2, <2>3, <2>4, <2>5, <2>6, <2>7, <2>8, <2>9 DEF HiloEntrenador
<1>4. CASE \E c \in DOMAIN catchs : HiloCaught(c) \/ Caught(c)
  BY <1>4, CaughtSemaforos DEF HiloCaught
<1>5. CASE FinCapturas
  BY <1>5, FinCapturasSemaforos
<1>6. CASE DetectarDeadlock
  BY <1>6, DetectarSemaforos
<1>7. CASE Finalizar \/ Caer \/ UNCHANGED vars
  <2>1. TypeOK' /\ UNCHANGED <<colas, hilos, sem, requeridos, catchs>>
    BY <1>7, QuietoTipos
  <2>2. sem'.requeridos = Len(requeridos')
    BY <2>1 DEF Semaforos
  <2> QED
    BY <2>1, <2>2, SemaforosIguales, HizoIgual
<1> QED
  BY <1>1, <1>2, <1>3, <1>4, <1>5, <1>6, <1>7 DEF Next, Interno

-----------------------------------------------------------------------------
(* The accounts.                                                           *)

LEMMA Finitos == IsFiniteSet(Entrenadores) /\ IsFiniteSet(Especies)
BY TeamAssumption

Faltan(t, s) == [e \in Entrenadores |-> t[e].falta[s]]
Sobran(t, s) == [e \in Entrenadores |-> Veces(s, t[e].sobra)]

LEMMA CuentaTipo ==
  ASSUME NEW t \in [Entrenadores -> TEntrenador], NEW s \in Especies
  PROVE  /\ Faltan(t, s) \in [Entrenadores -> Nat] /\ Sobran(t, s) \in [Entrenadores -> Nat]
         /\ \A e \in Entrenadores : Faltan(t, s)[e] = t[e].falta[s] /\ Sobran(t, s)[e] = Veces(s, t[e].sobra)
         /\ Suma(Faltan(t, s)) \in Nat /\ Suma(Sobran(t, s)) \in Nat
<1>1. ASSUME NEW e \in Entrenadores PROVE t[e].falta[s] \in Nat /\ Veces(s, t[e].sobra) \in Nat
  <2>1. t[e].falta \in [Especies -> Nat] /\ t[e].sobra \in Seq(Especies)
    BY DEF TEntrenador
  <2> QED
    BY <2>1, VecesTipo
<1>2. Faltan(t, s) \in [Entrenadores -> Nat] /\ Sobran(t, s) \in [Entrenadores -> Nat]
  BY <1>1 DEF Faltan, Sobran
<1>3. Suma(Faltan(t, s)) \in Nat /\ Suma(Sobran(t, s)) \in Nat
  BY <1>2, SumaTipo, TeamAssumption
<1>4. \A e \in Entrenadores : Faltan(t, s)[e] = t[e].falta[s] /\ Sobran(t, s)[e] = Veces(s, t[e].sobra)
  BY DEF Faltan, Sobran
<1> QED
  BY <1>2, <1>3, <1>4

(* One of the trainers changes. *)
LEMMA CambiaUno ==
  ASSUME NEW t \in [Entrenadores -> TEntrenador], NEW u \in [Entrenadores -> TEntrenador], NEW s \in Especies,
         NEW e \in Entrenadores,
         \A f \in Entrenadores : f # e => u[f].falta = t[f].falta /\ u[f].sobra = t[f].sobra
  PROVE  /\ Suma(Faltan(u, s)) = Suma(Faltan(t, s)) - t[e].falta[s] + u[e].falta[s]
         /\ Suma(Sobran(u, s)) = Suma(Sobran(t, s)) - Veces(s, t[e].sobra) + Veces(s, u[e].sobra)
<1>1. \A f \in Entrenadores \ {e} : Faltan(u, s)[f] = Faltan(t, s)[f] /\ Sobran(u, s)[f] = Sobran(t, s)[f]
  BY CuentaTipo
<1>2. /\ Suma(Faltan(u, s)) = Suma(Faltan(t, s)) - Faltan(t, s)[e] + Faltan(u, s)[e]
      /\ Suma(Sobran(u, s)) = Suma(Sobran(t, s)) - Sobran(t, s)[e] + Sobran(u, s)[e]
  <2> DEFINE F == Faltan(t, s)
             G == Faltan(u, s)
             V == Sobran(t, s)
             W == Sobran(u, s)
  <2>1. F \in [Entrenadores -> Nat] /\ G \in [Entrenadores -> Nat] /\ V \in [Entrenadores -> Nat] /\ W \in [Entrenadores -> Nat]
    BY CuentaTipo
  <2> HIDE DEF F, G, V, W
  <2> QED
    BY <1>1, <2>1, Finitos, SumaCambio DEF F, G, V, W
<1> QED
  BY <1>2, CuentaTipo

(* Two of them do. *)
LEMMA CambianDos ==
  ASSUME NEW t \in [Entrenadores -> TEntrenador], NEW u \in [Entrenadores -> TEntrenador], NEW s \in Especies,
         NEW e \in Entrenadores, NEW o \in Entrenadores, e # o,
         \A f \in Entrenadores \ {e, o} : u[f].falta = t[f].falta /\ u[f].sobra = t[f].sobra
  PROVE  /\ Suma(Faltan(u, s)) = Suma(Faltan(t, s)) - t[e].falta[s] - t[o].falta[s] + u[e].falta[s] + u[o].falta[s]
         /\ Suma(Sobran(u, s)) = Suma(Sobran(t, s)) - Veces(s, t[e].sobra) - Veces(s, t[o].sobra)
                                   + Veces(s, u[e].sobra) + Veces(s, u[o].sobra)
<1>1. \A f \in Entrenadores \ {e, o} : Faltan(u, s)[f] = Faltan(t, s)[f] /\ Sobran(u, s)[f] = Sobran(t, s)[f]
  BY CuentaTipo
<1>2. /\ Suma(Faltan(u, s)) = Suma(Faltan(t, s)) - Faltan(t, s)[e] - Faltan(t, s)[o] + Faltan(u, s)[e] + Faltan(u, s)[o]
      /\ Suma(Sobran(u, s)) = Suma(Sobran(t, s)) - Sobran(t, s)[e] - Sobran(t, s)[o] + Sobran(u, s)[e] + Sobran(u, s)[o]
  <2> DEFINE F == Faltan(t, s)
             G == Faltan(u, s)
             V == Sobran(t, s)
             W == Sobran(u, s)
  <2>1. F \in [Entrenadores -> Nat] /\ G \in [Entrenadores -> Nat] /\ V \in [Entrenadores -> Nat] /\ W \in [Entrenadores -> Nat]
    BY CuentaTipo
  <2> HIDE DEF F, G, V, W
  <2> QED
    BY <1>1, <2>1, Finitos, SumaCambioDos DEF F, G, V, W
<1> QED
  BY <1>2, CuentaTipo

LEMMA CuentasIguales ==
  ASSUME Cuentas, globales' = globales,
         \A e \in Entrenadores : ent'[e].falta = ent[e].falta /\ ent'[e].sobra = ent[e].sobra /\ ent'[e].cupo = ent[e].cupo
  PROVE  Cuentas'
<1>1. SobraDeMas' /\ CuposCuadran'
  BY DEF Cuentas, SobraDeMas, CuposCuadran
<1>2. GlobalesCuadran'
  <2> SUFFICES ASSUME NEW s \in Especies
               PROVE  globales'[s] + Suma([e \in Entrenadores |-> Veces(s, ent'[e].sobra)])
                        = Suma([e \in Entrenadores |-> ent'[e].falta[s]])
    BY DEF GlobalesCuadran
  <2>1. /\ [e \in Entrenadores |-> Veces(s, ent'[e].sobra)] = [e \in Entrenadores |-> Veces(s, ent[e].sobra)]
        /\ [e \in Entrenadores |-> ent'[e].falta[s]] = [e \in Entrenadores |-> ent[e].falta[s]]
    OBVIOUS
  <2> QED
    BY <2>1 DEF Cuentas, GlobalesCuadran
<1> QED
  BY <1>1, <1>2 DEF Cuentas

(* A trainer without one of the pokemon it has left over. *)
LEMMA QuitarCuentas ==
  ASSUME NEW x \in TEntrenador, NEW s \in Especies, Contains(x.sobra, s)
  PROVE  /\ Len(RemoveFirst(x.sobra, s)) = Len(x.sobra) - 1 /\ Len(x.sobra) \in Nat
         /\ \A q \in Especies : /\ Veces(q, RemoveFirst(x.sobra, s)) = Veces(q, x.sobra) - (IF q = s THEN 1 ELSE 0)
                                /\ Veces(q, x.sobra) \in Nat
<1>1. x.sobra \in Seq(Especies)
  BY DEF TEntrenador
<1> QED
  BY <1>1, VecesRemoveFirst, VecesTipo, LenProperties

(* With one less to have, for all it lacks. *)
LEMMA FaltaUnoMenos ==
  ASSUME NEW x \in TEntrenador, NEW s \in Especies, x.falta[s] > 0,
         NEW g, g = [x.falta EXCEPT ![s] = x.falta[s] - 1]
  PROVE  /\ g \in [Especies -> Nat] /\ Suma(g) = Suma(x.falta) - 1 /\ Suma(x.falta) \in Nat
         /\ \A q \in Especies : g[q] = x.falta[q] - (IF q = s THEN 1 ELSE 0) /\ x.falta[q] \in Nat
<1>1. x.falta \in [Especies -> Nat]
  BY DEF TEntrenador
<1>2. g \in [Especies -> Nat] /\ g[s] = x.falta[s] - 1 /\ \A q \in Especies \ {s} : g[q] = x.falta[q]
  BY <1>1
<1>3. Suma(g) = Suma(x.falta) - x.falta[s] + g[s]
  <2> DEFINE f == x.falta
  <2>1. IsFiniteSet(Especies) /\ f \in [Especies -> Nat] /\ \A q \in Especies \ {s} : g[q] = f[q]
    BY <1>1, <1>2, TeamAssumption
  <2> HIDE DEF f
  <2>2. Suma(g) = Suma(f) - f[s] + g[s]
    BY <1>2, <2>1, SumaCambio
  <2> QED
    BY <2>2 DEF f
<1>4. Suma(x.falta) \in Nat /\ x.falta[s] \in Nat
  BY <1>1, SumaTipo, TeamAssumption
<1>5. Suma(g) = Suma(x.falta) - 1
  BY <1>2, <1>3, <1>4
<1>6. \A q \in Especies : g[q] = x.falta[q] - (IF q = s THEN 1 ELSE 0) /\ x.falta[q] \in Nat
  BY <1>1, <1>2
<1> QED
  BY <1>2, <1>4, <1>5, <1>6

(* A pokemon counts as one less lacked or one more left over. *)
LEMMA ObtenerCuentas ==
  ASSUME NEW x \in TEntrenador, NEW s \in Especies
  PROVE  LET y == Obtener(x, s)
             hacia == IF x.falta[s] > 0 THEN 1 ELSE 0
         IN  /\ Suma(y.falta) = Suma(x.falta) - hacia /\ Len(y.sobra) = Len(x.sobra) + (1 - hacia)
             /\ Suma(x.falta) \in Nat /\ Len(x.sobra) \in Nat
             /\ \A q \in Especies :
                  /\ y.falta[q] = x.falta[q] - (IF q = s THEN hacia ELSE 0)
                  /\ Veces(q, y.sobra) = Veces(q, x.sobra) + (IF q = s THEN 1 - hacia ELSE 0)
                  /\ x.falta[q] \in Nat /\ Veces(q, x.sobra) \in Nat
             /\ (\A q \in Especies : Veces(q, x.sobra) > 0 => x.falta[q] = 0)
                  => (\A q \in Especies : Veces(q, y.sobra) > 0 => y.falta[q] = 0)
<1> DEFINE y == Obtener(x, s)
           hacia == IF x.falta[s] > 0 THEN 1 ELSE 0
<1>1. x.falta \in [Especies -> Nat] /\ x.sobra \in Seq(Especies) /\ Len(x.sobra) \in Nat
  BY LenProperties DEF TEntrenador
<1>2. Suma(x.falta) \in Nat /\ \A q \in Especies : x.falta[q] \in Nat /\ Veces(q, x.sobra) \in Nat
  BY <1>1, SumaTipo, VecesTipo, TeamAssumption
<1>3. CASE x.falta[s] > 0
  <2>1. y.falta = [x.falta EXCEPT ![s] = x.falta[s] - 1] /\ y.sobra = x.sobra
    BY <1>3, ObtenerTipo
  <2> HIDE DEF y
  <2>2. Suma(y.falta) = Suma(x.falta) - 1 /\ \A q \in Especies : y.falta[q] = x.falta[q] - (IF q = s THEN 1 ELSE 0)
    BY <1>3, <2>1, FaltaUnoMenos
  <2>3. \A q \in Especies : Veces(q, x.sobra) > 0 /\ x.falta[q] = 0 => y.falta[q] = 0
    BY <1>1, <1>3, <2>1
  <2>4. (\A q \in Especies : Veces(q, x.sobra) > 0 => x.falta[q] = 0)
          => (\A q \in Especies : Veces(q, y.sobra) > 0 => y.falta[q] = 0)
    BY <2>1, <2>3
  <2>5. hacia = 1
    BY <1>3
  <2> HIDE DEF hacia
  <2>6. /\ Suma(y.falta) = Suma(x.falta) - hacia /\ Len(y.sobra) = Len(x.sobra) + (1 - hacia)
        /\ \A q \in Especies :
             /\ y.falta[q] = x.falta[q] - (IF q = s THEN hacia ELSE 0)
             /\ Veces(q, y.sobra) = Veces(q, x.sobra) + (IF q = s THEN 1 - hacia ELSE 0)
    BY <1>1, <1>2, <2>1, <2>2, <2>5
  <2> QED
    BY <1>1, <1>2, <2>4, <2>6 DEF y, hacia
<1>4. CASE ~(x.falta[s] > 0)
  <2>1. y.falta = x.falta /\ y.sobra = Append(x.sobra, s)
    BY <1>4, ObtenerTipo
  <2> HIDE DEF y
  <2>2. /\ Len(y.sobra) = Len(x.sobra) + 1
        /\ \A q \in Especies : Veces(q, y.sobra) = Veces(q, x.sobra) + (IF q = s THEN 1 ELSE 0)
    BY <1>1, <2>1, VecesAppend
  <2>3. x.falta[s] = 0
    BY <1>2, <1>4
  <2>4. (\A q \in Especies : Veces(q, x.sobra) > 0 => x.falta[q] = 0)
          => (\A q \in Especies : Veces(q, y.sobra) > 0 => y.falta[q] = 0)
    BY <1>2, <2>1, <2>2, <2>3
  <2>5. hacia = 0
    BY <1>4
  <2> HIDE DEF hacia
  <2>6. /\ Suma(y.falta) = Suma(x.falta) - hacia /\ Len(y.sobra) = Len(x.sobra) + (1 - hacia)
        /\ \A q \in Especies :
             /\ y.falta[q] = x.falta[q] - (IF q = s THEN hacia ELSE 0)
             /\ Veces(q, y.sobra) = Veces(q, x.sobra) + (IF q = s THEN 1 - hacia ELSE 0)
    BY <1>1, <1>2, <2>1, <2>2, <2>5
  <2> QED
    BY <1>1, <1>2, <2>4, <2>6 DEF y, hacia
<1> QED
  BY <1>3, <1>4

LEMMA AcreditarCuentas ==
  ASSUME TypeOK, Cuentas, NEW c \in DOMAIN catchs, Acreditar(c)
  PROVE  Cuentas' /\ Suma(globales') = Suma(globales) - 1
<1> DEFINE e == catchs[c].de
           s == ent[e].catch.especie
           y == Obtener(ent[e], s)
           hacia == IF ent[e].falta[s] > 0 THEN 1 ELSE 0
<1>1. /\ TypeOK' /\ s \in Especies /\ globales[s] > 0
      /\ globales' = [globales EXCEPT ![s] = globales[s] - 1]
      /\ ent' = [ent EXCEPT ![e] = [y EXCEPT !.catch = Nadie, !.captura = Nadie, !.ocupado = FALSE, !.cupo = y.cupo - 1]]
  BY AcreditarTipos
<1>2. e \in Entrenadores /\ ent[e] \in TEntrenador /\ ent \in [Entrenadores -> TEntrenador]
  BY CatchTipo DEF TypeOK
<1>3. /\ ent' \in [Entrenadores -> TEntrenador] /\ globales \in [Especies -> Nat] /\ globales' \in [Especies -> Nat]
  BY <1>1 DEF TypeOK
<1>4. y \in TEntrenador /\ y.cupo = ent[e].cupo
  BY <1>1, <1>2, ObtenerTipo
<1>5. /\ Suma(y.falta) = Suma(ent[e].falta) - hacia /\ Len(y.sobra) = Len(ent[e].sobra) + (1 - hacia)
      /\ Suma(ent[e].falta) \in Nat /\ Len(ent[e].sobra) \in Nat
      /\ \A q \in Especies :
           /\ y.falta[q] = ent[e].falta[q] - (IF q = s THEN hacia ELSE 0)
           /\ Veces(q, y.sobra) = Veces(q, ent[e].sobra) + (IF q = s THEN 1 - hacia ELSE 0)
           /\ ent[e].falta[q] \in Nat /\ Veces(q, ent[e].sobra) \in Nat
  BY <1>1, <1>2, ObtenerCuentas
<1>6. (\A q \in Especies : Veces(q, ent[e].sobra) > 0 => ent[e].falta[q] = 0)
        => (\A q \in Especies : Veces(q, y.sobra) > 0 => y.falta[q] = 0)
  BY <1>1, <1>2, ObtenerCuentas
<1>7. hacia \in {0, 1} /\ e = catchs[c].de
  OBVIOUS
<1> HIDE DEF e, s, y, hacia
<1>8. /\ ent'[e].falta = y.falta /\ ent'[e].sobra = y.sobra /\ ent'[e].cupo = ent[e].cupo - 1
      /\ \A f \in Entrenadores : f # e => ent'[f] = ent[f]
  BY <1>1, <1>2, <1>4 DEF TEntrenador
<1>9. SobraDeMas'
  <2>1. \A q \in Especies : Veces(q, ent[e].sobra) > 0 => ent[e].falta[q] = 0
    BY <1>2 DEF Cuentas, SobraDeMas
  <2>2. \A q \in Especies : Veces(q, ent'[e].sobra) > 0 => ent'[e].falta[q] = 0
    BY <1>6, <1>8, <2>1
  <2>3. \A f \in Entrenadores, q \in Especies : Veces(q, ent'[f].sobra) > 0 => ent'[f].falta[q] = 0
    BY <1>8, <2>2 DEF Cuentas, SobraDeMas
  <2> QED
    BY <2>3 DEF SobraDeMas
<1>10. CuposCuadran'
  <2>1. ent[e].cupo + Len(ent[e].sobra) = Suma(ent[e].falta) /\ ent[e].cupo \in Int
    BY <1>2 DEF Cuentas, CuposCuadran, TEntrenador
  <2>2. ent'[e].cupo + Len(ent'[e].sobra) = Suma(ent'[e].falta)
    <3>1. /\ Suma(ent'[e].falta) = Suma(ent[e].falta) - hacia /\ Len(ent'[e].sobra) = Len(ent[e].sobra) + (1 - hacia)
          /\ Suma(ent[e].falta) \in Nat /\ Len(ent[e].sobra) \in Nat
      BY <1>5, <1>8
    <3> QED
      BY <1>7, <1>8, <2>1, <3>1
  <2>3. \A f \in Entrenadores : ent'[f].cupo + Len(ent'[f].sobra) = Suma(ent'[f].falta)
    BY <1>8, <2>2 DEF Cuentas, CuposCuadran
  <2> QED
    BY <2>3 DEF CuposCuadran
<1>11. GlobalesCuadran'
  <2>1. ASSUME NEW q \in Especies PROVE globales'[q] + Suma(Sobran(ent', q)) = Suma(Faltan(ent', q))
    <3>1. /\ Suma(Faltan(ent', q)) = Suma(Faltan(ent, q)) - ent[e].falta[q] + ent'[e].falta[q]
          /\ Suma(Sobran(ent', q)) = Suma(Sobran(ent, q)) - Veces(q, ent[e].sobra) + Veces(q, ent'[e].sobra)
      BY <1>2, <1>3, <1>8, CambiaUno
    <3>2. globales[q] + Suma(Sobran(ent, q)) = Suma(Faltan(ent, q))
      BY DEF Cuentas, GlobalesCuadran, Sobran, Faltan
    <3>3. /\ Suma(Sobran(ent, q)) \in Nat /\ Suma(Faltan(ent, q)) \in Nat /\ globales[q] \in Nat
          /\ globales'[q] = globales[q] - (IF q = s THEN 1 ELSE 0)
      BY <1>1, <1>2, <1>3, CuentaTipo
    <3>4. CASE q = s
      <4>1. /\ ent'[e].falta[q] = ent[e].falta[q] - hacia /\ ent[e].falta[q] \in Nat
            /\ Veces(q, ent'[e].sobra) = Veces(q, ent[e].sobra) + (1 - hacia) /\ Veces(q, ent[e].sobra) \in Nat
        BY <1>5, <1>8, <3>4
      <4> QED
        BY <1>7, <3>1, <3>2, <3>3, <3>4, <4>1
    <3>5. CASE q # s
      BY <1>5, <1>8, <3>1, <3>2, <3>3, <3>5
    <3> QED
      BY <3>4, <3>5
  <2> QED
    BY <2>1 DEF GlobalesCuadran, Sobran, Faltan
<1>12. Suma(globales') = Suma(globales) - 1
  <2>1. \A q \in Especies \ {s} : globales'[q] = globales[q]
    BY <1>1, <1>3
  <2>2. Suma(globales') = Suma(globales) - globales[s] + globales'[s]
    <3> DEFINE F == globales
               G == globales'
    <3>1. /\ F \in [Especies -> Nat] /\ G \in [Especies -> Nat] /\ s \in Especies
          /\ \A q \in Especies \ {s} : G[q] = F[q]
      BY <1>1, <1>3, <2>1
    <3> HIDE DEF F, G
    <3> QED
      BY <3>1, SumaCambio, Finitos DEF F, G
  <2>3. globales'[s] = globales[s] - 1 /\ globales[s] \in Nat /\ Suma(globales) \in Nat
    BY <1>1, <1>3, SumaTipo, TeamAssumption
  <2> QED
    BY <2>2, <2>3
<1> QED
  BY <1>9, <1>10, <1>11, <1>12 DEF Cuentas

(* What moves from one to the other is still lacked or left over. *)
LEMMA IntercambiarCuentas ==
  ASSUME TypeOK, Cuentas, NEW e \in Entrenadores, Intercambiar(e)
  PROVE  Cuentas'
<1> DEFINE o == ent[e].destino.socio
           a == ent[e].aCambiar
           b == ParaElSocio(e)
           y == [ent[o] EXCEPT !.sobra = RemoveFirst(ent[o].sobra, a)]
           z == Obtener(y, b)
           hacia == IF y.falta[b] > 0 THEN 1 ELSE 0
           g == [ent[e].falta EXCEPT ![a] = ent[e].falta[a] - 1]
<1>1. /\ TypeOK' /\ o \in Entrenadores /\ e # o
      /\ a \in Especies /\ b \in Especies /\ ent[e].falta[a] > 0
      /\ Contains(ent[o].sobra, a) /\ Contains(ent[e].sobra, b)
      /\ y \in TEntrenador /\ z \in TEntrenador
      /\ ent' = [ent EXCEPT ![e] = [ent[e] EXCEPT !.falta = g,
                                                  !.sobra = RemoveFirst(ent[e].sobra, b),
                                                  !.destino = Colgado, !.aCambiar = Colgado],
                            ![o] = [z EXCEPT !.captura = Nadie, !.aCambiar = Nadie]]
  BY IntercambiarTipos DEF Cuentas
<1>2. ent \in [Entrenadores -> TEntrenador] /\ ent[e] \in TEntrenador /\ ent[o] \in TEntrenador
  BY <1>1 DEF TypeOK
<1>3. ent' \in [Entrenadores -> TEntrenador] /\ globales' = globales /\ globales \in [Especies -> Nat]
  <2>1. ent' \in [Entrenadores -> TEntrenador]
    BY <1>1 DEF TypeOK
  <2>2. globales' = globales
    BY DEF Intercambiar
  <2>3. globales \in [Especies -> Nat]
    BY DEF TypeOK
  <2> QED
    BY <2>1, <2>2, <2>3
<1>4. y.falta = ent[o].falta /\ y.sobra = RemoveFirst(ent[o].sobra, a) /\ y.cupo = ent[o].cupo /\ z.cupo = y.cupo
  <2>1. y.falta = ent[o].falta /\ y.sobra = RemoveFirst(ent[o].sobra, a) /\ y.cupo = ent[o].cupo
    BY <1>2 DEF TEntrenador
  <2>2. y \in TEntrenador /\ b \in Especies
    BY <1>1
  <2> HIDE DEF y, b
  <2>3. z.cupo = y.cupo
    BY <2>2, ObtenerTipo
  <2> QED
    BY <2>1, <2>3
<1>5. /\ Len(y.sobra) = Len(ent[o].sobra) - 1 /\ Len(ent[o].sobra) \in Nat
      /\ \A q \in Especies : Veces(q, y.sobra) = Veces(q, ent[o].sobra) - (IF q = a THEN 1 ELSE 0)
                               /\ Veces(q, ent[o].sobra) \in Nat
  <2> HIDE DEF o, a, y
  <2>1. ent[o] \in TEntrenador /\ a \in Especies /\ Contains(ent[o].sobra, a) /\ y.sobra = RemoveFirst(ent[o].sobra, a)
    BY <1>1, <1>2, <1>4
  <2> QED
    BY <2>1, QuitarCuentas
<1>6. /\ Len(RemoveFirst(ent[e].sobra, b)) = Len(ent[e].sobra) - 1 /\ Len(ent[e].sobra) \in Nat
      /\ \A q \in Especies : Veces(q, RemoveFirst(ent[e].sobra, b)) = Veces(q, ent[e].sobra) - (IF q = b THEN 1 ELSE 0)
                               /\ Veces(q, ent[e].sobra) \in Nat
  BY <1>1, <1>2, QuitarCuentas
<1>7. /\ Suma(g) = Suma(ent[e].falta) - 1 /\ Suma(ent[e].falta) \in Nat
      /\ \A q \in Especies : g[q] = ent[e].falta[q] - (IF q = a THEN 1 ELSE 0) /\ ent[e].falta[q] \in Nat
  <2> HIDE DEF a
  <2> QED
    BY <1>1, <1>2, FaltaUnoMenos
<1>8. /\ Suma(z.falta) = Suma(y.falta) - hacia /\ Len(z.sobra) = Len(y.sobra) + (1 - hacia)
      /\ Suma(y.falta) \in Nat
      /\ \A q \in Especies :
           /\ z.falta[q] = y.falta[q] - (IF q = b THEN hacia ELSE 0)
           /\ Veces(q, z.sobra) = Veces(q, y.sobra) + (IF q = b THEN 1 - hacia ELSE 0)
           /\ y.falta[q] \in Nat
      /\ (\A q \in Especies : Veces(q, y.sobra) > 0 => y.falta[q] = 0)
           => (\A q \in Especies : Veces(q, z.sobra) > 0 => z.falta[q] = 0)
  <2>1. y \in TEntrenador /\ b \in Especies
    BY <1>1
  <2> HIDE DEF y, b, o, a
  <2> QED
    BY <2>1, ObtenerCuentas
<1>9. hacia \in {0, 1}
  OBVIOUS
<1> HIDE DEF o, a, b, y, z, hacia, g
<1>10. /\ ent'[e].falta = g /\ ent'[e].sobra = RemoveFirst(ent[e].sobra, b) /\ ent'[e].cupo = ent[e].cupo
       /\ ent'[o].falta = z.falta /\ ent'[o].sobra = z.sobra /\ ent'[o].cupo = ent[o].cupo
       /\ \A f \in Entrenadores \ {e, o} : ent'[f] = ent[f]
  <2>1. ent'[e] = [ent[e] EXCEPT !.falta = g, !.sobra = RemoveFirst(ent[e].sobra, b), !.destino = Colgado, !.aCambiar = Colgado]
    BY <1>1, <1>2
  <2>2. ent'[o] = [z EXCEPT !.captura = Nadie, !.aCambiar = Nadie]
    BY <1>1, <1>2
  <2>3. \A f \in Entrenadores \ {e, o} : ent'[f] = ent[f]
    BY <1>1, <1>2
  <2> QED
    BY <1>1, <1>2, <1>4, <2>1, <2>2, <2>3 DEF TEntrenador
<1>11. SobraDeMas'
  <2>1. /\ \A q \in Especies : Veces(q, ent[e].sobra) > 0 => ent[e].falta[q] = 0
        /\ \A q \in Especies : Veces(q, ent[o].sobra) > 0 => ent[o].falta[q] = 0
    BY <1>1 DEF Cuentas, SobraDeMas
  <2>2. \A q \in Especies : Veces(q, ent'[e].sobra) > 0 => ent'[e].falta[q] = 0
    <3> SUFFICES ASSUME NEW q \in Especies, Veces(q, ent'[e].sobra) > 0 PROVE ent'[e].falta[q] = 0
      OBVIOUS
    <3>1. Veces(q, ent[e].sobra) > 0
      BY <1>6, <1>10
    <3>2. ent[e].falta[q] = 0
      BY <2>1, <3>1
    <3>3. q # a
      BY <1>1, <3>2
    <3> QED
      BY <1>7, <1>10, <3>2, <3>3
  <2>3. \A q \in Especies : Veces(q, y.sobra) > 0 => y.falta[q] = 0
    <3> SUFFICES ASSUME NEW q \in Especies, Veces(q, y.sobra) > 0 PROVE y.falta[q] = 0
      OBVIOUS
    <3>1. Veces(q, ent[o].sobra) > 0
      BY <1>5
    <3> QED
      BY <1>4, <2>1, <3>1
  <2>4. \A q \in Especies : Veces(q, ent'[o].sobra) > 0 => ent'[o].falta[q] = 0
    BY <1>8, <1>10, <2>3
  <2>5. \A f \in Entrenadores, q \in Especies : Veces(q, ent'[f].sobra) > 0 => ent'[f].falta[q] = 0
    <3> SUFFICES ASSUME NEW f \in Entrenadores PROVE \A q \in Especies : Veces(q, ent'[f].sobra) > 0 => ent'[f].falta[q] = 0
      OBVIOUS
    <3>1. CASE f = e
      BY <2>2, <3>1
    <3>2. CASE f = o
      BY <2>4, <3>2
    <3>3. CASE f \notin {e, o}
      BY <1>10, <3>3 DEF Cuentas, SobraDeMas
    <3> QED
      BY <3>1, <3>2, <3>3
  <2> QED
    BY <2>5 DEF SobraDeMas
<1>12. CuposCuadran'
  <2>1. /\ ent[e].cupo + Len(ent[e].sobra) = Suma(ent[e].falta) /\ ent[e].cupo \in Int
        /\ ent[o].cupo + Len(ent[o].sobra) = Suma(ent[o].falta) /\ ent[o].cupo \in Int
    BY <1>1, <1>2 DEF Cuentas, CuposCuadran, TEntrenador
  <2>2. ent'[e].cupo + Len(ent'[e].sobra) = Suma(ent'[e].falta)
    BY <1>6, <1>7, <1>10, <2>1
  <2>3. ent'[o].cupo + Len(ent'[o].sobra) = Suma(ent'[o].falta)
    <3>1. /\ Suma(ent'[o].falta) = Suma(ent[o].falta) - hacia /\ Suma(ent[o].falta) \in Nat
          /\ Len(ent'[o].sobra) = Len(ent[o].sobra) - 1 + (1 - hacia) /\ Len(ent[o].sobra) \in Nat
      BY <1>4, <1>5, <1>8, <1>10
    <3> QED
      BY <1>9, <1>10, <2>1, <3>1
  <2>4. \A f \in Entrenadores : ent'[f].cupo + Len(ent'[f].sobra) = Suma(ent'[f].falta)
    BY <1>10, <2>2, <2>3 DEF Cuentas, CuposCuadran
  <2> QED
    BY <2>4 DEF CuposCuadran
<1>13. GlobalesCuadran'
  <2>1. ASSUME NEW q \in Especies PROVE globales'[q] + Suma(Sobran(ent', q)) = Suma(Faltan(ent', q))
    <3>1. /\ Suma(Faltan(ent', q)) = Suma(Faltan(ent, q)) - ent[e].falta[q] - ent[o].falta[q]
                                       + ent'[e].falta[q] + ent'[o].falta[q]
          /\ Suma(Sobran(ent', q)) = Suma(Sobran(ent, q)) - Veces(q, ent[e].sobra) - Veces(q, ent[o].sobra)
                                       + Veces(q, ent'[e].sobra) + Veces(q, ent'[o].sobra)
      <4>1. \A f \in Entrenadores \ {e, o} : ent'[f].falta = ent[f].falta /\ ent'[f].sobra = ent[f].sobra
        BY <1>10
      <4> DEFINE u == ent'
      <4>2. u \in [Entrenadores -> TEntrenador] /\ \A f \in Entrenadores \ {e, o} : u[f].falta = ent[f].falta /\ u[f].sobra = ent[f].sobra
        BY <1>3, <4>1
      <4> HIDE DEF u
      <4>3. /\ Suma(Faltan(u, q)) = Suma(Faltan(ent, q)) - ent[e].falta[q] - ent[o].falta[q] + u[e].falta[q] + u[o].falta[q]
            /\ Suma(Sobran(u, q)) = Suma(Sobran(ent, q)) - Veces(q, ent[e].sobra) - Veces(q, ent[o].sobra)
                                       + Veces(q, u[e].sobra) + Veces(q, u[o].sobra)
        BY <1>1, <1>2, <4>2, CambianDos
      <4> QED
        BY <4>3 DEF u
    <3>2. globales[q] + Suma(Sobran(ent, q)) = Suma(Faltan(ent, q))
      BY DEF Cuentas, GlobalesCuadran, Sobran, Faltan
    <3>3. /\ Suma(Sobran(ent, q)) \in Nat /\ Suma(Faltan(ent, q)) \in Nat /\ globales[q] \in Nat
          /\ globales'[q] = globales[q]
      BY <1>2, <1>3, CuentaTipo
    <3> DEFINE qa == IF q = a THEN 1 ELSE 0
               qb == IF q = b THEN 1 ELSE 0
               qh == IF q = b THEN hacia ELSE 0
    <3>4. /\ ent'[e].falta[q] = ent[e].falta[q] - qa /\ ent[e].falta[q] \in Nat
          /\ Veces(q, ent'[e].sobra) = Veces(q, ent[e].sobra) - qb /\ Veces(q, ent[e].sobra) \in Nat
      BY <1>6, <1>7, <1>10
    <3>5. /\ ent'[o].falta[q] = ent[o].falta[q] - qh /\ ent[o].falta[q] \in Nat
      BY <1>4, <1>8, <1>10
    <3>6. /\ Veces(q, ent'[o].sobra) = Veces(q, ent[o].sobra) - qa + qb - qh /\ Veces(q, ent[o].sobra) \in Nat
      <4>1. /\ Veces(q, z.sobra) = Veces(q, y.sobra) + (IF q = b THEN 1 - hacia ELSE 0)
            /\ Veces(q, y.sobra) = Veces(q, ent[o].sobra) - qa /\ Veces(q, ent[o].sobra) \in Nat
        BY <1>5, <1>8
      <4>2. qa \in {0, 1}
        OBVIOUS
      <4> HIDE DEF qa
      <4>3. CASE q = b
        BY <1>9, <1>10, <4>1, <4>2, <4>3
      <4>4. CASE q # b
        BY <1>9, <1>10, <4>1, <4>2, <4>4
      <4> QED
        BY <4>3, <4>4
    <3>7. qa \in {0, 1} /\ qb \in {0, 1} /\ qh \in {0, 1}
      BY <1>9
    <3> HIDE DEF qa, qb, qh
    <3> QED
      BY <3>1, <3>2, <3>3, <3>4, <3>5, <3>6, <3>7
  <2> QED
    BY <2>1 DEF GlobalesCuadran, Sobran, Faltan
<1> QED
  BY <1>11, <1>12, <1>13 DEF Cuentas

(* No other step changes what anybody lacks or has left over. *)
LEMMA CuentasSiguen ==
  ASSUME TypeOK, Semaforos, \A e \in Entrenadores : Hizo(e), Cuentas, [Next]_vars
  PROVE  Cuentas'
<1> DEFINE Quedan == \A e \in Entrenadores : /\ ent'[e].falta = ent[e].falta /\ ent'[e].sobra = ent[e].sobra
                                            /\ ent'[e].cupo = ent[e].cupo
<1>1. ent \in [Entrenadores -> TEntrenador] /\ \A e \in Entrenadores : ent[e] \in TEntrenador
  BY DEF TypeOK
<1>2. CASE UNCHANGED <<ent, globales>>
  <2>1. Quedan
    BY <1>2
  <2> QED
    BY <1>2, <2>1, CuentasIguales
<1>3. ASSUME Sacar PROVE Cuentas'
  <2>1. ent' = [ent EXCEPT ![seleccion.entrenador].captura = seleccion.pokemon] /\ globales' = globales
    BY <1>3 DEF Sacar
  <2>2. Quedan
    BY <1>1, <2>1 DEF TEntrenador
  <2> QED
    BY <2>1, <2>2, CuentasIguales
<1>4. ASSUME Planificar PROVE Cuentas'
  <2>1. PICK e \in Entrenadores : \E q, k \in Nat : ent' = [ent EXCEPT ![e].quantum = q, ![e].contador = k]
    BY <1>4, PlanificarTipos
  <2>2. Quedan
    BY <1>1, <2>1 DEF TEntrenador
  <2>3. globales' = globales
    BY <1>4 DEF Planificar
  <2> QED
    BY <2>2, <2>3, CuentasIguales
<1>5. ASSUME NEW e \in Entrenadores, HiloEntrenador(e) PROVE Cuentas'
  <2>1. CASE Mover(e)
    <3>1. globales' = globales /\ \E p, q \in Nat : ent' = [ent EXCEPT ![e].pos = p, ![e].quantum = q]
      BY <2>1, MoverTipos DEF Mover
    <3>2. Quedan
      BY <1>1, <3>1 DEF TEntrenador
    <3> QED
      BY <3>1, <3>2, CuentasIguales
  <2>2. CASE VolverAReady(e)
    <3>1. globales' = globales /\ \E k, q \in Nat : ent' = [ent EXCEPT ![e].contador = k, ![e].quantum = q]
      BY <2>2, VolverTipos DEF VolverAReady
    <3>2. Quedan
      BY <1>1, <3>1 DEF TEntrenador
    <3> QED
      BY <3>1, <3>2, CuentasIguales
  <2>3. CASE EnviarCatch(e)
    <3>1. globales' = globales /\ ent' = [ent EXCEPT ![e].quantum = 0]
      BY <2>3 DEF EnviarCatch
    <3>2. Quedan
      BY <1>1, <3>1 DEF TEntrenador
    <3> QED
      BY <3>1, <3>2, CuentasIguales
  <2>4. CASE Bloquear(e)
    <3>1. globales' = globales /\ ent' = [ent EXCEPT ![e].catch = MensajeCatch(e)]
      BY <2>4 DEF Bloquear
    <3>2. Quedan
      BY <1>1, <3>1 DEF TEntrenador
    <3> QED
      BY <3>1, <3>2, CuentasIguales
  <2>5. CASE Intercambiar(e)
    BY <2>5, IntercambiarCuentas
  <2>6. CASE TransicionarMovido(e)
    <3>1. globales' = globales /\ ent' = ent
      BY <2>6 DEF TransicionarMovido
    <3>2. Quedan
      BY <3>1
    <3> QED
      BY <3>1, <3>2, CuentasIguales
  <2>7. CASE Asentar(e)
    <3>1. globales' = globales /\ ent' = [ent EXCEPT ![e].ocupado = FALSE]
      BY <2>7 DEF Asentar
    <3>2. Quedan
      BY <1>1, <3>1 DEF TEntrenador
    <3> QED
      BY <3>1, <3>2, CuentasIguales
  <2>8. CASE TransicionarSocio(e)
    <3>1. globales' = globales /\ ent' = [ent EXCEPT ![hilos[e].socio].ocupado = FALSE]
      BY <2>8 DEF TransicionarSocio
    <3>2. Quedan
      BY <1>1, <3>1 DEF TEntrenador
    <3> QED
      BY <3>1, <3>2, CuentasIguales
  <2> QED
    BY <1>5, <2>1, <2>2, <2>3, <2>4, <2>5, <2>6, <2>7, <2>8 DEF HiloEntrenador
<1>6. ASSUME NEW c \in DOMAIN catchs, Acreditar(c) PROVE Cuentas'
  BY <1>6, AcreditarCuentas
<1>7. ASSUME NEW c \in DOMAIN catchs, Auxiliar(c) PROVE Cuentas'
  <2>1. globales' = globales /\ ent' = [ent EXCEPT ![catchs[c].de].catch = Nadie, ![catchs[c].de].ocupado = FALSE]
    BY <1>7 DEF Auxiliar
  <2>2. Quedan
    BY <1>1, <2>1 DEF TEntrenador
  <2> QED
    BY <2>1, <2>2, CuentasIguales
<1>8. ASSUME DetectarDeadlock PROVE Cuentas'
  <2>1. globales' = globales
    BY <1>8 DEF DetectarDeadlock
  <2>2. CASE ent' = ent
    BY <1>2, <2>1, <2>2
  <2>3. CASE ent' # ent
    <3>1. SobraDeMas
      BY DEF Cuentas
    <3>2. PICK e, o \in Entrenadores, d \in Especies \cup {Nadie, Colgado}, k \in Especies :
            /\ e # o /\ Contains(colas["BLOCKED"], e) /\ Contains(colas["BLOCKED"], o)
            /\ ~ent[e].ocupado /\ ~ent[o].ocupado
            /\ colas' = Mover1(e, "BLOCKED", "READY")
            /\ ent' = [ent EXCEPT
                 ![e] = [ent[e] EXCEPT !.ocupado = TRUE, !.destino = [socio |-> o, pos |-> ent[o].pos],
                                       !.aCambiar = k],
                 ![o] = [ent[o] EXCEPT !.ocupado = TRUE, !.aCambiar = d]]
      BY <1>8, <2>3, <3>1, DetectarTipos, Zenon
    <3>3. Quedan
      <4> SUFFICES ASSUME NEW f \in Entrenadores
                   PROVE  ent'[f].falta = ent[f].falta /\ ent'[f].sobra = ent[f].sobra /\ ent'[f].cupo = ent[f].cupo
        OBVIOUS
      <4>1. ent[f] \in TEntrenador
        BY <1>1
      <4>2. CASE f = e
        <5>1. ent'[f] = [ent[f] EXCEPT !.ocupado = TRUE, !.destino = [socio |-> o, pos |-> ent[o].pos], !.aCambiar = k]
          BY <1>1, <3>2, <4>2
        <5> QED
          BY <4>1, <5>1 DEF TEntrenador
      <4>3. CASE f = o
        <5>1. ent'[f] = [ent[f] EXCEPT !.ocupado = TRUE, !.aCambiar = d]
          BY <1>1, <3>2, <4>3
        <5> QED
          BY <4>1, <5>1 DEF TEntrenador
      <4>4. CASE f # e /\ f # o
        BY <1>1, <3>2, <4>4
      <4> QED
        BY <4>2, <4>3, <4>4
    <3> QED
      BY <2>1, <3>3, CuentasIguales
  <2> QED
    BY <2>1, <2>2, <2>3
<1>9. ASSUME \/ (\E m \in Mensajes : Recibir(m) \/ Incluir(m)) \/ Elegir \/ FinCapturas \/ Finalizar \/ Caer \/ UNCHANGED vars
             \/ \E c \in DOMAIN catchs : Caught(c) \/ Soltar(c)
      PROVE  UNCHANGED <<ent, globales>>
  BY <1>9 DEF Recibir, Incluir, Elegir, FinCapturas, Finalizar, Caer, vars, Caught, Soltar
<1> QED
  BY <1>2, <1>3, <1>4, <1>5, <1>6, <1>7, <1>8, <1>9 DEF Next, Interno, HiloCaught

-----------------------------------------------------------------------------
(* The captures.                                                           *)

LEMMA SuCatchUltimo ==
  ASSUME TypeOK, NEW e \in Entrenadores, Hizo(e), Enviando(e)
  PROVE  SuUltimo(e, SuCatch(e)) /\ SuCatch(e) \in DOMAIN catchs
BY SuCatchEs DEF SuUltimo

LEMMA PorBloquearSigue ==
  ASSUME TypeOK, Semaforos, \A f \in Entrenadores : Hizo(f), Cuentas, NEW e \in Entrenadores, PorBloquear(e), [Next]_vars
  PROVE  PorBloquear(e)'
<1>1. ASSUME NEW c \in DOMAIN catchs, catchs[c].paso # "fallido",
             DOMAIN catchs' = DOMAIN catchs, Enviando(e)' => Enviando(e),
             \A d \in DOMAIN catchs : d # c => catchs'[d] = catchs[d],
             \A d \in DOMAIN catchs : catchs'[d].de = catchs[d].de /\ catchs'[d].propio = catchs[d].propio
      PROVE  PorBloquear(e)'
  <2> SUFFICES ASSUME Enviando(e)', NEW k \in DOMAIN catchs, SuUltimo(e, k)', catchs'[k].propio
               PROVE  catchs'[k].paso = "fallido"
    BY <1>1 DEF PorBloquear
  <2>1. SuUltimo(e, k) /\ catchs[k].propio
    BY <1>1 DEF SuUltimo
  <2>2. catchs[k].paso = "fallido"
    BY <1>1, <2>1 DEF PorBloquear
  <2> QED
    BY <1>1, <2>2
<1>2. CASE UNCHANGED catchs /\ (Enviando(e)' => Enviando(e))
  BY <1>2 DEF PorBloquear, SuUltimo
<1>3. ASSUME NEW f \in Entrenadores, EnviarCatch(f) PROVE PorBloquear(e)'
  <2> DEFINE n == Len(catchs) + 1
  <2>1. /\ DOMAIN catchs' = DOMAIN catchs \cup {n}
        /\ \A c \in DOMAIN catchs : catchs'[c] = catchs[c] /\ c < n
        /\ catchs'[n].de = f /\ (catchs'[n].propio => catchs'[n].paso = "fallido") /\ n \in Nat
    <3>1. \A c \in DOMAIN catchs : c < n
      BY CatchTipo
    <3>2. n \in Nat
      BY CatchTipo
    <3>3. /\ DOMAIN catchs' = DOMAIN catchs \cup {n}
          /\ \A c \in DOMAIN catchs : catchs'[c] = catchs[c]
          /\ catchs'[n].de = f /\ (catchs'[n].propio => catchs'[n].paso = "fallido")
      BY <1>3, EnviarTipos
    <3> QED
      BY <3>1, <3>2, <3>3
  <2>2. f # e => hilos'[e] = hilos[e]
    BY <1>3 DEF EnviarCatch, Ir, TypeOK
  <2> HIDE DEF n
  <2>3. CASE f # e
    <3> SUFFICES ASSUME Enviando(e)', NEW k \in DOMAIN catchs', SuUltimo(e, k)', catchs'[k].propio
                 PROVE  catchs'[k].paso = "fallido"
      BY DEF PorBloquear
    <3>1. k \in DOMAIN catchs /\ catchs'[k] = catchs[k]
      BY <2>1, <2>3 DEF SuUltimo
    <3>2. SuUltimo(e, k) /\ Enviando(e)
      BY <2>1, <2>2, <2>3, <3>1 DEF SuUltimo, Enviando
    <3> QED
      BY <3>1, <3>2 DEF PorBloquear
  <2>4. CASE f = e
    <3> SUFFICES ASSUME NEW k \in DOMAIN catchs', SuUltimo(e, k)', catchs'[k].propio
                 PROVE  catchs'[k].paso = "fallido"
      BY DEF PorBloquear
    <3>1. n <= k
      BY <2>1, <2>4 DEF SuUltimo
    <3>2. k = n
      BY <2>1, <3>1, CatchTipo
    <3> QED
      BY <2>1, <3>2
  <2> QED
    BY <2>3, <2>4
<1>4. ASSUME NEW f \in Entrenadores, Bloquear(f) PROVE PorBloquear(e)'
  <2>1. /\ Enviando(f) /\ ~Enviando(f)'
        /\ \A g \in Entrenadores : g # f => hilos'[g] = hilos[g]
        /\ catchs' = catchs \/ catchs' = [catchs EXCEPT ![SuCatch(f)].paso = "acreditar"]
    <3>1. Ir(f, "dormido")
      BY <1>4 DEF Bloquear
    <3>2. ~Enviando(f)' /\ \A g \in Entrenadores : g # f => hilos'[g] = hilos[g]
      BY <3>1, HiloTipo DEF Ir, Enviando, TypeOK, THilo
    <3> QED
      BY <1>4, <3>2, BloquearTipos
  <2>2. CASE f = e
    BY <2>1, <2>2 DEF PorBloquear
  <2>3. ASSUME f # e, catchs' = catchs PROVE PorBloquear(e)'
    BY <1>2, <2>1, <2>3 DEF Enviando
  <2>4. ASSUME f # e, catchs' = [catchs EXCEPT ![SuCatch(f)].paso = "acreditar"] PROVE PorBloquear(e)'
    <3> DEFINE c == SuCatch(f)
    <3>1. c \in DOMAIN catchs /\ catchs[c].de = f
      BY <2>1, SuCatchEs
    <3>2. "acreditar" \in PasosCatch
      BY DEF PasosCatch
    <3> HIDE DEF c
    <3>3. /\ DOMAIN catchs' = DOMAIN catchs
          /\ \A d \in DOMAIN catchs : d # c => catchs'[d] = catchs[d]
          /\ \A d \in DOMAIN catchs : catchs'[d].de = catchs[d].de
      BY <2>4, <3>1, <3>2, PasoCatchTipo DEF c
    <3> SUFFICES ASSUME Enviando(e)', NEW k \in DOMAIN catchs, SuUltimo(e, k)', catchs'[k].propio
                 PROVE  catchs'[k].paso = "fallido"
      BY <3>3 DEF PorBloquear
    <3>4. k # c /\ SuUltimo(e, k) /\ Enviando(e)
      BY <2>1, <2>4, <3>1, <3>3 DEF SuUltimo, Enviando
    <3> QED
      BY <3>3, <3>4 DEF PorBloquear
  <2> QED
    BY <2>1, <2>2, <2>3, <2>4
<1>5. ASSUME NEW c \in DOMAIN catchs, Acreditar(c) \/ Soltar(c) \/ Auxiliar(c) PROVE PorBloquear(e)'
  <2>1. PICK p \in PasosCatch : catchs[c].paso # "fallido" /\ catchs' = [catchs EXCEPT ![c].paso = p]
    BY <1>5 DEF Acreditar, Soltar, Soltando, Auxiliar, PasosCatch
  <2>2. /\ DOMAIN catchs' = DOMAIN catchs
        /\ \A d \in DOMAIN catchs : d # c => catchs'[d] = catchs[d]
        /\ \A d \in DOMAIN catchs : catchs'[d].de = catchs[d].de /\ catchs'[d].propio = catchs[d].propio
    BY <2>1, PasoCatchTipo
  <2>3. Enviando(e)' => Enviando(e)
    BY <1>5 DEF Acreditar, Soltar, Auxiliar, Enviando
  <2> QED
    BY <1>1, <2>1, <2>2, <2>3
<1>6. ASSUME NEW c \in DOMAIN catchs, Caught(c) PROVE PorBloquear(e)'
  <2>1. Enviando(e)' => Enviando(e)
    BY <1>6 DEF Caught, Enviando
  <2> QED
    BY <1>1, <1>6, <2>1, CaughtTipos
<1>7. ASSUME \/ (\E m \in Mensajes : Recibir(m) \/ Incluir(m)) \/ Elegir \/ Sacar \/ DetectarDeadlock \/ FinCapturas
             \/ Finalizar \/ Caer \/ UNCHANGED vars
      PROVE  UNCHANGED catchs /\ (Enviando(e)' => Enviando(e))
  <2>1. UNCHANGED <<catchs, hilos>>
    BY <1>7 DEF Recibir, Incluir, Elegir, Sacar, DetectarDeadlock, FinCapturas, Finalizar, Caer, vars
  <2> QED
    BY <2>1 DEF Enviando
<1>8. ASSUME \/ Planificar
             \/ \E f \in Entrenadores : \/ Mover(f) \/ VolverAReady(f) \/ Intercambiar(f)
                                        \/ TransicionarMovido(f) \/ Asentar(f) \/ TransicionarSocio(f)
      PROVE  UNCHANGED catchs /\ (Enviando(e)' => Enviando(e))
  <2>1. UNCHANGED catchs
    BY <1>8 DEF Planificar, Mover, VolverAReady, Intercambiar, TransicionarMovido, Asentar, TransicionarSocio
  <2>2. CASE Planificar
    <3>1. PICK f \in Entrenadores : hilos' = [hilos EXCEPT ![f].turno = @ + 1]
      BY <2>2, PlanificarTipos
    <3> QED
      BY <2>1, <3>1, HiloTipo DEF Enviando, TypeOK, THilo
  <2>3. ASSUME NEW f \in Entrenadores, \/ Mover(f) \/ VolverAReady(f) \/ Intercambiar(f)
                                       \/ TransicionarMovido(f) \/ Asentar(f) \/ TransicionarSocio(f)
        PROVE  Enviando(e)' => Enviando(e)
    <3>1. \A g \in Entrenadores : g # f => hilos'[g] = hilos[g]
      BY <2>3 DEF Mover, VolverAReady, Intercambiar, TransicionarMovido, Asentar, TransicionarSocio, Ir, TypeOK
    <3>2. hilos'[f].paso \in {"decidir", "dormido", "transicion", "asentar", "transicionSocio"}
      BY <2>3, HiloTipo DEF Mover, VolverAReady, Intercambiar, TransicionarMovido, Asentar, TransicionarSocio, Ir, TypeOK, THilo
    <3> QED
      BY <3>1, <3>2 DEF Enviando
  <2> QED
    BY <1>8, <2>1, <2>2, <2>3
<1> QED
  BY <1>2, <1>3, <1>4, <1>5, <1>6, <1>7, <1>8 DEF Next, Interno, HiloEntrenador, HiloCaught

LEMMA PorSoltarTipo ==
  ASSUME TypeOK
  PROVE  IsFiniteSet(PorSoltar) /\ Cardinality(PorSoltar) \in Nat /\ PorSoltar \subseteq DOMAIN catchs
<1>1. IsFiniteSet(DOMAIN catchs)
  <2>1. DOMAIN catchs = 1..Len(catchs) /\ Len(catchs) \in Nat
    BY CatchTipo
  <2> QED
    BY <2>1, FS_Interval
<1>2. PorSoltar \subseteq DOMAIN catchs
  BY DEF PorSoltar
<1>3. IsFiniteSet(PorSoltar)
  BY <1>1, <1>2, FS_Subset
<1> QED
  BY <1>2, <1>3, FS_CardinalityType

LEMMA CantidadTipo == CantidadCapturas \in Nat
<1>1. ASSUME NEW s \in Especies PROVE Suma([e \in Entrenadores |-> Objetivo[e][s]]) \in Nat
  <2> DEFINE F == [e \in Entrenadores |-> Objetivo[e][s]]
  <2>1. F \in [Entrenadores -> Nat]
    BY TeamAssumption
  <2> HIDE DEF F
  <2>2. Suma(F) \in Nat
    BY <2>1, SumaTipo, Finitos
  <2> QED
    BY <2>2 DEF F
<1>2. ObjetivosDelTeam \in [Especies -> Nat]
  BY <1>1 DEF ObjetivosDelTeam
<1>3. Suma(ObjetivosDelTeam) \in Nat
  BY <1>2, SumaTipo, Finitos
<1> QED
  BY <1>3 DEF CantidadCapturas

LEMMA CapturasIguales ==
  ASSUME Capturas, globales' = globales, sem'.capturas = sem.capturas, finCapturas' = finCapturas, PorSoltar' = PorSoltar
  PROVE  Capturas'
BY DEF Capturas, CantidadCapturas, ObjetivosDelTeam

LEMMA CapturasTipos ==
  ASSUME TypeOK
  PROVE  /\ Suma(globales) \in Nat /\ Cardinality(PorSoltar) \in Nat /\ sem.capturas \in Nat
BY SumaTipo, Finitos, PorSoltarTipo, SemTipo DEF TypeOK

LEMMA CapturasSiguen ==
  ASSUME TypeOK, Semaforos, \A e \in Entrenadores : Hizo(e) /\ PorBloquear(e), Cuentas, Capturas, [Next]_vars
  PROVE  Capturas'
<1>1. /\ Suma(globales) \in Nat /\ Cardinality(PorSoltar) \in Nat /\ sem.capturas \in Nat
      /\ IsFiniteSet(PorSoltar) /\ PorSoltar \subseteq DOMAIN catchs
  BY CapturasTipos, PorSoltarTipo
<1>2. CASE UNCHANGED <<catchs, globales, finCapturas>> /\ sem'.capturas = sem.capturas
  <2>1. PorSoltar' = PorSoltar
    BY <1>2 DEF PorSoltar
  <2> QED
    BY <1>2, <2>1, CapturasIguales
<1>3. ASSUME \/ (\E m \in Mensajes : Recibir(m) \/ Incluir(m)) \/ Elegir \/ Sacar \/ Planificar \/ DetectarDeadlock
             \/ Finalizar \/ Caer \/ UNCHANGED vars
             \/ \E e \in Entrenadores : \/ Mover(e) \/ VolverAReady(e) \/ Intercambiar(e)
                                        \/ TransicionarMovido(e) \/ Asentar(e) \/ TransicionarSocio(e)
      PROVE  UNCHANGED <<catchs, globales, finCapturas>> /\ sem'.capturas = sem.capturas
  <2>1. UNCHANGED <<catchs, globales, finCapturas>>
    BY <1>3 DEF Recibir, Incluir, Elegir, Sacar, Planificar, DetectarDeadlock, Finalizar, Caer, vars, fin, Mover,
                VolverAReady, Intercambiar, TransicionarMovido, Asentar, TransicionarSocio
  <2>2. sem'.capturas = sem.capturas
    <3>1. CASE DetectarDeadlock
      BY <3>1, DetectarTipos DEF Cuentas
    <3>2. CASE \E e \in Entrenadores : TransicionarMovido(e)
      BY <3>2, MovidoTipos
    <3>3. CASE \E e \in Entrenadores : Asentar(e) \/ TransicionarSocio(e)
      BY <3>3, AsentarTipos, SocioTipos
    <3>4. CASE \/ (\E m \in Mensajes : Recibir(m) \/ Incluir(m)) \/ Elegir \/ Sacar \/ Planificar
               \/ Finalizar \/ Caer \/ UNCHANGED vars
               \/ \E e \in Entrenadores : Mover(e) \/ VolverAReady(e) \/ Intercambiar(e)
      BY <3>4, SemTipo DEF TSem, Recibir, Incluir, Elegir, Sacar, Planificar, Finalizar, Caer, vars, Mover, VolverAReady,
                           DejarCPU, Intercambiar
    <3> QED
      BY <1>3, <3>1, <3>2, <3>3, <3>4
  <2> QED
    BY <2>1, <2>2
<1>4. ASSUME NEW e \in Entrenadores, EnviarCatch(e) PROVE Capturas'
  <2>1. globales' = globales /\ sem'.capturas = sem.capturas /\ finCapturas' = finCapturas
    BY <1>4, SemTipo DEF EnviarCatch, fin, TSem
  <2>2. PorSoltar' = PorSoltar
    <3>1. /\ DOMAIN catchs' = DOMAIN catchs \cup {Len(catchs) + 1}
          /\ \A c \in DOMAIN catchs : catchs'[c] = catchs[c]
          /\ catchs'[Len(catchs) + 1].paso \in {"fallido", "enBroker"}
      BY <1>4, EnviarTipos
    <3> QED
      BY <3>1 DEF PorSoltar
  <2> QED
    BY <2>1, <2>2, CapturasIguales
<1>5. ASSUME NEW c \in DOMAIN catchs, NEW p \in PasosCatch \ {"soltar"}, catchs[c].paso # "soltar",
             catchs' = [catchs EXCEPT ![c].paso = p]
      PROVE  PorSoltar' = PorSoltar
  <2>1. /\ DOMAIN catchs' = DOMAIN catchs /\ catchs'[c].paso = p
        /\ \A d \in DOMAIN catchs : d # c => catchs'[d] = catchs[d]
    BY <1>5, PasoCatchTipo
  <2> QED
    BY <1>5, <2>1 DEF PorSoltar
<1>6. ASSUME NEW e \in Entrenadores, Bloquear(e) PROVE Capturas'
  <2>1. globales' = globales /\ sem' = sem /\ finCapturas' = finCapturas
    BY <1>6 DEF Bloquear, fin
  <2>2. PorSoltar' = PorSoltar
    <3> DEFINE c == SuCatch(e)
    <3>1. Enviando(e) /\ catchs' = (IF catchs[c].propio THEN [catchs EXCEPT ![c].paso = "acreditar"] ELSE catchs)
      BY <1>6, BloquearTipos DEF Bloquear
    <3>2. c \in DOMAIN catchs /\ (catchs[c].propio => catchs[c].paso = "fallido")
      BY <3>1, SuCatchUltimo DEF PorBloquear
    <3>3. "acreditar" \in PasosCatch \ {"soltar"}
      BY DEF PasosCatch
    <3> HIDE DEF c
    <3>4. CASE catchs[c].propio
      BY <1>5, <3>1, <3>2, <3>3, <3>4
    <3>5. CASE ~catchs[c].propio
      BY <3>1, <3>5 DEF PorSoltar
    <3> QED
      BY <3>4, <3>5
  <2> QED
    BY <2>1, <2>2, CapturasIguales
<1>7. ASSUME NEW c \in DOMAIN catchs, Auxiliar(c) PROVE Capturas'
  <2>1. globales' = globales /\ sem'.capturas = sem.capturas /\ finCapturas' = finCapturas
    BY <1>7, AuxiliarTipos DEF Auxiliar, fin
  <2>2. "fin" \in PasosCatch \ {"soltar"} /\ catchs[c].paso = "auxiliar" /\ catchs' = [catchs EXCEPT ![c].paso = "fin"]
    BY <1>7 DEF Auxiliar, PasosCatch
  <2>3. PorSoltar' = PorSoltar
    BY <1>5, <2>2
  <2> QED
    BY <2>1, <2>3, CapturasIguales
<1>8. ASSUME NEW c \in DOMAIN catchs, Caught(c) PROVE Capturas'
  <2>1. globales' = globales /\ sem'.capturas = sem.capturas /\ finCapturas' = finCapturas
    BY <1>8 DEF Caught, fin
  <2>2. PorSoltar' = PorSoltar
    BY <1>8, CaughtTipos DEF PorSoltar
  <2> QED
    BY <2>1, <2>2, CapturasIguales
<1>9. ASSUME NEW c \in DOMAIN catchs, Acreditar(c) PROVE Capturas'
  <2>1. Suma(globales') = Suma(globales) - 1
    BY <1>9, AcreditarCuentas
  <2>2. /\ sem'.capturas = sem.capturas /\ finCapturas' = finCapturas
        /\ catchs[c].paso = "acreditar" /\ catchs' = [catchs EXCEPT ![c].paso = "soltar"]
    BY <1>9 DEF Acreditar, fin
  <2>3. c \notin PorSoltar /\ PorSoltar' = PorSoltar \cup {c}
    <3>1. "soltar" \in PasosCatch
      BY DEF PasosCatch
    <3>2. /\ DOMAIN catchs' = DOMAIN catchs /\ catchs'[c].paso = "soltar"
          /\ \A d \in DOMAIN catchs : d # c => catchs'[d] = catchs[d]
      BY <2>2, <3>1, PasoCatchTipo
    <3> QED
      BY <2>2, <3>2 DEF PorSoltar
  <2>4. Cardinality(PorSoltar') = Cardinality(PorSoltar) + 1
    BY <1>1, <2>3, FS_AddElement
  <2>5. CantidadCapturas \in Nat
    BY CantidadTipo
  <2> QED
    BY <1>1, <2>1, <2>2, <2>4, <2>5 DEF Capturas, CantidadCapturas, ObjetivosDelTeam
<1>10. ASSUME NEW c \in DOMAIN catchs, Soltar(c) PROVE Capturas'
  <2>1. /\ globales' = globales /\ sem'.capturas = sem.capturas + 1 /\ finCapturas' = finCapturas
        /\ catchs[c].paso = "soltar" /\ catchs' = [catchs EXCEPT ![c].paso = "fin"]
    BY <1>10, SemTipo DEF Soltar, Soltando, fin, TSem
  <2>2. c \in PorSoltar /\ PorSoltar' = PorSoltar \ {c}
    <3>1. "fin" \in PasosCatch
      BY DEF PasosCatch
    <3>2. /\ DOMAIN catchs' = DOMAIN catchs /\ catchs'[c].paso = "fin"
          /\ \A d \in DOMAIN catchs : d # c => catchs'[d] = catchs[d]
      BY <2>1, <3>1, PasoCatchTipo
    <3> QED
      BY <2>1, <3>2 DEF PorSoltar
  <2>3. Cardinality(PorSoltar') = Cardinality(PorSoltar) - 1
    BY <1>1, <2>2, FS_RemoveElement
  <2>4. CantidadCapturas \in Nat
    BY CantidadTipo
  <2> QED
    BY <1>1, <2>1, <2>3, <2>4 DEF Capturas, CantidadCapturas, ObjetivosDelTeam
<1>11. ASSUME FinCapturas PROVE Capturas'
  <2>1. /\ globales' = globales /\ catchs' = catchs /\ sem'.capturas = sem.capturas - CantidadCapturas
        /\ ~finCapturas /\ finCapturas' = TRUE
    BY <1>11, SemTipo DEF FinCapturas, TSem
  <2>2. PorSoltar' = PorSoltar
    BY <2>1 DEF PorSoltar
  <2>3. CantidadCapturas \in Nat
    BY CantidadTipo
  <2> QED
    BY <1>1, <2>1, <2>2, <2>3 DEF Capturas, CantidadCapturas, ObjetivosDelTeam
<1> QED
  BY <1>2, <1>3, <1>4, <1>6, <1>7, <1>8, <1>9, <1>10, <1>11 DEF Next, Interno, HiloEntrenador, HiloCaught

-----------------------------------------------------------------------------
(* The beginning.                                                          *)

LEMMA InitEntrenador ==
  ASSUME Init, NEW e \in Entrenadores
  PROVE  /\ ent[e].falta = Objetivo[e] /\ ent[e].sobra = <<>> /\ ent[e].cupo = Suma(Objetivo[e])
         /\ ent[e].captura = Nadie /\ ent[e].catch = Nadie /\ ent[e].destino = Nadie /\ ent[e].ocupado = FALSE
         /\ hilos[e].paso = "dormido" /\ hilos[e].turno = 0
BY DEF Init, Entrenador0, Cupo

LEMMA InitCuentas ==
  ASSUME Init
  PROVE  Cuentas /\ Capturas
<1>1. TypeOK
  BY InitTipos
<1>2. SobraDeMas
  <2> SUFFICES ASSUME NEW e \in Entrenadores, NEW s \in Especies, Veces(s, ent[e].sobra) > 0 PROVE FALSE
    BY DEF SobraDeMas
  <2>1. Veces(s, ent[e].sobra) = 0
    BY InitEntrenador, VecesVacia
  <2> QED
    BY <2>1
<1>3. ASSUME NEW s \in Especies PROVE globales[s] + Suma(Sobran(ent, s)) = Suma(Faltan(ent, s))
  <2>1. globales[s] = Suma([e \in Entrenadores |-> Objetivo[e][s]])
    BY <1>3 DEF Init, ObjetivosDelTeam
  <2>2. Faltan(ent, s) = [e \in Entrenadores |-> Objetivo[e][s]]
    BY InitEntrenador DEF Faltan
  <2>3. \A e \in Entrenadores : Veces(s, ent[e].sobra) = 0
    BY InitEntrenador, VecesVacia
  <2>4. Suma(Sobran(ent, s)) = 0
    <3> DEFINE G == Sobran(ent, s)
    <3>1. G \in [Entrenadores -> Nat] /\ \A e \in Entrenadores : G[e] = 0
      BY <2>3 DEF Sobran
    <3> HIDE DEF G
    <3>2. Suma(G) = 0
      BY <3>1, SumaNula, Finitos
    <3> QED
      BY <3>2 DEF G
  <2>5. globales[s] \in Nat
    BY <1>1, <1>3 DEF TypeOK
  <2> QED
    BY <2>1, <2>2, <2>4, <2>5
<1>4. GlobalesCuadran
  BY <1>3 DEF GlobalesCuadran, Sobran, Faltan
<1>5. CuposCuadran
  <2> SUFFICES ASSUME NEW e \in Entrenadores PROVE ent[e].cupo + Len(ent[e].sobra) = Suma(ent[e].falta)
    BY DEF CuposCuadran
  <2>1. Len(ent[e].sobra) = 0
    BY InitEntrenador, EmptySeq
  <2>2. ent[e].cupo \in Int
    BY <1>1, EntTipo DEF TEntrenador
  <2>3. ent[e].cupo = Suma(Objetivo[e]) /\ ent[e].falta = Objetivo[e]
    BY InitEntrenador
  <2> QED
    BY <2>1, <2>2, <2>3
<1>6. Capturas
  <2>1. PorSoltar = {}
    <3>1. catchs = <<>>
      BY DEF Init
    <3>2. DOMAIN catchs = {}
      BY <3>1
    <3> QED
      BY <3>2 DEF PorSoltar
  <2>2. Cardinality(PorSoltar) = 0
    BY <2>1, FS_EmptySet
  <2>3. Suma(globales) = CantidadCapturas /\ sem.capturas = 0 /\ finCapturas = FALSE
    BY DEF Init, CantidadCapturas
  <2> QED
    BY <2>2, <2>3, CantidadTipo DEF Capturas
<1> QED
  BY <1>2, <1>4, <1>5, <1>6 DEF Cuentas

LEMMA InitGeneral ==
  ASSUME Init
  PROVE  General
<1>1. TypeOK
  BY InitTipos
<1>2. /\ colas["READY"] = <<>> /\ colas["EXECUTE"] = <<>> /\ colas["FINISHED"] = <<>> /\ requeridos = <<>>
      /\ sem.requeridos = 0 /\ sem.listos = 0 /\ sem.cpu = 1 /\ sem.equipo = 0
  BY DEF Init
<1>3. \A e \in Entrenadores : EnCPU(e) = 0
  <2> SUFFICES ASSUME NEW e \in Entrenadores PROVE EnCPU(e) = 0
    OBVIOUS
  <2>1. hilos[e].paso = "dormido" /\ hilos[e].turno = 0
    BY InitEntrenador
  <2> QED
    BY <2>1 DEF EnCPU
<1>4. Len(<<>>) = 0
  OBVIOUS
<1>5. Semaforos
  BY <1>2, <1>3, <1>4, VecesVacia DEF Semaforos
<1>6. \A e \in Entrenadores : Hizo(e) /\ PorBloquear(e)
  BY InitEntrenador DEF Hizo, Vuelve, PorBloquear, Enviando
<1> QED
  BY <1>1, <1>5, <1>6, InitCuentas DEF General

LEMMA GeneralSigue ==
  ASSUME General, [Next]_vars
  PROVE  General'
<1>1. TypeOK /\ Semaforos /\ (\A e \in Entrenadores : Hizo(e) /\ PorBloquear(e)) /\ Cuentas /\ Capturas /\ SobraDeMas
  BY DEF General, Cuentas
<1>2. TypeOK' /\ Semaforos' /\ \A e \in Entrenadores : Hizo(e)'
  BY <1>1, SemaforosSiguen
<1>3. \A e \in Entrenadores : PorBloquear(e)'
  BY <1>1, PorBloquearSigue
<1>4. Cuentas'
  BY <1>1, CuentasSiguen
<1>5. Capturas'
  BY <1>1, CapturasSiguen
<1> QED
  BY <1>2, <1>3, <1>4, <1>5 DEF General

(* What holds of every Team, whoever is chosen: its types, the semaphores  *)
(* that count the queues, what a thread has done when it stops, the        *)
(* accounts and the tokens of the captures (planificador.c:27-123,         *)
(* serverTeam.c:435-541).                                                  *)
THEOREM GeneralSiempre == Spec => []General
<1>1. Init => General
  BY InitGeneral
<1>2. General /\ [Next]_vars => General'
  BY GeneralSigue
<1> QED
  BY <1>1, <1>2, PTL DEF Spec

(* The state of the Team is of its types, whatever its trainers, messages  *)
(* and algorithm (planificador.c, serverTeam.c, libTeam.c).                *)
THEOREM TeamBienTipado == Spec => []TypeOK
<1>1. General => TypeOK
  BY DEF General
<1> QED
  BY <1>1, GeneralSiempre, PTL

-----------------------------------------------------------------------------
(* Until a trainer that waits for a CAUGHT is chosen.                      *)

LEMMA Unica ==
  ASSUME TypeOK, UnaCola, NEW e \in Entrenadores
  PROVE  /\ \A q \in Colas : (Contains(colas[q], e) <=> Esta(e, q)) /\ (~Esta(e, q) => Veces(e, colas[q]) = 0)
         /\ \A q, r \in Colas : Esta(e, q) /\ Esta(e, r) => q = r
         /\ EnManos(e) => \A q \in Colas : ~Esta(e, q)
<1> DEFINE N == Veces(e, colas["NEW"])
           R == Veces(e, colas["READY"])
           X == Veces(e, colas["EXECUTE"])
           B == Veces(e, colas["BLOCKED"])
           F == Veces(e, colas["FINISHED"])
           M == IF EnManos(e) THEN 1 ELSE 0
<1>1. N \in Nat /\ R \in Nat /\ X \in Nat /\ B \in Nat /\ F \in Nat
  BY ColaTipo DEF Colas
<1>2. N + R + X + B + F + M = 1
  BY DEF UnaCola, Suyas
<1>3. M \in {0, 1} /\ (EnManos(e) => M = 1)
  OBVIOUS
<1>4. \A q \in Colas : Contains(colas[q], e) <=> Veces(e, colas[q]) > 0
  BY ColaTipo
<1> HIDE DEF M
<1>5. /\ Esta(e, "NEW") <=> N = 1
      /\ Esta(e, "READY") <=> R = 1
      /\ Esta(e, "EXECUTE") <=> X = 1
      /\ Esta(e, "BLOCKED") <=> B = 1
      /\ Esta(e, "FINISHED") <=> F = 1
  BY DEF Esta
<1>6. /\ Contains(colas["NEW"], e) <=> N > 0
      /\ Contains(colas["READY"], e) <=> R > 0
      /\ Contains(colas["EXECUTE"], e) <=> X > 0
      /\ Contains(colas["BLOCKED"], e) <=> B > 0
      /\ Contains(colas["FINISHED"], e) <=> F > 0
  BY <1>4 DEF Colas
<1>7. ASSUME NEW q \in Colas PROVE (Contains(colas[q], e) <=> Esta(e, q)) /\ (~Esta(e, q) => Veces(e, colas[q]) = 0)
  <2> HIDE DEF N, R, X, B, F
  <2>1. /\ (Contains(colas["NEW"], e) <=> Esta(e, "NEW")) /\ (~Esta(e, "NEW") => N = 0)
        /\ (Contains(colas["READY"], e) <=> Esta(e, "READY")) /\ (~Esta(e, "READY") => R = 0)
        /\ (Contains(colas["EXECUTE"], e) <=> Esta(e, "EXECUTE")) /\ (~Esta(e, "EXECUTE") => X = 0)
        /\ (Contains(colas["BLOCKED"], e) <=> Esta(e, "BLOCKED")) /\ (~Esta(e, "BLOCKED") => B = 0)
        /\ (Contains(colas["FINISHED"], e) <=> Esta(e, "FINISHED")) /\ (~Esta(e, "FINISHED") => F = 0)
    BY <1>1, <1>2, <1>3, <1>5, <1>6
  <2> QED
    BY <1>7, <2>1 DEF Colas, N, R, X, B, F
<1>8. \A q, r \in Colas : Esta(e, q) /\ Esta(e, r) => q = r
  <2> HIDE DEF N, R, X, B, F
  <2> QED
    BY <1>1, <1>2, <1>3, <1>5 DEF Colas
<1>9. EnManos(e) => \A q \in Colas : ~Esta(e, q)
  <2> HIDE DEF N, R, X, B, F
  <2> QED
    BY <1>1, <1>2, <1>3, <1>5 DEF Colas
<1> QED
  BY <1>7, <1>8, <1>9

LEMMA UnaColaIgual ==
  ASSUME UnaCola, colas' = colas, \A f \in Entrenadores : EnManos(f)' <=> EnManos(f)
  PROVE  UnaCola' /\ \A f \in Entrenadores, q \in Colas : Esta(f, q)' <=> Esta(f, q)
<1>1. \A f \in Entrenadores : (IF EnManos(f) THEN 1 ELSE 0)' = (IF EnManos(f) THEN 1 ELSE 0)
  OBVIOUS
<1>2. \A f \in Entrenadores : Suyas(f)' = Suyas(f)
  BY <1>1 DEF Suyas
<1> QED
  BY <1>2 DEF UnaCola, Esta

LEMMA MoverUnaCola ==
  ASSUME TypeOK, UnaCola, NEW e \in Entrenadores, NEW de \in Colas, NEW a \in Colas, de # a,
         colas' = Mover1(e, de, a), Contains(colas[de], e), \A f \in Entrenadores : EnManos(f)' <=> EnManos(f)
  PROVE  /\ UnaCola' /\ Esta(e, a)' /\ \A q \in Colas : q # a => ~Esta(e, q)'
         /\ \A f \in Entrenadores, q \in Colas : f # e => (Esta(f, q)' <=> Esta(f, q))
<1>1. /\ \A x : Veces(x, colas'[de]) = Veces(x, colas[de]) - (IF x = e THEN 1 ELSE 0)
      /\ \A x : Veces(x, colas'[a]) = Veces(x, colas[a]) + (IF x = e THEN 1 ELSE 0)
      /\ \A c \in Colas \ {de, a} : colas'[c] = colas[c]
  BY Mover1Colas
<1>2. \A q \in Colas, f \in Entrenadores : Veces(f, colas[q]) \in Nat
  BY ColaTipo
<1>3. ASSUME NEW f \in Entrenadores, f # e, NEW q \in Colas PROVE Veces(f, colas'[q]) = Veces(f, colas[q])
  <2>1. CASE q = de
    BY <1>1, <1>2, <1>3, <2>1
  <2>2. CASE q = a
    BY <1>1, <1>2, <1>3, <2>2
  <2>3. CASE q \notin {de, a}
    BY <1>1, <1>3, <2>3
  <2> QED
    BY <2>1, <2>2, <2>3
<1>4. /\ Esta(e, de) /\ \A q \in Colas : q # de => Veces(e, colas[q]) = 0
      /\ ~EnManos(e)
  BY Unica
<1>5. /\ Veces(e, colas'[de]) = 0 /\ Veces(e, colas'[a]) = 1
      /\ \A q \in Colas : q \notin {de, a} => Veces(e, colas'[q]) = 0
  BY <1>1, <1>4 DEF Esta
<1>6. Suyas(e)' = 1
  <2>1. /\ Veces(e, colas'["NEW"]) = (IF a = "NEW" THEN 1 ELSE 0)
        /\ Veces(e, colas'["READY"]) = (IF a = "READY" THEN 1 ELSE 0)
        /\ Veces(e, colas'["EXECUTE"]) = (IF a = "EXECUTE" THEN 1 ELSE 0)
        /\ Veces(e, colas'["BLOCKED"]) = (IF a = "BLOCKED" THEN 1 ELSE 0)
        /\ Veces(e, colas'["FINISHED"]) = (IF a = "FINISHED" THEN 1 ELSE 0)
    BY <1>5 DEF Colas
  <2>2. ~EnManos(e)'
    BY <1>4
  <2>3. a \in {"NEW", "READY", "EXECUTE", "BLOCKED", "FINISHED"}
    BY DEF Colas
  <2> QED
    BY <2>1, <2>2, <2>3 DEF Suyas
<1>7. ASSUME NEW f \in Entrenadores, f # e PROVE Suyas(f)' = 1
  <2>1. /\ Veces(f, colas'["NEW"]) = Veces(f, colas["NEW"])
        /\ Veces(f, colas'["READY"]) = Veces(f, colas["READY"])
        /\ Veces(f, colas'["EXECUTE"]) = Veces(f, colas["EXECUTE"])
        /\ Veces(f, colas'["BLOCKED"]) = Veces(f, colas["BLOCKED"])
        /\ Veces(f, colas'["FINISHED"]) = Veces(f, colas["FINISHED"])
    BY <1>3, <1>7 DEF Colas
  <2>2. (IF EnManos(f) THEN 1 ELSE 0)' = (IF EnManos(f) THEN 1 ELSE 0)
    OBVIOUS
  <2>3. Suyas(f)' = Suyas(f)
    BY <2>1, <2>2 DEF Suyas
  <2> QED
    BY <2>3 DEF UnaCola
<1>8. UnaCola'
  BY <1>6, <1>7 DEF UnaCola
<1>9. Esta(e, a)' /\ \A q \in Colas : q # a => ~Esta(e, q)'
  BY <1>5 DEF Esta
<1> QED
  BY <1>3, <1>8, <1>9 DEF Esta

(* The captures: what a step leaves as it is. *)
LEMMA CapturaIgual ==
  ASSUME NEW e \in Entrenadores, CapturaDe(e), ent'[e].cupo = ent[e].cupo,
         ent'[e].captura \in {Nadie, ent[e].captura}, ent'[e].catch = ent[e].catch,
         Enviando(e)' => Enviando(e), Elegida(e)' => Elegida(e),
         Esta(e, "NEW")' <=> Esta(e, "NEW"), Esta(e, "BLOCKED")' <=> Esta(e, "BLOCKED")
  PROVE  CapturaDe(e)'
<1>1. EnCaptura(e)' => EnCaptura(e)
  BY DEF EnCaptura
<1> QED
  BY <1>1 DEF CapturaDe

LEMMA CatchSigue ==
  ASSUME \A c \in DOMAIN catchs : CatchDe(c), DOMAIN catchs' = DOMAIN catchs,
         \A c \in DOMAIN catchs : catchs'[c].de = catchs[c].de,
         \A c \in DOMAIN catchs : Abierta(c)' =>
           /\ Abierta(c) /\ (Enviando(catchs[c].de)' => Enviando(catchs[c].de))
           /\ Enviando(catchs[c].de)' \/ ent'[catchs[c].de].catch # Nadie
  PROVE  \A c \in DOMAIN catchs' : CatchDe(c)'
<1> SUFFICES ASSUME NEW c \in DOMAIN catchs, Abierta(c)' PROVE CatchDe(c)'
  BY DEF CatchDe
<1> DEFINE e == catchs[c].de
<1>1. catchs'[c].de = e /\ (Enviando(e)' \/ ent'[e].catch # Nadie)
  OBVIOUS
<1>2. ASSUME NEW d \in DOMAIN catchs, catchs'[d].de = e
      PROVE  (Abierta(d)' => d = c) /\ (Enviando(e)' => d <= c)
  BY <1>2 DEF CatchDe
<1> HIDE DEF e
<1>3. (Enviando(catchs[c].de) \/ ent[catchs[c].de].catch # Nadie)'
  BY <1>1 DEF Enviando
<1>4. ASSUME NEW d \in DOMAIN catchs', catchs'[d].de = catchs'[c].de
      PROVE  (Abierta(d)' => d = c) /\ (Enviando(catchs[c].de)' => d <= c)
  <2>1. d \in DOMAIN catchs /\ catchs'[d].de = e
    BY <1>1, <1>4
  <2>2. Enviando(catchs[c].de)' => Enviando(e)'
    BY DEF e
  <2> QED
    BY <1>2, <2>1, <2>2
<1> QED
  BY <1>3, <1>4 DEF CatchDe

LEMMA CuposIguales ==
  ASSUME CuposDelTeam, globales' = globales, \A e \in Entrenadores : ent'[e].cupo = ent[e].cupo
  PROVE  CuposDelTeam'
<1>1. [e \in Entrenadores |-> ent'[e].cupo] = [e \in Entrenadores |-> ent[e].cupo]
  OBVIOUS
<1> QED
  BY <1>1 DEF CuposDelTeam

(* The swaps come after the captures. *)
LEMMA TrasCapturas ==
  ASSUME General, UnaCaptura, CuposDelTeam, finCapturas
  PROVE  /\ \A e \in Entrenadores : ent[e].cupo = 0 /\ ~EnCaptura(e)
         /\ \A c \in DOMAIN catchs : ~Abierta(c) /\ catchs[c].paso # "soltar"
<1>1. TypeOK /\ Capturas
  BY DEF General
<1>2. /\ Suma(globales) \in Nat /\ Cardinality(PorSoltar) \in Nat /\ sem.capturas \in Nat /\ CantidadCapturas \in Nat
      /\ IsFiniteSet(PorSoltar)
  BY <1>1, CapturasTipos, CantidadTipo, PorSoltarTipo
<1>3. Suma(globales) + Cardinality(PorSoltar) + sem.capturas + CantidadCapturas = CantidadCapturas
  BY <1>1 DEF Capturas
<1>4. Suma(globales) = 0 /\ Cardinality(PorSoltar) = 0
  BY <1>2, <1>3
<1>5. PorSoltar = {}
  BY <1>2, <1>4, FS_EmptySet
<1>6. \A e \in Entrenadores : ent[e].cupo = 0
  <2> DEFINE F == [e \in Entrenadores |-> ent[e].cupo]
  <2>1. ASSUME NEW e \in Entrenadores PROVE ent[e].cupo \in Nat
    <3>1. ent[e].cupo \in Int /\ ent[e].cupo >= 0
      BY <1>1, EntTipo DEF TEntrenador, UnaCaptura, CapturaDe
    <3> QED
      BY <3>1
  <2>2. F \in [Entrenadores -> Nat] /\ \A e \in Entrenadores : F[e] = ent[e].cupo
    BY <2>1
  <2>3. Suma(F) = 0
    BY <1>4 DEF CuposDelTeam
  <2> HIDE DEF F
  <2>4. \A e \in Entrenadores : F[e] = 0
    BY <2>2, <2>3, SumaNula, Finitos
  <2> QED
    BY <2>2, <2>4
<1>7. \A e \in Entrenadores : ~EnCaptura(e)
  BY <1>6 DEF UnaCaptura, CapturaDe
<1>8. ASSUME NEW c \in DOMAIN catchs PROVE ~Abierta(c) /\ catchs[c].paso # "soltar"
  <2>1. catchs[c].de \in Entrenadores
    BY <1>1, CatchTipo
  <2>2. ~Abierta(c)
    BY <1>7, <2>1 DEF UnaCaptura, CatchDe, EnCaptura
  <2> QED
    BY <1>5, <2>2 DEF PorSoltar
<1> QED
  BY <1>6, <1>7, <1>8

LEMMA SinIntercambios ==
  ASSUME Intercambios, ~finCapturas,
         \A e \in Entrenadores : (Va(e)' => Va(e)) /\ (Vuelve(e)' => Vuelve(e))
  PROVE  Intercambios'
BY DEF Intercambios, IntercambioDe, Espera

LEMMA IntercambiosIguales ==
  ASSUME Intercambios, finCapturas => finCapturas',
         \A e \in Entrenadores : /\ ent'[e].destino = ent[e].destino /\ ent'[e].ocupado = ent[e].ocupado
                                 /\ hilos'[e].socio = hilos[e].socio
                                 /\ hilos'[e].paso = "transicion" <=> hilos[e].paso = "transicion"
                                 /\ hilos'[e].paso = "asentar" <=> hilos[e].paso = "asentar"
                                 /\ hilos'[e].paso = "transicionSocio" <=> hilos[e].paso = "transicionSocio"
                                 /\ Esta(e, "BLOCKED")' <=> Esta(e, "BLOCKED")
  PROVE  Intercambios'
<1>1. \A e \in Entrenadores : (Va(e)' <=> Va(e)) /\ (Vuelve(e)' <=> Vuelve(e))
  BY DEF Va, Vuelve
<1>2. \A e, o \in Entrenadores : Espera(e, o)' <=> Espera(e, o)
  BY <1>1 DEF Espera
<1> SUFFICES ASSUME NEW e \in Entrenadores PROVE IntercambioDe(e)'
  BY DEF Intercambios
<1>3. IntercambioDe(e)
  BY DEF Intercambios
<1> QED
  BY <1>1, <1>2, <1>3 DEF IntercambioDe

(* A step that moves no trainer into or out of NEW and BLOCKED, and no     *)
(* capture or swap on.                                                     *)
LEMMA OrdenadoIgual ==
  ASSUME Ordenado, UnaCola', globales' = globales, finCapturas => finCapturas', seleccion' = seleccion,
         DOMAIN catchs' = DOMAIN catchs, \A c \in DOMAIN catchs : catchs'[c].de = catchs[c].de,
         \A c \in DOMAIN catchs : Abierta(c)' => Abierta(c),
         \A c \in DOMAIN catchs : catchs[c].de \in Entrenadores,
         \A e \in Entrenadores : /\ ent'[e].cupo = ent[e].cupo /\ ent'[e].captura = ent[e].captura
                                 /\ ent'[e].catch = ent[e].catch
                                 /\ ent'[e].destino = ent[e].destino /\ ent'[e].ocupado = ent[e].ocupado
                                 /\ hilos'[e].socio = hilos[e].socio
                                 /\ Enviando(e)' <=> Enviando(e)
                                 /\ hilos'[e].paso = "transicion" <=> hilos[e].paso = "transicion"
                                 /\ hilos'[e].paso = "asentar" <=> hilos[e].paso = "asentar"
                                 /\ hilos'[e].paso = "transicionSocio" <=> hilos[e].paso = "transicionSocio"
                                 /\ Esta(e, "NEW")' <=> Esta(e, "NEW")
                                 /\ Esta(e, "BLOCKED")' <=> Esta(e, "BLOCKED")
  PROVE  Ordenado'
<1>1. UnaCaptura /\ CuposDelTeam /\ Intercambios
  BY DEF Ordenado
<1>2. ASSUME NEW e \in Entrenadores PROVE CapturaDe(e)'
  <2>1. CapturaDe(e) /\ (Elegida(e)' => Elegida(e))
    BY <1>1 DEF UnaCaptura, Elegida
  <2> QED
    BY <2>1, CapturaIgual
<1>3. \A c \in DOMAIN catchs' : CatchDe(c)'
  <2>1. ASSUME NEW c \in DOMAIN catchs, Abierta(c)'
        PROVE  /\ Abierta(c) /\ (Enviando(catchs[c].de)' => Enviando(catchs[c].de))
               /\ Enviando(catchs[c].de)' \/ ent'[catchs[c].de].catch # Nadie
    <3> DEFINE e == catchs[c].de
    <3>1. e \in Entrenadores /\ catchs'[c].de = e /\ Abierta(c) /\ CatchDe(c)
      BY <1>1, <2>1 DEF UnaCaptura
    <3>2. Enviando(e) \/ ent[e].catch # Nadie
      BY <3>1 DEF CatchDe
    <3>3. (hilos'[e].paso = "bloquear" <=> hilos[e].paso = "bloquear") /\ ent'[e].catch = ent[e].catch
      BY <3>1 DEF Enviando
    <3> QED
      BY <3>1, <3>2, <3>3 DEF Enviando
  <2>2. \A c \in DOMAIN catchs : CatchDe(c)
    BY <1>1 DEF UnaCaptura
  <2> QED
    BY <2>1, <2>2, CatchSigue
<1>4. UnaCaptura'
  BY <1>2, <1>3 DEF UnaCaptura
<1>5. CuposDelTeam'
  BY <1>1, CuposIguales
<1>6. Intercambios'
  BY <1>1, IntercambiosIguales
<1> QED
  BY <1>4, <1>5, <1>6 DEF Ordenado

LEMMA QuietoOrdenado ==
  ASSUME TypeOK, Ordenado,
         (\E m \in Mensajes : Recibir(m) \/ Incluir(m)) \/ FinCapturas \/ Finalizar \/ Caer \/ UNCHANGED vars
         \/ (\E c \in DOMAIN catchs : Caught(c))
  PROVE  Ordenado'
<1>1. /\ UNCHANGED <<ent, hilos, colas, globales, seleccion>> /\ (finCapturas => finCapturas')
  <2>1. CASE \E m \in Mensajes : Recibir(m) \/ Incluir(m)
    BY <2>1 DEF Recibir, Incluir, fin
  <2>2. CASE FinCapturas
    BY <2>2 DEF FinCapturas
  <2>3. CASE Finalizar \/ Caer
    BY <2>3 DEF Finalizar, Caer
  <2>4. CASE UNCHANGED vars
    BY <2>4 DEF vars, fin
  <2>5. CASE \E c \in DOMAIN catchs : Caught(c)
    <3>1. PICK c \in DOMAIN catchs : Caught(c)
      BY <2>5
    <3>2. UNCHANGED <<ent, hilos, colas, globales, seleccion, fin>>
      BY <3>1 DEF Caught
    <3> QED
      BY <3>2 DEF fin
  <2> QED
    BY <2>1, <2>2, <2>3, <2>4, <2>5
<1>2. /\ DOMAIN catchs' = DOMAIN catchs /\ \A c \in DOMAIN catchs : catchs'[c].de = catchs[c].de
      /\ \A c \in DOMAIN catchs : Abierta(c)' => Abierta(c)
  <2>1. CASE UNCHANGED catchs
    BY <2>1 DEF Abierta
  <2>2. ASSUME NEW c \in DOMAIN catchs, Caught(c)
        PROVE  /\ DOMAIN catchs' = DOMAIN catchs /\ \A d \in DOMAIN catchs : catchs'[d].de = catchs[d].de
               /\ \A d \in DOMAIN catchs : Abierta(d)' => Abierta(d)
    BY <2>2, CaughtTipos DEF Abierta
  <2>3. UNCHANGED catchs \/ \E c \in DOMAIN catchs : Caught(c)
    BY DEF Recibir, Incluir, FinCapturas, Finalizar, Caer, vars
  <2> QED
    BY <2>1, <2>2, <2>3
<1>3. \A f \in Entrenadores : (EnManos(f)' <=> EnManos(f)) /\ (Enviando(f)' <=> Enviando(f))
  BY <1>1 DEF EnManos, Enviando
<1>4. UnaCola' /\ \A f \in Entrenadores, q \in Colas : Esta(f, q)' <=> Esta(f, q)
  BY <1>1, <1>3, UnaColaIgual DEF Ordenado
<1>5. \A c \in DOMAIN catchs : catchs[c].de \in Entrenadores
  BY CatchTipo
<1>6. "NEW" \in Colas /\ "BLOCKED" \in Colas
  BY DEF Colas
<1> QED
  BY <1>1, <1>2, <1>3, <1>4, <1>5, <1>6, OrdenadoIgual

(* The planner, and a trainer that moves or goes back to READY. *)
LEMMA PlanOrdenado ==
  ASSUME General, Ordenado,
         Planificar \/ \E e \in Entrenadores : Mover(e) \/ VolverAReady(e)
  PROVE  Ordenado'
<1>1. TypeOK /\ Semaforos /\ UnaCola /\ \A e \in Entrenadores : EnCPU(e) > 0 => Contains(colas["EXECUTE"], e)
  BY EstaEnEjecucion DEF General, Ordenado
<1>2. UNCHANGED <<globales, seleccion, catchs, finCapturas>>
  BY DEF Planificar, Mover, VolverAReady, fin
<1>3. /\ DOMAIN catchs' = DOMAIN catchs /\ \A c \in DOMAIN catchs : catchs'[c].de = catchs[c].de
      /\ \A c \in DOMAIN catchs : (Abierta(c)' => Abierta(c)) /\ catchs[c].de \in Entrenadores
  BY <1>1, <1>2, CatchTipo DEF Abierta
<1>4. \A e \in Entrenadores : /\ ent'[e].cupo = ent[e].cupo /\ ent'[e].captura = ent[e].captura
                              /\ ent'[e].catch = ent[e].catch
                              /\ ent'[e].destino = ent[e].destino /\ ent'[e].ocupado = ent[e].ocupado
  <2>1. \A e \in Entrenadores : ent[e] \in TEntrenador
    BY <1>1, EntTipo
  <2>2. ent \in [Entrenadores -> TEntrenador]
    BY <1>1 DEF TypeOK
  <2>3. CASE Planificar
    <3>1. PICK e \in Entrenadores : \E q, k \in Nat : ent' = [ent EXCEPT ![e].quantum = q, ![e].contador = k]
      BY <1>1, <2>3, PlanificarTipos
    <3> QED
      BY <2>1, <2>2, <3>1 DEF TEntrenador
  <2>4. ASSUME NEW e \in Entrenadores, Mover(e)
        PROVE  \A f \in Entrenadores : /\ ent'[f].cupo = ent[f].cupo /\ ent'[f].captura = ent[f].captura
                                       /\ ent'[f].catch = ent[f].catch
                                       /\ ent'[f].destino = ent[f].destino /\ ent'[f].ocupado = ent[f].ocupado
    <3>1. \E p, q \in Nat : ent' = [ent EXCEPT ![e].pos = p, ![e].quantum = q]
      BY <1>1, <2>4, MoverTipos
    <3> QED
      BY <2>1, <2>2, <3>1 DEF TEntrenador
  <2>5. ASSUME NEW e \in Entrenadores, VolverAReady(e)
        PROVE  \A f \in Entrenadores : /\ ent'[f].cupo = ent[f].cupo /\ ent'[f].captura = ent[f].captura
                                       /\ ent'[f].catch = ent[f].catch
                                       /\ ent'[f].destino = ent[f].destino /\ ent'[f].ocupado = ent[f].ocupado
    <3>1. \E k, q \in Nat : ent' = [ent EXCEPT ![e].contador = k, ![e].quantum = q]
      BY <1>1, <2>5, VolverTipos
    <3> QED
      BY <2>1, <2>2, <3>1 DEF TEntrenador
  <2> QED
    BY <2>3, <2>4, <2>5
<1>5. \A e \in Entrenadores : /\ hilos'[e].socio = hilos[e].socio
                              /\ Enviando(e)' <=> Enviando(e)
                              /\ hilos'[e].paso = "transicion" <=> hilos[e].paso = "transicion"
                              /\ hilos'[e].paso = "asentar" <=> hilos[e].paso = "asentar"
                              /\ hilos'[e].paso = "transicionSocio" <=> hilos[e].paso = "transicionSocio"
  <2>1. \A e \in Entrenadores : hilos[e] \in THilo
    BY <1>1, HiloTipo
  <2>2. hilos \in [Entrenadores -> THilo]
    BY <1>1 DEF TypeOK, THilo
  <2>3. CASE Planificar
    <3>1. PICK e \in Entrenadores : hilos' = [hilos EXCEPT ![e].turno = @ + 1]
      BY <1>1, <2>3, PlanificarTipos
    <3> QED
      BY <2>1, <2>2, <3>1 DEF THilo, Enviando
  <2>4. ASSUME NEW e \in Entrenadores, Mover(e) \/ VolverAReady(e)
        PROVE  /\ \A f \in Entrenadores : f # e => hilos'[f] = hilos[f]
               /\ hilos'[e].socio = hilos[e].socio /\ hilos'[e].paso \in {"decidir", "dormido"}
               /\ hilos[e].paso \in {"decidir", "dormido"}
    <3>1. CASE Mover(e)
      BY <2>1, <2>2, <3>1 DEF Mover, Despierta, En, THilo
    <3>2. CASE VolverAReady(e)
      BY <2>1, <2>2, <3>2 DEF VolverAReady, Decidiendo, En, THilo, Ir
    <3> QED
      BY <2>4, <3>1, <3>2
  <2>5. CASE \E e \in Entrenadores : Mover(e) \/ VolverAReady(e)
    BY <2>4, <2>5 DEF Enviando
  <2> QED
    BY <2>3, <2>5
<1>6. /\ UnaCola'
      /\ \A e \in Entrenadores : (Esta(e, "NEW")' <=> Esta(e, "NEW")) /\ (Esta(e, "BLOCKED")' <=> Esta(e, "BLOCKED"))
  <2>1. \A f \in Entrenadores : (EnManos(f)' <=> EnManos(f)) /\ (Enviando(f)' <=> Enviando(f))
    BY <1>5 DEF EnManos, Enviando
  <2>2. {"NEW", "BLOCKED", "READY", "EXECUTE"} \subseteq Colas
    BY DEF Colas
  <2>3. CASE colas' = colas
    BY <1>1, <2>1, <2>2, <2>3, UnaColaIgual
  <2>4. ASSUME NEW e \in Entrenadores, NEW de \in {"READY", "EXECUTE"}, NEW a \in {"READY", "EXECUTE"}, de # a,
               Contains(colas[de], e), colas' = Mover1(e, de, a)
        PROVE  /\ UnaCola'
               /\ \A f \in Entrenadores : (Esta(f, "NEW")' <=> Esta(f, "NEW")) /\ (Esta(f, "BLOCKED")' <=> Esta(f, "BLOCKED"))
    <3>1. de \in Colas /\ a \in Colas
      BY <2>2
    <3>2. /\ UnaCola' /\ \A q \in Colas : q # a => ~Esta(e, q)'
          /\ \A f \in Entrenadores, q \in Colas : f # e => (Esta(f, q)' <=> Esta(f, q))
      BY <1>1, <2>1, <2>4, <3>1, MoverUnaCola
    <3>3. Esta(e, de) /\ \A q \in Colas : q # de => ~Esta(e, q)
      BY <1>1, <2>4, <3>1, Unica
    <3> QED
      BY <2>2, <3>2, <3>3
  <2>5. CASE Planificar
    BY <1>1, <2>4, <2>5, PlanificarTipos
  <2>6. CASE \E e \in Entrenadores : Mover(e)
    BY <2>3, <2>6 DEF Mover
  <2>7. ASSUME NEW e \in Entrenadores, VolverAReady(e)
        PROVE  colas' = Mover1(e, "EXECUTE", "READY") /\ Contains(colas["EXECUTE"], e)
    <3>1. hilos[e].paso = "decidir" /\ hilos[e].turno \in Nat
      BY <1>1, <2>7, HiloTipo DEF VolverAReady, Decidiendo, En
    <3>2. EnCPU(e) > 0
      BY <3>1 DEF EnCPU
    <3> QED
      BY <1>1, <2>7, <3>2 DEF VolverAReady
  <2>8. CASE \E e \in Entrenadores : VolverAReady(e)
    BY <2>4, <2>7, <2>8
  <2> QED
    BY <2>5, <2>6, <2>8
<1> QED
  BY <1>2, <1>3, <1>4, <1>5, <1>6, OrdenadoIgual

LEMMA ElegirOrdenado ==
  ASSUME General, Ordenado, Elegir, ~reelegido'
  PROVE  Ordenado'
<1> DEFINE e == Elegido
<1>1. TypeOK /\ Semaforos /\ UnaCola /\ UnaCaptura /\ CuposDelTeam /\ Intercambios
  BY DEF General, Ordenado
<1>2. /\ e \in Entrenadores /\ Disponible(e) /\ (Contains(colas["NEW"], e) \/ Contains(colas["BLOCKED"], e))
  BY <1>1, ElegidoTipo DEF Elegir
<1>3. /\ UNCHANGED <<ent, hilos, colas, globales, catchs, finCapturas>>
      /\ ent[e].catch = Nadie /\ \E p : seleccion' = [entrenador |-> e, pokemon |-> p]
      /\ seleccion = Nadie
  BY DEF Elegir, PuedeElegir, fin
<1> HIDE DEF e
<1>4. \A f \in Entrenadores : (EnManos(f)' <=> EnManos(f)) /\ (Enviando(f)' <=> Enviando(f))
  BY <1>3 DEF EnManos, Enviando
<1>5. UnaCola' /\ \A f \in Entrenadores, q \in Colas : Esta(f, q)' <=> Esta(f, q)
  BY <1>1, <1>3, <1>4, UnaColaIgual
<1>6. "NEW" \in Colas /\ "BLOCKED" \in Colas
  BY DEF Colas
<1>7. ASSUME NEW f \in Entrenadores PROVE CapturaDe(f)'
  <2>1. CapturaDe(f) /\ ~Elegida(f)
    BY <1>1, <1>3 DEF UnaCaptura, Elegida
  <2>2. CASE f # e
    <3>1. ~Elegida(f)'
      BY <1>3, <2>2 DEF Elegida
    <3> QED
      BY <1>3, <1>4, <1>5, <1>6, <2>1, <3>1, CapturaIgual
  <2>3. CASE f = e
    <3>1. ent[f].cupo \in Int /\ ent[f].cupo >= 0 /\ ent[f].cupo # 0
      BY <1>1, <1>2, <2>1, <2>3, EntTipo DEF CapturaDe, Disponible, TEntrenador
    <3>2. ent'[f].cupo > 0 /\ ent'[f].cupo >= 0 /\ ent'[f].catch = Nadie
      BY <1>3, <2>3, <3>1
    <3>3. Esta(f, "NEW")' \/ Esta(f, "BLOCKED")'
      BY <1>1, <1>2, <1>5, <1>6, <2>3, Unica
    <3> QED
      BY <3>1, <3>2, <3>3 DEF CapturaDe
  <2> QED
    BY <2>2, <2>3
<1>8. \A c \in DOMAIN catchs' : CatchDe(c)'
  BY <1>1, <1>3 DEF UnaCaptura, CatchDe, Abierta, Enviando
<1>9. CuposDelTeam'
  BY <1>1, <1>3, CuposIguales
<1>10. Intercambios'
  BY <1>1, <1>3, <1>5, <1>6, IntercambiosIguales
<1> QED
  BY <1>5, <1>7, <1>8, <1>9, <1>10 DEF Ordenado, UnaCaptura

LEMMA SacarOrdenado ==
  ASSUME General, Ordenado, Sacar
  PROVE  Ordenado'
<1> DEFINE e == seleccion.entrenador
           de == ColaDe(e)
<1>1. TypeOK /\ Semaforos /\ UnaCola /\ UnaCaptura /\ CuposDelTeam /\ Intercambios
  BY DEF General, Ordenado
<1>2. /\ e \in Entrenadores /\ de \in {"NEW", "BLOCKED"} /\ Contains(colas[de], e) /\ seleccion # Nadie
  BY <1>1, SacarTipos DEF Sacar
<1>3. /\ colas' = Mover1(e, de, "READY") /\ ent' = [ent EXCEPT ![e].captura = seleccion.pokemon]
      /\ seleccion' = Nadie /\ UNCHANGED <<hilos, globales, catchs, finCapturas>>
  BY DEF Sacar, fin
<1>4. Elegida(e)
  BY <1>2 DEF Elegida
<1> HIDE DEF e, de
<1>5. CapturaDe(e) /\ ent[e].cupo > 0 /\ ent[e].catch = Nadie
  BY <1>1, <1>2, <1>4 DEF UnaCaptura, CapturaDe, EnCaptura
<1>6. ~finCapturas
  <2> SUFFICES ASSUME finCapturas PROVE FALSE
    OBVIOUS
  <2>1. ~EnCaptura(e)
    BY <1>1, <1>2, TrasCapturas
  <2> QED
    BY <1>4, <2>1 DEF EnCaptura
<1>7. \A f \in Entrenadores : (EnManos(f)' <=> EnManos(f)) /\ (Enviando(f)' <=> Enviando(f))
  BY <1>3 DEF EnManos, Enviando
<1>8. de \in Colas /\ "READY" \in Colas /\ "NEW" \in Colas /\ "BLOCKED" \in Colas /\ de # "READY"
  BY <1>2 DEF Colas
<1>9. UnaCola' /\ \A f \in Entrenadores, q \in Colas : f # e => (Esta(f, q)' <=> Esta(f, q))
  BY <1>1, <1>2, <1>3, <1>7, <1>8, MoverUnaCola
<1>10. /\ \A f \in Entrenadores : f # e => ent'[f] = ent[f]
       /\ \A f \in Entrenadores : /\ ent'[f].cupo = ent[f].cupo /\ ent'[f].catch = ent[f].catch
                                  /\ ent'[f].destino = ent[f].destino
  <2>1. ent \in [Entrenadores -> TEntrenador] /\ \A f \in Entrenadores : ent[f] \in TEntrenador
    BY <1>1 DEF TypeOK
  <2> QED
    BY <1>3, <2>1 DEF TEntrenador
<1>11. ASSUME NEW f \in Entrenadores PROVE CapturaDe(f)'
  <2>1. CapturaDe(f) /\ ~Elegida(f)'
    BY <1>1, <1>3 DEF UnaCaptura, Elegida
  <2>2. CASE f # e
    BY <1>7, <1>8, <1>9, <1>10, <2>1, <2>2, CapturaIgual
  <2>3. CASE f = e
    <3>1. ent'[f].cupo > 0 /\ ent'[f].catch = Nadie /\ ent'[f].cupo >= 0
      BY <1>5, <1>10, <2>1, <2>3 DEF CapturaDe
    <3> QED
      BY <2>1, <3>1 DEF CapturaDe
  <2> QED
    BY <2>2, <2>3
<1>12. \A c \in DOMAIN catchs' : CatchDe(c)'
  <2>1. \A c \in DOMAIN catchs : catchs[c].de \in Entrenadores
    BY <1>1, CatchTipo
  <2> QED
    BY <1>1, <1>3, <1>10, <2>1 DEF UnaCaptura, CatchDe, Abierta, Enviando
<1>13. CuposDelTeam'
  BY <1>1, <1>3, <1>10, CuposIguales
<1>14. Intercambios'
  <2>1. \A f \in Entrenadores : (Va(f)' => Va(f)) /\ (Vuelve(f)' => Vuelve(f))
    BY <1>3, <1>10 DEF Va, Vuelve
  <2> QED
    BY <1>1, <1>6, <2>1, SinIntercambios
<1> QED
  BY <1>9, <1>11, <1>12, <1>13, <1>14 DEF Ordenado, UnaCaptura

(* A trainer goes from a queue to the hands of its thread, or back. *)
LEMMA UnaColaDe ==
  ASSUME TypeOK, UnaCola, NEW e \in Entrenadores, NEW q \in Colas,
         \A f \in Entrenadores : f # e => (EnManos(f)' <=> EnManos(f)),
         \A r \in Colas : r # q => colas'[r] = colas[r],
         \A f \in Entrenadores : f # e => Veces(f, colas'[q]) = Veces(f, colas[q]),
         \/ EnManos(e) /\ ~EnManos(e)' /\ Veces(e, colas'[q]) = Veces(e, colas[q]) + 1
         \/ ~EnManos(e) /\ EnManos(e)' /\ Veces(e, colas'[q]) = Veces(e, colas[q]) - 1
  PROVE  UnaCola' /\ \A f \in Entrenadores, r \in Colas : f # e => (Esta(f, r)' <=> Esta(f, r))
<1>1. \A r \in Colas, f \in Entrenadores : Veces(f, colas[r]) \in Nat
  BY ColaTipo
<1>2. \A f \in Entrenadores, r \in Colas : f # e => Veces(f, colas'[r]) = Veces(f, colas[r])
  OBVIOUS
<1>3. \A r \in Colas : r # q => Veces(e, colas'[r]) = Veces(e, colas[r])
  OBVIOUS
<1>4. ASSUME NEW f \in Entrenadores, f # e PROVE Suyas(f)' = 1
  <2>1. /\ Veces(f, colas'["NEW"]) = Veces(f, colas["NEW"])
        /\ Veces(f, colas'["READY"]) = Veces(f, colas["READY"])
        /\ Veces(f, colas'["EXECUTE"]) = Veces(f, colas["EXECUTE"])
        /\ Veces(f, colas'["BLOCKED"]) = Veces(f, colas["BLOCKED"])
        /\ Veces(f, colas'["FINISHED"]) = Veces(f, colas["FINISHED"])
    BY <1>2, <1>4 DEF Colas
  <2>2. (IF EnManos(f) THEN 1 ELSE 0)' = (IF EnManos(f) THEN 1 ELSE 0)
    BY <1>4
  <2>3. Suyas(f)' = Suyas(f)
    BY <2>1, <2>2 DEF Suyas
  <2> QED
    BY <2>3 DEF UnaCola
<1>5. Suyas(e)' = 1
  <2> DEFINE v(r) == Veces(e, colas[r])
             w(r) == Veces(e, colas'[r])
             M == IF EnManos(e) THEN 1 ELSE 0
             P == IF EnManos(e)' THEN 1 ELSE 0
  <2>1. \A r \in Colas : v(r) \in Nat /\ (r # q => w(r) = v(r))
    BY <1>1, <1>3
  <2>2. \/ M = 1 /\ P = 0 /\ w(q) = v(q) + 1
        \/ M = 0 /\ P = 1 /\ w(q) = v(q) - 1
    OBVIOUS
  <2>3. v("NEW") + v("READY") + v("EXECUTE") + v("BLOCKED") + v("FINISHED") + M = 1
    BY DEF UnaCola, Suyas
  <2>4. Suyas(e)' = w("NEW") + w("READY") + w("EXECUTE") + w("BLOCKED") + w("FINISHED") + P
    BY DEF Suyas
  <2> HIDE DEF v, w, M, P
  <2>5. w("NEW") + w("READY") + w("EXECUTE") + w("BLOCKED") + w("FINISHED") + P = 1
    <3>1. q \in {"NEW", "READY", "EXECUTE", "BLOCKED", "FINISHED"}
      BY DEF Colas
    <3>2. /\ v("NEW") \in Nat /\ v("READY") \in Nat /\ v("EXECUTE") \in Nat /\ v("BLOCKED") \in Nat /\ v("FINISHED") \in Nat
          /\ "NEW" # q => w("NEW") = v("NEW")
          /\ "READY" # q => w("READY") = v("READY")
          /\ "EXECUTE" # q => w("EXECUTE") = v("EXECUTE")
          /\ "BLOCKED" # q => w("BLOCKED") = v("BLOCKED")
          /\ "FINISHED" # q => w("FINISHED") = v("FINISHED")
      BY <2>1 DEF Colas
    <3>3. CASE q = "NEW"
      BY <2>2, <2>3, <3>2, <3>3
    <3>4. CASE q = "READY"
      BY <2>2, <2>3, <3>2, <3>4
    <3>5. CASE q = "EXECUTE"
      BY <2>2, <2>3, <3>2, <3>5
    <3>6. CASE q = "BLOCKED"
      BY <2>2, <2>3, <3>2, <3>6
    <3>7. CASE q = "FINISHED"
      BY <2>2, <2>3, <3>2, <3>7
    <3> QED
      BY <3>1, <3>3, <3>4, <3>5, <3>6, <3>7
  <2> QED
    BY <2>4, <2>5
<1> QED
  BY <1>2, <1>4, <1>5 DEF UnaCola, Esta

(* Who is capturing has no swap to wait for. *)
LEMMA CapturandoAntes ==
  ASSUME General, Ordenado, NEW e \in Entrenadores, EnCaptura(e)
  PROVE  ~finCapturas /\ ent[e].cupo > 0
BY TrasCapturas DEF Ordenado, UnaCaptura, CapturaDe

LEMMA EnviarOrdenado ==
  ASSUME General, Ordenado, NEW e \in Entrenadores, EnviarCatch(e)
  PROVE  Ordenado'
<1> DEFINE n == Len(catchs) + 1
<1>1. TypeOK /\ Semaforos /\ UnaCola /\ UnaCaptura /\ CuposDelTeam /\ Intercambios
  BY DEF General, Ordenado
<1>2. /\ DOMAIN catchs' = DOMAIN catchs \cup {n}
      /\ \A c \in DOMAIN catchs : catchs'[c] = catchs[c] /\ c < n
      /\ catchs'[n].de = e /\ catchs'[n].paso \in {"fallido", "enBroker"} /\ n \in Nat
  <2>1. n \in Nat /\ \A c \in DOMAIN catchs : c < n
    BY <1>1, CatchTipo
  <2>2. /\ DOMAIN catchs' = DOMAIN catchs \cup {n} /\ \A c \in DOMAIN catchs : catchs'[c] = catchs[c]
        /\ catchs'[n].de = e /\ catchs'[n].paso \in {"fallido", "enBroker"}
    BY <1>1, EnviarTipos
  <2> QED
    BY <2>1, <2>2
<1> HIDE DEF n
<1>3. /\ colas' = [colas EXCEPT !["EXECUTE"] = RemoveFirst(colas["EXECUTE"], e)]
      /\ Ir(e, "bloquear") /\ ent' = [ent EXCEPT ![e].quantum = 0]
      /\ hilos[e].paso = "decidir" /\ ent[e].captura # Nadie
      /\ UNCHANGED <<globales, seleccion, finCapturas>>
  BY <1>1, EnviarTipos DEF EnviarCatch, Decidiendo, En, Captura, fin
<1>4. ~finCapturas /\ ent[e].cupo > 0
  BY <1>3, CapturandoAntes DEF EnCaptura
<1>5. /\ hilos'[e].paso = "bloquear" /\ \A f \in Entrenadores : f # e => hilos'[f] = hilos[f]
  BY <1>1, <1>3, HiloTipo DEF TypeOK, THilo
<1>6. Contains(colas["EXECUTE"], e)
  <2>1. hilos[e].turno \in Nat
    BY <1>1, HiloTipo
  <2>2. EnCPU(e) > 0
    BY <1>3, <2>1 DEF EnCPU
  <2> QED
    BY <1>1, <2>2, EstaEnEjecucion
<1>7. Esta(e, "EXECUTE") /\ ~Esta(e, "NEW") /\ ~Esta(e, "BLOCKED")
  BY <1>1, <1>6, Unica DEF Colas
<1>8. UnaCola' /\ \A f \in Entrenadores, r \in Colas : f # e => (Esta(f, r)' <=> Esta(f, r))
  <2>1. colas["EXECUTE"] \in Seq(Entrenadores) /\ "EXECUTE" \in Colas
    BY <1>1, ColaTipo DEF Colas
  <2>2. /\ \A r \in Colas : r # "EXECUTE" => colas'[r] = colas[r]
        /\ colas'["EXECUTE"] = RemoveFirst(colas["EXECUTE"], e)
    BY <1>1, <1>3, <2>1 DEF TypeOK
  <2>3. \A x : Veces(x, colas'["EXECUTE"]) = Veces(x, colas["EXECUTE"]) - (IF x = e THEN 1 ELSE 0)
    BY <1>6, <2>1, <2>2, VecesRemoveFirst
  <2>4. \A f \in Entrenadores : Veces(f, colas["EXECUTE"]) \in Nat
    BY <1>1, <2>1, ColaTipo
  <2>5. Veces(e, colas'["EXECUTE"]) = Veces(e, colas["EXECUTE"]) - 1
    BY <2>3, <2>4
  <2>6. \A f \in Entrenadores : f # e => Veces(f, colas'["EXECUTE"]) = Veces(f, colas["EXECUTE"])
    BY <2>3, <2>4
  <2>7. ~EnManos(e) /\ EnManos(e)' /\ \A f \in Entrenadores : f # e => (EnManos(f)' <=> EnManos(f)) /\ (Enviando(f)' <=> Enviando(f))
    BY <1>3, <1>5 DEF EnManos, Enviando
  <2> QED
    BY <1>1, <2>1, <2>2, <2>5, <2>6, <2>7, UnaColaDe
<1>9. \A f \in Entrenadores : /\ ent'[f].cupo = ent[f].cupo /\ ent'[f].captura = ent[f].captura
                              /\ ent'[f].catch = ent[f].catch /\ ent'[f].destino = ent[f].destino
  <2>1. ent \in [Entrenadores -> TEntrenador] /\ \A f \in Entrenadores : ent[f] \in TEntrenador
    BY <1>1 DEF TypeOK
  <2> QED
    BY <1>3, <2>1 DEF TEntrenador
<1>10. "NEW" \in Colas /\ "BLOCKED" \in Colas
  BY DEF Colas
<1>11. CapturaDe(e) /\ ent[e].catch = Nadie /\ ~Elegida(e)
  BY <1>1, <1>7 DEF UnaCaptura, CapturaDe
<1>12. ASSUME NEW f \in Entrenadores PROVE CapturaDe(f)'
  <2>1. CapturaDe(f) /\ (Elegida(f)' <=> Elegida(f))
    BY <1>1, <1>3 DEF UnaCaptura, Elegida
  <2>2. CASE f # e
    <3>1. Enviando(f)' <=> Enviando(f)
      BY <1>5, <2>2 DEF Enviando
    <3> QED
      BY <1>8, <1>9, <1>10, <2>1, <2>2, <3>1, CapturaIgual
  <2>3. CASE f = e
    <3>1. ent'[f].cupo > 0 /\ ent'[f].cupo >= 0 /\ ent'[f].catch = Nadie /\ ~Elegida(f)'
      BY <1>4, <1>9, <1>11, <2>1, <2>3 DEF CapturaDe
    <3> QED
      BY <3>1 DEF CapturaDe
  <2> QED
    BY <2>2, <2>3
<1>13. ASSUME NEW c \in DOMAIN catchs' PROVE CatchDe(c)'
  <2> SUFFICES ASSUME Abierta(c)' PROVE CatchDe(c)'
    BY DEF CatchDe
  <2>1. \A d \in DOMAIN catchs : (Abierta(d)' <=> Abierta(d)) /\ catchs'[d].de = catchs[d].de /\ catchs[d].de \in Entrenadores
    BY <1>1, <1>2, CatchTipo DEF Abierta
  <2>2. \A d \in DOMAIN catchs : Abierta(d) => catchs[d].de # e
    BY <1>1, <1>3, <1>11 DEF UnaCaptura, CatchDe, Enviando
  <2>3. CASE c = n
    <3>1. Enviando(catchs[c].de)'
      BY <1>2, <1>5, <2>3 DEF Enviando
    <3>2. ASSUME NEW d \in DOMAIN catchs', catchs'[d].de = catchs'[c].de
          PROVE  (Abierta(d)' => d = c) /\ d <= c
      <4>1. CASE d = n
        BY <1>2, <2>3, <4>1
      <4>2. CASE d # n
        <5>1. d \in DOMAIN catchs /\ d \in Nat
          BY <1>1, <1>2, <4>2, CatchTipo
        <5> QED
          BY <1>2, <2>1, <2>2, <2>3, <3>2, <5>1
      <4> QED
        BY <4>1, <4>2
    <3> QED
      BY <3>1, <3>2 DEF CatchDe
  <2>4. CASE c # n
    <3> DEFINE f == catchs[c].de
    <3>1. c \in DOMAIN catchs /\ Abierta(c) /\ f \in Entrenadores /\ f # e /\ catchs'[c].de = f /\ CatchDe(c)
      BY <1>1, <1>2, <2>1, <2>2, <2>4 DEF UnaCaptura
    <3>2. hilos'[f] = hilos[f] /\ ent'[f].catch = ent[f].catch
      BY <1>5, <1>9, <3>1
    <3>3. (Enviando(catchs[c].de) \/ ent[catchs[c].de].catch # Nadie)'
      BY <3>1, <3>2 DEF CatchDe, Enviando
    <3>4. ASSUME NEW d \in DOMAIN catchs', catchs'[d].de = catchs'[c].de
          PROVE  (Abierta(d)' => d = c) /\ (Enviando(catchs[c].de)' => d <= c)
      <4>1. d \in DOMAIN catchs /\ catchs[d].de = f /\ (Abierta(d)' => Abierta(d))
        BY <1>2, <2>1, <3>1, <3>4
      <4>2. Enviando(catchs[c].de)' => Enviando(catchs[c].de)
        BY <3>1, <3>2 DEF Enviando
      <4> QED
        BY <3>1, <4>1, <4>2 DEF CatchDe
    <3> QED
      BY <3>3, <3>4 DEF CatchDe
  <2> QED
    BY <2>3, <2>4
<1>14. CuposDelTeam'
  BY <1>1, <1>3, <1>9, CuposIguales
<1>15. Intercambios'
  <2>1. \A f \in Entrenadores : (Va(f)' => Va(f)) /\ (Vuelve(f)' => Vuelve(f))
    BY <1>5, <1>9 DEF Va, Vuelve
  <2> QED
    BY <1>1, <1>4, <2>1, SinIntercambios
<1> QED
  BY <1>8, <1>12, <1>13, <1>14, <1>15 DEF Ordenado, UnaCaptura

LEMMA BloquearOrdenado ==
  ASSUME General, Ordenado, NEW e \in Entrenadores, Bloquear(e)
  PROVE  Ordenado'
<1>1. /\ TypeOK /\ Semaforos /\ UnaCola /\ UnaCaptura /\ CuposDelTeam /\ Intercambios
      /\ Hizo(e) /\ PorBloquear(e)
  BY DEF General, Ordenado
<1>2. /\ Enviando(e) /\ MensajeCatch(e) # Nadie
      /\ colas' = [colas EXCEPT !["BLOCKED"] = Append(colas["BLOCKED"], e)]
  BY <1>1, BloquearTipos
<1>3. /\ ent' = [ent EXCEPT ![e].catch = MensajeCatch(e)] /\ Ir(e, "dormido")
      /\ UNCHANGED <<globales, seleccion, finCapturas>>
  BY DEF Bloquear, fin
<1>4. ~finCapturas /\ ent[e].cupo > 0
  BY <1>2, CapturandoAntes DEF EnCaptura
<1>5. hilos'[e].paso = "dormido" /\ \A f \in Entrenadores : f # e => hilos'[f] = hilos[f]
  <2>1. hilos' = [hilos EXCEPT ![e] = [hilos[e] EXCEPT !.paso = "dormido"]] /\ hilos[e] \in THilo
    BY <1>1, <1>3, HiloTipo
  <2>2. hilos \in [Entrenadores -> THilo]
    BY <1>1 DEF TypeOK, THilo
  <2> QED
    BY <2>1, <2>2 DEF THilo
<1>6. \A q \in Colas : ~Esta(e, q) /\ Veces(e, colas[q]) = 0
  BY <1>1, <1>2, Unica DEF EnManos, Enviando
<1>7. /\ UnaCola' /\ Esta(e, "BLOCKED")'
      /\ \A f \in Entrenadores, r \in Colas : f # e => (Esta(f, r)' <=> Esta(f, r))
  <2>1. colas["BLOCKED"] \in Seq(Entrenadores) /\ "BLOCKED" \in Colas
    BY <1>1, ColaTipo DEF Colas
  <2>2. /\ \A r \in Colas : r # "BLOCKED" => colas'[r] = colas[r]
        /\ colas'["BLOCKED"] = Append(colas["BLOCKED"], e)
    BY <1>1, <1>2, <2>1 DEF TypeOK
  <2>3. \A x : Veces(x, colas'["BLOCKED"]) = Veces(x, colas["BLOCKED"]) + (IF x = e THEN 1 ELSE 0)
    BY <2>1, <2>2, VecesAppend
  <2>4. \A f \in Entrenadores : Veces(f, colas["BLOCKED"]) \in Nat
    BY <1>1, <2>1, ColaTipo
  <2>5. Veces(e, colas'["BLOCKED"]) = Veces(e, colas["BLOCKED"]) + 1
    BY <2>3, <2>4
  <2>6. \A f \in Entrenadores : f # e => Veces(f, colas'["BLOCKED"]) = Veces(f, colas["BLOCKED"])
    BY <2>3, <2>4
  <2>7. EnManos(e) /\ ~EnManos(e)' /\ \A f \in Entrenadores : f # e => (EnManos(f)' <=> EnManos(f)) /\ (Enviando(f)' <=> Enviando(f))
    BY <1>2, <1>5 DEF EnManos, Enviando
  <2>8. Esta(e, "BLOCKED")'
    BY <1>6, <2>1, <2>5 DEF Esta
  <2> QED
    BY <1>1, <2>1, <2>2, <2>5, <2>6, <2>7, <2>8, UnaColaDe
<1>8. /\ \A f \in Entrenadores : f # e => ent'[f] = ent[f]
      /\ \A f \in Entrenadores : /\ ent'[f].cupo = ent[f].cupo /\ ent'[f].captura = ent[f].captura
                                 /\ ent'[f].destino = ent[f].destino
      /\ ent'[e].catch # Nadie
  <2>1. ent \in [Entrenadores -> TEntrenador] /\ \A f \in Entrenadores : ent[f] \in TEntrenador
    BY <1>1 DEF TypeOK
  <2> QED
    BY <1>2, <1>3, <2>1 DEF TEntrenador
<1>9. "NEW" \in Colas /\ "BLOCKED" \in Colas
  BY DEF Colas
<1>10. ASSUME NEW f \in Entrenadores PROVE CapturaDe(f)'
  <2>1. CapturaDe(f) /\ (Elegida(f)' <=> Elegida(f))
    BY <1>1, <1>3 DEF UnaCaptura, Elegida
  <2>2. CASE f # e
    <3>1. Enviando(f)' <=> Enviando(f)
      BY <1>5, <2>2 DEF Enviando
    <3> QED
      BY <1>7, <1>8, <1>9, <2>1, <2>2, <3>1, CapturaIgual
  <2>3. CASE f = e
    <3>1. ent'[f].cupo > 0 /\ ent'[f].cupo >= 0 /\ ~Elegida(f)'
      BY <1>4, <1>6, <1>8, <1>9, <2>1, <2>3 DEF CapturaDe
    <3> QED
      BY <1>7, <2>3, <3>1 DEF CapturaDe
  <2> QED
    BY <2>2, <2>3
<1>11. /\ DOMAIN catchs' = DOMAIN catchs /\ \A d \in DOMAIN catchs : catchs'[d].de = catchs[d].de
       /\ \A d \in DOMAIN catchs : Abierta(d)' => Abierta(d)
  <2> DEFINE k == SuCatch(e)
  <2>1. catchs' = (IF catchs[k].propio THEN [catchs EXCEPT ![k].paso = "acreditar"] ELSE catchs)
    BY DEF Bloquear
  <2>2. k \in DOMAIN catchs /\ (catchs[k].propio => catchs[k].paso = "fallido")
    BY <1>1, <1>2, SuCatchUltimo DEF PorBloquear
  <2>3. "acreditar" \in PasosCatch
    BY DEF PasosCatch
  <2> HIDE DEF k
  <2>4. CASE ~catchs[k].propio
    BY <2>1, <2>4 DEF Abierta
  <2>5. CASE catchs[k].propio
    <3>1. catchs' = [catchs EXCEPT ![k].paso = "acreditar"]
      BY <2>1, <2>5
    <3>2. /\ DOMAIN catchs' = DOMAIN catchs /\ \A d \in DOMAIN catchs : catchs'[d].de = catchs[d].de
          /\ \A d \in DOMAIN catchs : d # k => catchs'[d] = catchs[d]
      BY <1>1, <2>2, <2>3, <3>1, PasoCatchTipo
    <3>3. Abierta(k)
      BY <2>2, <2>5 DEF Abierta
    <3> QED
      BY <3>2, <3>3 DEF Abierta
  <2> QED
    BY <2>4, <2>5
<1>12. \A c \in DOMAIN catchs' : CatchDe(c)'
  <2>1. ASSUME NEW c \in DOMAIN catchs, Abierta(c)'
        PROVE  /\ Abierta(c) /\ (Enviando(catchs[c].de)' => Enviando(catchs[c].de))
               /\ Enviando(catchs[c].de)' \/ ent'[catchs[c].de].catch # Nadie
    <3> DEFINE f == catchs[c].de
    <3>1. f \in Entrenadores /\ catchs'[c].de = f /\ Abierta(c) /\ CatchDe(c)
      BY <1>1, <1>11, <2>1, CatchTipo DEF UnaCaptura
    <3>2. CASE f = e
      BY <1>2, <1>8, <3>1, <3>2
    <3>3. CASE f # e
      <4>1. hilos'[f] = hilos[f] /\ ent'[f] = ent[f]
        BY <1>5, <1>8, <3>1, <3>3
      <4>2. Enviando(f) \/ ent[f].catch # Nadie
        BY <3>1 DEF CatchDe
      <4> QED
        BY <3>1, <4>1, <4>2 DEF Enviando
    <3> QED
      BY <3>2, <3>3
  <2>2. \A c \in DOMAIN catchs : CatchDe(c)
    BY <1>1 DEF UnaCaptura
  <2> QED
    BY <1>11, <2>1, <2>2, CatchSigue
<1>13. CuposDelTeam'
  BY <1>1, <1>3, <1>8, CuposIguales
<1>14. Intercambios'
  <2>1. \A f \in Entrenadores : (Va(f)' => Va(f)) /\ (Vuelve(f)' => Vuelve(f))
    BY <1>5, <1>8 DEF Va, Vuelve
  <2> QED
    BY <1>1, <1>4, <2>1, SinIntercambios
<1> QED
  BY <1>7, <1>10, <1>12, <1>13, <1>14 DEF Ordenado, UnaCaptura

LEMMA AcreditarOrdenado ==
  ASSUME General, Ordenado, NEW c \in DOMAIN catchs, Acreditar(c)
  PROVE  Ordenado'
<1> DEFINE e == catchs[c].de
           s == ent[e].catch.especie
           y == Obtener(ent[e], s)
<1>1. TypeOK /\ Cuentas /\ UnaCola /\ UnaCaptura /\ CuposDelTeam /\ Intercambios
  BY DEF General, Ordenado
<1>2. /\ e \in Entrenadores /\ ent[e].catch # Nadie /\ s \in Especies
      /\ catchs' = [catchs EXCEPT ![c].paso = "soltar"]
      /\ ent' = [ent EXCEPT ![e] = [y EXCEPT !.catch = Nadie, !.captura = Nadie, !.ocupado = FALSE, !.cupo = y.cupo - 1]]
  BY <1>1, AcreditarTipos, CatchTipo
<1>3. /\ UNCHANGED <<hilos, colas, seleccion, finCapturas>> /\ catchs[c].paso = "acreditar"
      /\ Suma(globales') = Suma(globales) - 1
  BY <1>1, AcreditarCuentas DEF Acreditar, fin
<1>4. ent[e] \in TEntrenador /\ y \in TEntrenador /\ y.cupo = ent[e].cupo /\ y.destino = ent[e].destino
  BY <1>1, <1>2, EntTipo, ObtenerTipo
<1>5. ~finCapturas /\ ent[e].cupo > 0
  BY <1>2, CapturandoAntes DEF EnCaptura
<1> HIDE DEF y, s
<1>6. /\ ent'[e].cupo = ent[e].cupo - 1 /\ ent'[e].catch = Nadie /\ ent'[e].captura = Nadie
      /\ ent'[e].destino = ent[e].destino
      /\ \A f \in Entrenadores : f # e => ent'[f] = ent[f]
  <2>1. ent \in [Entrenadores -> TEntrenador]
    BY <1>1 DEF TypeOK
  <2> HIDE DEF e
  <2>2. ent'[e] = [y EXCEPT !.catch = Nadie, !.captura = Nadie, !.ocupado = FALSE, !.cupo = y.cupo - 1]
    BY <1>2, <2>1
  <2>3. \A f \in Entrenadores : f # e => ent'[f] = ent[f]
    BY <1>2, <2>1
  <2> QED
    BY <1>4, <2>2, <2>3 DEF TEntrenador
<1>7. /\ DOMAIN catchs' = DOMAIN catchs /\ \A d \in DOMAIN catchs : catchs'[d].de = catchs[d].de
      /\ \A d \in DOMAIN catchs : d # c => catchs'[d] = catchs[d]
      /\ catchs'[c].paso = "soltar"
  <2>1. "soltar" \in PasosCatch
    BY DEF PasosCatch
  <2> QED
    BY <1>1, <1>2, <2>1, PasoCatchTipo
<1>8. Esta(e, "BLOCKED") /\ ~Elegida(e) /\ ~Enviando(e)
  <2>1. CapturaDe(e)
    BY <1>1, <1>2 DEF UnaCaptura
  <2>2. Esta(e, "BLOCKED") /\ ~Elegida(e)
    BY <1>2, <2>1 DEF CapturaDe
  <2> QED
    BY <1>1, <1>2, <2>2, Unica DEF Colas, EnManos, Enviando
<1>9. Abierta(c) /\ ~Abierta(c)' /\ \A d \in DOMAIN catchs : Abierta(d)' => Abierta(d) /\ catchs[d].de # e
  <2>1. Abierta(c) /\ ~Abierta(c)'
    BY <1>3, <1>7 DEF Abierta
  <2>2. ASSUME NEW d \in DOMAIN catchs, Abierta(d)' PROVE Abierta(d) /\ catchs[d].de # e
    <3>1. d # c
      BY <2>1, <2>2
    <3>2. Abierta(d)
      BY <1>7, <2>2, <3>1 DEF Abierta
    <3>3. CatchDe(c)
      BY <1>1 DEF UnaCaptura
    <3> QED
      BY <2>1, <3>1, <3>2, <3>3 DEF CatchDe
  <2> QED
    BY <2>1, <2>2
<1> HIDE DEF e
<1>10. \A f \in Entrenadores : (EnManos(f)' <=> EnManos(f)) /\ (Enviando(f)' <=> Enviando(f))
  BY <1>3 DEF EnManos, Enviando
<1>11. /\ UnaCola'
       /\ \A f \in Entrenadores : (Esta(f, "NEW")' <=> Esta(f, "NEW")) /\ (Esta(f, "BLOCKED")' <=> Esta(f, "BLOCKED"))
  <2>1. "NEW" \in Colas /\ "BLOCKED" \in Colas
    BY DEF Colas
  <2> QED
    BY <1>1, <1>3, <1>10, <2>1, UnaColaIgual
<1>12. ASSUME NEW f \in Entrenadores PROVE CapturaDe(f)'
  <2>1. CapturaDe(f) /\ (Elegida(f)' <=> Elegida(f))
    BY <1>1, <1>3 DEF UnaCaptura, Elegida
  <2>2. CASE f # e
    BY <1>6, <1>10, <1>11, <2>1, <2>2, CapturaIgual
  <2>3. CASE f = e
    <3>1. ~EnCaptura(f)' /\ ~Elegida(f)'
      BY <1>6, <1>8, <1>10, <2>1, <2>3 DEF EnCaptura
    <3>2. ent'[f].cupo >= 0 /\ ent'[f].catch = Nadie
      BY <1>4, <1>5, <1>6, <2>3 DEF TEntrenador
    <3> QED
      BY <3>1, <3>2 DEF CapturaDe
  <2> QED
    BY <2>2, <2>3
<1>13. \A d \in DOMAIN catchs' : CatchDe(d)'
  <2>1. ASSUME NEW d \in DOMAIN catchs, Abierta(d)'
        PROVE  /\ Abierta(d) /\ (Enviando(catchs[d].de)' => Enviando(catchs[d].de))
               /\ Enviando(catchs[d].de)' \/ ent'[catchs[d].de].catch # Nadie
    <3> DEFINE f == catchs[d].de
    <3>1. f \in Entrenadores /\ f # e /\ catchs'[d].de = f /\ Abierta(d) /\ CatchDe(d)
      BY <1>1, <1>7, <1>9, <2>1, CatchTipo DEF UnaCaptura
    <3>2. Enviando(f) \/ ent[f].catch # Nadie
      BY <3>1 DEF CatchDe
    <3>3. hilos' = hilos /\ ent'[f] = ent[f]
      BY <1>3, <1>6, <3>1
    <3> QED
      BY <3>1, <3>2, <3>3 DEF Enviando
  <2>2. \A d \in DOMAIN catchs : CatchDe(d)
    BY <1>1 DEF UnaCaptura
  <2> QED
    BY <1>7, <2>1, <2>2, CatchSigue
<1>14. CuposDelTeam'
  <2> DEFINE F == [f \in Entrenadores |-> ent[f].cupo]
             G == [f \in Entrenadores |-> ent'[f].cupo]
  <2>1. ASSUME NEW f \in Entrenadores PROVE ent[f].cupo \in Nat /\ ent'[f].cupo \in Nat
    <3>1. ent[f].cupo \in Int /\ ent[f].cupo >= 0
      BY <1>1, EntTipo DEF TEntrenador, UnaCaptura, CapturaDe
    <3>2. CASE f # e
      BY <1>6, <3>1, <3>2
    <3>3. CASE f = e
      BY <1>5, <1>6, <3>1, <3>3
    <3> QED
      BY <3>1, <3>2, <3>3
  <2>2. F \in [Entrenadores -> Nat] /\ G \in [Entrenadores -> Nat]
    BY <2>1
  <2>3. G[e] = F[e] - 1 /\ \A f \in Entrenadores \ {e} : G[f] = F[f]
    BY <1>2, <1>6
  <2>4. Suma(F) = Suma(globales) /\ (CuposDelTeam' <=> Suma(G) = Suma(globales'))
    BY <1>1 DEF CuposDelTeam
  <2> HIDE DEF F, G
  <2>5. Suma(G) = Suma(F) - F[e] + G[e] /\ Suma(F) \in Nat
    BY <1>2, <2>2, <2>3, Finitos, SumaCambio, SumaTipo
  <2>6. F[e] \in Nat
    BY <1>2, <2>2
  <2>7. Suma(G) = Suma(F) - 1
    BY <2>3, <2>5, <2>6
  <2> QED
    BY <1>3, <2>4, <2>7
<1>15. Intercambios'
  <2>1. \A f \in Entrenadores : ent'[f].destino = ent[f].destino
    BY <1>6
  <2>2. \A f \in Entrenadores : (Va(f)' => Va(f)) /\ (Vuelve(f)' => Vuelve(f))
    BY <1>3, <2>1 DEF Va, Vuelve
  <2> QED
    BY <1>1, <1>5, <2>2, SinIntercambios
<1> QED
  BY <1>11, <1>12, <1>13, <1>14, <1>15 DEF Ordenado, UnaCaptura

LEMMA SoltarOrdenado ==
  ASSUME General, Ordenado, NEW c \in DOMAIN catchs, Soltar(c)
  PROVE  Ordenado'
<1> DEFINE e == catchs[c].de
           listo == Ninguno(ent[e].falta)
<1>1. TypeOK /\ Cuentas /\ UnaCola /\ UnaCaptura /\ CuposDelTeam /\ Intercambios
  BY DEF General, Ordenado
<1>2. /\ e \in Entrenadores /\ (listo => Contains(colas["BLOCKED"], e))
      /\ catchs' = [catchs EXCEPT ![c].paso = "fin"]
      /\ colas' = IF listo THEN Mover1(e, "BLOCKED", "FINISHED") ELSE colas
  BY <1>1, SoltarTipos, CatchTipo
<1>3. UNCHANGED <<ent, hilos, globales, seleccion, finCapturas>> /\ catchs[c].paso = "soltar"
  BY DEF Soltar, Soltando, fin
<1>4. ~finCapturas
  BY <1>1, <1>3, TrasCapturas
<1>5. listo => ~EnCaptura(e)
  <2> SUFFICES ASSUME listo PROVE ~EnCaptura(e)
    OBVIOUS
  <2>1. ent[e].falta \in [Especies -> Nat] /\ ent[e].sobra \in Seq(Especies) /\ ent[e].cupo \in Int
    BY <1>1, <1>2, EntTipo DEF TEntrenador
  <2>2. \A s \in Especies : ent[e].falta[s] = 0
    BY DEF Ninguno
  <2>3. Suma(ent[e].falta) = 0
    BY <2>1, <2>2, SumaNula, Finitos
  <2>4. Len(ent[e].sobra) \in Nat
    BY <2>1, LenProperties
  <2>5. ent[e].cupo + Len(ent[e].sobra) = 0
    BY <1>1, <1>2, <2>3 DEF Cuentas, CuposCuadran
  <2>6. CapturaDe(e)
    BY <1>1, <1>2 DEF UnaCaptura
  <2> QED
    BY <2>1, <2>4, <2>5, <2>6 DEF CapturaDe
<1>6. /\ DOMAIN catchs' = DOMAIN catchs /\ \A d \in DOMAIN catchs : catchs'[d].de = catchs[d].de
      /\ \A d \in DOMAIN catchs : Abierta(d)' => Abierta(d)
  <2>1. "fin" \in PasosCatch
    BY DEF PasosCatch
  <2>2. /\ DOMAIN catchs' = DOMAIN catchs /\ \A d \in DOMAIN catchs : catchs'[d].de = catchs[d].de
        /\ \A d \in DOMAIN catchs : d # c => catchs'[d] = catchs[d]
        /\ catchs'[c].paso = "fin"
    BY <1>1, <1>2, <2>1, PasoCatchTipo
  <2> QED
    BY <2>2 DEF Abierta
<1>7. \A f \in Entrenadores : (EnManos(f)' <=> EnManos(f)) /\ (Enviando(f)' <=> Enviando(f))
  BY <1>3 DEF EnManos, Enviando
<1> HIDE DEF e, listo
<1>8. /\ UnaCola'
      /\ \A f \in Entrenadores, q \in Colas : f # e \/ ~listo => (Esta(f, q)' <=> Esta(f, q))
  <2>1. CASE listo
    <3>1. "BLOCKED" \in Colas /\ "FINISHED" \in Colas /\ "BLOCKED" # "FINISHED"
      BY DEF Colas
    <3> QED
      BY <1>1, <1>2, <1>7, <2>1, <3>1, MoverUnaCola
  <2>2. CASE ~listo
    BY <1>1, <1>2, <1>7, <2>2, UnaColaIgual
  <2> QED
    BY <2>1, <2>2
<1>9. ASSUME NEW f \in Entrenadores PROVE CapturaDe(f)'
  <2>1. CapturaDe(f) /\ (Elegida(f)' <=> Elegida(f)) /\ (EnCaptura(f)' <=> EnCaptura(f))
    BY <1>1, <1>3, <1>7 DEF UnaCaptura, Elegida, EnCaptura
  <2>2. CASE f # e \/ ~listo
    <3>1. "NEW" \in Colas /\ "BLOCKED" \in Colas
      BY DEF Colas
    <3> QED
      BY <1>3, <1>7, <1>8, <2>1, <2>2, <3>1, CapturaIgual
  <2>3. CASE f = e /\ listo
    <3>1. ~EnCaptura(f)'
      BY <1>5, <2>1, <2>3
    <3> QED
      BY <1>3, <2>1, <3>1 DEF CapturaDe, EnCaptura
  <2> QED
    BY <2>2, <2>3
<1>10. \A d \in DOMAIN catchs' : CatchDe(d)'
  <2>1. ASSUME NEW d \in DOMAIN catchs, Abierta(d)'
        PROVE  /\ Abierta(d) /\ (Enviando(catchs[d].de)' => Enviando(catchs[d].de))
               /\ Enviando(catchs[d].de)' \/ ent'[catchs[d].de].catch # Nadie
    <3>1. Abierta(d) /\ CatchDe(d) /\ catchs'[d].de = catchs[d].de
      BY <1>1, <1>6, <2>1 DEF UnaCaptura
    <3> QED
      BY <1>3, <3>1 DEF CatchDe, Enviando
  <2>2. \A d \in DOMAIN catchs : CatchDe(d)
    BY <1>1 DEF UnaCaptura
  <2> QED
    BY <1>6, <2>1, <2>2, CatchSigue
<1>11. CuposDelTeam'
  BY <1>1, <1>3, CuposIguales
<1>12. Intercambios'
  <2>1. \A f \in Entrenadores : (Va(f)' => Va(f)) /\ (Vuelve(f)' => Vuelve(f))
    BY <1>3 DEF Va, Vuelve
  <2> QED
    BY <1>1, <1>4, <2>1, SinIntercambios
<1> QED
  BY <1>8, <1>9, <1>10, <1>11, <1>12 DEF Ordenado, UnaCaptura

LEMMA AuxiliarOrdenado ==
  ASSUME General, Ordenado, NEW c \in DOMAIN catchs, Auxiliar(c)
  PROVE  Ordenado'
<1> DEFINE e == catchs[c].de
<1>1. TypeOK /\ Semaforos /\ UnaCola /\ UnaCaptura /\ CuposDelTeam /\ Intercambios
  BY DEF General, Ordenado
<1>2. /\ e \in Entrenadores /\ ent[e].catch # Nadie /\ catchs' = [catchs EXCEPT ![c].paso = "fin"]
      /\ ent' = [ent EXCEPT ![e].catch = Nadie, ![e].ocupado = FALSE]
  BY <1>1, AuxiliarTipos, CatchTipo
<1>3. UNCHANGED <<hilos, colas, globales, seleccion, finCapturas>> /\ catchs[c].paso = "auxiliar"
  BY DEF Auxiliar, fin
<1>4. ~finCapturas /\ ent[e].cupo > 0
  BY <1>2, CapturandoAntes DEF EnCaptura
<1> HIDE DEF e
<1>5. /\ \A f \in Entrenadores : /\ ent'[f].cupo = ent[f].cupo /\ ent'[f].captura = ent[f].captura
                                 /\ ent'[f].destino = ent[f].destino
      /\ \A f \in Entrenadores : f # e => ent'[f] = ent[f]
      /\ ent'[e].catch = Nadie
  <2>1. ent \in [Entrenadores -> TEntrenador] /\ \A f \in Entrenadores : ent[f] \in TEntrenador
    BY <1>1 DEF TypeOK
  <2> QED
    BY <1>2, <2>1 DEF TEntrenador
<1>6. /\ DOMAIN catchs' = DOMAIN catchs /\ \A d \in DOMAIN catchs : catchs'[d].de = catchs[d].de
      /\ \A d \in DOMAIN catchs : d # c => catchs'[d] = catchs[d]
      /\ catchs'[c].paso = "fin"
  <2>1. "fin" \in PasosCatch
    BY DEF PasosCatch
  <2> QED
    BY <1>1, <1>2, <2>1, PasoCatchTipo
<1>7. \A d \in DOMAIN catchs : Abierta(d)' => Abierta(d) /\ catchs[d].de # e
  <2>1. Abierta(c) /\ ~Abierta(c)'
    BY <1>3, <1>6 DEF Abierta
  <2> SUFFICES ASSUME NEW d \in DOMAIN catchs, Abierta(d)' PROVE Abierta(d) /\ catchs[d].de # e
    OBVIOUS
  <2>2. d # c
    BY <2>1
  <2>3. Abierta(d)
    BY <1>6, <2>2 DEF Abierta
  <2>4. CatchDe(c)
    BY <1>1 DEF UnaCaptura
  <2> QED
    BY <2>1, <2>2, <2>3, <2>4 DEF CatchDe, e
<1>8. \A f \in Entrenadores : (EnManos(f)' <=> EnManos(f)) /\ (Enviando(f)' <=> Enviando(f))
  BY <1>3 DEF EnManos, Enviando
<1>9. /\ UnaCola'
      /\ \A f \in Entrenadores : (Esta(f, "NEW")' <=> Esta(f, "NEW")) /\ (Esta(f, "BLOCKED")' <=> Esta(f, "BLOCKED"))
  <2>1. "NEW" \in Colas /\ "BLOCKED" \in Colas
    BY DEF Colas
  <2> QED
    BY <1>1, <1>3, <1>8, <2>1, UnaColaIgual
<1>10. ASSUME NEW f \in Entrenadores PROVE CapturaDe(f)'
  <2>1. CapturaDe(f) /\ (Elegida(f)' <=> Elegida(f))
    BY <1>1, <1>3 DEF UnaCaptura, Elegida
  <2>2. CASE f # e
    BY <1>5, <1>8, <1>9, <2>1, <2>2, CapturaIgual
  <2>3. CASE f = e
    <3>1. ~Elegida(f)'
      BY <1>2, <2>1, <2>3 DEF CapturaDe
    <3> QED
      BY <1>4, <1>5, <2>1, <2>3, <3>1 DEF CapturaDe
  <2> QED
    BY <2>2, <2>3
<1>11. \A d \in DOMAIN catchs' : CatchDe(d)'
  <2>1. ASSUME NEW d \in DOMAIN catchs, Abierta(d)'
        PROVE  /\ Abierta(d) /\ (Enviando(catchs[d].de)' => Enviando(catchs[d].de))
               /\ Enviando(catchs[d].de)' \/ ent'[catchs[d].de].catch # Nadie
    <3> DEFINE f == catchs[d].de
    <3>1. f \in Entrenadores /\ f # e /\ catchs'[d].de = f /\ Abierta(d) /\ CatchDe(d)
      BY <1>1, <1>6, <1>7, <2>1, CatchTipo DEF UnaCaptura
    <3>2. Enviando(f) \/ ent[f].catch # Nadie
      BY <3>1 DEF CatchDe
    <3>3. hilos' = hilos /\ ent'[f] = ent[f]
      BY <1>3, <1>5, <3>1
    <3> QED
      BY <3>1, <3>2, <3>3 DEF Enviando
  <2>2. \A d \in DOMAIN catchs : CatchDe(d)
    BY <1>1 DEF UnaCaptura
  <2> QED
    BY <1>6, <2>1, <2>2, CatchSigue
<1>12. CuposDelTeam'
  BY <1>1, <1>3, <1>5, CuposIguales
<1>13. Intercambios'
  <2>1. \A f \in Entrenadores : (Va(f)' => Va(f)) /\ (Vuelve(f)' => Vuelve(f))
    BY <1>3, <1>5 DEF Va, Vuelve
  <2> QED
    BY <1>1, <1>4, <2>1, SinIntercambios
<1> QED
  BY <1>9, <1>10, <1>11, <1>12, <1>13 DEF Ordenado, UnaCaptura

(* After the captures nothing more is captured. *)
LEMMA TrasCapturasSigue ==
  ASSUME General, Ordenado, finCapturas, UNCHANGED <<seleccion, catchs, globales>>,
         \A e \in Entrenadores : /\ ent'[e].cupo = ent[e].cupo /\ ent'[e].captura \in {Nadie, ent[e].captura}
                                 /\ ent'[e].catch = ent[e].catch
                                 /\ Enviando(e)' => Enviando(e)
  PROVE  UnaCaptura' /\ CuposDelTeam'
<1>1. /\ \A e \in Entrenadores : ent[e].cupo = 0 /\ ~EnCaptura(e)
      /\ \A c \in DOMAIN catchs : ~Abierta(c)
  BY TrasCapturas DEF Ordenado
<1>2. ASSUME NEW e \in Entrenadores PROVE CapturaDe(e)'
  <2>1. ~EnCaptura(e)'
    BY <1>1 DEF EnCaptura, Elegida
  <2>2. ent'[e].cupo >= 0
    BY <1>1
  <2> QED
    BY <2>1, <2>2 DEF CapturaDe, EnCaptura
<1>3. \A c \in DOMAIN catchs' : CatchDe(c)'
  BY <1>1 DEF CatchDe, Abierta
<1>4. CuposDelTeam'
  BY CuposIguales DEF Ordenado
<1> QED
  BY <1>2, <1>3, <1>4 DEF UnaCaptura

LEMMA DetectarOrdenado ==
  ASSUME General, Ordenado, DetectarDeadlock
  PROVE  Ordenado'
<1>1. TypeOK /\ SobraDeMas /\ Semaforos /\ UnaCola /\ Intercambios
  BY DEF General, Cuentas, Ordenado
<1>2. UNCHANGED <<hilos, globales, seleccion, catchs, finCapturas>> /\ finCapturas
  BY DEF DetectarDeadlock, fin
<1>3. \A f \in Entrenadores : (EnManos(f)' <=> EnManos(f)) /\ (Enviando(f)' <=> Enviando(f))
  BY <1>2 DEF EnManos, Enviando
<1>4. CASE ent' = ent /\ colas' = colas
  <2>1. UnaCola' /\ \A f \in Entrenadores, q \in Colas : Esta(f, q)' <=> Esta(f, q)
    BY <1>1, <1>3, <1>4, UnaColaIgual
  <2>2. UnaCaptura' /\ CuposDelTeam'
    BY <1>2, <1>3, <1>4, TrasCapturasSigue
  <2>3. Intercambios'
    <3>1. "BLOCKED" \in Colas
      BY DEF Colas
    <3> QED
      BY <1>1, <1>2, <1>4, <2>1, <3>1, IntercambiosIguales
  <2> QED
    BY <2>1, <2>2, <2>3 DEF Ordenado
<1>5. CASE ~(ent' = ent /\ colas' = colas)
  <2>1. PICK e, o \in Entrenadores, d \in Especies \cup {Nadie, Colgado}, k \in Especies :
          /\ e # o /\ Contains(colas["BLOCKED"], e) /\ Contains(colas["BLOCKED"], o)
          /\ ~ent[e].ocupado /\ ~ent[o].ocupado
          /\ colas' = Mover1(e, "BLOCKED", "READY")
          /\ ent' = [ent EXCEPT
               ![e] = [ent[e] EXCEPT !.ocupado = TRUE, !.destino = [socio |-> o, pos |-> ent[o].pos],
                                     !.aCambiar = k],
               ![o] = [ent[o] EXCEPT !.ocupado = TRUE, !.aCambiar = d]]
    BY <1>1, <1>5, DetectarTipos, Zenon
  <2> DEFINE x == [ent[e] EXCEPT !.ocupado = TRUE, !.destino = [socio |-> o, pos |-> ent[o].pos], !.aCambiar = k]
             z == [ent[o] EXCEPT !.ocupado = TRUE, !.aCambiar = d]
  <2>2. ent'[e] = x /\ ent'[o] = z /\ \A f \in Entrenadores : f \notin {e, o} => ent'[f] = ent[f]
    BY <1>1, <2>1 DEF TypeOK
  <2>3. /\ x.cupo = ent[e].cupo /\ x.captura = ent[e].captura /\ x.catch = ent[e].catch
        /\ x.ocupado = TRUE /\ x.destino = [socio |-> o, pos |-> ent[o].pos]
        /\ z.cupo = ent[o].cupo /\ z.captura = ent[o].captura /\ z.catch = ent[o].catch
        /\ z.ocupado = TRUE /\ z.destino = ent[o].destino
    <3>1. ent[e] \in TEntrenador /\ ent[o] \in TEntrenador
      BY <1>1, EntTipo
    <3> QED
      BY <3>1 DEF TEntrenador
  <2> HIDE DEF x, z
  <2>4. \A f \in Entrenadores : ent'[f].cupo = ent[f].cupo /\ ent'[f].captura = ent[f].captura /\ ent'[f].catch = ent[f].catch
    BY <2>2, <2>3
  <2>5. /\ ent'[e].ocupado /\ ent'[e].destino.socio = o /\ ent'[e].destino \notin {Nadie, Colgado}
        /\ ent'[o].ocupado /\ ent'[o].destino = ent[o].destino
    <3>1. ent[o].pos \in Nat
      BY <1>1, EntTipo DEF TEntrenador
    <3>2. [socio |-> o, pos |-> ent[o].pos] \notin {Nadie, Colgado}
      BY <3>1, NadieAssumption
    <3> QED
      BY <2>2, <2>3, <3>2
  <2>6. UnaCaptura' /\ CuposDelTeam'
    BY <1>2, <1>3, <2>4, TrasCapturasSigue
  <2>7. "BLOCKED" \in Colas /\ "READY" \in Colas /\ "EXECUTE" \in Colas /\ "BLOCKED" # "READY"
    BY DEF Colas
  <2>8. /\ UnaCola' /\ ~Esta(e, "BLOCKED")'
        /\ \A f \in Entrenadores : f # e => (Esta(f, "BLOCKED")' <=> Esta(f, "BLOCKED"))
    BY <1>1, <1>3, <2>1, <2>7, MoverUnaCola
  <2>9. Esta(e, "BLOCKED") /\ Esta(o, "BLOCKED")
    BY <1>1, <2>1, <2>7, Unica
  <2>10. /\ ~Va(e) /\ ~Va(o)
         /\ \A f \in Entrenadores : ~Espera(f, e) /\ ~Espera(f, o)
    BY <1>1, <2>1 DEF Intercambios, IntercambioDe
  <2>11. hilos[e].paso \notin {"transicion", "asentar"}
    <3>5. ~EnManos(e)
      BY <1>1, <2>7, <2>9, Unica
    <3>6. hilos[e].paso # "asentar"
      BY <3>5 DEF EnManos
    <3> SUFFICES ASSUME hilos[e].paso = "transicion" PROVE FALSE
      BY <3>6
    <3>1. hilos[e].turno \in Nat
      BY <1>1, HiloTipo
    <3>2. EnCPU(e) > 0
      BY <3>1 DEF EnCPU
    <3>3. Contains(colas["EXECUTE"], e)
      BY <1>1, <3>2, EstaEnEjecucion
    <3>4. Esta(e, "EXECUTE")
      BY <1>1, <2>7, <3>3, Unica
    <3> QED
      BY <1>1, <2>7, <2>9, <3>4, Unica
  <2>12. \A f \in Entrenadores : Vuelve(f)' <=> Vuelve(f)
    BY <1>2 DEF Vuelve
  <2>13. Va(e)' /\ ~Va(o)' /\ \A f \in Entrenadores : f # e => (Va(f)' <=> Va(f)) /\ ent'[f].destino = ent[f].destino
    BY <2>2, <2>5, <2>10 DEF Va
  <2>14. \A f, g \in Entrenadores : Espera(f, g)' <=> Espera(f, g) \/ (f = e /\ g = o)
    BY <1>2, <2>5, <2>10, <2>12, <2>13 DEF Espera
  <2>15. ASSUME NEW f \in Entrenadores PROVE IntercambioDe(f)'
    <3>1. IntercambioDe(f)
      BY <1>1 DEF Intercambios
    <3>2. Va(f)' => ent'[f].ocupado /\ ~Esta(f, "BLOCKED")' /\ hilos'[f].paso \notin {"transicion", "asentar"}
      <4>1. CASE f = e
        BY <1>2, <2>5, <2>8, <2>11, <4>1
      <4>2. CASE f = o
        BY <2>13, <4>2
      <4>3. CASE f \notin {e, o}
        BY <1>2, <2>2, <2>8, <2>13, <3>1, <4>3 DEF IntercambioDe
      <4> QED
        BY <4>1, <4>2, <4>3
    <3>3. ASSUME NEW p \in Entrenadores, Espera(f, p)'
          PROVE  /\ Esta(p, "BLOCKED")' /\ ent'[p].ocupado /\ ~Va(p)'
                 /\ \A g \in Entrenadores : Espera(g, p)' => g = f
                 /\ ~(Va(f) /\ ent[f].destino.socio = p /\ Vuelve(f) /\ hilos[f].socio = p)'
      <4>1. CASE p = o
        <5>1. f = e /\ \A g \in Entrenadores : Espera(g, p)' => g = f
          BY <2>10, <2>14, <3>3, <4>1
        <5>2. Esta(p, "BLOCKED")' /\ ent'[p].ocupado /\ ~Va(p)'
          BY <2>1, <2>5, <2>8, <2>9, <2>13, <4>1
        <5>3. ~(Vuelve(f) /\ hilos[f].socio = p)'
          BY <1>2, <2>10, <2>12, <4>1 DEF Espera
        <5> QED
          BY <5>1, <5>2, <5>3
      <4>2. CASE p # o
        <5>1. Espera(f, p) /\ p # e /\ \A g \in Entrenadores : Espera(g, p)' <=> Espera(g, p)
          BY <2>10, <2>14, <3>3, <4>2
        <5>2. /\ Esta(p, "BLOCKED") /\ ent[p].ocupado /\ ~Va(p) /\ \A g \in Entrenadores : Espera(g, p) => g = f
              /\ ~(Va(f) /\ ent[f].destino.socio = p /\ Vuelve(f) /\ hilos[f].socio = p)
          BY <3>1, <5>1 DEF IntercambioDe
        <5>3. Esta(p, "BLOCKED")' /\ ent'[p].ocupado /\ ~Va(p)'
          BY <2>2, <2>8, <2>13, <4>2, <5>1, <5>2
        <5>4. ~(Va(f) /\ ent[f].destino.socio = p /\ Vuelve(f) /\ hilos[f].socio = p)'
          <6>1. CASE f = e
            BY <2>5, <4>2, <6>1
          <6>2. CASE f # e
            BY <1>2, <2>12, <2>13, <5>2, <6>2
          <6> QED
            BY <6>1, <6>2
        <5> QED
          BY <5>1, <5>2, <5>3, <5>4
      <4> QED
        BY <4>1, <4>2
    <3> QED
      BY <1>2, <3>2, <3>3 DEF IntercambioDe
  <2> QED
    BY <2>6, <2>8, <2>15 DEF Ordenado, Intercambios
<1> QED
  BY <1>4, <1>5

LEMMA IntercambiarOrdenado ==
  ASSUME General, Ordenado, NEW e \in Entrenadores, Intercambiar(e)
  PROVE  Ordenado'
<1> DEFINE o == ent[e].destino.socio
           a == ent[e].aCambiar
           b == ParaElSocio(e)
           y == [ent[o] EXCEPT !.sobra = RemoveFirst(ent[o].sobra, a)]
           z == Obtener(y, b)
           x == [ent[e] EXCEPT !.falta = [ent[e].falta EXCEPT ![a] = ent[e].falta[a] - 1],
                               !.sobra = RemoveFirst(ent[e].sobra, b),
                               !.destino = Colgado, !.aCambiar = Colgado]
<1>1. TypeOK /\ SobraDeMas /\ UnaCola /\ Intercambios
  BY DEF General, Cuentas, Ordenado
<1>2. /\ Va(e) /\ o \in Entrenadores /\ e # o /\ hilos[e].paso = "decidir" /\ b \in Especies
      /\ y \in TEntrenador /\ z \in TEntrenador
      /\ ent' = [ent EXCEPT ![e] = x, ![o] = [z EXCEPT !.captura = Nadie, !.aCambiar = Nadie]]
      /\ hilos' = [hilos EXCEPT ![e].paso = "transicion", ![e].socio = o]
  BY <1>1, IntercambiarTipos
<1>3. UNCHANGED <<colas, globales, seleccion, catchs, finCapturas>>
  BY DEF Intercambiar, fin
<1>4. /\ z.cupo = ent[o].cupo /\ z.ocupado = ent[o].ocupado /\ z.catch = ent[o].catch /\ z.destino = ent[o].destino
  <2>1. /\ y.cupo = ent[o].cupo /\ y.ocupado = ent[o].ocupado /\ y.catch = ent[o].catch /\ y.destino = ent[o].destino
    <3>1. ent[o] \in TEntrenador
      BY <1>1, <1>2, EntTipo
    <3> QED
      BY <3>1 DEF TEntrenador
  <2> HIDE DEF y
  <2> QED
    BY <1>2, <2>1, ObtenerTipo
<1>5. /\ x.cupo = ent[e].cupo /\ x.ocupado = ent[e].ocupado /\ x.catch = ent[e].catch /\ x.captura = ent[e].captura
      /\ x.destino = Colgado
  <2>1. ent[e] \in TEntrenador
    BY <1>1, EntTipo
  <2> QED
    BY <2>1 DEF TEntrenador
<1> DEFINE w == [z EXCEPT !.captura = Nadie, !.aCambiar = Nadie]
<1>6. /\ w.cupo = z.cupo /\ w.ocupado = z.ocupado /\ w.catch = z.catch /\ w.destino = z.destino /\ w.captura = Nadie
  <2> HIDE DEF z
  <2> QED
    BY <1>2 DEF TEntrenador
<1> HIDE DEF x, y, z, w, a, b, o
<1>7. ent'[e] = x /\ ent'[o] = w /\ \A f \in Entrenadores : f \notin {e, o} => ent'[f] = ent[f]
  <2>1. ent \in [Entrenadores -> TEntrenador] /\ ent' = [ent EXCEPT ![e] = x, ![o] = w]
    BY <1>1, <1>2 DEF TypeOK, w
  <2> QED
    BY <1>2, <2>1
<1>8. \A f \in Entrenadores : /\ ent'[f].cupo = ent[f].cupo /\ ent'[f].captura \in {Nadie, ent[f].captura}
                              /\ ent'[f].catch = ent[f].catch /\ ent'[f].ocupado = ent[f].ocupado
                              /\ f # e => ent'[f].destino = ent[f].destino
  BY <1>4, <1>5, <1>6, <1>7
<1>9. /\ hilos'[e].paso = "transicion" /\ hilos'[e].socio = o
      /\ \A f \in Entrenadores : f # e => hilos'[f] = hilos[f]
  BY <1>1, <1>2, HiloTipo DEF TypeOK, THilo
<1>10. \A f \in Entrenadores : (EnManos(f)' <=> EnManos(f)) /\ (Enviando(f)' <=> Enviando(f))
  BY <1>2, <1>9 DEF EnManos, Enviando
<1>11. finCapturas
  BY <1>1, <1>2 DEF Intercambios, IntercambioDe
<1>12. UnaCaptura' /\ CuposDelTeam'
  BY <1>3, <1>8, <1>10, <1>11, TrasCapturasSigue
<1>13. UnaCola' /\ \A f \in Entrenadores : Esta(f, "BLOCKED")' <=> Esta(f, "BLOCKED")
  <2>1. "BLOCKED" \in Colas
    BY DEF Colas
  <2> QED
    BY <1>1, <1>3, <1>10, <2>1, UnaColaIgual
<1>14. ~Va(e)' /\ \A f \in Entrenadores : f # e => (Va(f)' <=> Va(f))
  BY <1>5, <1>7, <1>8 DEF Va
<1>15. Vuelve(e)' /\ ~Vuelve(e) /\ \A f \in Entrenadores : f # e => (Vuelve(f)' <=> Vuelve(f))
  BY <1>2, <1>9 DEF Vuelve
<1>16. \A f, g \in Entrenadores : Espera(f, g)' <=> Espera(f, g)
  BY <1>2, <1>8, <1>9, <1>14, <1>15 DEF Espera, o
<1>17. ASSUME NEW f \in Entrenadores PROVE IntercambioDe(f)'
  <2>1. IntercambioDe(f) /\ (Va(f)' => Va(f) /\ f # e)
    BY <1>1, <1>14 DEF Intercambios
  <2>2. Va(f)' => ent'[f].ocupado /\ ~Esta(f, "BLOCKED")' /\ hilos'[f].paso \notin {"transicion", "asentar"}
    BY <1>8, <1>9, <1>13, <2>1 DEF IntercambioDe
  <2>3. ASSUME NEW p \in Entrenadores, Espera(f, p)'
        PROVE  /\ Esta(p, "BLOCKED")' /\ ent'[p].ocupado /\ ~Va(p)'
               /\ \A g \in Entrenadores : Espera(g, p)' => g = f
               /\ ~(Va(f) /\ ent[f].destino.socio = p /\ Vuelve(f) /\ hilos[f].socio = p)'
    <3>1. /\ Esta(p, "BLOCKED") /\ ent[p].ocupado /\ ~Va(p) /\ \A g \in Entrenadores : Espera(g, p) => g = f
          /\ ~(Va(f) /\ ent[f].destino.socio = p /\ Vuelve(f) /\ hilos[f].socio = p)
      BY <1>16, <2>1, <2>3 DEF IntercambioDe
    <3>2. ~(Va(f) /\ ent[f].destino.socio = p /\ Vuelve(f) /\ hilos[f].socio = p)'
      BY <1>8, <1>9, <1>14, <1>15, <2>1, <3>1
    <3>3. ~Va(p)'
      BY <1>14, <3>1
    <3> QED
      BY <1>8, <1>13, <1>16, <3>1, <3>2, <3>3
  <2> QED
    BY <1>3, <1>11, <2>2, <2>3 DEF IntercambioDe
<1> QED
  BY <1>12, <1>13, <1>17 DEF Ordenado, Intercambios

LEMMA MovidoOrdenado ==
  ASSUME General, Ordenado, NEW e \in Entrenadores, TransicionarMovido(e)
  PROVE  Ordenado'
<1>1. TypeOK /\ Semaforos /\ UnaCola /\ Intercambios /\ \A f \in Entrenadores : Hizo(f)
  BY DEF General, Ordenado
<1>2. /\ hilos[e].paso = "transicion" /\ Contains(colas["EXECUTE"], e)
      /\ colas' = [colas EXCEPT !["EXECUTE"] = RemoveFirst(colas["EXECUTE"], e)]
  BY <1>1, MovidoTipos, MovidoSemaforos
<1>3. Ir(e, "asentar") /\ UNCHANGED <<ent, globales, seleccion, catchs, finCapturas>>
  BY DEF TransicionarMovido, fin
<1>4. /\ hilos'[e].paso = "asentar" /\ \A f \in Entrenadores : hilos'[f].socio = hilos[f].socio
      /\ \A f \in Entrenadores : f # e => hilos'[f] = hilos[f]
  <2>1. hilos' = [hilos EXCEPT ![e] = [hilos[e] EXCEPT !.paso = "asentar"]]
    BY <1>1, <1>3, HiloTipo
  <2>2. hilos \in [Entrenadores -> THilo] /\ \A f \in Entrenadores : hilos[f] \in THilo
    BY <1>1 DEF TypeOK, THilo
  <2> QED
    BY <2>1, <2>2 DEF THilo
<1>5. /\ ~EnManos(e) /\ EnManos(e)' /\ \A f \in Entrenadores : f # e => (EnManos(f)' <=> EnManos(f))
      /\ \A f \in Entrenadores : Enviando(f)' <=> Enviando(f)
  BY <1>2, <1>4 DEF EnManos, Enviando
<1>6. /\ UnaCola' /\ \A f \in Entrenadores : Esta(f, "BLOCKED")' <=> Esta(f, "BLOCKED")
  <2>1. colas["EXECUTE"] \in Seq(Entrenadores) /\ "EXECUTE" \in Colas /\ "BLOCKED" \in Colas
    BY <1>1, ColaTipo DEF Colas
  <2>2. /\ \A r \in Colas : r # "EXECUTE" => colas'[r] = colas[r]
        /\ colas'["EXECUTE"] = RemoveFirst(colas["EXECUTE"], e)
    BY <1>1, <1>2, <2>1 DEF TypeOK
  <2>3. \A x : Veces(x, colas'["EXECUTE"]) = Veces(x, colas["EXECUTE"]) - (IF x = e THEN 1 ELSE 0)
    BY <1>2, <2>1, <2>2, VecesRemoveFirst
  <2>4. \A f \in Entrenadores : Veces(f, colas["EXECUTE"]) \in Nat
    BY <1>1, <2>1, ColaTipo
  <2>5. /\ Veces(e, colas'["EXECUTE"]) = Veces(e, colas["EXECUTE"]) - 1
        /\ \A f \in Entrenadores : f # e => Veces(f, colas'["EXECUTE"]) = Veces(f, colas["EXECUTE"])
    BY <2>3, <2>4
  <2>6. UnaCola'
    BY <1>1, <1>5, <2>1, <2>2, <2>5, UnaColaDe
  <2>7. \A f \in Entrenadores : Esta(f, "BLOCKED")' <=> Esta(f, "BLOCKED")
    BY <2>1, <2>2 DEF Esta
  <2> QED
    BY <2>6, <2>7
<1>7. Vuelve(e) /\ Vuelve(e)' /\ \A f \in Entrenadores : Vuelve(f)' <=> Vuelve(f)
  BY <1>2, <1>4 DEF Vuelve
<1>8. finCapturas /\ ~Va(e)
  BY <1>1, <1>2, <1>7 DEF Intercambios, IntercambioDe
<1>9. UnaCaptura' /\ CuposDelTeam'
  BY <1>3, <1>5, <1>8, TrasCapturasSigue
<1>10. \A f \in Entrenadores : Va(f)' <=> Va(f)
  BY <1>3 DEF Va
<1>11. \A f, g \in Entrenadores : Espera(f, g)' <=> Espera(f, g)
  BY <1>3, <1>4, <1>7, <1>10 DEF Espera
<1>12. ASSUME NEW f \in Entrenadores PROVE IntercambioDe(f)'
  <2>1. IntercambioDe(f)
    BY <1>1 DEF Intercambios
  <2>2. Va(f)' => ent'[f].ocupado /\ ~Esta(f, "BLOCKED")' /\ hilos'[f].paso \notin {"transicion", "asentar"}
    BY <1>3, <1>4, <1>6, <1>8, <1>10, <2>1 DEF IntercambioDe
  <2>3. ASSUME NEW p \in Entrenadores, Espera(f, p)'
        PROVE  /\ Esta(p, "BLOCKED")' /\ ent'[p].ocupado /\ ~Va(p)'
               /\ \A g \in Entrenadores : Espera(g, p)' => g = f
               /\ ~(Va(f) /\ ent[f].destino.socio = p /\ Vuelve(f) /\ hilos[f].socio = p)'
    <3>1. /\ Esta(p, "BLOCKED") /\ ent[p].ocupado /\ ~Va(p) /\ \A g \in Entrenadores : Espera(g, p) => g = f
          /\ ~(Va(f) /\ ent[f].destino.socio = p /\ Vuelve(f) /\ hilos[f].socio = p)
      BY <1>11, <2>1, <2>3 DEF IntercambioDe
    <3>2. ~(Va(f) /\ ent[f].destino.socio = p /\ Vuelve(f) /\ hilos[f].socio = p)'
      BY <1>3, <1>4, <1>7, <1>10, <3>1
    <3> QED
      BY <1>3, <1>6, <1>10, <1>11, <3>1, <3>2
  <2> QED
    BY <1>3, <1>8, <2>2, <2>3 DEF IntercambioDe
<1> QED
  BY <1>6, <1>9, <1>12 DEF Ordenado, Intercambios

LEMMA AsentarOrdenado ==
  ASSUME General, Ordenado, NEW e \in Entrenadores, Asentar(e)
  PROVE  Ordenado'
<1> DEFINE cola == IF Ninguno(ent[e].falta) THEN "FINISHED" ELSE "BLOCKED"
<1>1. TypeOK /\ Semaforos /\ UnaCola /\ Intercambios /\ \A f \in Entrenadores : Hizo(f)
  BY DEF General, Ordenado
<1>2. /\ hilos[e].paso = "asentar" /\ ent' = [ent EXCEPT ![e].ocupado = FALSE]
      /\ colas' = [colas EXCEPT ![cola] = Append(colas[cola], e)]
  BY <1>1, AsentarTipos
<1>3. Ir(e, "transicionSocio") /\ UNCHANGED <<globales, seleccion, catchs, finCapturas>>
  BY DEF Asentar, fin
<1>4. /\ hilos'[e].paso = "transicionSocio" /\ \A f \in Entrenadores : hilos'[f].socio = hilos[f].socio
      /\ \A f \in Entrenadores : f # e => hilos'[f] = hilos[f]
  <2>1. hilos' = [hilos EXCEPT ![e] = [hilos[e] EXCEPT !.paso = "transicionSocio"]]
    BY <1>1, <1>3, HiloTipo
  <2>2. hilos \in [Entrenadores -> THilo] /\ \A f \in Entrenadores : hilos[f] \in THilo
    BY <1>1 DEF TypeOK, THilo
  <2> QED
    BY <2>1, <2>2 DEF THilo
<1>5. /\ EnManos(e) /\ ~EnManos(e)' /\ \A f \in Entrenadores : f # e => (EnManos(f)' <=> EnManos(f))
      /\ \A f \in Entrenadores : Enviando(f)' <=> Enviando(f)
  BY <1>2, <1>4 DEF EnManos, Enviando
<1>6. cola \in Colas /\ "BLOCKED" \in Colas
  BY DEF Colas
<1> HIDE DEF cola
<1>7. /\ UnaCola' /\ \A f \in Entrenadores : f # e => (Esta(f, "BLOCKED")' <=> Esta(f, "BLOCKED"))
      /\ ~Esta(e, "BLOCKED")
  <2>1. colas[cola] \in Seq(Entrenadores)
    BY <1>1, <1>6, ColaTipo
  <2>2. (\A r \in Colas : r # cola => colas'[r] = colas[r]) /\ colas'[cola] = Append(colas[cola], e)
    BY <1>1, <1>2, <1>6 DEF TypeOK
  <2>3. \A x : Veces(x, colas'[cola]) = Veces(x, colas[cola]) + (IF x = e THEN 1 ELSE 0)
    BY <2>1, <2>2, VecesAppend
  <2>4. \A f \in Entrenadores : Veces(f, colas[cola]) \in Nat
    BY <1>1, <1>6, ColaTipo
  <2>5. /\ Veces(e, colas'[cola]) = Veces(e, colas[cola]) + 1
        /\ \A f \in Entrenadores : f # e => Veces(f, colas'[cola]) = Veces(f, colas[cola])
    BY <2>3, <2>4
  <2>6. UnaCola' /\ \A f \in Entrenadores, r \in Colas : f # e => (Esta(f, r)' <=> Esta(f, r))
    BY <1>1, <1>5, <1>6, <2>2, <2>5, UnaColaDe
  <2>7. ~Esta(e, "BLOCKED")
    BY <1>1, <1>5, <1>6, Unica
  <2> QED
    BY <1>6, <2>6, <2>7
<1>8. /\ \A f \in Entrenadores : /\ ent'[f].cupo = ent[f].cupo /\ ent'[f].captura = ent[f].captura
                                 /\ ent'[f].catch = ent[f].catch /\ ent'[f].destino = ent[f].destino
      /\ \A f \in Entrenadores : f # e => ent'[f] = ent[f]
  <2>1. ent \in [Entrenadores -> TEntrenador] /\ \A f \in Entrenadores : ent[f] \in TEntrenador
    BY <1>1 DEF TypeOK
  <2> QED
    BY <1>2, <2>1 DEF TEntrenador
<1>9. Vuelve(e) /\ Vuelve(e)' /\ \A f \in Entrenadores : Vuelve(f)' <=> Vuelve(f)
  BY <1>2, <1>4 DEF Vuelve
<1>10. finCapturas /\ ~Va(e)
  BY <1>1, <1>2, <1>9 DEF Intercambios, IntercambioDe
<1>11. UnaCaptura' /\ CuposDelTeam'
  BY <1>3, <1>5, <1>8, <1>10, TrasCapturasSigue
<1>12. \A f \in Entrenadores : Va(f)' <=> Va(f)
  BY <1>8 DEF Va
<1>13. \A f, g \in Entrenadores : Espera(f, g)' <=> Espera(f, g)
  BY <1>4, <1>8, <1>9, <1>12 DEF Espera
<1>14. ASSUME NEW f \in Entrenadores PROVE IntercambioDe(f)'
  <2>1. IntercambioDe(f)
    BY <1>1 DEF Intercambios
  <2>2. Va(f)' => ent'[f].ocupado /\ ~Esta(f, "BLOCKED")' /\ hilos'[f].paso \notin {"transicion", "asentar"}
    BY <1>4, <1>7, <1>8, <1>10, <1>12, <2>1 DEF IntercambioDe
  <2>3. ASSUME NEW p \in Entrenadores, Espera(f, p)'
        PROVE  /\ Esta(p, "BLOCKED")' /\ ent'[p].ocupado /\ ~Va(p)'
               /\ \A g \in Entrenadores : Espera(g, p)' => g = f
               /\ ~(Va(f) /\ ent[f].destino.socio = p /\ Vuelve(f) /\ hilos[f].socio = p)'
    <3>1. /\ Esta(p, "BLOCKED") /\ ent[p].ocupado /\ ~Va(p) /\ \A g \in Entrenadores : Espera(g, p) => g = f
          /\ ~(Va(f) /\ ent[f].destino.socio = p /\ Vuelve(f) /\ hilos[f].socio = p)
      BY <1>13, <2>1, <2>3 DEF IntercambioDe
    <3>2. p # e
      BY <1>7, <3>1
    <3>3. ~(Va(f) /\ ent[f].destino.socio = p /\ Vuelve(f) /\ hilos[f].socio = p)'
      BY <1>4, <1>8, <1>9, <1>12, <3>1
    <3> QED
      BY <1>7, <1>8, <1>12, <1>13, <3>1, <3>2, <3>3
  <2> QED
    BY <1>3, <1>10, <2>2, <2>3 DEF IntercambioDe
<1> QED
  BY <1>7, <1>11, <1>14 DEF Ordenado, Intercambios

LEMMA SocioOrdenado ==
  ASSUME General, Ordenado, NEW e \in Entrenadores, TransicionarSocio(e)
  PROVE  Ordenado'
<1> DEFINE o == hilos[e].socio
           listo == Ninguno(ent[o].falta)
<1>1. TypeOK /\ Semaforos /\ UnaCola /\ Intercambios /\ \A f \in Entrenadores : Hizo(f)
  BY DEF General, Ordenado
<1>2. /\ hilos[e].paso = "transicionSocio" /\ o \in Entrenadores
      /\ ent' = [ent EXCEPT ![o].ocupado = FALSE]
      /\ colas' = IF listo THEN Mover1(o, "BLOCKED", "FINISHED") ELSE colas
      /\ hilos' = [hilos EXCEPT ![e].paso = "dormido", ![e].socio = Nadie]
  BY <1>1, SocioTipos
<1>3. UNCHANGED <<globales, seleccion, catchs, finCapturas>>
  BY DEF TransicionarSocio, fin
<1>4. hilos'[e].paso = "dormido" /\ \A f \in Entrenadores : f # e => hilos'[f] = hilos[f]
  <2>1. hilos \in [Entrenadores -> THilo] /\ \A f \in Entrenadores : hilos[f] \in THilo
    BY <1>1 DEF TypeOK, THilo
  <2> QED
    BY <1>2, <2>1 DEF THilo
<1>5. \A f \in Entrenadores : (EnManos(f)' <=> EnManos(f)) /\ (Enviando(f)' <=> Enviando(f))
  BY <1>2, <1>4 DEF EnManos, Enviando
<1>6. Vuelve(e) /\ Espera(e, o)
  BY <1>2 DEF Vuelve, Espera
<1>7. /\ finCapturas /\ Esta(o, "BLOCKED") /\ ~Va(o) /\ \A f \in Entrenadores : Espera(f, o) => f = e
      /\ ~(Va(e) /\ ent[e].destino.socio = o)
  BY <1>1, <1>2, <1>6 DEF Intercambios, IntercambioDe
<1> HIDE DEF o, listo
<1>8. /\ UnaCola'
      /\ \A f \in Entrenadores : f # o => (Esta(f, "BLOCKED")' <=> Esta(f, "BLOCKED"))
  <2>1. "BLOCKED" \in Colas /\ "FINISHED" \in Colas /\ "BLOCKED" # "FINISHED"
    BY DEF Colas
  <2>2. CASE listo
    <3>1. Contains(colas["BLOCKED"], o)
      BY <1>1, <1>2, <1>7, <2>1, Unica
    <3> QED
      BY <1>1, <1>2, <1>5, <2>1, <2>2, <3>1, MoverUnaCola
  <2>3. CASE ~listo
    BY <1>1, <1>2, <1>5, <2>1, <2>3, UnaColaIgual
  <2> QED
    BY <2>2, <2>3
<1>9. /\ \A f \in Entrenadores : /\ ent'[f].cupo = ent[f].cupo /\ ent'[f].captura = ent[f].captura
                                 /\ ent'[f].catch = ent[f].catch /\ ent'[f].destino = ent[f].destino
      /\ \A f \in Entrenadores : f # o => ent'[f] = ent[f]
  <2>1. ent \in [Entrenadores -> TEntrenador] /\ \A f \in Entrenadores : ent[f] \in TEntrenador
    BY <1>1 DEF TypeOK
  <2> QED
    BY <1>2, <2>1 DEF TEntrenador
<1>10. UnaCaptura' /\ CuposDelTeam'
  BY <1>3, <1>5, <1>7, <1>9, TrasCapturasSigue
<1>11. ~Vuelve(e)' /\ \A f \in Entrenadores : f # e => (Vuelve(f)' <=> Vuelve(f))
  BY <1>4 DEF Vuelve
<1>12. \A f \in Entrenadores : Va(f)' <=> Va(f)
  BY <1>9 DEF Va
<1>13. \A f, g \in Entrenadores : Espera(f, g)' => Espera(f, g) /\ g # o
  <2> SUFFICES ASSUME NEW f \in Entrenadores, NEW g \in Entrenadores, Espera(f, g)' PROVE Espera(f, g) /\ g # o
    OBVIOUS
  <2>1. CASE f = e
    BY <1>7, <1>9, <1>11, <1>12, <2>1 DEF Espera
  <2>2. CASE f # e
    <3>1. Espera(f, g)
      BY <1>4, <1>9, <1>11, <1>12, <2>2 DEF Espera
    <3> QED
      BY <1>7, <2>2, <3>1
  <2> QED
    BY <2>1, <2>2
<1>14. ASSUME NEW f \in Entrenadores PROVE IntercambioDe(f)'
  <2>1. IntercambioDe(f)
    BY <1>1 DEF Intercambios
  <2>2. Va(f)' => ent'[f].ocupado /\ ~Esta(f, "BLOCKED")' /\ hilos'[f].paso \notin {"transicion", "asentar"}
    <3> SUFFICES ASSUME Va(f)' PROVE ent'[f].ocupado /\ ~Esta(f, "BLOCKED")' /\ hilos'[f].paso \notin {"transicion", "asentar"}
      OBVIOUS
    <3>1. Va(f) /\ f # o
      BY <1>7, <1>12
    <3>2. ent[f].ocupado /\ ~Esta(f, "BLOCKED") /\ hilos[f].paso \notin {"transicion", "asentar"}
      BY <2>1, <3>1 DEF IntercambioDe
    <3>3. hilos'[f].paso \notin {"transicion", "asentar"}
      BY <1>4, <3>2
    <3> QED
      BY <1>8, <1>9, <3>1, <3>2, <3>3
  <2>3. ASSUME NEW p \in Entrenadores, Espera(f, p)'
        PROVE  /\ Esta(p, "BLOCKED")' /\ ent'[p].ocupado /\ ~Va(p)'
               /\ \A g \in Entrenadores : Espera(g, p)' => g = f
               /\ ~(Va(f) /\ ent[f].destino.socio = p /\ Vuelve(f) /\ hilos[f].socio = p)'
    <3>1. Espera(f, p) /\ p # o
      BY <1>13, <2>3
    <3>2. /\ Esta(p, "BLOCKED") /\ ent[p].ocupado /\ ~Va(p) /\ \A g \in Entrenadores : Espera(g, p) => g = f
          /\ ~(Va(f) /\ ent[f].destino.socio = p /\ Vuelve(f) /\ hilos[f].socio = p)
      BY <2>1, <3>1 DEF IntercambioDe
    <3>3. ~(Va(f) /\ ent[f].destino.socio = p /\ Vuelve(f) /\ hilos[f].socio = p)'
      <4>1. CASE f = e
        BY <1>11, <4>1
      <4>2. CASE f # e
        BY <1>4, <1>9, <1>11, <1>12, <3>2, <4>2
      <4> QED
        BY <4>1, <4>2
    <3>4. \A g \in Entrenadores : Espera(g, p)' => g = f
      BY <1>13, <3>2
    <3> QED
      BY <1>8, <1>9, <1>12, <3>1, <3>2, <3>3, <3>4
  <2>4. Va(f)' \/ Vuelve(f)' => finCapturas'
    BY <1>3, <1>7
  <2> QED
    BY <2>2, <2>3, <2>4 DEF IntercambioDe
<1> QED
  BY <1>8, <1>10, <1>14 DEF Ordenado, Intercambios

LEMMA OrdenadoSigue ==
  ASSUME General, Ordenado, [Next]_vars, ~reelegido'
  PROVE  Ordenado'
<1>1. TypeOK
  BY DEF General
<1>2. CASE \/ (\E m \in Mensajes : Recibir(m) \/ Incluir(m)) \/ FinCapturas \/ Finalizar \/ Caer \/ UNCHANGED vars
           \/ \E c \in DOMAIN catchs : Caught(c)
  BY <1>1, <1>2, QuietoOrdenado
<1>3. CASE Elegir
  BY <1>3, ElegirOrdenado
<1>4. CASE Sacar
  BY <1>4, SacarOrdenado
<1>5. CASE Planificar \/ \E e \in Entrenadores : Mover(e) \/ VolverAReady(e)
  BY <1>5, PlanOrdenado
<1>6. ASSUME NEW e \in Entrenadores, EnviarCatch(e) PROVE Ordenado'
  BY <1>6, EnviarOrdenado
<1>7. ASSUME NEW e \in Entrenadores, Bloquear(e) PROVE Ordenado'
  BY <1>7, BloquearOrdenado
<1>8. ASSUME NEW e \in Entrenadores, Intercambiar(e) PROVE Ordenado'
  BY <1>8, IntercambiarOrdenado
<1>9. ASSUME NEW e \in Entrenadores, TransicionarMovido(e) PROVE Ordenado'
  BY <1>9, MovidoOrdenado
<1>15. ASSUME NEW e \in Entrenadores, Asentar(e) PROVE Ordenado'
  BY <1>15, AsentarOrdenado
<1>10. ASSUME NEW e \in Entrenadores, TransicionarSocio(e) PROVE Ordenado'
  BY <1>10, SocioOrdenado
<1>11. ASSUME NEW c \in DOMAIN catchs, Acreditar(c) PROVE Ordenado'
  BY <1>11, AcreditarOrdenado
<1>12. ASSUME NEW c \in DOMAIN catchs, Soltar(c) PROVE Ordenado'
  BY <1>12, SoltarOrdenado
<1>13. ASSUME NEW c \in DOMAIN catchs, Auxiliar(c) PROVE Ordenado'
  BY <1>13, AuxiliarOrdenado
<1>14. CASE DetectarDeadlock
  BY <1>14, DetectarOrdenado
<1> QED
  BY <1>2, <1>3, <1>4, <1>5, <1>6, <1>7, <1>8, <1>9, <1>10, <1>11, <1>12, <1>13, <1>14, <1>15
     DEF Next, Interno, HiloEntrenador, HiloCaught

(* Once chosen again, for ever. *)
LEMMA ReelegidoQueda ==
  ASSUME [Next]_vars, reelegido
  PROVE  reelegido'
<1>1. CASE Elegir
  BY <1>1 DEF Elegir
<1>2. CASE \/ (\E m \in Mensajes : Recibir(m) \/ Incluir(m)) \/ FinCapturas \/ Finalizar \/ Caer \/ UNCHANGED vars
           \/ Sacar \/ Planificar \/ DetectarDeadlock
  BY <1>2 DEF Recibir, Incluir, FinCapturas, Finalizar, Caer, vars, Sacar, Planificar, DetectarDeadlock
<1>3. ASSUME NEW e \in Entrenadores, HiloEntrenador(e) PROVE reelegido'
  BY <1>3 DEF HiloEntrenador, Mover, VolverAReady, EnviarCatch, Bloquear, Intercambiar, TransicionarMovido,
              Asentar, TransicionarSocio
<1>4. ASSUME NEW c \in DOMAIN catchs, HiloCaught(c) \/ Caught(c) PROVE reelegido'
  BY <1>4 DEF HiloCaught, Acreditar, Soltar, Auxiliar, Caught
<1> QED
  BY <1>1, <1>2, <1>3, <1>4 DEF Next, Interno

LEMMA InitOrdenado ==
  ASSUME Init
  PROVE  Ordenado
<1>1. TypeOK
  BY InitTipos
<1>2. Cardinality(Entrenadores) \in Nat /\ Entrenadores = 1..Cardinality(Entrenadores)
  BY TeamAssumption, FS_CardinalityType
<1>3. /\ colas["NEW"] = [e \in Entrenadores |-> e]
      /\ colas["READY"] = <<>> /\ colas["EXECUTE"] = <<>> /\ colas["BLOCKED"] = <<>> /\ colas["FINISHED"] = <<>>
      /\ seleccion = Nadie /\ globales = ObjetivosDelTeam
  BY DEF Init
<1>4. ASSUME NEW e \in Entrenadores PROVE Veces(e, colas["NEW"]) = 1
  <2>1. {i \in DOMAIN colas["NEW"] : colas["NEW"][i] = e} = {e}
    BY <1>3
  <2> QED
    BY <2>1, FS_Singleton DEF Veces
<1>5. ASSUME NEW e \in Entrenadores PROVE Suyas(e) = 1
  <2>1. ~EnManos(e)
    BY InitEntrenador DEF EnManos
  <2>2. Veces(e, <<>>) = 0
    BY VecesVacia
  <2>3. /\ Veces(e, colas["NEW"]) = 1 /\ Veces(e, colas["READY"]) = 0 /\ Veces(e, colas["EXECUTE"]) = 0
        /\ Veces(e, colas["BLOCKED"]) = 0 /\ Veces(e, colas["FINISHED"]) = 0
    BY <1>3, <1>4, <2>2
  <2> QED
    BY <2>1, <2>3 DEF Suyas
<1>6. ASSUME NEW e \in Entrenadores PROVE CapturaDe(e)
  <2>1. ~EnCaptura(e) /\ ~Elegida(e)
    BY <1>3, InitEntrenador DEF EnCaptura, Enviando, Elegida
  <2>2. Objetivo[e] \in [Especies -> Nat]
    BY TeamAssumption
  <2>3. Suma(Objetivo[e]) \in Nat
    BY <2>2, SumaTipo, Finitos
  <2>4. ent[e].cupo = Suma(Objetivo[e])
    BY InitEntrenador
  <2>5. ent[e].cupo >= 0
    BY <2>3, <2>4
  <2> QED
    BY <2>1, <2>5 DEF CapturaDe, EnCaptura
<1>7. \A c \in DOMAIN catchs : CatchDe(c)
  <2>1. DOMAIN catchs = {}
    BY DEF Init
  <2> QED
    BY <2>1
<1>8. CuposDelTeam
  <2>1. [e \in Entrenadores |-> ent[e].cupo] = [e \in Entrenadores |-> Suma(Objetivo[e])]
    BY InitEntrenador
  <2>2. Objetivo \in [Entrenadores -> [Especies -> Nat]]
    BY TeamAssumption
  <2>3. Suma([e \in Entrenadores |-> Suma(Objetivo[e])])
          = Suma([s \in Especies |-> Suma([e \in Entrenadores |-> Objetivo[e][s]])])
    BY <2>2, DobleSuma, Finitos
  <2> QED
    BY <1>3, <2>1, <2>3 DEF CuposDelTeam, ObjetivosDelTeam
<1>9. Intercambios
  <2>1. \A e \in Entrenadores : ~Va(e) /\ ~Vuelve(e)
    BY InitEntrenador DEF Va, Vuelve
  <2> QED
    BY <2>1 DEF Intercambios, IntercambioDe, Espera
<1> QED
  BY <1>5, <1>6, <1>7, <1>8, <1>9 DEF Ordenado, UnaCola, UnaCaptura

(* Until a trainer that waits for its CAUGHT is chosen again, a trainer    *)
(* captures no more than it may, the swaps come after the captures, and a  *)
(* partner is awaited by one trainer (planificador.c:539-637).             *)
THEOREM OrdenadoSiempre == Spec => [](~reelegido => Ordenado)
<1>1. Init => IInv
  BY InitGeneral, InitOrdenado DEF IInv
<1>2. IInv /\ [Next]_vars => IInv'
  BY GeneralSigue, OrdenadoSigue, ReelegidoQueda DEF IInv
<1>3. IInv => (~reelegido => Ordenado)
  BY DEF IInv
<1> QED
  BY <1>1, <1>2, <1>3, PTL DEF Spec

(* What the Team still has to capture, what each trainer lacks and what is *)
(* left over add up, through captures, failures and swaps done by          *)
(* different threads (libTeam.c:610-697, planificador.c:639-714), and      *)
(* until one that waits for a CAUGHT is chosen again nobody captures more  *)
(* than its quota (planificador.c:240-263).                                *)
THEOREM CuentasSiempre == Spec => []CuentasDelTeam
<1>1. General /\ (~reelegido => Ordenado) => CuentasDelTeam
  <2>1. Ordenado => \A e \in Entrenadores : ent[e].cupo >= 0
    BY DEF Ordenado, UnaCaptura, CapturaDe
  <2> QED
    BY <2>1 DEF General, Cuentas, GlobalesCuadran, CuposCuadran, CuentasDelTeam
<1> QED
  BY <1>1, GeneralSiempre, OrdenadoSiempre, PTL

(* Whatever the order of the threads, the semaphores count the queues they *)
(* guard, and until one that waits for a CAUGHT is chosen again a trainer  *)
(* is in one queue, or its thread is sending a CATCH                       *)
(* (planificador.c:398-412, 27-123).                                       *)
THEOREM UnaColaSiempre == Spec => []UnaColaPorEntrenador
<1>1. General /\ (~reelegido => Ordenado) => UnaColaPorEntrenador
  BY DEF General, Semaforos, Ordenado, UnaCola, Suyas, UnaColaPorEntrenador
<1> QED
  BY <1>1, GeneralSiempre, OrdenadoSiempre, PTL
=============================================================================
