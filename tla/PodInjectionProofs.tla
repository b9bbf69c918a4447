-------------------------- MODULE PodInjectionProofs --------------------------
(***************************************************************************)
(* The injection of agents proved correct.                                 *)
(***************************************************************************)
EXTENDS PodInjection, FiniteSetTheorems, WellFoundedInduction, TLAPS

(***************************************************************************)
(* Induction.  The library's induction theorems take an operator, these    *)
(* take the set of the values for which a fact holds.                      *)
(***************************************************************************)

\* A set of numbers has a least element.
LEMMA LeastNat ==
    ASSUME NEW T, T \subseteq Nat, T # {}
    PROVE  \E x \in T : \A y \in T : x <= y
<1>1. PICK n \in T : TRUE
  OBVIOUS
<1> DEFINE S == 0..n
           D == {0..m : m \in T \cap S}
<1>2. IsFiniteSet(S)
  BY FS_Interval
<1>3. D \subseteq SUBSET S /\ D # {}
  BY <1>1
<1>4. IsWellFoundedOn(StrictSubsetOrdering(S), SUBSET S)
  BY <1>2, FS_FiniteSubsetsOfFinite, FS_StrictSubsetOrderingWellFounded
<1>5. \E x \in D : \A y \in D : ~ (<<y, x>> \in StrictSubsetOrdering(S))
  <2> HIDE DEF S, D
  <2> QED BY <1>3, <1>4, WFMin
<1>6. PICK x \in D : \A y \in D : ~ (<<y, x>> \in StrictSubsetOrdering(S))
  BY <1>5
<1>7. PICK m \in T \cap S : x = 0..m
  BY <1>6
<1>8. ASSUME NEW k \in T, k < m
      PROVE  FALSE
  <2>1. k \in S /\ k \in Int /\ m \in Int /\ 0 <= k
    BY <1>8, <1>7
  <2>2. 0..k \in D /\ 0..k \subseteq 0..m /\ m \in 0..m /\ m \notin 0..k
    BY <2>1, <1>8, <1>7
  <2>3. <<0..k, x>> \in StrictSubsetOrdering(S)
    BY <2>2, <1>7, <1>3 DEF StrictSubsetOrdering
  <2>4. QED
    BY <2>2, <2>3, <1>6
<1>9. QED
  BY <1>7, <1>8

\* A set with zero and the successor of each of its numbers has all of them.
LEMMA SetOfNats ==
    ASSUME NEW T, 0 \in T, \A n \in Nat : n \in T => n + 1 \in T
    PROVE  Nat \subseteq T
<1> SUFFICES ASSUME Nat \ T # {}
             PROVE  FALSE
  OBVIOUS
<1>1. PICK x \in Nat \ T : \A y \in Nat \ T : x <= y
  BY LeastNat
<1>2. x # 0 /\ x - 1 \in Nat
  BY <1>1
<1>3. x - 1 \in T
  BY <1>1, <1>2
<1>4. QED
  BY <1>1, <1>2, <1>3

\* A set with the empty sequence and every extension of its sequences has all.
LEMMA SetOfSeqs ==
    ASSUME NEW S, NEW T, <<>> \in T,
           \A s \in Seq(S) : s \in T => \A e \in S : Append(s, e) \in T
    PROVE  Seq(S) \subseteq T
<1> DEFINE L == {n \in Nat : \A s \in Seq(S) : Len(s) = n => s \in T}
<1>1. 0 \in L
  OBVIOUS
<1>2. ASSUME NEW n \in Nat, n \in L
      PROVE  n + 1 \in L
  <2> SUFFICES ASSUME NEW s \in Seq(S), Len(s) = n + 1
               PROVE  s \in T
    OBVIOUS
  <2> DEFINE f == SubSeq(s, 1, n)
  <2>1. f \in Seq(S) /\ Len(f) = n /\ s[n + 1] \in S /\ s = Append(f, s[n + 1])
    OBVIOUS
  <2>2. f \in T
    BY <1>2, <2>1
  <2>3. QED
    BY <2>1, <2>2
<1>3. Nat \subseteq L
  <2> HIDE DEF L
  <2> QED BY <1>1, <1>2, SetOfNats
<1>4. QED
  BY <1>3

\* The first index that passes a test.
LEMMA MinIsLeast ==
    ASSUME NEW I, I \subseteq Nat, I # {}
    PROVE  Min(I) \in I /\ \A i \in I : Min(I) <= i
BY LeastNat DEF Min

LEMMA MaxIsTop ==
    ASSUME NEW n \in Nat, NEW I \in SUBSET (1..n + 1), n + 1 \in I
    PROVE  Max(I) = n + 1
<1>1. \A i \in I : i \in Nat /\ n + 1 >= i
  OBVIOUS
<1>2. ASSUME NEW m \in I, \A i \in I : m >= i
      PROVE  m = n + 1
  BY <1>1, <1>2
<1>3. QED
  BY <1>1, <1>2 DEF Max

(***************************************************************************)
(* The loops over lists as recursive functions of the number of turns.     *)
(***************************************************************************)

LEMMA WithoutFold ==
    ASSUME NEW S, NEW s \in Seq(S), NEW N
    PROVE  \E k : /\ k[0] = <<>>
                  /\ \A i \in 1..Len(s) :
                       k[i] = IF s[i].name \in N THEN k[i - 1] ELSE Append(k[i - 1], s[i])
                  /\ Without(s, N) = k[Len(s)]
<1> DEFINE P(F, n) ==
             F = [I \in SUBSET (1..n) |->
                   IF I = {} THEN <<>>
                   ELSE IF s[Max(I)].name \in N THEN F[I \ {Max(I)}]
                   ELSE Append(F[I \ {Max(I)}], s[Max(I)])]
           T == {n \in Nat : \E F : P(F, n)}
<1>1. 0 \in T
  <2>1. P([I \in SUBSET (1..0) |-> <<>>], 0)
    OBVIOUS
  <2>2. QED
    BY <2>1
<1>2. ASSUME NEW n \in Nat, n \in T
      PROVE  n + 1 \in T
  <2>1. PICK F : P(F, n)
    BY <1>2
  <2> DEFINE G == [I \in SUBSET (1..n + 1) |->
                    IF n + 1 \in I
                    THEN IF s[n + 1].name \in N THEN F[I \ {n + 1}]
                         ELSE Append(F[I \ {n + 1}], s[n + 1])
                    ELSE F[I]]
  <2>2. ASSUME NEW I \in SUBSET (1..n + 1), n + 1 \in I
        PROVE  G[I] = IF I = {} THEN <<>>
                      ELSE IF s[Max(I)].name \in N THEN G[I \ {Max(I)}]
                      ELSE Append(G[I \ {Max(I)}], s[Max(I)])
    <3>1. Max(I) = n + 1
      BY <2>2, MaxIsTop
    <3>2. I \ {n + 1} \in SUBSET (1..n + 1) /\ n + 1 \notin I \ {n + 1}
      OBVIOUS
    <3>3. G[I \ {n + 1}] = F[I \ {n + 1}]
      BY <3>2
    <3>4. QED
      BY <2>2, <3>1, <3>3
  <2>3. ASSUME NEW I \in SUBSET (1..n + 1), n + 1 \notin I
        PROVE  G[I] = IF I = {} THEN <<>>
                      ELSE IF s[Max(I)].name \in N THEN G[I \ {Max(I)}]
                      ELSE Append(G[I \ {Max(I)}], s[Max(I)])
    <3>1. I \in SUBSET (1..n) /\ I \ {Max(I)} \in SUBSET (1..n + 1) /\ n + 1 \notin I \ {Max(I)}
      <4>1. \A i \in I : i \in 1..n
        BY <2>3
      <4>2. QED
        BY <4>1, <2>3
    <3>2. G[I] = F[I] /\ G[I \ {Max(I)}] = F[I \ {Max(I)}]
      BY <2>3, <3>1
    <3>3. F[I] = IF I = {} THEN <<>>
                 ELSE IF s[Max(I)].name \in N THEN F[I \ {Max(I)}]
                 ELSE Append(F[I \ {Max(I)}], s[Max(I)])
      BY <2>1, <3>1
    <3>4. QED
      BY <3>2, <3>3
  <2>4. P(G, n + 1)
    BY <2>2, <2>3
  <2> HIDE DEF P, G
  <2>5. QED
    BY <2>4
<1>3. Len(s) \in T
  <2> HIDE DEF T
  <2>1. Nat \subseteq T
    BY <1>1, <1>2, SetOfNats
  <2>2. QED
    BY <2>1
<1> DEFINE F == CHOOSE F : P(F, Len(s))
<1>4. P(F, Len(s))
  BY <1>3
<1>5. Without(s, N) = F[1..Len(s)]
  <2>1. DOMAIN s = 1..Len(s)
    OBVIOUS
  <2>2. QED
    BY <2>1 DEF Without, FoldLeft, MapThenFoldSet
<1> DEFINE k == [i \in 0..Len(s) |-> F[1..i]]
<1> HIDE DEF F
<1>6. k[0] = <<>>
  BY <1>4
<1>7. ASSUME NEW i \in 1..Len(s)
      PROVE  k[i] = IF s[i].name \in N THEN k[i - 1] ELSE Append(k[i - 1], s[i])
  <2>1. i - 1 \in Nat /\ 1..i \in SUBSET (1..Len(s)) /\ i \in 1..i /\ (1..i) \ {i} = 1..i - 1
    OBVIOUS
  <2>2. Max(1..i) = i
    <3>1. i = (i - 1) + 1 /\ 1..i = 1..(i - 1) + 1
      OBVIOUS
    <3>2. QED
      BY <2>1, <3>1, MaxIsTop
  <2>3. F[1..i] = IF s[i].name \in N THEN F[1..i - 1] ELSE Append(F[1..i - 1], s[i])
    BY <1>4, <2>1, <2>2
  <2>4. QED
    BY <2>1, <2>3
<1>8. k[Len(s)] = Without(s, N)
  BY <1>5
<1>9. QED
  BY <1>6, <1>7, <1>8
LEMMA MergeFold ==
    ASSUME NEW S, NEW b, NEW x \in Seq(S)
    PROVE  \E k : /\ k[0] = b
                  /\ \A i \in 1..Len(x) :
                       k[i] = IF x[i].name \in Names(k[i - 1]) THEN k[i - 1] ELSE Append(k[i - 1], x[i])
                  /\ Merge(b, x) = k[Len(x)]
<1> DEFINE P(F, n) ==
             F = [I \in SUBSET (1..n) |->
                   IF I = {} THEN b
                   ELSE IF x[Max(I)].name \in Names(F[I \ {Max(I)}]) THEN F[I \ {Max(I)}]
                   ELSE Append(F[I \ {Max(I)}], x[Max(I)])]
           T == {n \in Nat : \E F : P(F, n)}
<1>1. 0 \in T
  <2>1. P([I \in SUBSET (1..0) |-> b], 0)
    OBVIOUS
  <2>2. QED
    BY <2>1
<1>2. ASSUME NEW n \in Nat, n \in T
      PROVE  n + 1 \in T
  <2>1. PICK F : P(F, n)
    BY <1>2
  <2> DEFINE G == [I \in SUBSET (1..n + 1) |->
                    IF n + 1 \in I
                    THEN IF x[n + 1].name \in Names(F[I \ {n + 1}]) THEN F[I \ {n + 1}]
                         ELSE Append(F[I \ {n + 1}], x[n + 1])
                    ELSE F[I]]
  <2>2. ASSUME NEW I \in SUBSET (1..n + 1), n + 1 \in I
        PROVE  G[I] = IF I = {} THEN b
                      ELSE IF x[Max(I)].name \in Names(G[I \ {Max(I)}]) THEN G[I \ {Max(I)}]
                      ELSE Append(G[I \ {Max(I)}], x[Max(I)])
    <3>1. Max(I) = n + 1
      BY <2>2, MaxIsTop
    <3>2. I \ {n + 1} \in SUBSET (1..n + 1) /\ n + 1 \notin I \ {n + 1}
      OBVIOUS
    <3>3. G[I \ {n + 1}] = F[I \ {n + 1}]
      BY <3>2
    <3>4. QED
      BY <2>2, <3>1, <3>3
  <2>3. ASSUME NEW I \in SUBSET (1..n + 1), n + 1 \notin I
        PROVE  G[I] = IF I = {} THEN b
                      ELSE IF x[Max(I)].name \in Names(G[I \ {Max(I)}]) THEN G[I \ {Max(I)}]
                      ELSE Append(G[I \ {Max(I)}], x[Max(I)])
    <3>1. I \in SUBSET (1..n) /\ I \ {Max(I)} \in SUBSET (1..n + 1) /\ n + 1 \notin I \ {Max(I)}
      <4>1. \A i \in I : i \in 1..n
        BY <2>3
      <4>2. QED
        BY <4>1, <2>3
    <3>2. G[I] = F[I] /\ G[I \ {Max(I)}] = F[I \ {Max(I)}]
      BY <2>3, <3>1
    <3>3. F[I] = IF I = {} THEN b
                 ELSE IF x[Max(I)].name \in Names(F[I \ {Max(I)}]) THEN F[I \ {Max(I)}]
                 ELSE Append(F[I \ {Max(I)}], x[Max(I)])
      BY <2>1, <3>1
    <3>4. QED
      BY <3>2, <3>3
  <2>4. P(G, n + 1)
    BY <2>2, <2>3
  <2> HIDE DEF P, G
  <2>5. QED
    BY <2>4
<1>3. Len(x) \in T
  <2> HIDE DEF T
  <2>1. Nat \subseteq T
    BY <1>1, <1>2, SetOfNats
  <2>2. QED
    BY <2>1
<1> DEFINE F == CHOOSE F : P(F, Len(x))
<1>4. P(F, Len(x))
  BY <1>3
<1>5. Merge(b, x) = F[1..Len(x)]
  <2>1. DOMAIN x = 1..Len(x)
    OBVIOUS
  <2>2. QED
    BY <2>1 DEF Merge, FoldLeft, MapThenFoldSet
<1> DEFINE k == [i \in 0..Len(x) |-> F[1..i]]
<1> HIDE DEF F
<1>6. k[0] = b
  BY <1>4
<1>7. ASSUME NEW i \in 1..Len(x)
      PROVE  k[i] = IF x[i].name \in Names(k[i - 1]) THEN k[i - 1] ELSE Append(k[i - 1], x[i])
  <2>1. i - 1 \in Nat /\ 1..i \in SUBSET (1..Len(x)) /\ i \in 1..i /\ (1..i) \ {i} = 1..i - 1
    OBVIOUS
  <2>2. Max(1..i) = i
    <3>1. i = (i - 1) + 1 /\ 1..i = 1..(i - 1) + 1
      OBVIOUS
    <3>2. QED
      BY <2>1, <3>1, MaxIsTop
  <2>3. F[1..i] = IF x[i].name \in Names(F[1..i - 1]) THEN F[1..i - 1] ELSE Append(F[1..i - 1], x[i])
    BY <1>4, <2>1, <2>2
  <2>4. QED
    BY <2>1, <2>3
<1>8. k[Len(x)] = Merge(b, x)
  BY <1>5
<1>9. QED
  BY <1>6, <1>7, <1>8

LEMMA WithoutEmpty == ASSUME NEW N PROVE Without(<<>>, N) = <<>>
<1> DEFINE e == <<>>
<1>1. e \in Seq({}) /\ Len(e) = 0
  OBVIOUS
<1> HIDE DEF e
<1>2. PICK k : k[0] = <<>> /\ Without(e, N) = k[Len(e)]
  BY <1>1, WithoutFold
<1>3. QED
  BY <1>1, <1>2 DEF e

LEMMA WithoutAppend ==
    ASSUME NEW S, NEW s \in Seq(S), NEW e \in S, NEW N
    PROVE  Without(Append(s, e), N)
             = IF e.name \in N THEN Without(s, N) ELSE Append(Without(s, N), e)
<1> DEFINE t == Append(s, e)
           n == Len(s)
<1>1. /\ t \in Seq(S) /\ Len(t) = n + 1 /\ t[n + 1] = e /\ n \in Nat
      /\ \A i \in 1..n : i \in 1..n + 1 /\ t[i] = s[i]
  OBVIOUS
<1>2. PICK k : /\ k[0] = <<>>
               /\ \A i \in 1..n :
                    k[i] = IF s[i].name \in N THEN k[i - 1] ELSE Append(k[i - 1], s[i])
               /\ Without(s, N) = k[n]
  BY WithoutFold
<1> HIDE DEF t
<1>3. PICK l : /\ l[0] = <<>>
               /\ \A i \in 1..n + 1 :
                    l[i] = IF t[i].name \in N THEN l[i - 1] ELSE Append(l[i - 1], t[i])
               /\ Without(t, N) = l[n + 1]
  <2>1. \E l : /\ l[0] = <<>>
               /\ \A i \in 1..Len(t) :
                    l[i] = IF t[i].name \in N THEN l[i - 1] ELSE Append(l[i - 1], t[i])
               /\ Without(t, N) = l[Len(t)]
    BY <1>1, WithoutFold
  <2>2. Len(t) = n + 1
    BY <1>1
  <2>3. QED
    BY <2>1, <2>2
<1> DEFINE T == {i \in Nat : i <= n => k[i] = l[i]}
<1>4. n \in T
  <2>1. 0 \in T
    BY <1>2, <1>3
  <2>2. ASSUME NEW i \in Nat, i \in T
        PROVE  i + 1 \in T
    <3> SUFFICES ASSUME i + 1 <= n
                 PROVE  k[i + 1] = l[i + 1]
      OBVIOUS
    <3>1. i + 1 \in 1..n /\ i + 1 \in 1..n + 1 /\ (i + 1) - 1 = i /\ k[i] = l[i]
      BY <1>1, <2>2
    <3>2. QED
      BY <1>1, <1>2, <1>3, <3>1
  <2> HIDE DEF T
  <2>3. QED
    BY <1>1, <2>1, <2>2, SetOfNats
<1>5. k[n] = l[n]
  BY <1>4, <1>1
<1>6. l[n + 1] = IF e.name \in N THEN l[n] ELSE Append(l[n], e)
  <2>1. n + 1 \in 1..n + 1 /\ (n + 1) - 1 = n
    BY <1>1
  <2>2. QED
    BY <2>1, <1>1, <1>3
<1>7. QED
  BY <1>2, <1>3, <1>5, <1>6 DEF t

LEMMA MergeEmpty == ASSUME NEW b PROVE Merge(b, <<>>) = b
<1>1. ASSUME NEW S, NEW x \in Seq(S), Len(x) = 0
      PROVE  Merge(b, x) = b
  <2>1. PICK k : /\ k[0] = b
                 /\ \A i \in 1..Len(x) :
                      k[i] = IF x[i].name \in Names(k[i - 1]) THEN k[i - 1]
                             ELSE Append(k[i - 1], x[i])
                 /\ Merge(b, x) = k[Len(x)]
    BY MergeFold
  <2>2. QED
    BY <1>1, <2>1
<1>2. <<>> \in Seq({}) /\ Len(<<>>) = 0
  OBVIOUS
<1>3. QED
  BY <1>1, <1>2

LEMMA MergeAppend ==
    ASSUME NEW S, NEW x \in Seq(S), NEW e \in S, NEW b
    PROVE  Merge(b, Append(x, e))
             = IF e.name \in Names(Merge(b, x)) THEN Merge(b, x) ELSE Append(Merge(b, x), e)
<1> DEFINE t == Append(x, e)
           n == Len(x)
<1>1. /\ t \in Seq(S) /\ Len(t) = n + 1 /\ t[n + 1] = e /\ n \in Nat
      /\ \A i \in 1..n : i \in 1..n + 1 /\ t[i] = x[i]
  OBVIOUS
<1>2. PICK k : /\ k[0] = b
               /\ \A i \in 1..n :
                    k[i] = IF x[i].name \in Names(k[i - 1]) THEN k[i - 1]
                           ELSE Append(k[i - 1], x[i])
               /\ Merge(b, x) = k[n]
  BY MergeFold
<1> HIDE DEF t
<1>3. PICK l : /\ l[0] = b
               /\ \A i \in 1..n + 1 :
                    l[i] = IF t[i].name \in Names(l[i - 1]) THEN l[i - 1]
                           ELSE Append(l[i - 1], t[i])
               /\ Merge(b, t) = l[n + 1]
  <2>1. \E l : /\ l[0] = b
               /\ \A i \in 1..Len(t) :
                    l[i] = IF t[i].name \in Names(l[i - 1]) THEN l[i - 1]
                           ELSE Append(l[i - 1], t[i])
               /\ Merge(b, t) = l[Len(t)]
    BY <1>1, MergeFold, Z3
  <2>2. Len(t) = n + 1
    BY <1>1
  <2>3. QED
    BY <2>1, <2>2
<1> DEFINE T == {i \in Nat : i <= n => k[i] = l[i]}
<1>4. n \in T
  <2>1. 0 \in T
    BY <1>2, <1>3
  <2>2. ASSUME NEW i \in Nat, i \in T
        PROVE  i + 1 \in T
    <3> SUFFICES ASSUME i + 1 <= n
                 PROVE  k[i + 1] = l[i + 1]
      OBVIOUS
    <3>1. i + 1 \in 1..n /\ i + 1 \in 1..n + 1 /\ (i + 1) - 1 = i /\ k[i] = l[i]
      BY <1>1, <2>2
    <3>2. QED
      BY <1>1, <1>2, <1>3, <3>1
  <2> HIDE DEF T
  <2>3. QED
    BY <1>1, <2>1, <2>2, SetOfNats
<1>5. k[n] = l[n]
  BY <1>4, <1>1
<1>6. l[n + 1] = IF e.name \in Names(l[n]) THEN l[n] ELSE Append(l[n], e)
  <2>1. n + 1 \in 1..n + 1 /\ (n + 1) - 1 = n
    BY <1>1
  <2>2. QED
    BY <2>1, <1>1, <1>3
<1>7. QED
  BY <1>2, <1>3, <1>5, <1>6 DEF t

(***************************************************************************)
(* Lists of named things.                                                  *)
(***************************************************************************)

LEMMA AppendElements ==
    ASSUME NEW S, NEW s \in Seq(S), NEW e \in S
    PROVE  ToSet(Append(s, e)) = ToSet(s) \cup {e}
<1>1. /\ \A i \in DOMAIN s : i \in DOMAIN Append(s, e) /\ Append(s, e)[i] = s[i]
      /\ Len(s) + 1 \in DOMAIN Append(s, e) /\ Append(s, e)[Len(s) + 1] = e
      /\ \A i \in DOMAIN Append(s, e) : i \in DOMAIN s \/ i = Len(s) + 1
  OBVIOUS
<1>2. QED
  BY <1>1 DEF ToSet

LEMMA ConcatElements ==
    ASSUME NEW S, NEW s \in Seq(S), NEW t \in Seq(S)
    PROVE  ToSet(s \o t) = ToSet(s) \cup ToSet(t)
<1> DEFINE c == s \o t
<1>1. /\ \A i \in DOMAIN s : i \in DOMAIN c /\ c[i] = s[i]
      /\ \A i \in DOMAIN t : Len(s) + i \in DOMAIN c /\ c[Len(s) + i] = t[i]
      /\ \A i \in DOMAIN c :
           \/ i \in DOMAIN s
           \/ i - Len(s) \in DOMAIN t /\ c[i] = t[i - Len(s)]
  OBVIOUS
<1> HIDE DEF c
<1>2. ToSet(s) \subseteq ToSet(c) /\ ToSet(t) \subseteq ToSet(c)
  BY <1>1 DEF ToSet
<1>3. ASSUME NEW i \in DOMAIN c
      PROVE  c[i] \in ToSet(s) \cup ToSet(t)
  BY <1>1 DEF ToSet
<1>4. ToSet(c) \subseteq ToSet(s) \cup ToSet(t)
  BY <1>3 DEF ToSet
<1>5. QED
  BY <1>2, <1>4 DEF c

LEMMA NoElement == ToSet(<<>>) = {}
BY DEF ToSet

LEMMA OneElement == ASSUME NEW e PROVE ToSet(<<e>>) = {e}
BY DEF ToSet

LEMMA AppendNames ==
    ASSUME NEW S, NEW s \in Seq(S), NEW e \in S
    PROVE  Names(Append(s, e)) = Names(s) \cup {e.name}
BY AppendElements DEF Names

LEMMA ConcatNames ==
    ASSUME NEW S, NEW s \in Seq(S), NEW t \in Seq(S)
    PROVE  Names(s \o t) = Names(s) \cup Names(t)
BY ConcatElements DEF Names

LEMMA NoName == Names(<<>>) = {}
BY NoElement DEF Names

LEMMA OneName == ASSUME NEW e PROVE Names(<<e>>) = {e.name}
<1> DEFINE s == <<e>>
<1>1. ToSet(s) = {e}
  BY OneElement
<1> HIDE DEF s
<1>2. Names(s) = {e.name}
  BY <1>1 DEF Names
<1>3. QED
  BY <1>2 DEF s

\* A loop that leaves names out keeps exactly the others.
LEMMA WithoutElements ==
    ASSUME NEW S, NEW N, NEW s \in Seq(S)
    PROVE  /\ Without(s, N) \in Seq(S)
           /\ ToSet(Without(s, N)) = {e \in ToSet(s) : e.name \notin N}
<1> DEFINE T == {u \in Seq(S) : /\ Without(u, N) \in Seq(S)
                                /\ ToSet(Without(u, N)) = {e \in ToSet(u) : e.name \notin N}}
<1>1. <<>> \in T
  <2>1. <<>> \in Seq(S) /\ Without(<<>>, N) = <<>> /\ ToSet(<<>>) = {}
    BY WithoutEmpty, NoElement
  <2>2. QED
    BY <2>1
<1>2. ASSUME NEW u \in Seq(S), u \in T, NEW e \in S
      PROVE  Append(u, e) \in T
  <2> DEFINE w == Without(u, N)
  <2>1. w \in Seq(S) /\ ToSet(w) = {d \in ToSet(u) : d.name \notin N}
    BY <1>2
  <2>2. Without(Append(u, e), N) = IF e.name \in N THEN w ELSE Append(w, e)
    BY WithoutAppend
  <2> HIDE DEF w
  <2>3. ToSet(Append(u, e)) = ToSet(u) \cup {e} /\ ToSet(Append(w, e)) = ToSet(w) \cup {e}
    BY <2>1, AppendElements
  <2>4. Append(u, e) \in Seq(S) /\ Append(w, e) \in Seq(S)
    BY <2>1
  <2>5. CASE e.name \in N
    <3>1. Without(Append(u, e), N) = w
      BY <2>2, <2>5
    <3>2. ToSet(w) = {d \in ToSet(Append(u, e)) : d.name \notin N}
      BY <2>1, <2>3, <2>5
    <3>3. QED
      BY <3>1, <3>2, <2>1, <2>4
  <2>6. CASE e.name \notin N
    <3>1. Without(Append(u, e), N) = Append(w, e)
      BY <2>2, <2>6
    <3>2. ToSet(Append(w, e)) = {d \in ToSet(Append(u, e)) : d.name \notin N}
      BY <2>1, <2>3, <2>6
    <3>3. QED
      BY <3>1, <3>2, <2>4
  <2>7. QED
    BY <2>5, <2>6
<1>3. Seq(S) \subseteq T
  <2> HIDE DEF T
  <2> QED BY <1>1, <1>2, SetOfSeqs
<1>4. QED
  BY <1>3

LEMMA WithoutNames ==
    ASSUME NEW S, NEW N, NEW s \in Seq(S)
    PROVE  Names(Without(s, N)) = Names(s) \ N
BY WithoutElements DEF Names

LEMMA WithoutConcat ==
    ASSUME NEW S, NEW N, NEW s \in Seq(S), NEW t \in Seq(S)
    PROVE  Without(s \o t, N) = Without(s, N) \o Without(t, N)
<1> DEFINE T == {u \in Seq(S) : Without(s \o u, N) = Without(s, N) \o Without(u, N)}
<1> DEFINE v == Without(s, N)
<1>0. v \in Seq(S)
  BY WithoutElements
<1>1. <<>> \in T
  <2>1. s \o <<>> = s /\ v \o <<>> = v /\ <<>> \in Seq(S)
    BY <1>0
  <2>2. Without(<<>>, N) = <<>>
    BY WithoutEmpty
  <2>3. Without(s \o <<>>, N) = v \o Without(<<>>, N)
    BY <2>1, <2>2
  <2>4. QED
    BY <2>1, <2>3
<1>2. ASSUME NEW u \in Seq(S), u \in T, NEW e \in S
      PROVE  Append(u, e) \in T
  <2> DEFINE w == Without(u, N)
  <2>1. Without(s \o u, N) = v \o w /\ w \in Seq(S)
    BY <1>2, WithoutElements
  <2> HIDE DEF v, w
  <2>2. s \o Append(u, e) = Append(s \o u, e) /\ s \o u \in Seq(S)
    OBVIOUS
  <2>3. v \o Append(w, e) = Append(v \o w, e)
    BY <1>0, <2>1
  <2>4. /\ Without(Append(u, e), N) = IF e.name \in N THEN w ELSE Append(w, e)
        /\ Without(Append(s \o u, e), N)
             = IF e.name \in N THEN Without(s \o u, N) ELSE Append(Without(s \o u, N), e)
    BY <2>2, WithoutAppend, ZenonT(30) DEF w
  <2>5. Without(s \o Append(u, e), N) = v \o Without(Append(u, e), N)
    BY <2>1, <2>2, <2>3, <2>4
  <2>6. QED
    BY <2>5 DEF v
<1>3. Seq(S) \subseteq T
  <2> HIDE DEF T
  <2> QED BY <1>1, <1>2, SetOfSeqs
<1>4. QED
  BY <1>3

\* Only the names that occur matter.
LEMMA WithoutSame ==
    ASSUME NEW S, NEW N, NEW M, NEW s \in Seq(S), Names(s) \cap N = Names(s) \cap M
    PROVE  Without(s, N) = Without(s, M)
<1> DEFINE T == {u \in Seq(S) : Names(u) \cap N = Names(u) \cap M => Without(u, N) = Without(u, M)}
<1>1. <<>> \in T
  BY WithoutEmpty
<1>2. ASSUME NEW u \in Seq(S), u \in T, NEW e \in S
      PROVE  Append(u, e) \in T
  <2> SUFFICES ASSUME Names(Append(u, e)) \cap N = Names(Append(u, e)) \cap M
               PROVE  Without(Append(u, e), N) = Without(Append(u, e), M)
    OBVIOUS
  <2>1. Names(Append(u, e)) = Names(u) \cup {e.name}
    BY AppendNames
  <2>2. Names(u) \cap N = Names(u) \cap M /\ (e.name \in N <=> e.name \in M)
    BY <2>1
  <2>3. Without(u, N) = Without(u, M)
    BY <1>2, <2>2
  <2>4. /\ Without(Append(u, e), N) = IF e.name \in N THEN Without(u, N) ELSE Append(Without(u, N), e)
        /\ Without(Append(u, e), M) = IF e.name \in M THEN Without(u, M) ELSE Append(Without(u, M), e)
    BY WithoutAppend
  <2>5. QED
    BY <2>2, <2>3, <2>4
<1>3. Seq(S) \subseteq T
  <2> HIDE DEF T
  <2> QED BY <1>1, <1>2, SetOfSeqs
<1>4. QED
  BY <1>3

LEMMA WithoutTwice ==
    ASSUME NEW S, NEW N, NEW M, NEW s \in Seq(S)
    PROVE  Without(Without(s, N), M) = Without(s, N \cup M)
<1> DEFINE T == {u \in Seq(S) : Without(Without(u, N), M) = Without(u, N \cup M)}
<1>1. <<>> \in T
  BY WithoutEmpty
<1>2. ASSUME NEW u \in Seq(S), u \in T, NEW e \in S
      PROVE  Append(u, e) \in T
  <2>1. Without(Without(u, N), M) = Without(u, N \cup M) /\ Without(u, N) \in Seq(S)
    BY <1>2, WithoutElements
  <2>2. /\ Without(Append(u, e), N) = IF e.name \in N THEN Without(u, N) ELSE Append(Without(u, N), e)
        /\ Without(Append(u, e), N \cup M)
             = IF e.name \in N \cup M THEN Without(u, N \cup M) ELSE Append(Without(u, N \cup M), e)
        /\ Without(Append(Without(u, N), e), M)
             = IF e.name \in M THEN Without(Without(u, N), M)
               ELSE Append(Without(Without(u, N), M), e)
    BY <2>1, WithoutAppend, ZenonT(30)
  <2>3. Without(Without(Append(u, e), N), M) = Without(Append(u, e), N \cup M)
    BY <2>1, <2>2
  <2>4. QED
    BY <2>3
<1>3. Seq(S) \subseteq T
  <2> HIDE DEF T
  <2> QED BY <1>1, <1>2, SetOfSeqs
<1>4. QED
  BY <1>3

LEMMA WithoutNone ==
    ASSUME NEW S, NEW N, NEW s \in Seq(S), Names(s) \cap N = {}
    PROVE  Without(s, N) = s
<1> DEFINE T == {u \in Seq(S) : Without(u, {}) = u}
<1>1. <<>> \in T
  BY WithoutEmpty
<1>2. ASSUME NEW u \in Seq(S), u \in T, NEW e \in S
      PROVE  Append(u, e) \in T
  BY <1>2, WithoutAppend
<1>3. Seq(S) \subseteq T
  <2> HIDE DEF T
  <2> QED BY <1>1, <1>2, SetOfSeqs
<1>4. Without(s, N) = Without(s, {})
  BY WithoutSame
<1>5. QED
  BY <1>3, <1>4

LEMMA WithoutAll ==
    ASSUME NEW S, NEW N, NEW s \in Seq(S), Names(s) \subseteq N
    PROVE  Without(s, N) = <<>>
<1>1. Without(s, N) \in Seq(S) /\ Names(Without(s, N)) = {}
  BY WithoutElements, WithoutNames
<1>2. \A i \in DOMAIN Without(s, N) : Without(s, N)[i].name \in Names(Without(s, N))
  BY DEF Names, ToSet
<1>3. DOMAIN Without(s, N) = {}
  BY <1>1, <1>2
<1>4. QED
  BY <1>1, <1>3

\* mergeEnvVars puts entries under new names behind what is there.
Added(b, x, r) ==
    /\ Merge(b, x) = b \o r
    /\ ToSet(r) \subseteq ToSet(x)
    /\ Names(r) \cap Names(b) = {}
    /\ Names(Merge(b, x)) = Names(b) \cup Names(x)

LEMMA MergeAdds ==
    ASSUME NEW S, NEW b \in Seq(S), NEW x \in Seq(S)
    PROVE  \E r \in Seq(S) : Added(b, x, r)
<1> DEFINE T == {u \in Seq(S) : \E r \in Seq(S) : Added(b, u, r)}
<1>1. <<>> \in T
  <2>1. b \o <<>> = b /\ <<>> \in Seq(S)
    OBVIOUS
  <2>2. Added(b, <<>>, <<>>)
    BY <2>1, MergeEmpty, NoElement, NoName DEF Added
  <2>3. QED
    BY <2>1, <2>2
<1>2. ASSUME NEW u \in Seq(S), u \in T, NEW e \in S
      PROVE  Append(u, e) \in T
  <2>1. PICK r \in Seq(S) : Added(b, u, r)
    BY <1>2
  <2>2. /\ Append(u, e) \in Seq(S) /\ Append(r, e) \in Seq(S) /\ b \o r \in Seq(S)
        /\ b \o Append(r, e) = Append(b \o r, e)
    OBVIOUS
  <2>3. /\ ToSet(Append(u, e)) = ToSet(u) \cup {e} /\ Names(Append(u, e)) = Names(u) \cup {e.name}
        /\ ToSet(Append(r, e)) = ToSet(r) \cup {e} /\ Names(Append(r, e)) = Names(r) \cup {e.name}
        /\ Names(Append(b \o r, e)) = Names(b \o r) \cup {e.name}
    <3>1. ToSet(Append(u, e)) = ToSet(u) \cup {e} /\ ToSet(Append(r, e)) = ToSet(r) \cup {e}
      BY AppendElements
    <3>2. Names(Append(u, e)) = Names(u) \cup {e.name} /\ Names(Append(r, e)) = Names(r) \cup {e.name}
      BY AppendNames
    <3>3. Names(Append(b \o r, e)) = Names(b \o r) \cup {e.name}
      BY <2>2, AppendNames, ZenonT(30)
    <3>4. QED
      BY <3>1, <3>2, <3>3
  <2>4. Merge(b, Append(u, e))
          = IF e.name \in Names(b \o r) THEN b \o r ELSE Append(b \o r, e)
    BY <2>1, MergeAppend DEF Added
  <2>5. CASE e.name \in Names(b \o r)
    <3>1. Added(b, Append(u, e), r)
      BY <2>1, <2>3, <2>4, <2>5 DEF Added
    <3>2. QED
      BY <3>1, <2>2
  <2>6. CASE e.name \notin Names(b \o r)
    <3>1. e.name \notin Names(b)
      BY <2>1, <2>6, ConcatNames DEF Added
    <3>2. Added(b, Append(u, e), Append(r, e))
      BY <2>1, <2>2, <2>3, <2>4, <2>6, <3>1 DEF Added
    <3>3. QED
      BY <3>2, <2>2
  <2>7. QED
    BY <2>5, <2>6
<1>3. Seq(S) \subseteq T
  <2> HIDE DEF T
  <2> QED BY <1>1, <1>2, SetOfSeqs
<1>4. QED
  BY <1>3

LEMMA MergeTyped ==
    ASSUME NEW S, NEW b \in Seq(S), NEW x \in Seq(S)
    PROVE  /\ Merge(b, x) \in Seq(S)
           /\ ToSet(Merge(b, x)) \subseteq ToSet(b) \cup ToSet(x)
           /\ ToSet(b) \subseteq ToSet(Merge(b, x))
           /\ Names(Merge(b, x)) = Names(b) \cup Names(x)
<1>1. PICK r \in Seq(S) : Added(b, x, r)
  BY MergeAdds
<1>2. ToSet(b \o r) = ToSet(b) \cup ToSet(r) /\ b \o r \in Seq(S)
  BY ConcatElements
<1>3. QED
  BY <1>1, <1>2 DEF Added

\* Names that occur once still do.
LEMMA MergeDistinct ==
    ASSUME NEW S, NEW b \in Seq(S), NEW x \in Seq(S), Distinct(b, LAMBDA e : e.name)
    PROVE  Distinct(Merge(b, x), LAMBDA e : e.name)
<1> DEFINE D(s) == \A i, j \in DOMAIN s : s[i].name = s[j].name => i = j
           T == {u \in Seq(S) : D(Merge(b, u))}
<1>1. <<>> \in T
  BY MergeEmpty DEF Distinct
<1>2. ASSUME NEW u \in Seq(S), u \in T, NEW e \in S
      PROVE  Append(u, e) \in T
  <2> DEFINE m == Merge(b, u)
  <2>1. m \in Seq(S) /\ D(m)
    BY <1>2, MergeTyped
  <2>2. Merge(b, Append(u, e)) = IF e.name \in Names(m) THEN m ELSE Append(m, e)
    BY MergeAppend
  <2> HIDE DEF m
  <2>3. ASSUME e.name \notin Names(m)
        PROVE  D(Append(m, e))
    <3>1. \A i \in DOMAIN m : m[i].name # e.name
      BY <2>3 DEF Names, ToSet
    <3>2. /\ \A i \in DOMAIN m : Append(m, e)[i] = m[i]
          /\ Append(m, e)[Len(m) + 1] = e
          /\ \A i \in DOMAIN Append(m, e) : i \in DOMAIN m \/ i = Len(m) + 1
      BY <2>1
    <3>3. QED
      BY <2>1, <3>1, <3>2
  <2>4. D(Merge(b, Append(u, e)))
    <3> HIDE DEF D
    <3> QED BY <2>1, <2>2, <2>3
  <2>5. QED
    BY <2>4
<1>3. Seq(S) \subseteq T
  <2> HIDE DEF T
  <2> QED BY <1>1, <1>2, SetOfSeqs
<1>4. QED
  BY <1>3 DEF Distinct

(***************************************************************************)
(* The entries under some of the names.                                    *)
(***************************************************************************)

LEMMA OnlyElements ==
    ASSUME NEW S, NEW s \in Seq(S), NEW K
    PROVE  /\ Only(s, K) \in Seq(S)
           /\ ToSet(Only(s, K)) = {e \in ToSet(s) : e.name \in K}
           /\ Names(Only(s, K)) = Names(s) \cap K
<1>1. \A e \in ToSet(s) : e.name \in Names(s)
  BY DEF Names
<1>2. /\ Only(s, K) \in Seq(S)
      /\ ToSet(Only(s, K)) = {e \in ToSet(s) : e.name \in K}
  BY <1>1, WithoutElements DEF Only
<1>3. Names(Without(s, Names(s) \ K)) = Names(s) \ (Names(s) \ K)
  BY WithoutNames
<1>4. Names(s) \ (Names(s) \ K) = Names(s) \cap K
  OBVIOUS
<1>5. QED
  BY <1>2, <1>3, <1>4 DEF Only

LEMMA OnlyConcat ==
    ASSUME NEW S, NEW s \in Seq(S), NEW t \in Seq(S), NEW K
    PROVE  Only(s \o t, K) = Only(s, K) \o Only(t, K)
<1> DEFINE N == Names(s \o t) \ K
<1>1. N = (Names(s) \cup Names(t)) \ K
  BY ConcatNames
<1>2. Without(s \o t, N) = Without(s, N) \o Without(t, N)
  BY WithoutConcat
<1>3. /\ Names(s) \cap N = Names(s) \cap (Names(s) \ K)
      /\ Names(t) \cap N = Names(t) \cap (Names(t) \ K)
  BY <1>1
<1>4. Without(s, N) = Without(s, Names(s) \ K) /\ Without(t, N) = Without(t, Names(t) \ K)
  <2> HIDE DEF N
  <2> QED BY <1>3, WithoutSame
<1>5. QED
  BY <1>2, <1>4 DEF Only

LEMMA OnlyNone ==
    ASSUME NEW S, NEW s \in Seq(S), NEW K, Names(s) \cap K = {}
    PROVE  Only(s, K) = <<>>
BY WithoutAll DEF Only

LEMMA OnlyAll ==
    ASSUME NEW S, NEW s \in Seq(S), NEW K, Names(s) \subseteq K
    PROVE  Only(s, K) = s
BY WithoutNone DEF Only

\* To keep some names is to leave out the others.
LEMMA OnlyOthers ==
    ASSUME NEW S, NEW s \in Seq(S), NEW K, NEW N, Names(s) \cap K = Names(s) \ N
    PROVE  Only(s, K) = Without(s, N)
<1>1. Names(s) \cap (Names(s) \ K) = Names(s) \cap N
  OBVIOUS
<1>2. QED
  BY <1>1, WithoutSame DEF Only

LEMMA OnlyWithout ==
    ASSUME NEW S, NEW s \in Seq(S), NEW N, NEW K, K \cap N = {}
    PROVE  Only(Without(s, N), K) = Only(s, K)
<1> DEFINE M == (Names(s) \ N) \ K
<1>1. Names(Without(s, N)) = Names(s) \ N
  BY WithoutNames
<1>2. Only(Without(s, N), K) = Without(s, N \cup M)
  BY <1>1, WithoutTwice DEF Only
<1>3. Names(s) \cap (N \cup M) = Names(s) \cap (Names(s) \ K)
  OBVIOUS
<1>4. Without(s, N \cup M) = Without(s, Names(s) \ K)
  <2> HIDE DEF M
  <2> QED BY <1>3, WithoutSame
<1>5. QED
  BY <1>2, <1>4 DEF Only

LEMMA OnlyTwice ==
    ASSUME NEW S, NEW s \in Seq(S), NEW F, NEW K, K \subseteq F
    PROVE  Only(Only(s, F), K) = Only(s, K)
<1>1. K \cap (Names(s) \ F) = {}
  BY DEF Names
<1>2. QED
  BY <1>1, OnlyWithout DEF Only

LEMMA BindingElements ==
    ASSUME NEW S, NEW s \in Seq(S), NEW n
    PROVE  /\ Binding(s, n) \in Seq(S)
           /\ ToSet(Binding(s, n)) = {e \in ToSet(s) : e.name = n}
BY OnlyElements DEF Binding

LEMMA BindingConcat ==
    ASSUME NEW S, NEW s \in Seq(S), NEW t \in Seq(S), NEW n
    PROVE  Binding(s \o t, n) = Binding(s, n) \o Binding(t, n)
BY OnlyConcat DEF Binding

LEMMA BindingSome ==
    ASSUME NEW S, NEW s \in Seq(S), NEW n \in Names(s)
    PROVE  Binding(s, n) # <<>> /\ Len(Binding(s, n)) > 0
<1>1. PICK e \in ToSet(s) : e.name = n
  BY DEF Names
<1>2. e \in ToSet(Binding(s, n)) /\ Binding(s, n) \in Seq(S)
  BY <1>1, BindingElements
<1>3. DOMAIN Binding(s, n) # {}
  BY <1>2 DEF ToSet
<1>4. QED
  BY <1>2, <1>3

LEMMA BindingOne ==
    ASSUME NEW e, NEW n
    PROVE  Binding(<<e>>, n) = IF n = e.name THEN <<e>> ELSE <<>>
<1> DEFINE s == <<e>>
           S == {e}
<1>1. s \in Seq(S) /\ Names(s) = {e.name}
  BY OneName
<1> HIDE DEF s, S
<1>2. Only(s, {n}) = IF n = e.name THEN s ELSE <<>>
  BY <1>1, OnlyAll, OnlyNone
<1>3. QED
  BY <1>2 DEF Binding, s

LEMMA UpsertTyped ==
    ASSUME NEW S, NEW b \in Seq(S), NEW o \in Seq(S)
    PROVE  /\ Upsert(b, o) \in Seq(S)
           /\ ToSet(Upsert(b, o)) \subseteq ToSet(b) \cup ToSet(o)
           /\ Names(Upsert(b, o)) = Names(b) \cup Names(o)
<1> DEFINE w == Without(b, Names(o))
<1>1. /\ w \in Seq(S) /\ ToSet(w) \subseteq ToSet(b)
      /\ Names(w) = Names(b) \ Names(o)
  BY WithoutElements, WithoutNames
<1> HIDE DEF w
<1>2. w \o o \in Seq(S) /\ ToSet(w \o o) = ToSet(w) \cup ToSet(o)
  BY <1>1, ConcatElements
<1>3. Names(w \o o) = Names(w) \cup Names(o)
  BY <1>1, ConcatNames
<1>4. Upsert(b, o) = w \o o
  BY DEF Upsert, w
<1>5. QED
  BY <1>1, <1>2, <1>3, <1>4

LEMMA CombineTyped ==
    ASSUME NEW S, NEW b \in Seq(S), NEW x \in Seq(S), NEW F
    PROVE  /\ Combine(b, x, F) \in Seq(S)
           /\ ToSet(Combine(b, x, F)) \subseteq ToSet(b) \cup ToSet(x)
           /\ Names(Combine(b, x, F)) = Names(b) \cup Names(x)
<1> DEFINE f == Only(x, F)
           a == Without(x, F)
           u == Upsert(b, f)
<1>1. /\ f \in Seq(S) /\ ToSet(f) \subseteq ToSet(x) /\ Names(f) = Names(x) \cap F
      /\ a \in Seq(S) /\ ToSet(a) \subseteq ToSet(x) /\ Names(a) = Names(x) \ F
  BY OnlyElements, WithoutElements, WithoutNames
<1>2. Combine(b, x, F) = Merge(u, a)
  BY DEF Combine
<1> HIDE DEF f, a
<1>3. /\ u \in Seq(S) /\ ToSet(u) \subseteq ToSet(b) \cup ToSet(f)
      /\ Names(u) = Names(b) \cup Names(f)
  BY <1>1, UpsertTyped
<1> HIDE DEF u
<1>4. /\ Merge(u, a) \in Seq(S)
      /\ ToSet(Merge(u, a)) \subseteq ToSet(u) \cup ToSet(a)
      /\ Names(Merge(u, a)) = Names(u) \cup Names(a)
  BY <1>1, <1>3, MergeTyped
<1>5. QED
  BY <1>1, <1>2, <1>3, <1>4

\* Overrides replace what is there under their names, and nothing else.
LEMMA OnlyUpsert ==
    ASSUME NEW S, NEW b \in Seq(S), NEW o \in Seq(S), NEW K
    PROVE  /\ K \subseteq Names(o) => Only(Upsert(b, o), K) = Only(o, K)
           /\ K \cap Names(o) = {} => Only(Upsert(b, o), K) = Only(b, K)
<1> DEFINE w == Without(b, Names(o))
<1>1. w \in Seq(S) /\ Names(w) = Names(b) \ Names(o)
  BY WithoutElements, WithoutNames
<1>2. Upsert(b, o) = w \o o
  BY DEF Upsert
<1>3. ASSUME K \cap Names(o) = {}
      PROVE  Only(w, K) = Only(b, K)
  BY <1>3, OnlyWithout
<1> HIDE DEF w
<1>4. Only(w \o o, K) = Only(w, K) \o Only(o, K)
  BY <1>1, OnlyConcat
<1>5. Only(w, K) \in Seq(S) /\ Only(o, K) \in Seq(S)
  BY <1>1, OnlyElements
<1>6. ASSUME K \subseteq Names(o)
      PROVE  Only(Upsert(b, o), K) = Only(o, K)
  <2>1. Only(w, K) = <<>>
    BY <1>1, <1>6, OnlyNone
  <2>2. <<>> \o Only(o, K) = Only(o, K)
    BY <1>5
  <2>3. QED
    BY <1>2, <1>4, <2>1, <2>2
<1>7. ASSUME K \cap Names(o) = {}
      PROVE  Only(Upsert(b, o), K) = Only(b, K)
  <2>1. Only(o, K) = <<>>
    BY <1>7, OnlyNone
  <2>2. Only(w, K) \o <<>> = Only(w, K)
    BY <1>5
  <2>3. QED
    BY <1>2, <1>3, <1>4, <1>7, <2>1, <2>2
<1>8. QED
  BY <1>6, <1>7

\* What is there keeps its entries.
LEMMA OnlyMerge ==
    ASSUME NEW S, NEW b \in Seq(S), NEW x \in Seq(S), NEW K, K \subseteq Names(b)
    PROVE  Only(Merge(b, x), K) = Only(b, K)
<1>1. PICK r \in Seq(S) : Added(b, x, r)
  BY MergeAdds
<1>2. Merge(b, x) = b \o r /\ Names(r) \cap K = {}
  BY <1>1 DEF Added
<1>3. Only(b \o r, K) = Only(b, K) \o Only(r, K)
  BY OnlyConcat
<1>4. Only(r, K) = <<>>
  BY <1>2, OnlyNone
<1>5. Only(b, K) \in Seq(S)
  BY OnlyElements
<1>6. Only(b, K) \o <<>> = Only(b, K)
  BY <1>5
<1>7. QED
  BY <1>2, <1>3, <1>4, <1>6

\* Forced names come from what is put in, all others stay as they are.
LEMMA OnlyCombine ==
    ASSUME NEW S, NEW b \in Seq(S), NEW x \in Seq(S), NEW F, NEW K
    PROVE  /\ K \subseteq Names(x) \cap F => Only(Combine(b, x, F), K) = Only(x, K)
           /\ K \subseteq Names(b) /\ K \cap (Names(x) \cap F) = {}
              => Only(Combine(b, x, F), K) = Only(b, K)
<1> DEFINE f == Only(x, F)
           a == Without(x, F)
           u == Upsert(b, f)
<1>1. /\ f \in Seq(S) /\ Names(f) = Names(x) \cap F
      /\ a \in Seq(S)
  BY OnlyElements, WithoutElements
<1>2. Combine(b, x, F) = Merge(u, a)
  BY DEF Combine
<1>3. ASSUME K \subseteq F
      PROVE  Only(f, K) = Only(x, K)
  BY <1>3, OnlyTwice
<1> HIDE DEF f, a
<1>4. u \in Seq(S) /\ Names(u) = Names(b) \cup Names(f)
  BY <1>1, UpsertTyped
<1>5. /\ K \subseteq Names(f) => Only(u, K) = Only(f, K)
      /\ K \cap Names(f) = {} => Only(u, K) = Only(b, K)
  BY <1>1, OnlyUpsert
<1> HIDE DEF u
<1>6. K \subseteq Names(u) => Only(Merge(u, a), K) = Only(u, K)
  BY <1>1, <1>4, OnlyMerge
<1>7. ASSUME K \subseteq Names(x) \cap F
      PROVE  Only(Combine(b, x, F), K) = Only(x, K)
  <2>1. K \subseteq Names(f) /\ K \subseteq Names(u) /\ K \subseteq F
    BY <1>1, <1>4, <1>7
  <2>2. QED
    BY <2>1, <1>2, <1>3, <1>5, <1>6
<1>8. ASSUME K \subseteq Names(b), K \cap (Names(x) \cap F) = {}
      PROVE  Only(Combine(b, x, F), K) = Only(b, K)
  <2>1. K \cap Names(f) = {} /\ K \subseteq Names(u)
    BY <1>1, <1>4, <1>8
  <2>2. QED
    BY <2>1, <1>2, <1>5, <1>6
<1>9. QED
  BY <1>7, <1>8

\* The entry that wins is one of the list.
LEMMA EffectiveEntry ==
    ASSUME NEW S, NEW s \in Seq(S), NEW n \in Names(s)
    PROVE  Effective(s, n) \in ToSet(s) /\ Effective(s, n) \in S
<1> DEFINE h == Binding(s, n)
<1>1. h \in Seq(S) /\ ToSet(h) \subseteq ToSet(s) /\ Len(h) > 0
  BY BindingElements, BindingSome
<1> HIDE DEF h
<1>2. Head(h) \in ToSet(h) /\ Head(h) \in S
  BY <1>1 DEF ToSet
<1>3. QED
  BY <1>1, <1>2 DEF Effective, h

(***************************************************************************)
(* The language injectors.                                                 *)
(***************************************************************************)

\* What a container's environment is made of.
ValidEntries == {e \in Entries : ValidEntry(e)}

LEMMA VarTyped ==
    ASSUME NEW n \in STRING, NEW v \in Seq(STRING)
    PROVE  Var(n, v) \in ValidEntries /\ Ref(n) \in ValidEntries
BY DEF Var, Ref, ValidEntries, Entries, ValidEntry

LEMMA OverrideTyped ==
    ASSUME NEW envs \in Seq(Entries), NEW keys \in Seq(STRING), NEW default \in Seq(STRING)
    PROVE  Override(envs, keys, default) \in Seq(STRING)
<1> DEFINE I == {i \in 1..Len(keys) : keys[i] \in Names(envs)}
           first == IF I # {} THEN Min(I) ELSE 0
<1>1. Override(envs, keys, default)
        = IF first = 0 THEN default ELSE Effective(envs, keys[first]).val
  BY DEF Override, SelectInSeq
<1>2. ASSUME first # 0
      PROVE  keys[first] \in Names(envs)
  <2>1. I # {} /\ I \subseteq Nat
    BY <1>2
  <2> HIDE DEF I
  <2>2. Min(I) \in I
    BY <2>1, MinIsLeast
  <2>3. QED
    BY <2>1, <2>2 DEF I
<1>3. first # 0 => Effective(envs, keys[first]) \in Entries
  BY <1>2, EffectiveEntry
<1> HIDE DEF first
<1>4. QED
  BY <1>1, <1>3 DEF Entries

\* The languages whose agent gets a server and a licence, and their names for them.
LEMMA NamesByLanguage ==
    ASSUME NEW l
    PROVE  /\ DOMAIN HostName = {"java", "python", "nodejs"}
           /\ DOMAIN LicenseName = {"java", "python", "nodejs"}
           /\ DOMAIN SearchNames = {"python", "nodejs"}
           /\ l = "java" => HostName[l] = "whatap.server.host" /\ LicenseName[l] = "license"
           /\ l = "python" => HostName[l] = "whatap_server_host" /\ LicenseName[l] = "license"
           /\ l = "nodejs" => HostName[l] = "WHATAP_SERVER_HOST" /\ LicenseName[l] = "WHATAP_LICENSE"
           /\ l = "python" => PathName[l] = "WHATAP_PYTHON_AGENT_PATH"
           /\ l = "nodejs" => PathName[l] = "WHATAP_NODEJS_AGENT_PATH"
           /\ l = "python" => SearchNames[l] = <<"PYTHONPATH">>
           /\ l = "nodejs" => SearchNames[l] = <<"NODE_PATH", "NODE_OPTIONS">>
BY DEF HostName, LicenseName, PathName, SearchNames

LEMMA ConnectionTyped ==
    ASSUME NEW t, ProperTarget(t)
    PROVE  License(t) \in Seq(STRING) /\ Host(t) \in Seq(STRING)
<1> DEFINE d == <<"operator">>
           k == <<"WHATAP_LICENSE", "license">>
           h == <<"WHATAP_HOST", "whatap.server.host", "whatap_server_host", "WHATAP_SERVER_HOST">>
<1>1. d \in Seq(STRING) /\ k \in Seq(STRING) /\ h \in Seq(STRING)
  BY StringsAssumption
<1>2. License(t) = Override(t.envs, k, d) /\ Host(t) = Override(t.envs, h, d)
  BY DEF License, Host
<1> HIDE DEF d, k, h
<1>3. t.envs \in Seq(Entries)
  BY DEF ProperTarget
<1>4. Override(t.envs, k, d) \in Seq(STRING) /\ Override(t.envs, h, d) \in Seq(STRING)
  BY <1>1, <1>3, OverrideTyped
<1>5. QED
  BY <1>2, <1>4

LEMMA BindingAppend ==
    ASSUME NEW S, NEW s \in Seq(S), NEW e \in S, NEW n
    PROVE  Binding(Append(s, e), n)
             = IF n = e.name THEN Append(Binding(s, n), e) ELSE Binding(s, n)
<1>0. PICK w \in Seq(S) : w = <<e>>
  <2>1. <<e>> \in Seq(S)
    OBVIOUS
  <2>2. QED
    BY <2>1, Zenon
<1>1. Append(s, e) = s \o w
  BY <1>0
<1>2. Binding(s \o w, n) = Binding(s, n) \o Binding(w, n)
  BY BindingConcat
<1>3. Binding(s, n) \in Seq(S)
  BY BindingElements
<1>4. Binding(w, n) = IF n = e.name THEN <<e>> ELSE <<>>
  BY <1>0, BindingOne
<1> DEFINE k == Binding(s, n)
<1> HIDE DEF k
<1>5. k \in Seq(S)
  BY <1>3 DEF k
<1>6. k \o <<e>> = Append(k, e) /\ k \o <<>> = k
  BY <1>5
<1>7. CASE n = e.name
  BY <1>1, <1>2, <1>4, <1>6, <1>7 DEF k
<1>8. CASE n # e.name
  BY <1>1, <1>2, <1>4, <1>6, <1>8 DEF k
<1>9. QED
  BY <1>7, <1>8

LEMMA BindingFour ==
    ASSUME NEW S, NEW a \in S, NEW b \in S, NEW c \in S, NEW d \in S,
           a.name # b.name, c.name \notin {a.name, b.name}, d.name \notin {a.name, b.name}
    PROVE  /\ Binding(<<a, b, c, d>>, a.name) = <<a>>
           /\ Binding(<<a, b, c, d>>, b.name) = <<b>>
<1> DEFINE p1 == <<a>>
           p2 == <<a, b>>
           p3 == <<a, b, c>>
           p4 == <<a, b, c, d>>
<1>1. p1 \in Seq(S) /\ p2 \in Seq(S) /\ p3 \in Seq(S)
  OBVIOUS
<1>2. p2 = Append(p1, b) /\ p3 = Append(p2, c) /\ p4 = Append(p3, d)
  OBVIOUS
<1>3. \A n : Binding(p1, n) = IF n = a.name THEN <<a>> ELSE <<>>
  BY BindingOne
<1>4. Append(<<>>, b) = <<b>>
  OBVIOUS
<1> HIDE DEF p1, p2, p3, p4
<1>5. \A n : Binding(p2, n) = IF n = b.name THEN Append(Binding(p1, n), b) ELSE Binding(p1, n)
  <2>1. p1 \in Seq(S)
    BY <1>1
  <2>2. \A n : Binding(Append(p1, b), n)
                 = IF n = b.name THEN Append(Binding(p1, n), b) ELSE Binding(p1, n)
    BY <2>1, BindingAppend
  <2>3. QED
    BY <1>2, <2>2
<1>6. \A n : Binding(p3, n) = IF n = c.name THEN Append(Binding(p2, n), c) ELSE Binding(p2, n)
  <2>1. p2 \in Seq(S)
    BY <1>1
  <2>2. \A n : Binding(Append(p2, c), n)
                 = IF n = c.name THEN Append(Binding(p2, n), c) ELSE Binding(p2, n)
    BY <2>1, BindingAppend
  <2>3. QED
    BY <1>2, <2>2
<1>7. \A n : Binding(p4, n) = IF n = d.name THEN Append(Binding(p3, n), d) ELSE Binding(p3, n)
  <2>1. p3 \in Seq(S)
    BY <1>1
  <2>2. \A n : Binding(Append(p3, d), n)
                 = IF n = d.name THEN Append(Binding(p3, n), d) ELSE Binding(p3, n)
    BY <2>1, BindingAppend
  <2>3. QED
    BY <1>2, <2>2
<1>8. Binding(p4, a.name) = <<a>>
  BY <1>3, <1>5, <1>6, <1>7
<1>9. Binding(p4, b.name) = <<b>>
  BY <1>3, <1>4, <1>5, <1>6, <1>7
<1>10. QED
  BY <1>8, <1>9 DEF p4

LEMMA ConnectionFacts ==
    ASSUME NEW t, ProperTarget(t), t.lang \in DOMAIN HostName
    PROVE  /\ Connection(t) \in Seq(ValidEntries)
           /\ Names(Connection(t))
                = {LicenseName[t.lang], HostName[t.lang], "whatap.micro.enabled", "NODE_IP"}
           /\ Binding(Connection(t), LicenseName[t.lang])
                = <<Var(LicenseName[t.lang], License(t))>>
           /\ Binding(Connection(t), HostName[t.lang])
                = <<Var(HostName[t.lang], Host(t))>>
           /\ License(t) \in Seq(STRING) /\ Host(t) \in Seq(STRING)
<1> DEFINE l == LicenseName[t.lang]
           h == HostName[t.lang]
           a == Var(l, License(t))
           b == Var(h, Host(t))
           c == Var("whatap.micro.enabled", <<"true">>)
           d == Ref("NODE_IP")
           S == ValidEntries
<1>2. License(t) \in Seq(STRING) /\ Host(t) \in Seq(STRING)
  BY ConnectionTyped
<1>3. /\ l \in STRING /\ h \in STRING /\ l # h
      /\ {l, h} \cap {"whatap.micro.enabled", "NODE_IP"} = {}
  BY NamesByLanguage, StringsAssumption
<1>4. a \in S /\ b \in S /\ c \in S /\ d \in S
  <2>1. a \in S /\ b \in S
    BY <1>2, <1>3, VarTyped
  <2>2. <<"true">> \in Seq(STRING)
    BY StringsAssumption
  <2>3. c \in S /\ d \in S
    BY <2>2, VarTyped, StringsAssumption
  <2>4. QED
    BY <2>1, <2>3
<1>5. a.name = l /\ b.name = h /\ c.name = "whatap.micro.enabled" /\ d.name = "NODE_IP"
  BY DEF Var, Ref
<1>6. Connection(t) = <<a, b, c, d>>
  BY DEF Connection
<1> HIDE DEF l, h, a, b, c, d, S
<1>7. <<a, b, c, d>> \in Seq(S)
  BY <1>4
<1>8. ToSet(<<a, b, c, d>>) = {a, b, c, d}
  BY DEF ToSet
<1> DEFINE e == <<a, b, c, d>>
<1> HIDE DEF e
<1>9. Names(e) = {l, h, "whatap.micro.enabled", "NODE_IP"}
  BY <1>5, <1>8 DEF Names, e
<1>10. Binding(<<a, b, c, d>>, a.name) = <<a>> /\ Binding(<<a, b, c, d>>, b.name) = <<b>>
  <2>1. a.name # b.name /\ c.name \notin {a.name, b.name} /\ d.name \notin {a.name, b.name}
    BY <1>3, <1>5
  <2>2. QED
    BY <1>4, <2>1, BindingFour
<1>11. Binding(e, l) = <<a>> /\ Binding(e, h) = <<b>>
  BY <1>5, <1>10 DEF e
<1>12. QED
  BY <1>2, <1>6, <1>7, <1>9, <1>10, <1>11 DEF l, h, a, b, S, e

-----------------------------------------------------------------------------
(***************************************************************************)
(* JAVA_TOOL_OPTIONS.                                                      *)
(***************************************************************************)
Options == "JAVA_TOOL_OPTIONS"

PlainEntries == {e \in ValidEntries : PlainOptions(e)}

WithAgent(e) == [e EXCEPT !.val = Append(@, "agent")]

LEMMA WithAgentTyped ==
    ASSUME NEW e \in Entries
    PROVE  /\ WithAgent(e) \in Entries
           /\ WithAgent(e).name = e.name /\ WithAgent(e).ref = e.ref
           /\ WithAgent(e).val = Append(e.val, "agent")
<1>1. "agent" \in STRING
  BY StringsAssumption
<1>2. e.name \in STRING /\ e.val \in Seq(STRING) /\ e.ref \in BOOLEAN
  BY DEF Entries
<1>3. WithAgent(e) = [name |-> e.name, val |-> Append(e.val, "agent"), ref |-> e.ref]
  <2>1. PICK n, v, r : e = [name |-> n, val |-> v, ref |-> r]
    BY DEF Entries
  <2>2. QED
    BY <2>1 DEF WithAgent
<1>4. Append(e.val, "agent") \in Seq(STRING)
  BY <1>1, <1>2
<1> DEFINE v == Append(e.val, "agent")
<1> HIDE DEF v
<1>5. WithAgent(e) = [name |-> e.name, val |-> v, ref |-> e.ref] /\ v \in Seq(STRING)
  BY <1>3, <1>4 DEF v
<1>6. QED
  BY <1>2, <1>5 DEF Entries, v

\* Where JavaToolOptions finds the entry it adds to.
OptionsAt(s) == SelectInSeq(s, LAMBDA e : e.name = Options)

LEMMA FirstOptions ==
    ASSUME NEW S, NEW s \in Seq(S), Options \in Names(s)
    PROVE  /\ OptionsAt(s) \in 1..Len(s)
           /\ s[OptionsAt(s)].name = Options
           /\ \A j \in 1..Len(s) : s[j].name = Options => OptionsAt(s) <= j
<1> DEFINE I == {i \in 1..Len(s) : s[i].name = Options}
<1>1. I \subseteq Nat /\ I # {}
  <2>1. PICK e \in ToSet(s) : e.name = Options
    BY DEF Names
  <2>2. QED
    BY <2>1 DEF ToSet
<1>2. OptionsAt(s) = Min(I)
  BY <1>1 DEF OptionsAt, SelectInSeq
<1>3. Min(I) \in I /\ \A i \in I : Min(I) <= i
  <2> HIDE DEF I
  <2>1. QED
    BY <1>1, MinIsLeast
<1>4. QED
  BY <1>2, <1>3

LEMMA OptionsAppend ==
    ASSUME NEW S, NEW s \in Seq(S), NEW e \in S
    PROVE  /\ Options \in Names(s) => OptionsAt(Append(s, e)) = OptionsAt(s)
           /\ Options \notin Names(s) /\ e.name = Options => OptionsAt(Append(s, e)) = Len(s) + 1
<1>1. Append(s, e) \in Seq(S) /\ Len(Append(s, e)) = Len(s) + 1
  OBVIOUS
<1>2. \A i \in 1..Len(s) : Append(s, e)[i] = s[i]
  OBVIOUS
<1>3. Append(s, e)[Len(s) + 1] = e /\ Len(s) \in Nat
  OBVIOUS
<1>4. Names(Append(s, e)) = Names(s) \cup {e.name}
  BY AppendNames
<1> DEFINE a == Append(s, e)
<1> HIDE DEF a
<1>5. ASSUME Options \in Names(a)
      PROVE  /\ OptionsAt(a) \in 1..Len(a)
             /\ a[OptionsAt(a)].name = Options
             /\ \A j \in 1..Len(a) : a[j].name = Options => OptionsAt(a) <= j
  BY <1>1, <1>5, FirstOptions DEF a
<1>6. CASE Options \in Names(s)
  <2>1. Options \in Names(a)
    BY <1>4, <1>6 DEF a
  <2>2. /\ OptionsAt(s) \in 1..Len(s)
        /\ s[OptionsAt(s)].name = Options
        /\ \A j \in 1..Len(s) : s[j].name = Options => OptionsAt(s) <= j
    BY <1>6, FirstOptions
  <2>3. /\ Len(a) = Len(s) + 1 /\ Len(s) \in Nat
        /\ \A i \in 1..Len(s) : a[i] = s[i]
    BY <1>1, <1>2, <1>3 DEF a
  <2>4. OptionsAt(a) <= OptionsAt(s)
    BY <1>5, <2>1, <2>2, <2>3
  <2>5. OptionsAt(s) <= OptionsAt(a)
    BY <1>5, <2>1, <2>2, <2>3, <2>4
  <2>6. OptionsAt(a) \in Nat /\ OptionsAt(s) \in Nat
    BY <1>5, <2>1, <2>2, <2>3
  <2>7. QED
    BY <1>6, <2>4, <2>5, <2>6 DEF a
<1>7. CASE Options \notin Names(s) /\ e.name = Options
  <2>1. Options \in Names(a)
    BY <1>4, <1>7 DEF a
  <2>2. \A i \in 1..Len(s) : s[i].name # Options
    BY <1>7 DEF Names, ToSet
  <2>3. QED
    BY <1>1, <1>2, <1>3, <1>5, <1>7, <2>1, <2>2 DEF a
<1>8. QED
  BY <1>6, <1>7

\* How the injector treats the list entry by entry.
LEMMA JavaToolOptionsAppend ==
    ASSUME NEW s \in Seq(Entries), NEW e \in Entries
    PROVE  /\ Options \in Names(s)
              => JavaToolOptions(Append(s, e)) = Append(JavaToolOptions(s), e)
           /\ Options \notin Names(s) /\ e.name = Options
              => JavaToolOptions(Append(s, e)) = Append(s, WithAgent(e))
<1>1. Names(Append(s, e)) = Names(s) \cup {e.name}
  BY AppendNames
<1>2. \A u : Options \in Names(u) =>
             JavaToolOptions(u) = [u EXCEPT ![OptionsAt(u)].val = Append(@, "agent")]
  BY DEF JavaToolOptions, OptionsAt, Options
<1>3. /\ Append(s, e) \in Seq(Entries) /\ Len(Append(s, e)) = Len(s) + 1 /\ Len(s) \in Nat
      /\ \A i \in 1..Len(s) : Append(s, e)[i] = s[i]
      /\ Append(s, e)[Len(s) + 1] = e
  OBVIOUS
<1>4. ASSUME Options \in Names(s)
      PROVE  JavaToolOptions(Append(s, e)) = Append(JavaToolOptions(s), e)
  <2> DEFINE i == OptionsAt(s)
  <2>1. i \in 1..Len(s) /\ OptionsAt(Append(s, e)) = i
    BY <1>4, FirstOptions, OptionsAppend
  <2>2. /\ JavaToolOptions(s) = [s EXCEPT ![i].val = Append(@, "agent")]
        /\ JavaToolOptions(Append(s, e)) = [Append(s, e) EXCEPT ![i].val = Append(@, "agent")]
    BY <1>1, <1>2, <1>4, <2>1
  <2> HIDE DEF i
  <2> DEFINE f == WithAgent(s[i])
  <2>3. /\ [s EXCEPT ![i].val = Append(@, "agent")] = [s EXCEPT ![i] = f]
        /\ [Append(s, e) EXCEPT ![i].val = Append(@, "agent")] = [Append(s, e) EXCEPT ![i] = f]
    BY <1>3, <2>1 DEF WithAgent
  <2>4. f \in Entries
    <3>1. s[i] \in Entries
      BY <2>1
    <3>2. QED
      BY <3>1, WithAgentTyped
  <2> HIDE DEF f
  <2>5. [Append(s, e) EXCEPT ![i] = f] = Append([s EXCEPT ![i] = f], e)
    <3> DEFINE a == Append(s, e)
               u == [s EXCEPT ![i] = f]
               v == [a EXCEPT ![i] = f]
    <3>0. /\ a \in Seq(Entries) /\ Len(a) = Len(s) + 1 /\ Len(s) \in Nat
          /\ \A j \in 1..Len(s) : a[j] = s[j]
          /\ a[Len(s) + 1] = e
      BY <1>3
    <3> HIDE DEF a
    <3>1. u \in Seq(Entries) /\ Len(u) = Len(s) /\ v \in Seq(Entries) /\ Len(v) = Len(s) + 1
      BY <3>0, <2>1, <2>4
    <3>2. \A j \in 1..Len(s) : v[j] = u[j]
      BY <3>0, <2>1
    <3>3. v[Len(s) + 1] = e
      BY <3>0, <2>1
    <3> HIDE DEF u, v
    <3>4. v = Append(u, e)
      BY <3>0, <3>1, <3>2, <3>3
    <3>5. QED
      BY <3>4 DEF u, v, a
  <2>6. QED
    BY <2>2, <2>3, <2>5
<1>5. ASSUME Options \notin Names(s), e.name = Options
      PROVE  JavaToolOptions(Append(s, e)) = Append(s, WithAgent(e))
  <2>1. OptionsAt(Append(s, e)) = Len(s) + 1
    BY <1>5, OptionsAppend
  <2>2. JavaToolOptions(Append(s, e))
          = [Append(s, e) EXCEPT ![Len(s) + 1].val = Append(@, "agent")]
    BY <1>1, <1>2, <1>5, <2>1
  <2>3. [Append(s, e) EXCEPT ![Len(s) + 1].val = Append(@, "agent")]
          = [Append(s, e) EXCEPT ![Len(s) + 1] = WithAgent(e)]
    BY <1>3 DEF WithAgent
  <2> DEFINE f == WithAgent(e)
  <2>4. f \in Entries
    BY WithAgentTyped
  <2> HIDE DEF f
  <2>5. [Append(s, e) EXCEPT ![Len(s) + 1] = f] = Append(s, f)
    <3> DEFINE a == Append(s, e)
               b == Append(s, f)
               v == [a EXCEPT ![Len(s) + 1] = f]
    <3>1. /\ a \in Seq(Entries) /\ Len(a) = Len(s) + 1 /\ Len(s) \in Nat
          /\ \A j \in 1..Len(s) : a[j] = s[j]
      BY <1>3
    <3>2. /\ b \in Seq(Entries) /\ Len(b) = Len(s) + 1
          /\ \A j \in 1..Len(s) : b[j] = s[j]
          /\ b[Len(s) + 1] = f
      BY <2>4
    <3> HIDE DEF a, b
    <3>3. v = b
      BY <2>4, <3>1, <3>2
    <3>4. QED
      BY <3>3 DEF a, b
  <2>6. QED
    BY <2>2, <2>3, <2>5 DEF f
<1>6. QED
  BY <1>4, <1>5

LEMMA JavaToolOptionsTyped ==
    ASSUME NEW s \in Seq(ValidEntries), \A e \in ToSet(s) : PlainOptions(e)
    PROVE  /\ JavaToolOptions(s) \in Seq(ValidEntries)
           /\ Names(JavaToolOptions(s)) = Names(s) \cup {Options}
<1> DEFINE J == JavaToolOptions(s)
<1>1. CASE Options \notin Names(s)
  <2> DEFINE v == Var(Options, <<"agent">>)
  <2>1. J = Append(s, v)
    BY <1>1 DEF JavaToolOptions, Options
  <2>2. v \in ValidEntries /\ v.name = Options
    <3>1. <<"agent">> \in Seq(STRING) /\ Options \in STRING
      BY StringsAssumption DEF Options
    <3>2. v \in ValidEntries
      BY <3>1, VarTyped
    <3>3. QED
      BY <3>2 DEF Var
  <2> HIDE DEF v
  <2>3. Append(s, v) \in Seq(ValidEntries) /\ Names(Append(s, v)) = Names(s) \cup {Options}
    BY <2>2, AppendNames
  <2>4. QED
    BY <2>1, <2>3
<1>2. CASE Options \in Names(s)
  <2> DEFINE i == OptionsAt(s)
             f == WithAgent(s[i])
  <2>1. i \in 1..Len(s) /\ s[i].name = Options
    BY <1>2, FirstOptions
  <2>2. s[i] \in ToSet(s) /\ s[i] \in ValidEntries
    BY <2>1 DEF ToSet
  <2>3. f \in Entries /\ f.name = Options /\ f.ref = s[i].ref
    BY <2>1, <2>2, WithAgentTyped DEF ValidEntries
  <2>4. f \in ValidEntries
    <3>1. ~s[i].ref
      BY <2>1, <2>2 DEF PlainOptions, Options
    <3>2. QED
      BY <2>3, <3>1 DEF ValidEntries, ValidEntry
  <2>5. J = [s EXCEPT ![i] = f]
    BY <1>2 DEF JavaToolOptions, OptionsAt, Options, WithAgent
  <2> HIDE DEF i, f, J
  <2>6. J \in Seq(ValidEntries) /\ Len(J) = Len(s) /\ \A j \in 1..Len(s) : J[j].name = s[j].name
    BY <2>1, <2>3, <2>4, <2>5
  <2>7. Names(J) = Names(s)
    <3>1. /\ Names(J) = {J[j].name : j \in 1..Len(s)}
          /\ Names(s) = {s[j].name : j \in 1..Len(s)}
      BY <2>6 DEF Names, ToSet
    <3>2. QED
      BY <2>6, <3>1
  <2>8. QED
    BY <1>2, <2>6, <2>7 DEF J
<1>3. QED
  BY <1>1, <1>2

\* AgentOptions, of the entries of that name alone.
LoadedAt(options) ==
    UNION {{<<i, k>> : k \in {k \in DOMAIN options[i].val : options[i].val[k] = "agent"}} :
             i \in DOMAIN options}

\* An entry that says nothing of the agent does not load it.
LEMMA AgentOptionsAppend ==
    ASSUME NEW s \in Seq(Entries), NEW e \in Entries
    PROVE  /\ PlainOptions(e) => AgentOptions(Append(s, e)) = AgentOptions(s)
           /\ e.name = Options /\ PlainOptions(e) /\ Options \notin Names(s)
              => \E o : AgentOptions(Append(s, WithAgent(e))) = {o}
<1> DEFINE b == Binding(s, Options)
<1>1. b \in Seq(Entries)
  BY BindingElements
<1>2. \A u \in Entries : Binding(Append(s, u), Options)
                           = IF Options = u.name THEN Append(b, u) ELSE b
  BY BindingAppend
<1>3. \A u : AgentOptions(u) = LoadedAt(Binding(u, Options))
  BY DEF AgentOptions, Options, LoadedAt
<1> HIDE DEF b
<1>4. ASSUME PlainOptions(e)
      PROVE  AgentOptions(Append(s, e)) = AgentOptions(s)
  <2>1. CASE e.name # Options
    BY <1>2, <1>3, <2>1 DEF b
  <2>2. CASE e.name = Options
    <3> DEFINE a == Append(b, e)
    <3>1. \A k \in DOMAIN e.val : e.val[k] # "agent"
      BY <1>4, <2>2 DEF PlainOptions, Options, ToSet
    <3>2. /\ Len(b) \in Nat /\ DOMAIN b = 1..Len(b) /\ DOMAIN a = 1..Len(b) + 1
          /\ \A i \in 1..Len(b) : a[i] = b[i]
          /\ a[Len(b) + 1] = e
      BY <1>1
    <3> HIDE DEF a
    <3>3. LoadedAt(a) = LoadedAt(b)
      <4>1. \A x : x \in LoadedAt(a) <=>
                     \E i \in DOMAIN a : \E k \in DOMAIN a[i].val :
                       a[i].val[k] = "agent" /\ x = <<i, k>>
        BY DEF LoadedAt
      <4>2. \A x : x \in LoadedAt(b) <=>
                     \E i \in DOMAIN b : \E k \in DOMAIN b[i].val :
                       b[i].val[k] = "agent" /\ x = <<i, k>>
        BY DEF LoadedAt
      <4>3. \A i \in DOMAIN b : i \in DOMAIN a /\ a[i] = b[i]
        BY <3>2
      <4>4. \A i \in DOMAIN a : i \notin DOMAIN b => a[i] = e
        BY <3>2
      <4>5. \A x : x \in LoadedAt(a) <=> x \in LoadedAt(b)
        <5>1. ASSUME NEW x, x \in LoadedAt(a)
              PROVE  x \in LoadedAt(b)
          <6>1. PICK i \in DOMAIN a : \E k \in DOMAIN a[i].val : a[i].val[k] = "agent" /\ x = <<i, k>>
            BY <4>1, <5>1
          <6>2. PICK k \in DOMAIN a[i].val : a[i].val[k] = "agent" /\ x = <<i, k>>
            BY <6>1
          <6>3. i \in DOMAIN b /\ a[i] = b[i]
            BY <3>1, <4>3, <4>4, <6>2
          <6>4. QED
            BY <4>2, <6>2, <6>3
        <5>2. ASSUME NEW x, x \in LoadedAt(b)
              PROVE  x \in LoadedAt(a)
          BY <4>1, <4>2, <4>3, <5>2
        <5>3. QED
          BY <5>1, <5>2
      <4>6. QED
        BY <4>5
    <3>4. Binding(Append(s, e), Options) = a
      BY <1>2, <2>2 DEF a
    <3>5. QED
      BY <1>3, <3>3, <3>4 DEF b
  <2>3. QED
    BY <2>1, <2>2
<1>5. ASSUME e.name = Options, PlainOptions(e), Options \notin Names(s)
      PROVE  \E o : AgentOptions(Append(s, WithAgent(e))) = {o}
  <2> DEFINE f == WithAgent(e)
             n == Len(e.val)
  <2>1. f \in Entries /\ f.name = Options /\ f.val = Append(e.val, "agent")
    BY <1>5, WithAgentTyped
  <2>2. b = <<>>
    BY <1>5, OnlyNone DEF Binding, b
  <2>3. \A k \in DOMAIN e.val : e.val[k] # "agent"
    BY <1>5 DEF PlainOptions, Options, ToSet
  <2>4. e.val \in Seq(STRING) /\ n \in Nat
    BY DEF Entries
  <2>5. /\ DOMAIN f.val = 1..n + 1
        /\ \A k \in 1..n : f.val[k] = e.val[k]
        /\ f.val[n + 1] = "agent"
    BY <2>1, <2>4
  <2>6. \A k \in 1..n : f.val[k] # "agent"
    BY <2>3, <2>4, <2>5
  <2>7. {k \in DOMAIN f.val : f.val[k] = "agent"} = {n + 1}
    BY <2>4, <2>5, <2>6
  <2> HIDE DEF f, n
  <2>8. Binding(Append(s, f), Options) = <<f>>
    <3>1. Append(b, f) = <<f>>
      BY <2>2
    <3>2. QED
      BY <1>2, <2>1, <3>1
  <2>9. DOMAIN <<f>> = {1} /\ <<f>>[1] = f
    OBVIOUS
  <2>10. AgentOptions(Append(s, f)) = {<<1, n + 1>>}
    <3> DEFINE g == <<f>>
    <3> HIDE DEF g
    <3>1. DOMAIN g = {1} /\ g[1] = f /\ Binding(Append(s, f), Options) = g
      BY <2>8, <2>9 DEF g
    <3>2. AgentOptions(Append(s, f))
            = UNION {{<<i, k>> : k \in {k \in DOMAIN g[i].val : g[i].val[k] = "agent"}} : i \in DOMAIN g}
      BY <1>3, <3>1 DEF LoadedAt
    <3>3. @ = UNION {{<<1, k>> : k \in {n + 1}}}
      BY <2>7, <3>1
    <3>4. QED
      BY <3>2, <3>3
  <2>11. QED
    BY <2>10 DEF f
<1>6. QED
  BY <1>4, <1>5

LEMMA ValidSeqs == Seq(ValidEntries) \subseteq Seq(Entries)
<1>1. ValidEntries \subseteq Entries
  BY DEF ValidEntries
<1>2. \A x \in Seq(ValidEntries) : x \in Seq(Entries)
  BY <1>1
<1>3. QED
  BY <1>2

\* Java loads the agent once: the option is added where the options are, once.
LEMMA OptionsOnce ==
    ASSUME NEW s \in Seq(PlainEntries)
    PROVE  \E o : AgentOptions(JavaToolOptions(s)) = {o}
<1>0. \A u \in Seq(PlainEntries) : /\ u \in Seq(Entries) /\ u \in Seq(ValidEntries)
                                   /\ \A e \in ToSet(u) : PlainOptions(e)
  BY DEF PlainEntries, ValidEntries, ToSet
<1>1. \A u \in Seq(PlainEntries) : JavaToolOptions(u) \in Seq(Entries)
  <2>1. \A u \in Seq(PlainEntries) : JavaToolOptions(u) \in Seq(ValidEntries)
    BY <1>0, JavaToolOptionsTyped
  <2>2. QED
    BY <2>1, ValidSeqs
<1> DEFINE T == {u \in Seq(PlainEntries) :
                   Options \in Names(u) => \E o : AgentOptions(JavaToolOptions(u)) = {o}}
<1>2. <<>> \in T
  BY NoName
<1>3. ASSUME NEW u \in Seq(PlainEntries), u \in T, NEW e \in PlainEntries
      PROVE  Append(u, e) \in T
  <2>1. u \in Seq(Entries) /\ e \in Entries /\ PlainOptions(e) /\ JavaToolOptions(u) \in Seq(Entries)
    BY <1>0, <1>1 DEF PlainEntries, ValidEntries
  <2>2. Names(Append(u, e)) = Names(u) \cup {e.name}
    BY AppendNames
  <2>7. Append(u, e) \in Seq(PlainEntries)
    OBVIOUS
  <2>3. CASE Options \in Names(u)
    <3>1. JavaToolOptions(Append(u, e)) = Append(JavaToolOptions(u), e)
      BY <2>1, <2>3, JavaToolOptionsAppend
    <3>2. AgentOptions(Append(JavaToolOptions(u), e)) = AgentOptions(JavaToolOptions(u))
      BY <2>1, AgentOptionsAppend
    <3>3. \E o : AgentOptions(JavaToolOptions(u)) = {o}
      BY <1>3, <2>3
    <3>4. \E o : AgentOptions(JavaToolOptions(Append(u, e))) = {o}
      BY <3>1, <3>2, <3>3
    <3>5. QED
      BY <2>1, <2>7, <3>4
  <2>4. CASE Options \notin Names(u) /\ e.name = Options
    <3>1. JavaToolOptions(Append(u, e)) = Append(u, WithAgent(e))
      BY <2>1, <2>4, JavaToolOptionsAppend
    <3>2. \E o : AgentOptions(Append(u, WithAgent(e))) = {o}
      BY <2>1, <2>4, AgentOptionsAppend
    <3>3. \E o : AgentOptions(JavaToolOptions(Append(u, e))) = {o}
      BY <3>1, <3>2
    <3>4. QED
      BY <2>7, <3>3
  <2>5. CASE Options \notin Names(u) /\ e.name # Options
    BY <2>2, <2>5, <2>7
  <2>6. QED
    BY <2>3, <2>4, <2>5
<1>4. Seq(PlainEntries) \subseteq T
  <2> HIDE DEF T
  <2>1. QED
    BY <1>2, <1>3, SetOfSeqs
<1>5. CASE Options \in Names(s)
  BY <1>4, <1>5
<1>6. CASE Options \notin Names(s)
  <2> DEFINE v == Var(Options, <<>>)
  <2>1. Var(Options, <<"agent">>) = WithAgent(v)
    <3>1. ASSUME NEW w
          PROVE  WithAgent(Var(Options, w)) = Var(Options, Append(w, "agent"))
      <4>1. PICK e : e = Var(Options, w)
        OBVIOUS
      <4>2. PICK x : x = Append(w, "agent")
        OBVIOUS
      <4>3. e = [name |-> Options, val |-> w, ref |-> FALSE]
        BY <4>1 DEF Var
      <4>4. WithAgent(e) = [e EXCEPT !.val = x]
        BY <4>2, <4>3 DEF WithAgent
      <4>5. [e EXCEPT !.val = x] = [name |-> Options, val |-> x, ref |-> FALSE]
        <5>1. \A n, r : e = [name |-> n, val |-> w, ref |-> r]
                         => [e EXCEPT !.val = x] = [name |-> n, val |-> x, ref |-> r]
          OBVIOUS
        <5>2. QED
          BY <4>3, <5>1, Zenon
      <4>6. QED
        BY <4>1, <4>2, <4>4, <4>5 DEF Var
    <3>2. Append(<<>>, "agent") = <<"agent">>
      OBVIOUS
    <3>3. WithAgent(Var(Options, <<>>)) = Var(Options, Append(<<>>, "agent"))
      BY <3>1, Zenon
    <3>4. QED
      BY <3>2, <3>3, Zenon
  <2>2. v \in Entries /\ v.name = Options /\ PlainOptions(v)
    <3>1. Options \in STRING /\ <<>> \in Seq(STRING)
      BY StringsAssumption DEF Options
    <3>2. v \in ValidEntries
      BY <3>1, VarTyped
    <3>3. v.name = Options /\ v.val = <<>> /\ v.ref = FALSE
      BY DEF Var
    <3>4. QED
      BY <3>2, <3>3, NoElement DEF ValidEntries, PlainOptions
  <2>3. JavaToolOptions(s) = Append(s, WithAgent(v))
    BY <1>6, <2>1 DEF JavaToolOptions, Options
  <2> HIDE DEF v
  <2>4. \E o : AgentOptions(Append(s, WithAgent(v))) = {o}
    BY <1>0, <1>6, <2>2, AgentOptionsAppend
  <2>5. QED
    BY <2>3, <2>4
<1>7. QED
  BY <1>5, <1>6

-----------------------------------------------------------------------------
(***************************************************************************)
(* What the language injectors return.                                     *)
(***************************************************************************)
LEMMA InjectJavaFacts ==
    ASSUME NEW t, ProperTarget(t), t.lang = "java", NEW env \in Seq(PlainEntries)
    PROVE  /\ InjectJava(env, t) \in Seq(ValidEntries)
           /\ Names(env) \cup Names(Connection(t)) \cup {Options} \subseteq Names(InjectJava(env, t))
           /\ \A K : K \subseteq Names(Connection(t))
                       => Only(InjectJava(env, t), K) = Only(Connection(t), K)
           /\ \A K : K \cap Names(Connection(t)) = {} /\ K \subseteq Names(env) \cup {Options}
                       => Only(InjectJava(env, t), K) = Only(JavaToolOptions(env), K)
<1> DEFINE J == JavaToolOptions(env)
           C == Connection(t)
           p == <<Var(PathName.java, <<"jar">>)>>
           M == Merge(J, p)
           R == Upsert(M, C)
<1>1. J \in Seq(ValidEntries) /\ Names(J) = Names(env) \cup {Options}
  <2>1. env \in Seq(ValidEntries) /\ \A e \in ToSet(env) : PlainOptions(e)
    BY DEF PlainEntries, ToSet
  <2>2. QED
    BY <2>1, JavaToolOptionsTyped
<1>2. C \in Seq(ValidEntries)
  <2>1. t.lang \in DOMAIN HostName
    BY NamesByLanguage
  <2>2. QED
    BY <2>1, ConnectionFacts
<1>3. p \in Seq(ValidEntries)
  <2>1. PathName.java \in STRING /\ <<"jar">> \in Seq(STRING)
    BY StringsAssumption DEF PathName
  <2>2. Var(PathName.java, <<"jar">>) \in ValidEntries
    BY <2>1, VarTyped
  <2>3. QED
    BY <2>2
<1>4. InjectJava(env, t) = R
  BY DEF InjectJava
<1> HIDE DEF J, C, p
<1>5. M \in Seq(ValidEntries) /\ Names(J) \subseteq Names(M)
  BY <1>1, <1>3, MergeTyped
<1> HIDE DEF M
<1>6. R \in Seq(ValidEntries) /\ Names(R) = Names(M) \cup Names(C)
  BY <1>2, <1>5, UpsertTyped
<1>7. ASSUME NEW K, K \subseteq Names(C)
      PROVE  Only(R, K) = Only(C, K)
  BY <1>2, <1>5, <1>7, OnlyUpsert
<1>8. ASSUME NEW K, K \cap Names(C) = {}, K \subseteq Names(env) \cup {Options}
      PROVE  Only(R, K) = Only(J, K)
  <2>1. Only(R, K) = Only(M, K)
    BY <1>2, <1>5, <1>8, OnlyUpsert
  <2>2. Only(M, K) = Only(J, K)
    BY <1>1, <1>3, <1>8, OnlyMerge DEF M
  <2>3. QED
    BY <2>1, <2>2
<1> HIDE DEF R
<1>9. QED
  BY <1>1, <1>4, <1>5, <1>6, <1>7, <1>8 DEF J, C

LEMMA AppNameTyped ==
    ASSUME NEW envs \in Seq(Entries)
    PROVE  AppName(envs) \in Seq(STRING)
<1> DEFINE g == Binding(envs, "app_name")
<1>1. g \in Seq(Entries)
  BY BindingElements
<1>2. AppName(envs) = IF g = <<>> THEN <<>> ELSE Last(g).val
  BY DEF AppName
<1> HIDE DEF g
<1>3. g # <<>> => Last(g) \in Entries
  BY <1>1 DEF Last
<1>4. <<>> \in Seq(STRING)
  OBVIOUS
<1>5. QED
  BY <1>2, <1>3, <1>4 DEF Entries

\* The entries for a Python or Node.js container c.
Scripted(t, c) ==
    Connection(t)
      \o <<Var("app_name", IF AppName(t.envs) = <<>> THEN <<c>> ELSE AppName(t.envs)),
           Var("WHATAP_HOME", <<"home">>)>>
      \o SearchEntries(t.lang) \o <<Var(PathName[t.lang], <<"path">>)>>

LEMMA SearchEntriesTyped ==
    ASSUME NEW lang \in DOMAIN SearchNames
    PROVE  /\ SearchEntries(lang) \in Seq(ValidEntries)
           /\ Names(SearchEntries(lang)) \subseteq {"PYTHONPATH", "NODE_PATH", "NODE_OPTIONS"}
<1>1. PICK n : n = SearchNames[lang]
  OBVIOUS
<1>2. n \in Seq({"PYTHONPATH", "NODE_PATH", "NODE_OPTIONS"})
  <2>1. lang \in {"python", "nodejs"}
    BY NamesByLanguage
  <2>2. n = <<"PYTHONPATH">> \/ n = <<"NODE_PATH", "NODE_OPTIONS">>
    BY <1>1, <2>1, NamesByLanguage
  <2>3. /\ <<"PYTHONPATH">> \in Seq({"PYTHONPATH", "NODE_PATH", "NODE_OPTIONS"})
        /\ <<"NODE_PATH", "NODE_OPTIONS">> \in Seq({"PYTHONPATH", "NODE_PATH", "NODE_OPTIONS"})
    OBVIOUS
  <2>4. QED
    BY <2>2, <2>3, Zenon
<1>3. SearchEntries(lang) = [i \in DOMAIN n |-> Var(n[i], <<"agent">>)]
  BY <1>1 DEF SearchEntries
<1>4. \A i \in DOMAIN n : n[i] \in STRING /\ n[i] \in {"PYTHONPATH", "NODE_PATH", "NODE_OPTIONS"}
  BY <1>2, StringsAssumption
<1>5. \A i \in DOMAIN n : Var(n[i], <<"agent">>) \in ValidEntries
  <2>1. <<"agent">> \in Seq(STRING)
    BY StringsAssumption
  <2>2. QED
    BY <1>4, <2>1, VarTyped
<1> DEFINE s == [i \in DOMAIN n |-> Var(n[i], <<"agent">>)]
<1>6. s \in Seq(ValidEntries)
  <2>1. Len(n) \in Nat /\ DOMAIN n = 1..Len(n)
    BY <1>2
  <2>2. \A i \in 1..Len(n) : Var(n[i], <<"agent">>) \in ValidEntries
    BY <1>5, <2>1
  <2>3. [i \in 1..Len(n) |-> Var(n[i], <<"agent">>)] \in Seq(ValidEntries)
    BY <2>1, <2>2
  <2>4. QED
    BY <2>1, <2>3
<1>7. \A e \in ToSet(s) : e.name \in {"PYTHONPATH", "NODE_PATH", "NODE_OPTIONS"}
  BY <1>4 DEF ToSet, Var
<1>8. QED
  BY <1>3, <1>6, <1>7 DEF Names

LEMMA ScriptedFacts ==
    ASSUME NEW t, ProperTarget(t), t.lang \in DOMAIN SearchNames, NEW c \in STRING
    PROVE  /\ Scripted(t, c) \in Seq(ValidEntries)
           /\ Names(Connection(t)) \subseteq Names(Scripted(t, c))
           /\ \A K : K \subseteq {LicenseName[t.lang], HostName[t.lang]}
                       => Only(Scripted(t, c), K) = Only(Connection(t), K)
<1>1. t.lang \in {"python", "nodejs"} /\ t.lang \in DOMAIN HostName
  BY NamesByLanguage
<1>2. PICK name : name = IF AppName(t.envs) = <<>> THEN <<c>> ELSE AppName(t.envs)
  OBVIOUS
<1>3. name \in Seq(STRING)
  <2>1. AppName(t.envs) \in Seq(STRING)
    BY AppNameTyped DEF ProperTarget
  <2>2. <<c>> \in Seq(STRING)
    OBVIOUS
  <2>3. QED
    BY <1>2, <2>1, <2>2
<1>4. PICK C : C = Connection(t)
  OBVIOUS
<1>5. PICK A : A = <<Var("app_name", name), Var("WHATAP_HOME", <<"home">>)>>
  OBVIOUS
<1>6. PICK E : E = SearchEntries(t.lang)
  OBVIOUS
<1>7. PICK P : P = <<Var(PathName[t.lang], <<"path">>)>>
  OBVIOUS
<1>8. Scripted(t, c) = ((C \o A) \o E) \o P
  BY <1>2, <1>4, <1>5, <1>6, <1>7, Zenon DEF Scripted
<1>9. C \in Seq(ValidEntries)
  BY <1>1, <1>4, ConnectionFacts
<1>10. A \in Seq(ValidEntries) /\ Names(A) = {"app_name", "WHATAP_HOME"}
  <2>1. PICK x : x = Var("app_name", name)
    OBVIOUS
  <2>2. PICK y : y = Var("WHATAP_HOME", <<"home">>)
    OBVIOUS
  <2>3. x \in ValidEntries /\ x.name = "app_name"
    <3>1. "app_name" \in STRING
      BY StringsAssumption
    <3>2. x \in ValidEntries
      BY <1>3, <2>1, <3>1, VarTyped
    <3>3. QED
      BY <2>1, <3>2 DEF Var
  <2>4. y \in ValidEntries /\ y.name = "WHATAP_HOME"
    <3>1. "WHATAP_HOME" \in STRING /\ <<"home">> \in Seq(STRING)
      BY StringsAssumption
    <3>2. y \in ValidEntries
      BY <2>2, <3>1, VarTyped
    <3>3. QED
      BY <2>2, <3>2 DEF Var
  <2>5. A = <<x, y>>
    BY <1>5, <2>1, <2>2, Zenon
  <2>6. A \in Seq(ValidEntries) /\ ToSet(A) = {x, y}
    BY <2>3, <2>4, <2>5 DEF ToSet
  <2>7. QED
    BY <2>3, <2>4, <2>6 DEF Names
<1>11. E \in Seq(ValidEntries) /\ Names(E) \subseteq {"PYTHONPATH", "NODE_PATH", "NODE_OPTIONS"}
  BY <1>6, SearchEntriesTyped
<1>12. P \in Seq(ValidEntries) /\ Names(P) = {PathName[t.lang]}
  <2>1. PICK x : x = Var(PathName[t.lang], <<"path">>)
    OBVIOUS
  <2>2. PathName[t.lang] \in STRING /\ <<"path">> \in Seq(STRING)
    BY <1>1, NamesByLanguage, StringsAssumption
  <2>3. x \in ValidEntries
    BY <2>1, <2>2, VarTyped
  <2>4. x.name = PathName[t.lang]
    BY <2>1 DEF Var
  <2>5. P = <<x>>
    BY <1>7, <2>1, Zenon
  <2>6. P \in Seq(ValidEntries)
    BY <2>3, <2>5
  <2>7. Names(P) = {x.name}
    BY <2>5, OneName
  <2>8. QED
    BY <2>4, <2>6, <2>7
<1>13. PICK CA : CA = C \o A
  OBVIOUS
<1>14. PICK CE : CE = CA \o E
  OBVIOUS
<1>15. CA \in Seq(ValidEntries) /\ Names(CA) = Names(C) \cup Names(A)
  BY <1>9, <1>10, <1>13, ConcatNames
<1>16. CE \in Seq(ValidEntries) /\ Names(CE) = Names(CA) \cup Names(E)
  BY <1>11, <1>14, <1>15, ConcatNames
<1>17. Scripted(t, c) = CE \o P
  BY <1>8, <1>13, <1>14
<1>18. Scripted(t, c) \in Seq(ValidEntries) /\ Names(C) \subseteq Names(Scripted(t, c))
  BY <1>12, <1>15, <1>16, <1>17, ConcatNames
<1>19. ASSUME NEW K, K \subseteq {LicenseName[t.lang], HostName[t.lang]}
       PROVE  Only(Scripted(t, c), K) = Only(C, K)
  <2>1. Names(A) \cap K = {} /\ Names(E) \cap K = {} /\ Names(P) \cap K = {}
    BY <1>1, <1>10, <1>11, <1>12, <1>19, NamesByLanguage
  <2>2. Only(A, K) = <<>> /\ Only(E, K) = <<>> /\ Only(P, K) = <<>>
    BY <1>10, <1>11, <1>12, <2>1, OnlyNone
  <2>3. Only(CE \o P, K) = Only(CE, K) \o Only(P, K)
    BY <1>12, <1>16, OnlyConcat
  <2>4. Only(CA \o E, K) = Only(CA, K) \o Only(E, K)
    BY <1>11, <1>15, OnlyConcat
  <2>5. Only(C \o A, K) = Only(C, K) \o Only(A, K)
    BY <1>9, <1>10, OnlyConcat
  <2>6. PICK k \in Seq(ValidEntries) : k = Only(C, K)
    BY <1>9, OnlyElements
  <2>7. k \o <<>> = k
    OBVIOUS
  <2>8. Only(C \o A, K) = k
    BY <2>2, <2>5, <2>6, <2>7
  <2>9. Only(CA \o E, K) = k
    BY <1>13, <2>2, <2>4, <2>7, <2>8
  <2>10. Only(CE \o P, K) = k
    BY <1>14, <2>2, <2>3, <2>7, <2>9
  <2>11. QED
    BY <1>17, <2>6, <2>10
<1>20. QED
  BY <1>4, <1>18, <1>19

LEMMA ManagedKept ==
    /\ Options \in ManagedNames
    /\ \A l \in DOMAIN HostName : LicenseName[l] \in ManagedNames /\ HostName[l] \in ManagedNames
<1>1. Options \in ManagedNames
  <2> DEFINE X == UNION {{LicenseName[l], HostName[l], PathName[l]} : l \in DOMAIN LicenseName}
             Y == {"WHATAP_HOST", "NODE_IP", "whatap.micro.enabled", "WHATAP_HOME",
                   "JAVA_TOOL_OPTIONS", "PYTHONPATH", "NODE_PATH", "NODE_OPTIONS", "app_name"}
  <2>1. ManagedNames = X \cup Y
    BY DEF ManagedNames
  <2>2. Options \in Y
    BY DEF Options
  <2> HIDE DEF X, Y
  <2>3. QED
    BY <2>1, <2>2
<1>2. ASSUME NEW l \in DOMAIN HostName
      PROVE  LicenseName[l] \in ManagedNames /\ HostName[l] \in ManagedNames
  <2>1. l \in DOMAIN LicenseName
    BY NamesByLanguage
  <2>2. {LicenseName[l], HostName[l], PathName[l]} \subseteq ManagedNames
    BY <2>1 DEF ManagedNames
  <2>3. QED
    BY <2>2
<1>3. QED
  BY <1>1, <1>2

\* What injectLanguageSpecificEnvVars starts from.
Start(env, t) == IF t.lang = "java" THEN JavaToolOptions(env) ELSE env

\* Its result before the target's own entries are merged in.
Own(env, t, c) ==
    IF t.lang = "java" THEN InjectJava(env, t)
    ELSE IF t.lang \in DOMAIN SearchNames THEN InjectScripted(env, t, c)
    ELSE env

LEMMA OwnFacts ==
    ASSUME NEW t, ProperTarget(t), NEW c \in STRING, NEW env \in Seq(PlainEntries)
    PROVE  /\ Own(env, t, c) \in Seq(ValidEntries)
           /\ Names(env) \subseteq Names(Own(env, t, c))
           /\ t.lang = "java" => Options \in Names(Own(env, t, c))
           /\ t.lang = "java" => Binding(Own(env, t, c), Options) = Binding(JavaToolOptions(env), Options)
           /\ t.lang \in DOMAIN HostName
                => \A n \in {LicenseName[t.lang], HostName[t.lang]} :
                     n \in Names(Own(env, t, c)) /\ Binding(Own(env, t, c), n) = Binding(Connection(t), n)
           /\ \A K : K \subseteq Names(env) \ Claimed(t)
                       => Only(Own(env, t, c), K) = Only(Start(env, t), K)
<1> DEFINE r == Own(env, t, c)
<1>1. env \in Seq(ValidEntries)
  BY DEF PlainEntries
<1>2. CASE t.lang = "java"
  <2>1. t.lang \in DOMAIN HostName
    BY <1>2, NamesByLanguage
  <2>2. r = InjectJava(env, t) /\ Start(env, t) = JavaToolOptions(env)
    BY <1>2 DEF Own, Start
  <2> HIDE DEF r
  <2>3. /\ r \in Seq(ValidEntries)
        /\ Names(env) \cup Names(Connection(t)) \cup {Options} \subseteq Names(r)
        /\ \A K : K \subseteq Names(Connection(t)) => Only(r, K) = Only(Connection(t), K)
        /\ \A K : K \cap Names(Connection(t)) = {} /\ K \subseteq Names(env) \cup {Options}
                    => Only(r, K) = Only(JavaToolOptions(env), K)
    BY <1>2, <2>2, InjectJavaFacts
  <2>4. Names(Connection(t)) = {LicenseName[t.lang], HostName[t.lang], "whatap.micro.enabled", "NODE_IP"}
    BY <2>1, ConnectionFacts
  <2>5. Binding(r, Options) = Binding(JavaToolOptions(env), Options)
    <3>1. Options \notin Names(Connection(t))
      BY <1>2, <2>4, NamesByLanguage DEF Options
    <3>2. QED
      BY <2>3, <3>1 DEF Binding
  <2>6. ASSUME NEW n \in {LicenseName[t.lang], HostName[t.lang]}
        PROVE  n \in Names(r) /\ Binding(r, n) = Binding(Connection(t), n)
    BY <2>3, <2>4 DEF Binding
  <2>7. ASSUME NEW K, K \subseteq Names(env) \ Claimed(t)
        PROVE  Only(r, K) = Only(Start(env, t), K)
    <3>1. ForceEnvNames(t.lang) \subseteq Claimed(t)
      BY <2>1 DEF Claimed
    <3>2. Names(Connection(t)) \subseteq ForceEnvNames(t.lang)
      BY <2>4 DEF ForceEnvNames
    <3>3. K \cap Names(Connection(t)) = {} /\ K \subseteq Names(env) \cup {Options}
      BY <2>7, <3>1, <3>2
    <3>4. QED
      BY <2>2, <2>3, <3>3
  <2>8. QED
    BY <2>3, <2>5, <2>6, <2>7 DEF r
<1>3. CASE t.lang \in DOMAIN SearchNames
  <2> DEFINE F == ForceEnvNames(t.lang)
             x == Scripted(t, c)
  <2>1. t.lang \in DOMAIN HostName /\ t.lang # "java"
    BY <1>3, NamesByLanguage
  <2>2. r = Combine(env, x, F) /\ Start(env, t) = env
    BY <1>3, <2>1 DEF Own, Start, InjectScripted, Scripted
  <2> HIDE DEF r, x
  <2>3. /\ x \in Seq(ValidEntries)
        /\ Names(Connection(t)) \subseteq Names(x)
        /\ \A K : K \subseteq {LicenseName[t.lang], HostName[t.lang]}
                    => Only(x, K) = Only(Connection(t), K)
    BY <1>3, ScriptedFacts DEF x
  <2>4. Names(Connection(t)) = {LicenseName[t.lang], HostName[t.lang], "whatap.micro.enabled", "NODE_IP"}
    BY <2>1, ConnectionFacts
  <2>5. r \in Seq(ValidEntries) /\ Names(r) = Names(env) \cup Names(x)
    BY <1>1, <2>2, <2>3, CombineTyped
  <2>6. ASSUME NEW n \in {LicenseName[t.lang], HostName[t.lang]}
        PROVE  n \in Names(r) /\ Binding(r, n) = Binding(Connection(t), n)
    <3>1. {n} \subseteq Names(x) \cap F
      BY <2>3, <2>4 DEF ForceEnvNames
    <3>2. Only(r, {n}) = Only(x, {n})
      BY <1>1, <2>2, <2>3, <3>1, OnlyCombine
    <3>3. Only(x, {n}) = Only(Connection(t), {n})
      BY <2>3
    <3>4. QED
      BY <2>5, <3>1, <3>2, <3>3 DEF Binding
  <2>7. ASSUME NEW K, K \subseteq Names(env) \ Claimed(t)
        PROVE  Only(r, K) = Only(env, K)
    <3>1. F \subseteq Claimed(t)
      BY <2>1 DEF Claimed
    <3>2. K \subseteq Names(env) /\ K \cap (Names(x) \cap F) = {}
      BY <2>7, <3>1
    <3> HIDE DEF F
    <3>3. QED
      BY <1>1, <2>2, <2>3, <3>2, OnlyCombine
  <2>8. QED
    BY <2>1, <2>2, <2>5, <2>6, <2>7 DEF r
<1>4. CASE t.lang # "java" /\ t.lang \notin DOMAIN SearchNames
  <2>1. t.lang \notin DOMAIN HostName
    BY <1>4, NamesByLanguage
  <2>2. r = env /\ Start(env, t) = env
    BY <1>4 DEF Own, Start
  <2>3. QED
    BY <1>1, <1>4, <2>1, <2>2
<1>5. QED
  BY <1>2, <1>3, <1>4

LEMMA InjectEnvFacts ==
    ASSUME NEW t, ProperTarget(t), NEW c \in STRING, NEW env \in Seq(PlainEntries)
    PROVE  /\ InjectEnv(env, t, c) \in Seq(ValidEntries)
           /\ t.lang \in DOMAIN HostName
                => /\ Binding(InjectEnv(env, t, c), LicenseName[t.lang])
                        = <<Var(LicenseName[t.lang], License(t))>>
                   /\ Binding(InjectEnv(env, t, c), HostName[t.lang])
                        = <<Var(HostName[t.lang], Host(t))>>
           /\ t.lang = "java" => \E o : AgentOptions(InjectEnv(env, t, c)) = {o}
           /\ \A K : K \subseteq Names(env) \ Claimed(t)
                       => Only(InjectEnv(env, t, c), K) = Only(Start(env, t), K)
<1> DEFINE r == InjectEnv(env, t, c)
           own == Own(env, t, c)
           F == Names(t.envs) \ ManagedNames
<1>1. r = Combine(own, t.envs, F)
  BY DEF InjectEnv, Own
<1>2. t.envs \in Seq(ValidEntries)
  <2>1. t.envs \in Seq(Entries) /\ \A e \in ToSet(t.envs) : ValidEntry(e)
    BY DEF ProperTarget
  <2>2. \A i \in 1..Len(t.envs) : t.envs[i] \in ValidEntries
    BY <2>1 DEF ToSet, ValidEntries
  <2>3. QED
    BY <2>1, <2>2
<1> HIDE DEF r, own
<1>3. /\ own \in Seq(ValidEntries)
      /\ Names(env) \subseteq Names(own)
      /\ t.lang = "java" => Options \in Names(own)
      /\ t.lang = "java" => Binding(own, Options) = Binding(JavaToolOptions(env), Options)
      /\ t.lang \in DOMAIN HostName
           => \A n \in {LicenseName[t.lang], HostName[t.lang]} :
                n \in Names(own) /\ Binding(own, n) = Binding(Connection(t), n)
      /\ \A K : K \subseteq Names(env) \ Claimed(t) => Only(own, K) = Only(Start(env, t), K)
  BY OwnFacts DEF own
<1>4. r \in Seq(ValidEntries)
  BY <1>1, <1>2, <1>3, CombineTyped
<1>5. ASSUME NEW K, K \subseteq Names(own), K \cap F = {}
      PROVE  Only(r, K) = Only(own, K)
  <2>1. K \cap (Names(t.envs) \cap F) = {}
    BY <1>5
  <2> HIDE DEF F
  <2>2. QED
    BY <1>1, <1>2, <1>3, <1>5, <2>1, OnlyCombine
<1>6. ASSUME NEW n \in Names(own), n \in ManagedNames
      PROVE  Binding(r, n) = Binding(own, n)
  BY <1>5, <1>6 DEF Binding
<1>7. ASSUME t.lang \in DOMAIN HostName
      PROVE  /\ Binding(r, LicenseName[t.lang]) = <<Var(LicenseName[t.lang], License(t))>>
             /\ Binding(r, HostName[t.lang]) = <<Var(HostName[t.lang], Host(t))>>
  <2>1. ASSUME NEW n \in {LicenseName[t.lang], HostName[t.lang]}
        PROVE  Binding(r, n) = Binding(Connection(t), n)
    BY <1>3, <1>6, <1>7, ManagedKept
  <2>2. /\ Binding(Connection(t), LicenseName[t.lang]) = <<Var(LicenseName[t.lang], License(t))>>
        /\ Binding(Connection(t), HostName[t.lang]) = <<Var(HostName[t.lang], Host(t))>>
    BY <1>7, ConnectionFacts
  <2>3. QED
    BY <2>1, <2>2
<1>8. ASSUME t.lang = "java"
      PROVE  \E o : AgentOptions(r) = {o}
  <2>1. Binding(r, Options) = Binding(JavaToolOptions(env), Options)
    BY <1>3, <1>6, <1>8, ManagedKept
  <2>2. AgentOptions(r) = AgentOptions(JavaToolOptions(env))
    BY <2>1 DEF AgentOptions, Options
  <2>3. QED
    BY <2>2, OptionsOnce
<1>9. ASSUME NEW K, K \subseteq Names(env) \ Claimed(t)
      PROVE  Only(r, K) = Only(Start(env, t), K)
  <2>1. K \subseteq Names(own) /\ K \cap F = {}
    BY <1>3, <1>9 DEF Claimed
  <2>2. QED
    BY <1>3, <1>5, <1>9, <2>1
<1>10. QED
  BY <1>4, <1>7, <1>8, <1>9 DEF r

-----------------------------------------------------------------------------
(***************************************************************************)
(* Volumes, mounts, init containers and pull secrets.                      *)
(***************************************************************************)
NamedOnce(s) == \A i, j \in DOMAIN s : s[i].name = s[j].name => i = j

PathsOnce(s) == \A i, j \in DOMAIN s : s[i].path = s[j].path => i = j

Paths(s) == {m.path : m \in ToSet(s)}

LEMMA AppendNamedOnce ==
    ASSUME NEW S, NEW s \in Seq(S), NEW e \in S, NamedOnce(s), e.name \notin Names(s)
    PROVE  NamedOnce(Append(s, e))
<1> DEFINE a == Append(s, e)
<1>1. /\ Len(s) \in Nat /\ DOMAIN s = 1..Len(s) /\ DOMAIN a = 1..Len(s) + 1
      /\ \A i \in 1..Len(s) : a[i] = s[i]
      /\ a[Len(s) + 1] = e
  OBVIOUS
<1>2. \A i \in 1..Len(s) : s[i].name # e.name
  BY <1>1 DEF Names, ToSet
<1> HIDE DEF a
<1>3. NamedOnce(a)
  BY <1>1, <1>2 DEF NamedOnce
<1>4. QED
  BY <1>3 DEF a

LEMMA AppendPathsOnce ==
    ASSUME NEW S, NEW s \in Seq(S), NEW e \in S, PathsOnce(s), e.path \notin Paths(s)
    PROVE  PathsOnce(Append(s, e))
<1> DEFINE a == Append(s, e)
<1>1. /\ Len(s) \in Nat /\ DOMAIN s = 1..Len(s) /\ DOMAIN a = 1..Len(s) + 1
      /\ \A i \in 1..Len(s) : a[i] = s[i]
      /\ a[Len(s) + 1] = e
  OBVIOUS
<1>2. \A i \in 1..Len(s) : s[i].path # e.path
  BY <1>1 DEF Paths, ToSet
<1> HIDE DEF a
<1>3. PathsOnce(a)
  BY <1>1, <1>2 DEF PathsOnce
<1>4. QED
  BY <1>3 DEF a

LEMMA ResolveOne ==
    ASSUME NEW v, NEW d
    PROVE  Resolve(<<v>>, d) = IF v = Unset THEN d ELSE v
<1>1. PICK s : s = <<v>>
  OBVIOUS
<1>2. Len(s) = 1 /\ s[1] = v
  BY <1>1
<1> DEFINE I == {i \in 1..1 : s[i] # Unset}
           first == IF I # {} THEN Min(I) ELSE 0
<1>3. Resolve(s, d) = IF first = 0 THEN d ELSE s[first]
  BY <1>2 DEF Resolve, SelectInSeq
<1>4. CASE v = Unset
  <2>1. I = {}
    BY <1>2, <1>4
  <2>2. first = 0
    BY <2>1, Zenon
  <2> HIDE DEF first
  <2>3. QED
    BY <1>1, <1>3, <1>4, <2>2
<1>5. CASE v # Unset
  <2>1. I # {} /\ I \subseteq Nat /\ I \subseteq {1}
    BY <1>2, <1>5
  <2> HIDE DEF I
  <2>2. Min(I) \in I
    BY <2>1, MinIsLeast
  <2>3. first = 1
    BY <2>1, <2>2
  <2> HIDE DEF first
  <2>4. QED
    BY <1>1, <1>2, <1>3, <1>5, <2>3
<1>6. QED
  BY <1>4, <1>5

\* What InjectVolume makes of acc when it comes to v.
Injected(acc, v, r) ==
    /\ r.vols \in Seq(Volumes) /\ NamedOnce(r.vols)
    /\ ToSet(acc.vols) \subseteq ToSet(r.vols)
    /\ Names(r.vols) \subseteq Names(acc.vols) \cup {v.name}
    /\ r.mounts \in Seq(Mounts) /\ PathsOnce(r.mounts)
    /\ ToSet(acc.mounts) \subseteq ToSet(r.mounts)
    /\ Paths(r.mounts) \subseteq Paths(acc.mounts) \cup {v.path}
    /\ Names(r.mounts) \subseteq Names(acc.mounts) \cup Names(r.vols)
    /\ v.source = Unset \/ v.name \in Names(acc.vols) => r = acc
    /\ v.source # Unset /\ v.name \notin Names(acc.vols)
         => /\ [name |-> v.name, source |-> v.source] \in ToSet(r.vols)
            /\ [name |-> v.name, path |-> v.path] \in ToSet(r.mounts)
            /\ r.steps = Append(acc.steps, v.step)

LEMMA InjectVolumeFacts ==
    ASSUME NEW acc, acc.vols \in Seq(Volumes), acc.mounts \in Seq(Mounts),
           NamedOnce(acc.vols), PathsOnce(acc.mounts),
           NEW v, v.name \in STRING, v.path \in STRING, v.source \in STRING \cup {Unset},
           v.path \notin Paths(acc.mounts)
    PROVE  Injected(acc, v, InjectVolume(acc, v))
<1> DEFINE r == InjectVolume(acc, v)
<1>1. CASE v.source = Unset \/ v.name \in Names(acc.vols)
  <2>1. r = acc
    BY <1>1 DEF InjectVolume
  <2>2. QED
    BY <1>1, <2>1 DEF Injected
<1>2. CASE v.source # Unset /\ v.name \notin Names(acc.vols)
  <2> DEFINE x == [name |-> v.name, source |-> v.source]
             m == [name |-> v.name, path |-> v.path]
  <2>1. r.vols = Append(acc.vols, x) /\ r.mounts = Append(acc.mounts, m) /\ r.steps = Append(acc.steps, v.step)
    BY <1>2 DEF InjectVolume, AddVolume
  <2>2. x \in Volumes /\ x.name = v.name /\ m \in Mounts /\ m.name = v.name /\ m.path = v.path
    BY <1>2 DEF Volumes, Mounts
  <2> HIDE DEF r, x, m
  <2>3. r.vols \in Seq(Volumes) /\ NamedOnce(r.vols)
    BY <1>2, <2>1, <2>2, AppendNamedOnce
  <2>4. ToSet(r.vols) = ToSet(acc.vols) \cup {x} /\ Names(r.vols) = Names(acc.vols) \cup {v.name}
    BY <2>1, <2>2, AppendElements, AppendNames
  <2>5. r.mounts \in Seq(Mounts) /\ PathsOnce(r.mounts)
    BY <2>1, <2>2, AppendPathsOnce
  <2>6. ToSet(r.mounts) = ToSet(acc.mounts) \cup {m} /\ Names(r.mounts) = Names(acc.mounts) \cup {v.name}
    BY <2>1, <2>2, AppendElements, AppendNames
  <2>7. Paths(r.mounts) = Paths(acc.mounts) \cup {v.path}
    BY <2>2, <2>6 DEF Paths
  <2>8. QED
    <3>1. x \in ToSet(r.vols) /\ m \in ToSet(r.mounts)
      BY <2>4, <2>6
    <3>2. Injected(acc, v, r)
      BY <1>2, <2>1, <2>3, <2>4, <2>5, <2>6, <2>7, <3>1 DEF Injected, x, m
    <3>3. QED
      BY <3>2 DEF r
<1>3. QED
  BY <1>1, <1>2

\* The steps of patchPodTemplateSpec that add volumes.
Bare(p) == [vols |-> p.vols, mounts |-> <<AgentMount>>, steps |-> <<>>]

WithConfig(p, t) == InjectVolume(Bare(p), ConfigVolume(t))

WithPlugin(p, t) == InjectVolume(WithConfig(p, t), PluginVolume(t))

NewInit(p, t, w) == InitContainer(t, w, WithPlugin(p, t).mounts, WithPlugin(p, t).steps)

LEMMA ConfigVolumeFacts ==
    ASSUME NEW t, ProperTarget(t)
    PROVE  /\ ConfigVolume(t).name \in STRING /\ ConfigVolume(t).path \in STRING
           /\ ConfigVolume(t).source \in STRING \cup {Unset} /\ ConfigVolume(t).step = "config"
           /\ ConfigVolume(t).name \notin {"whatap-agent-volume", "whatap-plugin-volume"}
           /\ ConfigVolume(t).path \notin {"/whatap-agent", "/whatap-plugin"}
<1>1. /\ t.config \in STRING \cup {Unset} /\ t.volumeName \in STRING \cup {Unset}
      /\ t.mountPath \in STRING \cup {Unset}
      /\ t.volumeName \notin {"whatap-agent-volume", "whatap-plugin-volume"}
      /\ t.mountPath \notin {"/whatap-agent", "/whatap-plugin"}
  <2>1. {t.version, t.config, t.plugin, t.volumeName, t.mountPath} \subseteq STRING \cup {Unset}
    BY DEF ProperTarget
  <2>2. /\ t.volumeName \notin {AgentVolume.name, "whatap-plugin-volume"}
        /\ t.mountPath \notin {AgentMount.path, "/whatap-plugin"}
    BY DEF ProperTarget
  <2>3. AgentVolume.name = "whatap-agent-volume" /\ AgentMount.path = "/whatap-agent"
    BY DEF AgentVolume, AgentMount
  <2>4. QED
    BY <2>1, <2>2, <2>3
<1>2. "config-volume" \in STRING /\ "/config-volume" \in STRING
  BY StringsAssumption
<1>3. /\ ConfigVolume(t).name = Resolve(<<t.volumeName>>, "config-volume")
      /\ ConfigVolume(t).path = Resolve(<<t.mountPath>>, "/config-volume")
      /\ ConfigVolume(t).source = t.config /\ ConfigVolume(t).step = "config"
  BY DEF ConfigVolume
<1>4. /\ Resolve(<<t.volumeName>>, "config-volume")
           = IF t.volumeName = Unset THEN "config-volume" ELSE t.volumeName
      /\ Resolve(<<t.mountPath>>, "/config-volume")
           = IF t.mountPath = Unset THEN "/config-volume" ELSE t.mountPath
  BY ResolveOne
<1>5. QED
  BY <1>1, <1>2, <1>3, <1>4

LEMMA PluginVolumeFacts ==
    ASSUME NEW t, ProperTarget(t)
    PROVE  /\ PluginVolume(t).name = "whatap-plugin-volume" /\ PluginVolume(t).path = "/whatap-plugin"
           /\ PluginVolume(t).name \in STRING /\ PluginVolume(t).path \in STRING
           /\ PluginVolume(t).source \in STRING \cup {Unset} /\ PluginVolume(t).step = "plugin"
<1>1. {t.version, t.config, t.plugin, t.volumeName, t.mountPath} \subseteq STRING \cup {Unset}
  BY DEF ProperTarget
<1>2. "whatap-plugin-volume" \in STRING /\ "/whatap-plugin" \in STRING
  BY StringsAssumption
<1>3. QED
  BY <1>1, <1>2 DEF PluginVolume

LEMMA BareFacts ==
    ASSUME NEW p
    PROVE  /\ Bare(p).vols = p.vols /\ Bare(p).mounts = <<AgentMount>> /\ Bare(p).steps = <<>>
           /\ Bare(p).mounts \in Seq(Mounts) /\ PathsOnce(Bare(p).mounts)
           /\ ToSet(Bare(p).mounts) = {AgentMount}
           /\ Paths(Bare(p).mounts) = {"/whatap-agent"}
           /\ Names(Bare(p).mounts) = {"whatap-agent-volume"}
<1>1. AgentMount \in Mounts
  BY StringsAssumption DEF AgentMount, Mounts
<1>2. PICK m : m = AgentMount
  OBVIOUS
<1>3. m.path = "/whatap-agent" /\ m.name = "whatap-agent-volume"
  BY <1>2 DEF AgentMount
<1>4. <<m>> \in Seq(Mounts) /\ PathsOnce(<<m>>)
  BY <1>1, <1>2 DEF PathsOnce
<1>5. ToSet(<<m>>) = {m} /\ Names(<<m>>) = {m.name}
  BY OneElement, OneName
<1>6. Paths(<<m>>) = {"/whatap-agent"}
  BY <1>3, <1>5 DEF Paths
<1>7. QED
  BY <1>2, <1>3, <1>4, <1>5, <1>6 DEF Bare

\* What the volumes are before and after: typed, named once, and never the
\* agent's own, which is still to be added; what is mounted exists.
VolumesFine(p, x) ==
    /\ x.vols \in Seq(Volumes) /\ NamedOnce(x.vols)
    /\ ToSet(p.vols) \subseteq ToSet(x.vols)
    /\ "whatap-agent-volume" \notin Names(x.vols)
    /\ x.mounts \in Seq(Mounts) /\ PathsOnce(x.mounts)
    /\ Names(x.mounts) \subseteq Names(x.vols) \cup {"whatap-agent-volume"}

LEMMA NamesGrow == ASSUME NEW s, NEW u, ToSet(s) \subseteq ToSet(u) PROVE Names(s) \subseteq Names(u)
BY DEF Names

LEMMA WithConfigFacts ==
    ASSUME NEW p, NEW t, ProperTarget(t), p.vols \in Seq(Volumes), NamedOnce(p.vols),
           "whatap-agent-volume" \notin Names(p.vols)
    PROVE  LET x == WithConfig(p, t)
               v == ConfigVolume(t)
           IN  /\ VolumesFine(p, x)
               /\ Paths(x.mounts) \subseteq {"/whatap-agent", v.path}
               /\ Names(x.vols) \subseteq Names(p.vols) \cup {v.name}
               /\ v.source = Unset \/ v.name \in Names(p.vols) => x.steps = <<>>
               /\ v.source # Unset /\ v.name \notin Names(p.vols)
                    => /\ [name |-> v.name, source |-> v.source] \in ToSet(x.vols)
                       /\ [name |-> v.name, path |-> v.path] \in ToSet(x.mounts)
                       /\ x.steps = <<"config">>
<1> DEFINE b == Bare(p)
           x == WithConfig(p, t)
           v == ConfigVolume(t)
<1>1. /\ b.vols = p.vols /\ b.steps = <<>>
      /\ b.mounts \in Seq(Mounts) /\ PathsOnce(b.mounts)
      /\ Paths(b.mounts) = {"/whatap-agent"}
      /\ Names(b.mounts) = {"whatap-agent-volume"}
  BY BareFacts
<1>2. /\ v.name \in STRING /\ v.path \in STRING /\ v.source \in STRING \cup {Unset} /\ v.step = "config"
      /\ v.name # "whatap-agent-volume" /\ v.path # "/whatap-agent"
  BY ConfigVolumeFacts
<1>3. x = InjectVolume(b, v)
  BY DEF WithConfig
<1> HIDE DEF b, v, x
<1>4. Injected(b, v, x)
  <2>1. b.vols \in Seq(Volumes) /\ NamedOnce(b.vols) /\ v.path \notin Paths(b.mounts)
    BY <1>1, <1>2
  <2>2. Injected(b, v, InjectVolume(b, v))
    BY <1>1, <1>2, <2>1, InjectVolumeFacts
  <2>3. QED
    BY <1>3, <2>2
<1>5. VolumesFine(p, x)
  BY <1>1, <1>2, <1>4 DEF VolumesFine, Injected
<1>6. Append(<<>>, "config") = <<"config">>
  OBVIOUS
<1>7. v.source # Unset /\ v.name \notin Names(p.vols) => x.steps = <<"config">>
  BY <1>1, <1>2, <1>4, <1>6, Zenon DEF Injected
<1>8. QED
  BY <1>1, <1>4, <1>5, <1>7 DEF x, v, Injected

LEMMA WithPluginFacts ==
    ASSUME NEW p, NEW t, ProperTarget(t), p.vols \in Seq(Volumes), NamedOnce(p.vols),
           "whatap-agent-volume" \notin Names(p.vols)
    PROVE  /\ VolumesFine(p, WithPlugin(p, t))
           /\ \A v \in ConfigVolumes(t) :
                IF v.name \in Names(p.vols)
                THEN v.step \notin ToSet(WithPlugin(p, t).steps)
                ELSE /\ v.step \in ToSet(WithPlugin(p, t).steps)
                     /\ [name |-> v.name, path |-> v.path] \in ToSet(WithPlugin(p, t).mounts)
                     /\ [name |-> v.name, source |-> v.source] \in ToSet(WithPlugin(p, t).vols)
<1> DEFINE b == WithConfig(p, t)
           x == WithPlugin(p, t)
           v == PluginVolume(t)
           u == ConfigVolume(t)
<1>1. /\ VolumesFine(p, b)
      /\ Paths(b.mounts) \subseteq {"/whatap-agent", u.path}
      /\ Names(b.vols) \subseteq Names(p.vols) \cup {u.name}
      /\ u.source = Unset \/ u.name \in Names(p.vols) => b.steps = <<>>
      /\ u.source # Unset /\ u.name \notin Names(p.vols)
           => /\ [name |-> u.name, source |-> u.source] \in ToSet(b.vols)
              /\ [name |-> u.name, path |-> u.path] \in ToSet(b.mounts)
              /\ b.steps = <<"config">>
  BY WithConfigFacts
<1>2. /\ v.name = "whatap-plugin-volume" /\ v.path = "/whatap-plugin"
      /\ v.name \in STRING /\ v.path \in STRING /\ v.source \in STRING \cup {Unset} /\ v.step = "plugin"
  BY PluginVolumeFacts
<1>3. u.step = "config" /\ u.name # "whatap-plugin-volume" /\ u.path # "/whatap-plugin"
  BY ConfigVolumeFacts
<1>4. x = InjectVolume(b, v)
  BY DEF WithPlugin
<1>5. ConfigVolumes(t) = {d \in {u, v} : d.source # Unset}
  BY DEF ConfigVolumes
<1> HIDE DEF b, v, x, u
<1>6. Injected(b, v, x)
  <2>1. /\ b.vols \in Seq(Volumes) /\ NamedOnce(b.vols)
        /\ b.mounts \in Seq(Mounts) /\ PathsOnce(b.mounts)
    BY <1>1 DEF VolumesFine
  <2>2. v.path \notin Paths(b.mounts)
    BY <1>1, <1>2, <1>3
  <2>3. Injected(b, v, InjectVolume(b, v))
    BY <1>2, <2>1, <2>2, InjectVolumeFacts
  <2>4. QED
    BY <1>4, <2>3
<1>7. VolumesFine(p, x)
  <2>1. Names(p.vols) \subseteq Names(b.vols) /\ Names(b.vols) \subseteq Names(x.vols)
    BY <1>1, <1>6, NamesGrow DEF VolumesFine, Injected
  <2>2. QED
    BY <1>1, <1>2, <1>6, <2>1 DEF VolumesFine, Injected
<1>8. b.steps \in Seq({"config"}) /\ (u.source # Unset /\ u.name \notin Names(p.vols) => "config" \in ToSet(b.steps))
  <2>1. <<"config">> \in Seq({"config"}) /\ <<>> \in Seq({"config"}) /\ ToSet(<<"config">>) = {"config"}
    BY OneElement
  <2>2. CASE u.source = Unset \/ u.name \in Names(p.vols)
    BY <1>1, <2>1, <2>2
  <2>3. CASE u.source # Unset /\ u.name \notin Names(p.vols)
    BY <1>1, <2>1, <2>3, Zenon
  <2>4. QED
    BY <2>2, <2>3
<1>9. /\ v.source = Unset \/ v.name \in Names(b.vols) => ToSet(x.steps) = ToSet(b.steps)
      /\ v.source # Unset /\ v.name \notin Names(b.vols) => ToSet(x.steps) = ToSet(b.steps) \cup {"plugin"}
  <2>1. CASE v.source = Unset \/ v.name \in Names(b.vols)
    BY <1>6, <2>1 DEF Injected
  <2>2. CASE v.source # Unset /\ v.name \notin Names(b.vols)
    <3>1. x.steps = Append(b.steps, "plugin")
      BY <1>2, <1>6, <2>2 DEF Injected
    <3>2. b.steps \in Seq({"config", "plugin"})
      BY <1>8
    <3>3. QED
      BY <2>2, <3>1, <3>2, AppendElements
  <2>3. QED
    BY <2>1, <2>2
<1>10. ToSet(b.steps) \subseteq {"config"}
  BY <1>8 DEF ToSet
<1>11. ASSUME u.source # Unset
       PROVE  IF u.name \in Names(p.vols)
              THEN u.step \notin ToSet(x.steps)
              ELSE /\ u.step \in ToSet(x.steps)
                   /\ [name |-> u.name, path |-> u.path] \in ToSet(x.mounts)
                   /\ [name |-> u.name, source |-> u.source] \in ToSet(x.vols)
  <2>1. CASE u.name \in Names(p.vols)
    <3>1. ToSet(b.steps) = {}
      BY <1>1, <2>1, NoElement
    <3>2. QED
      BY <1>3, <1>9, <2>1, <3>1
  <2>2. CASE u.name \notin Names(p.vols)
    <3>1. ToSet(b.mounts) \subseteq ToSet(x.mounts) /\ ToSet(b.vols) \subseteq ToSet(x.vols)
      BY <1>6 DEF Injected
    <3>2. u.step \in ToSet(x.steps)
      BY <1>3, <1>8, <1>9, <1>11, <2>2
    <3>3. QED
      BY <1>1, <1>11, <2>2, <3>1, <3>2
  <2>3. QED
    BY <2>1, <2>2
<1>12. ASSUME v.source # Unset
       PROVE  IF v.name \in Names(p.vols)
              THEN v.step \notin ToSet(x.steps)
              ELSE /\ v.step \in ToSet(x.steps)
                   /\ [name |-> v.name, path |-> v.path] \in ToSet(x.mounts)
                   /\ [name |-> v.name, source |-> v.source] \in ToSet(x.vols)
  <2>1. CASE v.name \in Names(p.vols)
    <3>1. v.name \in Names(b.vols)
      BY <1>1, <2>1, NamesGrow DEF VolumesFine
    <3>2. QED
      BY <1>2, <1>9, <1>10, <2>1, <3>1
  <2>2. CASE v.name \notin Names(p.vols)
    <3>1. v.name \notin Names(b.vols)
      BY <1>1, <1>2, <1>3, <2>2
    <3>2. /\ [name |-> v.name, source |-> v.source] \in ToSet(x.vols)
          /\ [name |-> v.name, path |-> v.path] \in ToSet(x.mounts)
      BY <1>6, <1>12, <3>1 DEF Injected
    <3>3. QED
      BY <1>2, <1>9, <1>12, <2>2, <3>1, <3>2
  <2>3. QED
    BY <2>1, <2>2
<1> DEFINE Rule(d) == IF d.name \in Names(p.vols)
                      THEN d.step \notin ToSet(x.steps)
                      ELSE /\ d.step \in ToSet(x.steps)
                           /\ [name |-> d.name, path |-> d.path] \in ToSet(x.mounts)
                           /\ [name |-> d.name, source |-> d.source] \in ToSet(x.vols)
<1>13. (u.source # Unset => Rule(u)) /\ (v.source # Unset => Rule(v))
  BY <1>11, <1>12
<1> HIDE DEF Rule
<1>14. \A d \in ConfigVolumes(t) : Rule(d)
  BY <1>5, <1>13
<1>15. QED
  BY <1>7, <1>14 DEF x, Rule

-----------------------------------------------------------------------------
(***************************************************************************)
(* What patchPodTemplateSpec returns.                                      *)
(***************************************************************************)
InjectedEnv(p, t) == [c \in DOMAIN p.env |-> InjectEnv(p.env[c], t, c)]

InjectedMounts(p) == [c \in DOMAIN p.mounts |-> Append(p.mounts[c], AgentMount)]

LEMMA InjectFields ==
    ASSUME NEW p, WellFormed(p), NEW t, NEW w
    PROVE  /\ DOMAIN Inject(p, t, w) = DOMAIN p
           /\ Inject(p, t, w).agent
                = [lang |-> t.lang, version |-> Resolve(<<t.version>>, "latest")]
           /\ Inject(p, t, w).secrets = Merge(p.secrets, t.secrets)
           /\ Inject(p, t, w).vols = AppendIfNotExists(WithPlugin(p, t).vols, AgentVolume)
           /\ Inject(p, t, w).inits = Append(p.inits, NewInit(p, t, w))
           /\ Inject(p, t, w).env = InjectedEnv(p, t)
           /\ Inject(p, t, w).mounts = InjectedMounts(p)
<1> DEFINE a == [lang |-> t.lang, version |-> Resolve(<<t.version>>, "latest")]
           s == Merge(p.secrets, t.secrets)
           v == AppendIfNotExists(WithPlugin(p, t).vols, AgentVolume)
           i == Append(p.inits, NewInit(p, t, w))
           e == InjectedEnv(p, t)
           m == InjectedMounts(p)
<1>1. Inject(p, t, w) = [p EXCEPT !.secrets = s, !.vols = v, !.inits = i, !.env = e, !.mounts = m, !.agent = a]
  BY DEF Inject, NewInit, WithPlugin, WithConfig, Bare, AddSecrets, InjectedEnv, InjectedMounts
<1>2. DOMAIN p = {"namespace", "labels", "agent", "secrets", "vols", "inits", "env", "mounts"}
  BY DEF WellFormed
<1> HIDE DEF a, s, v, i, e, m
<1> DEFINE q == [p EXCEPT !.secrets = s, !.vols = v, !.inits = i, !.env = e, !.mounts = m, !.agent = a]
<1>3. /\ DOMAIN q = DOMAIN p
      /\ q.agent = a /\ q.secrets = s /\ q.vols = v /\ q.inits = i /\ q.env = e /\ q.mounts = m
  BY <1>2
<1> HIDE DEF q
<1>4. Inject(p, t, w) = q
  BY <1>1 DEF q
<1>5. QED
  BY <1>3, <1>4 DEF a, s, v, i, e, m

\* The pods that are injected into.
Fresh(p) == WellFormed(p) /\ Valid(p) /\ Plain(p)

\* What holds of the parts of such a pod, in the words of the lemmas.
LEMMA FreshParts ==
    ASSUME NEW p, Fresh(p)
    PROVE  /\ p.secrets \in Seq(Secrets) /\ NamedOnce(p.secrets)
           /\ p.vols \in Seq(Volumes) /\ NamedOnce(p.vols) /\ "whatap-agent-volume" \notin Names(p.vols)
           /\ p.inits \in Seq(ToSet(p.inits)) /\ NamedOnce(p.inits)
           /\ "whatap-agent-init" \notin Names(p.inits)
           /\ \A i \in ToSet(p.inits) : /\ i.mounts \in Seq(Mounts) /\ PathsOnce(i.mounts)
                                        /\ Names(i.mounts) \subseteq Names(p.vols)
           /\ DOMAIN p.mounts = DOMAIN p.env
           /\ \A c \in DOMAIN p.env :
                /\ c \in STRING /\ p.env[c] \in Seq(PlainEntries)
                /\ p.mounts[c] \in Seq(Mounts) /\ PathsOnce(p.mounts[c])
                /\ Names(p.mounts[c]) \subseteq Names(p.vols)
                /\ "/whatap-agent" \notin Paths(p.mounts[c])
<1>1. /\ p.secrets \in Seq(Secrets) /\ p.vols \in Seq(Volumes)
      /\ p.inits \in Seq(ToSet(p.inits))
      /\ \A i \in ToSet(p.inits) : i.mounts \in Seq(Mounts)
      /\ DOMAIN p.mounts = DOMAIN p.env
      /\ \A c \in DOMAIN p.env :
           c \in STRING /\ p.env[c] \in Seq(Entries) /\ p.mounts[c] \in Seq(Mounts)
  BY DEF Fresh, WellFormed
<1>2. /\ NamedOnce(p.secrets) /\ NamedOnce(p.vols) /\ NamedOnce(p.inits)
      /\ \A i \in ToSet(p.inits) : PathsOnce(i.mounts) /\ Names(i.mounts) \subseteq Names(p.vols)
      /\ \A c \in DOMAIN p.mounts : PathsOnce(p.mounts[c]) /\ Names(p.mounts[c]) \subseteq Names(p.vols)
      /\ \A c \in DOMAIN p.env : \A e \in ToSet(p.env[c]) : ValidEntry(e)
  <2>1. \A m : ValidMounts(p, m) => PathsOnce(m) /\ Names(m) \subseteq Names(p.vols)
    <3>1. ASSUME NEW m, ValidMounts(p, m)
          PROVE  PathsOnce(m)
      BY <3>1 DEF ValidMounts, Distinct, PathsOnce
    <3>2. ASSUME NEW m, ValidMounts(p, m)
          PROVE  Names(m) \subseteq Names(p.vols)
      <4>1. \A e \in ToSet(m) : e.name \in Names(p.vols)
        BY <3>2 DEF ValidMounts
      <4>2. \A n \in Names(m) : n \in Names(p.vols)
        BY <4>1 DEF Names
      <4>3. QED
        BY <4>2
    <3>3. QED
      BY <3>1, <3>2
  <2>2. /\ \A i \in ToSet(p.inits) : ValidMounts(p, i.mounts)
        /\ \A c \in DOMAIN p.mounts : ValidMounts(p, p.mounts[c])
        /\ \A c \in DOMAIN p.env : \A e \in ToSet(p.env[c]) : ValidEntry(e)
    BY DEF Fresh, Valid
  <2>3. NamedOnce(p.secrets) /\ NamedOnce(p.vols) /\ NamedOnce(p.inits)
    BY DEF Fresh, Valid, Distinct, NamedOnce
  <2>4. QED
    BY <2>1, <2>2, <2>3
<1>3. /\ "whatap-agent-volume" \notin Names(p.vols)
      /\ "whatap-agent-init" \notin Names(p.inits)
      /\ \A c \in DOMAIN p.env : /\ "/whatap-agent" \notin Paths(p.mounts[c])
                                 /\ \A e \in ToSet(p.env[c]) : PlainOptions(e)
  BY DEF Fresh, Plain, AgentVolume, AgentMount, Paths
<1>4. ASSUME NEW c \in DOMAIN p.env
      PROVE  p.env[c] \in Seq(PlainEntries)
  <2> DEFINE s == p.env[c]
  <2>1. s \in Seq(Entries) /\ \A e \in ToSet(s) : ValidEntry(e) /\ PlainOptions(e)
    BY <1>1, <1>2, <1>3
  <2> HIDE DEF s
  <2>2. \A i \in 1..Len(s) : s[i] \in PlainEntries
    BY <2>1 DEF ToSet, PlainEntries, ValidEntries
  <2>3. s \in Seq(PlainEntries)
    BY <2>1, <2>2
  <2>4. QED
    BY <2>3 DEF s
<1>5. QED
  BY <1>1, <1>2, <1>3, <1>4

LEMMA InjectSecrets ==
    ASSUME NEW p, Fresh(p), NEW t, ProperTarget(t), NEW w
    PROVE  Inject(p, t, w).secrets \in Seq(Secrets) /\ NamedOnce(Inject(p, t, w).secrets)
<1>0. WellFormed(p)
  BY DEF Fresh
<1>1. Inject(p, t, w).secrets = Merge(p.secrets, t.secrets)
  BY <1>0, InjectFields
<1>2. p.secrets \in Seq(Secrets) /\ NamedOnce(p.secrets) /\ t.secrets \in Seq(Secrets)
  BY FreshParts DEF ProperTarget
<1> DEFINE b == p.secrets
           x == t.secrets
<1> HIDE DEF b, x
<1>3. b \in Seq(Secrets) /\ x \in Seq(Secrets) /\ Distinct(b, LAMBDA e : e.name)
  BY <1>2 DEF b, x, NamedOnce, Distinct
<1>4. Merge(b, x) \in Seq(Secrets)
  BY <1>3, MergeTyped
<1>5. Distinct(Merge(b, x), LAMBDA e : e.name)
  BY <1>3, MergeDistinct
<1>6. NamedOnce(Merge(b, x))
  BY <1>5 DEF NamedOnce, Distinct
<1>7. QED
  BY <1>1, <1>4, <1>6 DEF b, x

LEMMA InjectVolumes ==
    ASSUME NEW p, Fresh(p), NEW t, ProperTarget(t), NEW w
    PROVE  LET q == Inject(p, t, w)
               x == WithPlugin(p, t)
           IN  /\ VolumesFine(p, x)
               /\ q.vols \in Seq(Volumes) /\ NamedOnce(q.vols)
               /\ ToSet(q.vols) = ToSet(x.vols) \cup {AgentVolume}
               /\ Names(p.vols) \subseteq Names(q.vols)
               /\ Names(x.mounts) \cup {"whatap-agent-volume"} \subseteq Names(q.vols)
<1> DEFINE q == Inject(p, t, w)
           x == WithPlugin(p, t)
           u == AgentVolume
<1>0. WellFormed(p)
  BY DEF Fresh
<1>1. q.vols = AppendIfNotExists(x.vols, u)
  BY <1>0, InjectFields
<1>2. VolumesFine(p, x)
  BY FreshParts, WithPluginFacts
<1>3. u \in Volumes /\ u.name = "whatap-agent-volume"
  BY StringsAssumption DEF AgentVolume, Volumes
<1> HIDE DEF q, x, u
<1>4. q.vols = Append(x.vols, u)
  BY <1>1, <1>2, <1>3 DEF AppendIfNotExists, VolumesFine
<1>5. /\ x.vols \in Seq(Volumes) /\ NamedOnce(x.vols) /\ u.name \notin Names(x.vols)
      /\ Names(x.mounts) \subseteq Names(x.vols) \cup {u.name}
      /\ Names(p.vols) \subseteq Names(x.vols)
  BY <1>2, <1>3, NamesGrow DEF VolumesFine
<1>6. /\ Append(x.vols, u) \in Seq(Volumes)
      /\ NamedOnce(Append(x.vols, u))
      /\ ToSet(Append(x.vols, u)) = ToSet(x.vols) \cup {u}
      /\ Names(Append(x.vols, u)) = Names(x.vols) \cup {u.name}
  BY <1>3, <1>5, AppendNamedOnce, AppendElements, AppendNames
<1>7. QED
  BY <1>2, <1>3, <1>4, <1>5, <1>6 DEF q, x, u

LEMMA InjectInits ==
    ASSUME NEW p, Fresh(p), NEW t, ProperTarget(t), NEW w
    PROVE  LET q == Inject(p, t, w)
               n == NewInit(p, t, w)
           IN  /\ q.inits \in Seq(ToSet(q.inits)) /\ NamedOnce(q.inits)
               /\ \A i \in ToSet(q.inits) : /\ i.mounts \in Seq(Mounts) /\ PathsOnce(i.mounts)
                                            /\ Names(i.mounts) \subseteq Names(q.vols)
               /\ AgentInits(q) = <<n>>
<1> DEFINE q == Inject(p, t, w)
           n == NewInit(p, t, w)
           x == WithPlugin(p, t)
           S == ToSet(p.inits) \cup {n}
           I == p.inits
<1>0. WellFormed(p)
  BY DEF Fresh
<1>1. q.inits = Append(I, n)
  BY <1>0, InjectFields
<1>2. n.name = "whatap-agent-init" /\ n.mounts = x.mounts
  BY DEF NewInit, InitContainer
<1>3. /\ VolumesFine(p, x) /\ Names(p.vols) \subseteq Names(q.vols) /\ Names(x.mounts) \subseteq Names(q.vols)
  BY InjectVolumes
<1>4. /\ I \in Seq(ToSet(I)) /\ NamedOnce(I) /\ "whatap-agent-init" \notin Names(I)
      /\ \A i \in ToSet(I) : /\ i.mounts \in Seq(Mounts) /\ PathsOnce(i.mounts)
                             /\ Names(i.mounts) \subseteq Names(p.vols)
  BY FreshParts
<1>5. S = ToSet(I) \cup {n} /\ n \in S
  OBVIOUS
<1> HIDE DEF q, n, x, S, I
<1>6. I \in Seq(S)
  BY <1>4, <1>5
<1>7. /\ Append(I, n) \in Seq(S) /\ NamedOnce(Append(I, n)) /\ ToSet(Append(I, n)) = S
  BY <1>2, <1>4, <1>5, <1>6, AppendNamedOnce, AppendElements
<1>8. \A i \in S : /\ i.mounts \in Seq(Mounts) /\ PathsOnce(i.mounts)
                   /\ Names(i.mounts) \subseteq Names(q.vols)
  BY <1>2, <1>3, <1>4, <1>5 DEF VolumesFine
<1>9. Binding(Append(I, n), "whatap-agent-init") = <<n>>
  <2>1. Binding(Append(I, n), "whatap-agent-init") = Append(Binding(I, "whatap-agent-init"), n)
    BY <1>2, <1>5, <1>6, BindingAppend
  <2>2. Binding(I, "whatap-agent-init") = <<>>
    BY <1>4, OnlyNone DEF Binding
  <2>3. Append(<<>>, n) = <<n>>
    OBVIOUS
  <2>4. QED
    BY <2>1, <2>2, <2>3
<1>10. AgentInits(q) = <<n>>
  BY <1>1, <1>9 DEF AgentInits
<1>11. QED
  BY <1>1, <1>7, <1>8, <1>10 DEF q, n

\* The containers of p, after the injection for t.
ContainersFine(p, t, q) ==
    /\ DOMAIN q.env = DOMAIN p.env /\ DOMAIN q.mounts = DOMAIN p.env
    /\ \A c \in DOMAIN p.env :
         /\ c \in STRING /\ p.env[c] \in Seq(PlainEntries)
         /\ q.env[c] = InjectEnv(p.env[c], t, c)
         /\ q.env[c] \in Seq(ValidEntries)
         /\ t.lang = "java" => \E o : AgentOptions(q.env[c]) = {o}
         /\ q.mounts[c] \in Seq(Mounts) /\ PathsOnce(q.mounts[c])
         /\ Names(q.mounts[c]) \subseteq Names(q.vols)
         /\ \E i \in DOMAIN q.mounts[c] :
              {j \in DOMAIN q.mounts[c] : q.mounts[c][j] = AgentMount} = {i}

LEMMA InjectContainers ==
    ASSUME NEW p, Fresh(p), NEW t, ProperTarget(t), NEW w
    PROVE  ContainersFine(p, t, Inject(p, t, w))
<1> DEFINE q == Inject(p, t, w)
<1>1. /\ DOMAIN p.mounts = DOMAIN p.env
      /\ \A c \in DOMAIN p.env :
           /\ c \in STRING /\ p.env[c] \in Seq(PlainEntries)
           /\ p.mounts[c] \in Seq(Mounts) /\ PathsOnce(p.mounts[c])
           /\ Names(p.mounts[c]) \subseteq Names(p.vols)
           /\ "/whatap-agent" \notin Paths(p.mounts[c])
  BY FreshParts
<1>0. WellFormed(p)
  BY DEF Fresh
<1>2. /\ DOMAIN q.env = DOMAIN p.env
      /\ \A c \in DOMAIN p.env : q.env[c] = InjectEnv(p.env[c], t, c)
      /\ DOMAIN q.mounts = DOMAIN p.mounts
      /\ \A c \in DOMAIN p.mounts : q.mounts[c] = Append(p.mounts[c], AgentMount)
  <2>1. q.env = InjectedEnv(p, t) /\ q.mounts = InjectedMounts(p)
    BY <1>0, InjectFields
  <2>2. QED
    BY <2>1 DEF InjectedEnv, InjectedMounts
<1>3. Names(p.vols) \cup {"whatap-agent-volume"} \subseteq Names(q.vols)
  BY InjectVolumes
<1> HIDE DEF q
<1>4. ASSUME NEW c \in DOMAIN p.env
      PROVE  /\ q.env[c] = InjectEnv(p.env[c], t, c)
             /\ q.env[c] \in Seq(ValidEntries)
             /\ t.lang = "java" => \E o : AgentOptions(q.env[c]) = {o}
  <2> DEFINE e == p.env[c]
  <2>1. c \in STRING /\ e \in Seq(PlainEntries) /\ q.env[c] = InjectEnv(e, t, c)
    BY <1>1, <1>2
  <2> HIDE DEF e
  <2>2. InjectEnv(e, t, c) \in Seq(ValidEntries)
    BY <2>1, InjectEnvFacts
  <2>3. t.lang = "java" => \E o : AgentOptions(InjectEnv(e, t, c)) = {o}
    BY <2>1, InjectEnvFacts
  <2>4. QED
    BY <2>1, <2>2, <2>3 DEF e
<1>5. ASSUME NEW c \in DOMAIN p.env
      PROVE  /\ q.mounts[c] \in Seq(Mounts) /\ PathsOnce(q.mounts[c])
             /\ Names(q.mounts[c]) \subseteq Names(q.vols)
             /\ \E i \in DOMAIN q.mounts[c] :
                  {j \in DOMAIN q.mounts[c] : q.mounts[c][j] = AgentMount} = {i}
  <2> DEFINE s == p.mounts[c]
             a == AgentMount
             r == q.mounts[c]
  <2>1. r = Append(s, a)
    BY <1>1, <1>2
  <2>2. /\ s \in Seq(Mounts) /\ PathsOnce(s) /\ Names(s) \subseteq Names(p.vols)
        /\ "/whatap-agent" \notin Paths(s)
    BY <1>1
  <2>3. a \in Mounts /\ a.path = "/whatap-agent" /\ a.name = "whatap-agent-volume"
    BY StringsAssumption DEF AgentMount, Mounts
  <2> HIDE DEF s, a, r
  <2>4. /\ r \in Seq(Mounts) /\ PathsOnce(r) /\ Names(r) = Names(s) \cup {a.name}
    BY <2>1, <2>2, <2>3, AppendPathsOnce, AppendNames
  <2>5. \A i \in 1..Len(s) : s[i] # a
    BY <2>2, <2>3 DEF Paths, ToSet
  <2>6. /\ Len(s) \in Nat /\ DOMAIN r = 1..Len(s) + 1
        /\ \A i \in 1..Len(s) : r[i] = s[i]
        /\ r[Len(s) + 1] = a
    BY <2>1, <2>2
  <2>7. Len(s) + 1 \in DOMAIN r /\ {j \in DOMAIN r : r[j] = a} = {Len(s) + 1}
    BY <2>5, <2>6
  <2>8. \E i \in DOMAIN r : {j \in DOMAIN r : r[j] = a} = {i}
    BY <2>7
  <2>9. QED
    BY <1>3, <2>2, <2>3, <2>4, <2>8 DEF r, a
<1>6. DOMAIN q.env = DOMAIN p.env /\ DOMAIN q.mounts = DOMAIN p.env
  BY <1>1, <1>2
<1>7. ContainersFine(p, t, q)
  BY <1>1, <1>4, <1>5, <1>6 DEF ContainersFine
<1>8. QED
  BY <1>7 DEF q

\* From the words of the lemmas back to those of the invariants.
LEMMA ValidFromParts ==
    ASSUME NEW p, NamedOnce(p.secrets), NamedOnce(p.vols), NamedOnce(p.inits),
           \A i \in ToSet(p.inits) : PathsOnce(i.mounts) /\ Names(i.mounts) \subseteq Names(p.vols),
           \A c \in DOMAIN p.mounts :
             PathsOnce(p.mounts[c]) /\ Names(p.mounts[c]) \subseteq Names(p.vols),
           \A c \in DOMAIN p.env : \A e \in ToSet(p.env[c]) : ValidEntry(e)
    PROVE  Valid(p)
<1>1. ASSUME NEW m, PathsOnce(m), Names(m) \subseteq Names(p.vols)
      PROVE  ValidMounts(p, m)
  <2>1. Distinct(m, LAMBDA x : x.path)
    BY <1>1 DEF Distinct, PathsOnce
  <2>2. \A x \in ToSet(m) : x.name \in Names(p.vols)
    BY <1>1 DEF Names
  <2>3. QED
    BY <2>1, <2>2 DEF ValidMounts
<1>2. /\ \A i \in ToSet(p.inits) : ValidMounts(p, i.mounts)
      /\ \A c \in DOMAIN p.mounts : ValidMounts(p, p.mounts[c])
  BY <1>1
<1>3. /\ Distinct(p.vols, LAMBDA v : v.name)
      /\ Distinct(p.inits, LAMBDA i : i.name)
      /\ Distinct(p.secrets, LAMBDA s : s.name)
  BY DEF Distinct, NamedOnce
<1>4. QED
  BY <1>2, <1>3 DEF Valid

LEMMA InjectKeeps ==
    ASSUME NEW p, Fresh(p), NEW t, ProperTarget(t), NEW w
    PROVE  LET q == Inject(p, t, w) IN
           /\ WellFormed(q) /\ Valid(q) /\ Marked(q)
           /\ q.agent \in Agents /\ q.agent.lang = t.lang
<1> DEFINE q == Inject(p, t, w)
<1>1. WellFormed(p)
  BY DEF Fresh
<1>2. /\ DOMAIN q = {"namespace", "labels", "agent", "secrets", "vols", "inits", "env", "mounts"}
      /\ q.agent = [lang |-> t.lang, version |-> Resolve(<<t.version>>, "latest")]
  <2>1. DOMAIN q = DOMAIN p
    BY <1>1, InjectFields
  <2>2. DOMAIN p = {"namespace", "labels", "agent", "secrets", "vols", "inits", "env", "mounts"}
    BY <1>1 DEF WellFormed
  <2>3. q.agent = [lang |-> t.lang, version |-> Resolve(<<t.version>>, "latest")]
    BY <1>1, InjectFields
  <2>4. QED
    BY <2>1, <2>2, <2>3
<1>3. q.agent \in Agents /\ q.agent.lang = t.lang
  <2>1. t.lang \in Languages /\ t.version \in STRING \cup {Unset}
    <3>1. {t.version, t.config, t.plugin, t.volumeName, t.mountPath} \subseteq STRING \cup {Unset}
      BY DEF ProperTarget
    <3>2. QED
      BY <3>1 DEF ProperTarget
  <2>2. Resolve(<<t.version>>, "latest") \in STRING
    <3>1. "latest" \in STRING
      BY StringsAssumption
    <3>2. Resolve(<<t.version>>, "latest") = IF t.version = Unset THEN "latest" ELSE t.version
      BY ResolveOne
    <3>3. QED
      BY <2>1, <3>1, <3>2
  <2> HIDE DEF q
  <2>3. QED
    BY <1>2, <2>1, <2>2 DEF Agents
<1>4. q.secrets \in Seq(Secrets) /\ NamedOnce(q.secrets)
  BY InjectSecrets
<1>5. q.vols \in Seq(Volumes) /\ NamedOnce(q.vols) /\ AgentVolume \in ToSet(q.vols)
  BY InjectVolumes
<1>6. /\ q.inits \in Seq(ToSet(q.inits)) /\ NamedOnce(q.inits)
      /\ \A i \in ToSet(q.inits) : /\ i.mounts \in Seq(Mounts) /\ PathsOnce(i.mounts)
                                   /\ Names(i.mounts) \subseteq Names(q.vols)
      /\ AgentInits(q) = <<NewInit(p, t, w)>>
  BY InjectInits
<1>7. ContainersFine(p, t, q)
  BY InjectContainers
<1> HIDE DEF q
<1>8. \A c \in DOMAIN q.env : q.env[c] \in Seq(Entries) /\ \A e \in ToSet(q.env[c]) : ValidEntry(e)
  <2>1. ASSUME NEW c \in DOMAIN q.env
        PROVE  q.env[c] \in Seq(Entries) /\ \A e \in ToSet(q.env[c]) : ValidEntry(e)
    <3> DEFINE s == q.env[c]
    <3>1. s \in Seq(ValidEntries)
      BY <1>7 DEF ContainersFine
    <3> HIDE DEF s
    <3>2. s \in Seq(Entries)
      BY <3>1, ValidSeqs
    <3>3. \A e \in ToSet(s) : ValidEntry(e)
      BY <3>1 DEF ToSet, ValidEntries
    <3>4. QED
      BY <3>2, <3>3 DEF s
  <2>2. QED
    BY <2>1
<1>9. WellFormed(q)
  BY <1>2, <1>3, <1>4, <1>5, <1>6, <1>7, <1>8 DEF WellFormed, ContainersFine
<1>10. Valid(q)
  BY <1>4, <1>5, <1>6, <1>7, <1>8, ValidFromParts DEF ContainersFine
<1>11. Marked(q)
  <2>1. Len(AgentInits(q)) = 1
    BY <1>6
  <2>2. q.agent.lang = "java" =>
          \A c \in DOMAIN q.env : \E o \in AgentOptions(q.env[c]) : AgentOptions(q.env[c]) = {o}
    BY <1>3, <1>7 DEF ContainersFine
  <2>3. QED
    BY <1>5, <1>7, <2>1, <2>2 DEF Marked, ContainersFine
<1>12. QED
  BY <1>3, <1>9, <1>10, <1>11 DEF q

-----------------------------------------------------------------------------
(***************************************************************************)
(* What other webhooks put in front of an environment.                     *)
(***************************************************************************)
Single(A) == \E o \in A : A = {o}

LEMMA LoadedAtPrepend ==
    ASSUME NEW b \in Seq(Entries), NEW e \in Entries, NEW y,
           DOMAIN y = 1..Len(b) + 1, y[1] = e, \A i \in 1..Len(b) : y[i + 1] = b[i],
           \A k \in DOMAIN e.val : e.val[k] # "agent",
           Single(LoadedAt(b))
    PROVE  Single(LoadedAt(y))
<1>1. Len(b) \in Nat /\ DOMAIN b = 1..Len(b)
  OBVIOUS
<1>2. PICK o \in LoadedAt(b) : LoadedAt(b) = {o}
  BY DEF Single
<1>3. PICK i \in DOMAIN b : \E k \in DOMAIN b[i].val : b[i].val[k] = "agent" /\ o = <<i, k>>
  BY <1>2 DEF LoadedAt
<1>4. PICK k \in DOMAIN b[i].val : b[i].val[k] = "agent" /\ o = <<i, k>>
  BY <1>3
<1>5. i + 1 \in DOMAIN y /\ y[i + 1] = b[i]
  BY <1>1
<1>6. <<i + 1, k>> \in LoadedAt(y)
  BY <1>4, <1>5 DEF LoadedAt
<1>7. ASSUME NEW x \in LoadedAt(y)
      PROVE  x = <<i + 1, k>>
  <2>1. PICK j \in DOMAIN y : \E l \in DOMAIN y[j].val : y[j].val[l] = "agent" /\ x = <<j, l>>
    BY <1>7 DEF LoadedAt
  <2>2. PICK l \in DOMAIN y[j].val : y[j].val[l] = "agent" /\ x = <<j, l>>
    BY <2>1
  <2>3. j # 1
    BY <1>1, <2>2
  <2>4. j - 1 \in DOMAIN b /\ y[j] = b[j - 1]
    <3>1. j - 1 \in 1..Len(b) /\ (j - 1) + 1 = j
      BY <1>1, <2>3
    <3>2. QED
      BY <1>1, <3>1
  <2>5. <<j - 1, l>> \in LoadedAt(b)
    BY <2>2, <2>4 DEF LoadedAt
  <2>6. <<j - 1, l>> = <<i, k>>
    BY <1>2, <1>4, <2>5
  <2>7. j - 1 = i /\ l = k
    BY <2>6
  <2>8. j = i + 1
    BY <1>1, <2>4, <2>7
  <2>9. QED
    BY <2>2, <2>7, <2>8
<1>8. LoadedAt(y) = {<<i + 1, k>>}
  BY <1>6, <1>7
<1>9. QED
  BY <1>6, <1>8 DEF Single

LEMMA AgentOptionsPrepend ==
    ASSUME NEW s \in Seq(Entries), NEW e \in Entries, PlainOptions(e), NEW y, y = <<e>> \o s,
           Single(AgentOptions(s))
    PROVE  Single(AgentOptions(y))
<1>1. PICK w \in Seq(Entries) : w = <<e>>
  <2>1. <<e>> \in Seq(Entries)
    OBVIOUS
  <2>2. QED
    BY <2>1, Zenon
<1>2. PICK b \in Seq(Entries) : b = Binding(s, Options)
  BY BindingElements
<1>3. Binding(w \o s, Options) = Binding(w, Options) \o b
  <2>1. Binding(w \o s, Options) = Binding(w, Options) \o Binding(s, Options)
    BY BindingConcat
  <2>2. QED
    BY <1>2, <2>1
<1>4. y = w \o s
  BY <1>1
<1>5. Binding(w, Options) = IF Options = e.name THEN <<e>> ELSE <<>>
  BY <1>1, BindingOne
<1>6. \A u : AgentOptions(u) = LoadedAt(Binding(u, Options))
  BY DEF AgentOptions, Options, LoadedAt
<1>7. Single(LoadedAt(b))
  BY <1>2, <1>6
<1>8. CASE e.name = Options
  <2>1. PICK z : z = <<e>> \o b
    OBVIOUS
  <2>2. /\ DOMAIN z = 1..Len(b) + 1 /\ z[1] = e
        /\ \A i \in 1..Len(b) : z[i + 1] = b[i]
    BY <2>1
  <2>3. \A k \in DOMAIN e.val : e.val[k] # "agent"
    BY <1>8 DEF PlainOptions, Options, ToSet
  <2>4. Single(LoadedAt(z))
    BY <1>7, <2>2, <2>3, LoadedAtPrepend
  <2>5. Binding(y, Options) = z
    BY <1>3, <1>4, <1>5, <1>8, <2>1, Zenon
  <2>6. QED
    BY <1>6, <2>4, <2>5
<1>9. CASE e.name # Options
  <2>1. <<>> \o b = b
    OBVIOUS
  <2>2. Binding(y, Options) = b
    BY <1>3, <1>4, <1>5, <1>9, <2>1, Zenon
  <2>3. QED
    BY <1>6, <1>7, <2>2
<1>10. QED
  BY <1>8, <1>9

WithEnv(p, k, f) == [p EXCEPT !.env[k] = f]

LEMMA PrependFields ==
    ASSUME NEW p, WellFormed(p), NEW k \in DOMAIN p.env, NEW f
    PROVE  LET q == WithEnv(p, k, f) IN
           /\ DOMAIN q = DOMAIN p
           /\ q.namespace = p.namespace /\ q.labels = p.labels /\ q.agent = p.agent
           /\ q.secrets = p.secrets /\ q.vols = p.vols /\ q.inits = p.inits /\ q.mounts = p.mounts
           /\ DOMAIN q.env = DOMAIN p.env
           /\ \A c \in DOMAIN p.env : q.env[c] = IF c = k THEN f ELSE p.env[c]
<1> DEFINE g == [p.env EXCEPT ![k] = f]
           q == WithEnv(p, k, f)
<1>1. q = [p EXCEPT !.env = g]
  BY DEF WithEnv
<1>2. DOMAIN p = {"namespace", "labels", "agent", "secrets", "vols", "inits", "env", "mounts"}
  BY DEF WellFormed
<1>3. DOMAIN g = DOMAIN p.env /\ \A c \in DOMAIN p.env : g[c] = IF c = k THEN f ELSE p.env[c]
  OBVIOUS
<1> HIDE DEF g, q
<1>4. /\ DOMAIN q = DOMAIN p
      /\ q.namespace = p.namespace /\ q.labels = p.labels /\ q.agent = p.agent
      /\ q.secrets = p.secrets /\ q.vols = p.vols /\ q.inits = p.inits /\ q.mounts = p.mounts
      /\ q.env = g
  BY <1>1, <1>2
<1>5. QED
  BY <1>3, <1>4 DEF q

LEMMA PrependKeeps ==
    ASSUME NEW p, WellFormed(p), NEW k \in DOMAIN p.env, NEW e \in Foreign, NEW f, f = <<e>> \o p.env[k]
    PROVE  LET q == WithEnv(p, k, f) IN
           /\ WellFormed(q) /\ q.agent = p.agent
           /\ Valid(p) => Valid(q)
           /\ Plain(p) => Plain(q)
           /\ Marked(p) => Marked(q)
<1> DEFINE q == WithEnv(p, k, f)
<1>3. /\ DOMAIN q = DOMAIN p
      /\ q.namespace = p.namespace /\ q.labels = p.labels /\ q.agent = p.agent
      /\ q.secrets = p.secrets /\ q.vols = p.vols /\ q.inits = p.inits /\ q.mounts = p.mounts
      /\ DOMAIN q.env = DOMAIN p.env
      /\ \A c \in DOMAIN p.env : q.env[c] = IF c = k THEN f ELSE p.env[c]
  BY PrependFields
<1> HIDE DEF q
<1>4. e \in Entries /\ ValidEntry(e) /\ PlainOptions(e)
  BY ForeignAssumption
<1>5. p.env[k] \in Seq(Entries)
  BY DEF WellFormed
<1>6. f \in Seq(Entries) /\ ToSet(f) = {e} \cup ToSet(p.env[k])
  <2>1. PICK s \in Seq(Entries) : s = p.env[k]
    BY <1>5
  <2>2. PICK w \in Seq(Entries) : w = <<e>>
    <3>1. <<e>> \in Seq(Entries)
      BY <1>4
    <3>2. QED
      BY <3>1, Zenon
  <2>3. w \o s \in Seq(Entries) /\ ToSet(w \o s) = ToSet(w) \cup ToSet(s)
    BY ConcatElements
  <2>4. ToSet(w) = {e}
    BY <2>2, OneElement
  <2>5. f = w \o s
    BY <2>1, <2>2
  <2>6. QED
    BY <2>1, <2>3, <2>4, <2>5
<1>7. \A c \in DOMAIN p.env : q.env[c] \in Seq(Entries)
                              /\ \A x \in ToSet(q.env[c]) : x = e \/ x \in ToSet(p.env[c])
  <2>1. \A c \in DOMAIN p.env : p.env[c] \in Seq(Entries)
    BY DEF WellFormed
  <2>2. QED
    BY <1>3, <1>6, <2>1
<1>8. WellFormed(q)
  BY <1>3, <1>7 DEF WellFormed
<1>9. ASSUME Valid(p)
      PROVE  Valid(q)
  <2>1. \A m : ValidMounts(q, m) <=> ValidMounts(p, m)
    BY <1>3 DEF ValidMounts
  <2>2. /\ Distinct(q.vols, LAMBDA v : v.name)
        /\ Distinct(q.inits, LAMBDA i : i.name)
        /\ Distinct(q.secrets, LAMBDA s : s.name)
    BY <1>3, <1>9 DEF Valid
  <2>3. /\ \A i \in ToSet(q.inits) : ValidMounts(q, i.mounts)
        /\ \A c \in DOMAIN q.mounts : ValidMounts(q, q.mounts[c])
    BY <1>3, <1>9, <2>1 DEF Valid
  <2>4. \A c \in DOMAIN q.env : \A x \in ToSet(q.env[c]) : ValidEntry(x)
    BY <1>3, <1>4, <1>7, <1>9 DEF Valid
  <2>5. QED
    BY <2>2, <2>3, <2>4 DEF Valid
<1>10. ASSUME Plain(p)
       PROVE  Plain(q)
  <2>1. /\ q.agent = Unset /\ AgentVolume.name \notin Names(q.vols)
        /\ "whatap-agent-init" \notin Names(q.inits)
    BY <1>3, <1>10 DEF Plain
  <2>2. ASSUME NEW c \in DOMAIN q.env
        PROVE  /\ AgentMount.path \notin {m.path : m \in ToSet(q.mounts[c])}
               /\ \A x \in ToSet(q.env[c]) : PlainOptions(x)
    BY <1>3, <1>4, <1>7, <1>10 DEF Plain
  <2>3. QED
    BY <2>1, <2>2 DEF Plain
<1>11. ASSUME Marked(p)
       PROVE  Marked(q)
  <2>1. Len(AgentInits(q)) = 1 /\ AgentVolume \in ToSet(q.vols)
    BY <1>3, <1>11 DEF Marked, AgentInits
  <2>2. ASSUME NEW c \in DOMAIN q.env
        PROVE  \E i \in DOMAIN q.mounts[c] :
                 {j \in DOMAIN q.mounts[c] : q.mounts[c][j] = AgentMount} = {i}
    BY <1>3, <1>11 DEF Marked
  <2>3. ASSUME NEW c \in DOMAIN q.env, q.agent.lang = "java"
        PROVE  \E o \in AgentOptions(q.env[c]) : AgentOptions(q.env[c]) = {o}
    <3>1. c \in DOMAIN p.env /\ Single(AgentOptions(p.env[c]))
      BY <1>3, <1>11, <2>3 DEF Marked, Single
    <3>2. Single(AgentOptions(q.env[c]))
      <4>1. CASE c = k
        <5>1. Single(AgentOptions(p.env[k])) /\ q.env[c] = f
          BY <1>3, <3>1, <4>1
        <5>2. Single(AgentOptions(f))
          BY <1>4, <1>5, <5>1, AgentOptionsPrepend
        <5>3. QED
          BY <5>1, <5>2
      <4>2. CASE c # k
        BY <1>3, <3>1, <4>2
      <4>3. QED
        BY <4>1, <4>2
    <3>3. QED
      BY <3>2 DEF Single
  <2>4. QED
    BY <2>1, <2>2, <2>3 DEF Marked
<1>12. QED
  BY <1>3, <1>8, <1>9, <1>10, <1>11 DEF q

-----------------------------------------------------------------------------
(***************************************************************************)
(* The life of a pod.                                                      *)
(***************************************************************************)
\* PodInv: the pod is well-formed and valid and its mark tells the truth, and a
\* pod the handler has taken up is not marked: only then is injecting it sound.
PodInv ==
    /\ TypeOK /\ PodStaysValid /\ MarkTruthful
    /\ stage = "handling" => pod.agent = Unset

LEMMA TargetProper ==
    ASSUME NEW r \in CRs, NEW i \in DOMAIN r.targets
    PROVE  ProperTarget(r.targets[i])
<1>1. r.targets \in Seq(ToSet(r.targets)) /\ \A t \in ToSet(r.targets) : ProperTarget(t)
  BY CRsAssumption
<1>2. r.targets[i] \in ToSet(r.targets)
  BY <1>1
<1>3. QED
  BY <1>1, <1>2

LEMMA PodInvInit == Init => PodInv
BY DEF Init, PodInv, TypeOK, PodStaysValid, MarkTruthful

LEMMA PodInvNext == PodInv /\ [Next]_vars => PodInv'
<1> SUFFICES ASSUME PodInv, [Next]_vars
             PROVE  PodInv'
  OBVIOUS
<1>1. /\ cr \in CRs \cup {Unset} /\ ns \in Namespaces \cup {Unset}
      /\ stage \in {"none", "mutating", "handling", "stored"}
      /\ stage = "none" => pod = Unset
      /\ stage # "none" => WellFormed(pod) /\ Valid(pod)
      /\ stage # "none" /\ pod.agent = Unset => Plain(pod)
      /\ stage # "none" /\ pod.agent # Unset => Marked(pod)
      /\ stage = "handling" => read \in CRs /\ next \in DOMAIN read.targets /\ pod.agent = Unset
      /\ stage # "handling" => read = Unset /\ next = 0
  BY DEF PodInv, TypeOK, PodStaysValid, MarkTruthful
<1> DEFINE PodOK(s, p) ==
             /\ s = "none" => p = Unset
             /\ s # "none" => WellFormed(p) /\ Valid(p)
             /\ s # "none" /\ p.agent = Unset => Plain(p)
             /\ s # "none" /\ p.agent # Unset => Marked(p)
           Rest ==
             /\ cr' \in CRs \cup {Unset} /\ ns' \in Namespaces \cup {Unset}
             /\ stage' \in {"none", "mutating", "handling", "stored"}
             /\ stage' = "handling" => read' \in CRs /\ next' \in DOMAIN read'.targets /\ pod'.agent = Unset
             /\ stage' # "handling" => read' = Unset /\ next' = 0
<1>2. SUFFICES PodOK(stage', pod') /\ Rest
  BY DEF PodInv, TypeOK, PodStaysValid, MarkTruthful
<1>3. PodOK(stage, pod)
  BY <1>1
<1>4. ASSUME pod' = pod, stage' = "none" <=> stage = "none"
      PROVE  PodOK(stage', pod')
  BY <1>3, <1>4
<1>5. CASE Submit
  <2>1. pod' \in Pods /\ stage' = "mutating"
    BY <1>5 DEF Submit
  <2>2. WellFormed(pod') /\ Valid(pod') /\ Plain(pod')
    BY <2>1, PodsAssumption
  <2>3. pod'.agent = Unset
    BY <2>2 DEF Plain
  <2>4. QED
    BY <1>1, <1>5, <2>1, <2>2, <2>3 DEF Submit
<1>6. CASE Resubmit
  BY <1>1, <1>4, <1>6 DEF Resubmit
<1>7. CASE OtherWebhook
  <2>1. PICK e \in Foreign, k \in DOMAIN pod.env : pod' = [pod EXCEPT !.env[k] = <<e>> \o @]
    BY <1>7 DEF OtherWebhook
  <2>2. PICK f : f = <<e>> \o pod.env[k]
    OBVIOUS
  <2>3. pod' = WithEnv(pod, k, f)
    BY <2>1, <2>2 DEF WithEnv
  <2>4. stage = "mutating" /\ stage' = "mutating"
    BY <1>7 DEF OtherWebhook
  <2>5. LET q == WithEnv(pod, k, f) IN
        /\ WellFormed(q) /\ q.agent = pod.agent
        /\ Valid(pod) => Valid(q)
        /\ Plain(pod) => Plain(q)
        /\ Marked(pod) => Marked(q)
    BY <1>1, <2>2, <2>4, PrependKeeps
  <2>6. PodOK(stage', pod')
    BY <1>1, <2>3, <2>4, <2>5
  <2>7. QED
    BY <1>1, <1>7, <2>4, <2>6 DEF OtherWebhook
<1>8. CASE CallDefault
  <2>1. cr \in CRs /\ cr.targets # <<>> /\ pod.agent = Unset
    BY <1>1, <1>8 DEF CallDefault, Handles
  <2>2. 1 \in DOMAIN cr.targets
    <3>1. cr.targets \in Seq(ToSet(cr.targets))
      BY <2>1, CRsAssumption
    <3>2. QED
      BY <2>1, <3>1
  <2>3. QED
    BY <1>1, <1>4, <1>8, <2>1, <2>2 DEF CallDefault
<1>9. CASE SkipTarget
  <2>1. stage = "handling" /\ read.targets \in Seq(ToSet(read.targets))
    BY <1>1, <1>9, CRsAssumption DEF SkipTarget
  <2>2. CASE next < Len(read.targets)
    <3>1. next + 1 \in DOMAIN read.targets
      BY <1>1, <2>1, <2>2
    <3>2. next' = next + 1 /\ UNCHANGED <<cr, ns, stage, read, pod>>
      BY <1>9, <2>2 DEF SkipTarget
    <3>3. QED
      BY <1>1, <1>4, <2>1, <3>1, <3>2
  <2>3. CASE ~(next < Len(read.targets))
    <3>1. stage' = "mutating" /\ read' = Unset /\ next' = 0 /\ UNCHANGED <<cr, ns, pod>>
      BY <1>9, <2>3 DEF SkipTarget, Idle
    <3>2. QED
      BY <1>1, <1>4, <2>1, <3>1
  <2>4. QED
    BY <2>2, <2>3
<1>10. CASE InjectTarget
  <2>1. stage = "handling" /\ stage' = "mutating" /\ pod' = Inject(pod, read.targets[next], read)
    BY <1>10 DEF InjectTarget
  <2>2. Fresh(pod) /\ ProperTarget(read.targets[next])
    BY <1>1, <2>1, TargetProper DEF Fresh
  <2>3. WellFormed(pod') /\ Valid(pod') /\ Marked(pod') /\ pod'.agent \in Agents
    BY <2>1, <2>2, InjectKeeps
  <2>4. pod'.agent # Unset
    BY <2>3, UnsetAssumption
  <2>5. QED
    BY <1>1, <1>10, <2>1, <2>3, <2>4 DEF InjectTarget, Idle
<1>11. CASE LoseAnswer
  BY <1>1, <1>4, <1>11 DEF LoseAnswer, Idle
<1>12. CASE Store
  BY <1>1, <1>4, <1>12 DEF Store
<1>13. CASE DeletePod
  BY <1>1, <1>13 DEF DeletePod
<1>14. CASE SeeWhatapAgent
  BY <1>1, <1>4, <1>14 DEF SeeWhatapAgent
<1>15. CASE SeeNamespace
  BY <1>1, <1>4, <1>15 DEF SeeNamespace
<1>16. CASE UNCHANGED vars
  BY <1>1, <1>4, <1>16 DEF vars
<1>17. QED
  BY <1>5, <1>6, <1>7, <1>8, <1>9, <1>10, <1>11, <1>12, <1>13, <1>14, <1>15, <1>16 DEF Next

LEMMA PodInvAlways == Spec => []PodInv
BY PodInvInit, PodInvNext, PTL DEF Spec

\* A pod is well-formed at every stage of its creation, and the handler works
\* with a target of the WhatapAgent it has read (Default).
THEOREM TypeCorrect == Spec => []TypeOK
<1>1. PodInv => TypeOK
  BY DEF PodInv
<1>2. QED
  BY <1>1, PodInvAlways, PTL

\* The API server never turns a pod down for what the webhook has put into it:
\* volumes, mounts, init containers and pull secrets never collide, whatever
\* targets and pods there are (patchPodTemplateSpec, utils.go).
THEOREM InjectionKeepsPodsValid == Spec => []PodStaysValid
<1>1. PodInv => PodStaysValid
  BY DEF PodInv
<1>2. QED
  BY <1>1, PodInvAlways, PTL

\* A pod carries the mark of the injection if and only if it has the whole agent,
\* once, whatever other webhooks add and however often Default is called.
THEOREM MarkIsTruthful == Spec => []MarkTruthful
<1>1. PodInv => MarkTruthful
  BY DEF PodInv
<1>2. QED
  BY <1>1, PodInvAlways, PTL

\* Only the handler marks a pod.
LEMMA OnlyInjectTargetInjects ==
    ASSUME PodInv, [Next]_vars, Injects
    PROVE  /\ InjectTarget
           /\ Fresh(pod) /\ Target = read.targets[next] /\ ProperTarget(Target)
           /\ pod' = Inject(pod, Target, read)
           /\ pod'.agent.lang = Target.lang
<1>1. /\ stage # "none" => WellFormed(pod) /\ Valid(pod)
      /\ stage # "none" /\ pod.agent = Unset => Plain(pod)
      /\ stage = "handling" => read \in CRs /\ next \in DOMAIN read.targets /\ pod.agent = Unset
  BY DEF PodInv, TypeOK, PodStaysValid, MarkTruthful
<1>2. stage # "none" /\ stage' # "none" /\ pod.agent = Unset /\ pod'.agent # Unset /\ pod' # pod
  BY DEF Injects
<1>3. ~OtherWebhook
  <2> SUFFICES ASSUME OtherWebhook
               PROVE  FALSE
    OBVIOUS
  <2>1. PICK e \in Foreign, k \in DOMAIN pod.env : pod' = [pod EXCEPT !.env[k] = <<e>> \o @]
    BY DEF OtherWebhook
  <2>2. PICK f : f = <<e>> \o pod.env[k]
    OBVIOUS
  <2>3. pod' = WithEnv(pod, k, f)
    BY <2>1, <2>2 DEF WithEnv
  <2>4. pod'.agent = pod.agent
    BY <1>1, <1>2, <2>3, PrependFields
  <2>5. QED
    BY <1>2, <2>4
<1>4. InjectTarget
  <2>1. ~Submit /\ ~Resubmit /\ ~CallDefault /\ ~SkipTarget /\ ~LoseAnswer
    BY <1>2 DEF Submit, Resubmit, CallDefault, SkipTarget, LoseAnswer
  <2>2. ~Store /\ ~DeletePod /\ ~SeeWhatapAgent /\ ~SeeNamespace /\ ~UNCHANGED vars
    BY <1>2 DEF Store, DeletePod, SeeWhatapAgent, SeeNamespace, vars
  <2>3. QED
    BY <1>3, <2>1, <2>2 DEF Next
<1>5. stage = "handling" /\ pod' = Inject(pod, Target, read) /\ Target = read.targets[next]
  BY <1>4 DEF InjectTarget, Target
<1>6. Fresh(pod) /\ ProperTarget(Target)
  BY <1>1, <1>5, TargetProper DEF Fresh
<1>7. pod'.agent.lang = Target.lang
  BY <1>5, <1>6, InjectKeeps
<1>8. QED
  BY <1>4, <1>5, <1>6, <1>7

\* The targets before the one the handler has come to do not match.
Passed(t) ==
    t.enabled /\ MatchesSelector(pod.labels, t.podSel)
      => ~MatchesNamespace(pod.namespace, ns, t.nsSel)

PickInv ==
    stage = "handling" /\ steady /\ ns # Unset => \A i \in 1..next-1 : Passed(read.targets[i])

LEMMA PickInvNext == PodInv /\ PickInv /\ [Next]_vars => PickInv'
<1> SUFFICES ASSUME PodInv, PickInv, [Next]_vars,
                    stage' = "handling", steady', ns' # Unset
             PROVE  \A i \in 1..next'-1 : Passed(read.targets[i])'
  BY DEF PickInv
<1>1. stage = "handling" => read \in CRs /\ next \in DOMAIN read.targets
  BY DEF PodInv, TypeOK
<1>2. CASE CallDefault
  BY <1>2 DEF CallDefault
<1>3. CASE SkipTarget
  <2>1. stage = "handling" /\ read.targets \in Seq(ToSet(read.targets)) /\ next \in DOMAIN read.targets
    BY <1>1, <1>3, CRsAssumption DEF SkipTarget
  <2>2. next < Len(read.targets)
    BY <1>3 DEF SkipTarget
  <2>3. next' = next + 1 /\ UNCHANGED <<cr, ns, stage, pod, read, steady>>
    BY <1>3, <2>2 DEF SkipTarget
  <2>4. Passed(read.targets[next])
    BY <1>3, <2>3 DEF SkipTarget, Matches, Passed
  <2>5. \A i \in 1..next-1 : Passed(read.targets[i])
    BY <2>1, <2>3 DEF PickInv
  <2>6. next \in Nat
    BY <2>1
  <2>7. \A i \in 1..next'-1 : Passed(read.targets[i])
    <3>1. \A i \in 1..next'-1 : i \in 1..next-1 \/ i = next
      BY <2>3, <2>6
    <3>2. QED
      BY <2>4, <2>5, <3>1
  <2>8. QED
    BY <2>3, <2>7 DEF Passed
<1>4. CASE UNCHANGED <<ns, stage, pod, read, next, steady>>
  BY <1>4 DEF PickInv, Passed
<1>5. ~Submit /\ ~Resubmit /\ ~OtherWebhook /\ ~InjectTarget /\ ~LoseAnswer
  BY DEF Submit, Resubmit, OtherWebhook, InjectTarget, LoseAnswer
<1>6. ~Store /\ ~DeletePod /\ ~SeeNamespace
  BY DEF Store, DeletePod, SeeNamespace
<1>7. SeeWhatapAgent \/ UNCHANGED vars => UNCHANGED <<ns, stage, pod, read, next, steady>>
  BY DEF SeeWhatapAgent, vars
<1>8. QED
  BY <1>2, <1>3, <1>4, <1>5, <1>6, <1>7 DEF Next

\* While the namespace stays as it is, the agent that goes into a pod is that of
\* the first enabled target that selects it, of the WhatapAgent as it was when
\* the handler was called (the loop of Default).
THEOREM FirstTargetIsPicked == Spec => PickedFirst
<1>1. Init => PickInv
  BY DEF Init, PickInv
<1>2. ASSUME PodInv, PickInv, [Next]_vars, Injects, steady
      PROVE  /\ Target.enabled
             /\ \A i \in 1..next-1 :
                  read.targets[i].enabled /\ MatchesSelector(pod.labels, read.targets[i].podSel)
                    => ~MatchesNamespace(pod.namespace, ns, read.targets[i].nsSel)
             /\ pod'.agent.lang = Target.lang
  <2>1. InjectTarget /\ Target = read.targets[next] /\ pod'.agent.lang = Target.lang
    BY <1>2, OnlyInjectTargetInjects
  <2>2. Target.enabled /\ stage = "handling" /\ ns # Unset
    BY <2>1 DEF InjectTarget, Matches
  <2>3. QED
    BY <1>2, <2>1, <2>2 DEF PickInv, Passed
<1>3. PodInv /\ PickInv /\ [Next]_vars
        => [Injects /\ steady =>
              /\ Target.enabled
              /\ \A i \in 1..next-1 :
                   read.targets[i].enabled /\ MatchesSelector(pod.labels, read.targets[i].podSel)
                     => ~MatchesNamespace(pod.namespace, ns, read.targets[i].nsSel)
              /\ pod'.agent.lang = Target.lang]_vars
  BY <1>2
<1>4. QED
  BY <1>1, <1>3, PodInvAlways, PickInvNext, PTL DEF Spec, PickedFirst

\* What a mount shows is the volume of its name.
LEMMA SourceOne ==
    ASSUME NEW q, NEW m, NEW b \in ToSet(q.vols), NamedOnce(q.vols), b.name = m.name
    PROVE  Source(q, m) = {b.source}
<1>1. \A v \in ToSet(q.vols) : v.name = b.name => v = b
  BY DEF ToSet, NamedOnce
<1>2. QED
  BY <1>1 DEF Source

LEMMA NewInitFacts ==
    ASSUME NEW p, Fresh(p), NEW t, ProperTarget(t), NEW w
    PROVE  /\ AgentInits(Inject(p, t, w))[1].mounts = WithPlugin(p, t).mounts
           /\ AgentInits(Inject(p, t, w))[1].steps = WithPlugin(p, t).steps
           /\ AgentInits(Inject(p, t, w))[1].env = InitEnv(t)
<1>1. PICK n : n = NewInit(p, t, w)
  OBVIOUS
<1>2. AgentInits(Inject(p, t, w))[1] = n
  BY <1>1, InjectInits
<1>3. n.mounts = WithPlugin(p, t).mounts /\ n.steps = WithPlugin(p, t).steps /\ n.env = InitEnv(t)
  BY <1>1 DEF NewInit, InitContainer
<1>4. QED
  BY <1>2, <1>3

\* What the init container copies is the target's own.
OwnFiles(p, t, q) ==
    \A v \in ConfigVolumes(t) :
      IF v.name \in Names(p.vols)
      THEN v.step \notin ToSet(AgentInits(q)[1].steps)
      ELSE /\ v.step \in ToSet(AgentInits(q)[1].steps)
           /\ \E m \in ToSet(AgentInits(q)[1].mounts) :
                m.path = v.path /\ Source(q, m) = {v.source}

LEMMA InjectOwnFiles ==
    ASSUME NEW p, Fresh(p), NEW t, ProperTarget(t), NEW w
    PROVE  OwnFiles(p, t, Inject(p, t, w))
<1> SUFFICES ASSUME NEW v \in ConfigVolumes(t)
             PROVE  IF v.name \in Names(p.vols)
                    THEN v.step \notin ToSet(AgentInits(Inject(p, t, w))[1].steps)
                    ELSE /\ v.step \in ToSet(AgentInits(Inject(p, t, w))[1].steps)
                         /\ \E m \in ToSet(AgentInits(Inject(p, t, w))[1].mounts) :
                              m.path = v.path /\ Source(Inject(p, t, w), m) = {v.source}
  BY DEF OwnFiles
<1>1. PICK q : q = Inject(p, t, w)
  OBVIOUS
<1>2. PICK x : x = WithPlugin(p, t)
  OBVIOUS
<1>3. p.vols \in Seq(Volumes) /\ NamedOnce(p.vols) /\ "whatap-agent-volume" \notin Names(p.vols)
  BY FreshParts
<1>4. IF v.name \in Names(p.vols)
      THEN v.step \notin ToSet(x.steps)
      ELSE /\ v.step \in ToSet(x.steps)
           /\ [name |-> v.name, path |-> v.path] \in ToSet(x.mounts)
           /\ [name |-> v.name, source |-> v.source] \in ToSet(x.vols)
  BY <1>2, <1>3, WithPluginFacts
<1>5. AgentInits(q)[1].mounts = x.mounts /\ AgentInits(q)[1].steps = x.steps
  BY <1>1, <1>2, NewInitFacts
<1>6. NamedOnce(q.vols) /\ ToSet(x.vols) \subseteq ToSet(q.vols)
  <2>1. NamedOnce(Inject(p, t, w).vols)
        /\ ToSet(Inject(p, t, w).vols) = ToSet(WithPlugin(p, t).vols) \cup {AgentVolume}
    BY InjectVolumes
  <2>2. QED
    BY <1>1, <1>2, <2>1
<1>7. CASE v.name \in Names(p.vols)
  BY <1>1, <1>4, <1>5, <1>7
<1>8. CASE v.name \notin Names(p.vols)
  <2>1. PICK m : m = [name |-> v.name, path |-> v.path]
    OBVIOUS
  <2>2. PICK b : b = [name |-> v.name, source |-> v.source]
    OBVIOUS
  <2>3. m \in ToSet(x.mounts) /\ b \in ToSet(q.vols) /\ v.step \in ToSet(x.steps)
    BY <1>4, <1>6, <1>8, <2>1, <2>2
  <2>4. m.path = v.path /\ m.name = v.name /\ b.name = v.name /\ b.source = v.source
    BY <2>1, <2>2
  <2>5. Source(q, m) = {v.source}
    BY <1>6, <2>3, <2>4, SourceOne
  <2>6. QED
    BY <1>1, <1>5, <1>8, <2>3, <2>4, <2>5
<1>9. QED
  BY <1>7, <1>8

\* The init container copies a configuration or plugins only out of the target's
\* own ConfigMap, never out of a volume the pod had under that name, and it does
\* so unless there was one (the ConfigMap volumes of patchPodTemplateSpec).
THEOREM OwnFilesAreCopied == Spec => CopiesItsOwnFiles
<1>1. ASSUME PodInv, [Next]_vars, Injects
      PROVE  OwnFiles(pod, Target, pod')
  BY <1>1, OnlyInjectTargetInjects, InjectOwnFiles
<1>2. PodInv /\ [Next]_vars
        => [Injects =>
              LET init == AgentInits(pod')[1] IN
              \A v \in ConfigVolumes(Target) :
                IF v.name \in Names(pod.vols)
                THEN v.step \notin ToSet(init.steps)
                ELSE /\ v.step \in ToSet(init.steps)
                     /\ \E m \in ToSet(init.mounts) :
                          m.path = v.path /\ Source(pod', m) = {v.source}]_vars
  BY <1>1 DEF OwnFiles
<1>3. QED
  BY <1>2, PodInvAlways, PTL DEF Spec, CopiesItsOwnFiles

\* The first two entries of an environment are what the program reads.
LEMMA EffectivePair ==
    ASSUME NEW S, NEW x \in Seq(S), Len(x) = 2, x[1].name # x[2].name, NEW r \in Seq(S)
    PROVE  Effective(x \o r, x[1].name) = x[1] /\ Effective(x \o r, x[2].name) = x[2]
<1>1. PICK a : a = x[1]
  OBVIOUS
<1>2. PICK b : b = x[2]
  OBVIOUS
<1>3. a \in S /\ b \in S /\ a.name # b.name
  <2>1. \A i \in 1..Len(x) : x[i] \in S
    OBVIOUS
  <2>2. 1 \in 1..Len(x) /\ 2 \in 1..Len(x)
    OBVIOUS
  <2>3. QED
    BY <1>1, <1>2, <2>1, <2>2
<1>4. PICK y : y = <<a>>
  OBVIOUS
<1>5. y \in Seq(S) /\ x = Append(y, b)
  BY <1>1, <1>2, <1>3, <1>4
<1>6. \A n : Binding(x \o r, n) = Binding(x, n) \o Binding(r, n) /\ Binding(r, n) \in Seq(S)
  <2>1. \A n : Binding(x \o r, n) = Binding(x, n) \o Binding(r, n)
    BY BindingConcat
  <2>2. \A n : Binding(r, n) \in Seq(S)
    BY BindingElements
  <2>3. QED
    BY <2>1, <2>2
<1>7. \A n : Binding(x, n) = IF n = b.name THEN Append(Binding(y, n), b) ELSE Binding(y, n)
  BY <1>3, <1>5, BindingAppend
<1>8. \A n : Binding(y, n) = IF n = a.name THEN <<a>> ELSE <<>>
  BY <1>4, BindingOne
<1>9. Binding(x, a.name) = <<a>> /\ Binding(x, b.name) = Append(<<>>, b)
  BY <1>3, <1>7, <1>8
<1>10. \A z \in Seq(S) : Head(<<a>> \o z) = a /\ Head(Append(<<>>, b) \o z) = b
  BY <1>3
<1>11. Head(Binding(x \o r, a.name)) = a
  <2>1. Binding(x \o r, a.name) = <<a>> \o Binding(r, a.name) /\ Binding(r, a.name) \in Seq(S)
    BY <1>6, <1>9
  <2>2. QED
    BY <1>10, <2>1
<1>12. Head(Binding(x \o r, b.name)) = b
  <2>1. Binding(x \o r, b.name) = Append(<<>>, b) \o Binding(r, b.name) /\ Binding(r, b.name) \in Seq(S)
    BY <1>6, <1>9
  <2>2. QED
    BY <1>10, <2>1
<1>13. QED
  BY <1>1, <1>2, <1>11, <1>12 DEF Effective

LEMMA RecordRenamed ==
    ASSUME NEW n, NEW v, NEW r, NEW m
    PROVE  [[name |-> n, val |-> v, ref |-> r] EXCEPT !.name = m] = [name |-> m, val |-> v, ref |-> r]
OBVIOUS

LEMMA Renamed ==
    ASSUME NEW n, NEW v, NEW m
    PROVE  [Var(n, v) EXCEPT !.name = m] = Var(m, v)
BY RecordRenamed, ZenonT(30) DEF Var

LEMMA InitEnvFacts ==
    ASSUME NEW t, ProperTarget(t), t.lang \in DOMAIN HostName
    PROVE  /\ Effective(InitEnv(t), "WHATAP_LICENSE") = Var("WHATAP_LICENSE", License(t))
           /\ Effective(InitEnv(t), "WHATAP_HOST") = Var("WHATAP_HOST", Host(t))
<1>1. PICK r : r = IF t.lang = "java" THEN <<>> ELSE <<Var("app_name", AppName(t.envs))>>
  OBVIOUS
<1>2. PICK a : a = Var("WHATAP_LICENSE", License(t))
  OBVIOUS
<1>3. PICK b : b = Var("WHATAP_HOST", Host(t))
  OBVIOUS
<1>4. PICK S : a \in S /\ b \in S /\ r \in Seq(S)
  <2>1. CASE t.lang = "java"
    <3>1. a \in {a, b} /\ b \in {a, b} /\ <<>> \in Seq({a, b}) /\ r = <<>>
      BY <1>1, <2>1
    <3>2. QED
      BY <3>1
  <2>2. CASE t.lang # "java"
    <3>1. PICK d : d = Var("app_name", AppName(t.envs))
      OBVIOUS
    <3>2. a \in {a, b, d} /\ b \in {a, b, d} /\ r \in Seq({a, b, d})
      BY <1>1, <2>2, <3>1
    <3>3. QED
      BY <3>2
  <2>3. QED
    BY <2>1, <2>2
<1>5. InitEnv(t) = <<a, b>> \o r
  BY <1>1, <1>2, <1>3, NamesByLanguage DEF InitEnv
<1>6. a.name = "WHATAP_LICENSE" /\ b.name = "WHATAP_HOST"
  BY <1>2, <1>3 DEF Var
<1>7. Effective(InitEnv(t), a.name) = a /\ Effective(InitEnv(t), b.name) = b
  <2>1. PICK x : x = <<a, b>>
    OBVIOUS
  <2>2. x \in Seq(S) /\ Len(x) = 2 /\ x[1] = a /\ x[2] = b
    BY <1>4, <2>1
  <2>3. Effective(x \o r, x[1].name) = x[1] /\ Effective(x \o r, x[2].name) = x[2]
    BY <1>4, <1>6, <2>2, EffectivePair
  <2>4. QED
    BY <1>5, <2>1, <2>2, <2>3
<1>8. QED
  BY <1>2, <1>3, <1>6, <1>7

\* A container reports where its init container was told to.
SameServer(q, c, lang) ==
    LET init == AgentInits(q)[1].env
    IN  /\ Binding(q.env[c], HostName[lang])
             = <<[Effective(init, "WHATAP_HOST") EXCEPT !.name = HostName[lang]]>>
        /\ Binding(q.env[c], LicenseName[lang])
             = <<[Effective(init, "WHATAP_LICENSE") EXCEPT !.name = LicenseName[lang]]>>

LEMMA InjectSameServer ==
    ASSUME NEW p, Fresh(p), NEW t, ProperTarget(t), NEW w, t.lang \in DOMAIN HostName
    PROVE  /\ DOMAIN Inject(p, t, w).env = DOMAIN p.env
           /\ \A c \in DOMAIN p.env : SameServer(Inject(p, t, w), c, t.lang)
<1>1. PICK q : q = Inject(p, t, w)
  OBVIOUS
<1>2. ContainersFine(p, t, q)
  BY <1>1, InjectContainers
<1>3. SUFFICES ASSUME NEW c \in DOMAIN p.env
               PROVE  SameServer(q, c, t.lang)
  BY <1>1, <1>2 DEF ContainersFine
<1>4. c \in STRING /\ p.env[c] \in Seq(PlainEntries) /\ q.env[c] = InjectEnv(p.env[c], t, c)
  BY <1>2 DEF ContainersFine
<1>5. /\ Binding(q.env[c], LicenseName[t.lang]) = <<Var(LicenseName[t.lang], License(t))>>
      /\ Binding(q.env[c], HostName[t.lang]) = <<Var(HostName[t.lang], Host(t))>>
  BY <1>4, InjectEnvFacts
<1>6. AgentInits(q)[1].env = InitEnv(t)
  BY <1>1, NewInitFacts
<1>7. /\ [Effective(InitEnv(t), "WHATAP_LICENSE") EXCEPT !.name = LicenseName[t.lang]]
           = Var(LicenseName[t.lang], License(t))
      /\ [Effective(InitEnv(t), "WHATAP_HOST") EXCEPT !.name = HostName[t.lang]]
           = Var(HostName[t.lang], Host(t))
  BY InitEnvFacts, Renamed
<1>8. QED
  BY <1>5, <1>6, <1>7 DEF SameServer

\* When the agent is injected, each application container has a single entry for
\* the server and for the licence, the one the init container was given,
\* whatever the container, other webhooks or the target had under that name
\* (the combination of environment lists, and KAZAA-641).
THEOREM ServerIsOne == Spec => OneServer
<1>1. ASSUME PodInv, [Next]_vars, Injects, pod'.agent.lang \in DOMAIN HostName,
             NEW c \in DOMAIN pod'.env
      PROVE  SameServer(pod', c, pod'.agent.lang)
  <2>1. /\ Fresh(pod) /\ ProperTarget(Target)
        /\ pod' = Inject(pod, Target, read)
        /\ pod'.agent.lang = Target.lang
    BY <1>1, OnlyInjectTargetInjects
  <2>2. PICK q : q = Inject(pod, Target, read)
    OBVIOUS
  <2>3. DOMAIN q.env = DOMAIN pod.env /\ \A k \in DOMAIN pod.env : SameServer(q, k, Target.lang)
    BY <1>1, <2>1, <2>2, InjectSameServer
  <2>4. QED
    BY <1>1, <2>1, <2>2, <2>3
<1>2. PodInv /\ [Next]_vars
        => [Injects /\ pod'.agent.lang \in DOMAIN HostName =>
              \A c \in DOMAIN pod'.env :
                LET init == AgentInits(pod')[1].env
                    lang == pod'.agent.lang
                IN  /\ Binding(pod'.env[c], HostName[lang])
                         = <<[Effective(init, "WHATAP_HOST") EXCEPT !.name = HostName[lang]]>>
                    /\ Binding(pod'.env[c], LicenseName[lang])
                         = <<[Effective(init, "WHATAP_LICENSE") EXCEPT !.name = LicenseName[lang]]>>]_vars
  BY <1>1 DEF SameServer
<1>3. QED
  BY <1>2, PodInvAlways, PTL DEF Spec, OneServer

\* b is entry a as injection may leave it.
Kept(a, b) ==
    /\ b.name = a.name /\ b.ref = a.ref /\ IsPrefix(a.val, b.val)
    /\ a.name # Options => b = a

KeptAll(s, t) == Len(t) = Len(s) /\ \A i \in DOMAIN s : Kept(s[i], t[i])

LEMMA PrefixFacts ==
    ASSUME NEW v \in Seq(STRING), NEW a \in STRING
    PROVE  IsPrefix(v, v) /\ IsPrefix(v, Append(v, a))
BY DEF IsPrefix

LEMMA KeptFacts ==
    ASSUME NEW e \in Entries
    PROVE  Kept(e, e) /\ (e.name = Options => Kept(e, WithAgent(e)))
<1>1. e.val \in Seq(STRING)
  BY DEF Entries
<1>2. IsPrefix(e.val, e.val) /\ IsPrefix(e.val, Append(e.val, "agent"))
  BY <1>1, PrefixFacts, StringsAssumption
<1>3. Kept(e, e)
  BY <1>2 DEF Kept
<1>4. PICK f : f = WithAgent(e)
  OBVIOUS
<1>5. f.name = e.name /\ f.ref = e.ref /\ f.val = Append(e.val, "agent")
  BY <1>4, WithAgentTyped
<1>6. e.name = Options => Kept(e, f)
  BY <1>2, <1>5 DEF Kept
<1>7. QED
  BY <1>3, <1>4, <1>6

LEMMA KeptAllSame == ASSUME NEW s \in Seq(Entries) PROVE KeptAll(s, s)
BY KeptFacts DEF KeptAll

LEMMA KeptAllAppend ==
    ASSUME NEW s \in Seq(Entries), NEW t \in Seq(Entries), NEW e \in Entries, NEW f \in Entries,
           KeptAll(s, t), Kept(e, f)
    PROVE  KeptAll(Append(s, e), Append(t, f))
<1>1. Len(t) = Len(s) /\ \A i \in 1..Len(s) : Kept(s[i], t[i])
  BY DEF KeptAll
<1>2. DOMAIN Append(s, e) = 1..Len(s) + 1 /\ Len(Append(s, e)) = Len(s) + 1
      /\ Len(Append(t, f)) = Len(t) + 1
  OBVIOUS
<1>3. ASSUME NEW i \in 1..Len(s) + 1
      PROVE  Kept(Append(s, e)[i], Append(t, f)[i])
  <2>1. CASE i \in 1..Len(s)
    <3>1. Append(s, e)[i] = s[i] /\ Append(t, f)[i] = t[i]
      BY <1>1, <2>1
    <3>2. QED
      BY <1>1, <2>1, <3>1
  <2>2. CASE i = Len(s) + 1
    <3>1. Append(s, e)[i] = e /\ Append(t, f)[i] = f
      BY <1>1, <2>2
    <3>2. QED
      BY <3>1
  <2>3. Len(s) \in Nat /\ i \in Int
    OBVIOUS
  <2>4. i \in 1..Len(s) \/ i = Len(s) + 1
    BY <2>3
  <2>5. QED
    BY <2>1, <2>2, <2>4
<1>4. QED
  BY <1>1, <1>2, <1>3 DEF KeptAll

\* The Java injector changes nothing but the first JAVA_TOOL_OPTIONS, whatever
\* entries are left out afterwards.
LEMMA OptionsKept ==
    ASSUME NEW N, NEW s \in Seq(PlainEntries), Options \in Names(s)
    PROVE  KeptAll(Without(s, N), Without(JavaToolOptions(s), N))
<1> DEFINE T == {x \in Seq(PlainEntries) :
                   Options \in Names(x) => KeptAll(Without(x, N), Without(JavaToolOptions(x), N))}
<1>1. <<>> \in T
  BY NoName
<1>2. ASSUME NEW x \in Seq(PlainEntries), x \in T, NEW e \in PlainEntries
      PROVE  Append(x, e) \in T
  <2>1. Append(x, e) \in Seq(PlainEntries) /\ Names(Append(x, e)) = Names(x) \cup {e.name}
    BY AppendNames
  <2>2. SUFFICES ASSUME Options \in Names(x) \cup {e.name}
                 PROVE  KeptAll(Without(Append(x, e), N), Without(JavaToolOptions(Append(x, e)), N))
    BY <2>1
  <2>3. e \in Entries /\ x \in Seq(Entries) /\ x \in Seq(ValidEntries)
    <3>1. PlainEntries \subseteq Entries /\ PlainEntries \subseteq ValidEntries
      BY DEF PlainEntries, ValidEntries
    <3>2. QED
      BY <3>1
  <2>4. JavaToolOptions(x) \in Seq(Entries)
    <3>1. \A y \in ToSet(x) : PlainOptions(y)
      BY DEF PlainEntries, ToSet
    <3>2. JavaToolOptions(x) \in Seq(ValidEntries)
      BY <2>3, <3>1, JavaToolOptionsTyped
    <3>3. QED
      BY <3>2, ValidSeqs
  <2>5. Without(x, N) \in Seq(Entries) /\ Without(JavaToolOptions(x), N) \in Seq(Entries)
    BY <2>3, <2>4, WithoutElements
  <2>6. \A y \in Seq(Entries), f \in Entries :
          Without(Append(y, f), N) = IF f.name \in N THEN Without(y, N) ELSE Append(Without(y, N), f)
    BY WithoutAppend
  <2>7. CASE Options \in Names(x)
    <3>1. JavaToolOptions(Append(x, e)) = Append(JavaToolOptions(x), e)
      BY <2>3, <2>7, JavaToolOptionsAppend
    <3>2. KeptAll(Without(x, N), Without(JavaToolOptions(x), N))
      BY <1>2, <2>7
    <3>3. KeptAll(Append(Without(x, N), e), Append(Without(JavaToolOptions(x), N), e))
      BY <2>3, <2>5, <3>2, KeptFacts, KeptAllAppend
    <3>4. QED
      BY <2>3, <2>4, <2>6, <3>1, <3>2, <3>3
  <2>8. CASE Options \notin Names(x)
    <3>1. e.name = Options
      BY <2>2, <2>8
    <3>2. JavaToolOptions(Append(x, e)) = Append(x, WithAgent(e))
      BY <2>3, <2>8, <3>1, JavaToolOptionsAppend
    <3>3. PICK f \in Entries : f = WithAgent(e) /\ f.name = e.name
      BY <2>3, WithAgentTyped
    <3>4. KeptAll(Without(x, N), Without(x, N)) /\ Kept(e, f)
      BY <2>3, <2>5, <3>1, <3>3, KeptAllSame, KeptFacts
    <3>5. KeptAll(Append(Without(x, N), e), Append(Without(x, N), f))
      BY <2>3, <2>5, <3>4, KeptAllAppend
    <3>6. QED
      BY <2>3, <2>6, <3>2, <3>3, <3>4, <3>5
  <2>9. QED
    BY <2>7, <2>8
<1>3. Seq(PlainEntries) \subseteq T
  <2> HIDE DEF T
  <2> QED BY <1>1, <1>2, SetOfSeqs
<1>4. QED
  BY <1>3

\* Of the entries nobody claims, injection changes only the options of Java.
LEMMA StartKept ==
    ASSUME NEW t, NEW env \in Seq(PlainEntries)
    PROVE  KeptAll(Without(env, Claimed(t)), Only(Start(env, t), Names(env) \ Claimed(t)))
<1> DEFINE K == Names(env) \ Claimed(t)
<1>1. env \in Seq(Entries) /\ env \in Seq(ValidEntries) /\ \A y \in ToSet(env) : PlainOptions(y)
  <2>1. PlainEntries \subseteq Entries /\ PlainEntries \subseteq ValidEntries
    BY DEF PlainEntries, ValidEntries
  <2>2. \A y \in ToSet(env) : PlainOptions(y)
    BY DEF PlainEntries, ToSet
  <2>3. QED
    BY <2>1, <2>2
<1>2. CASE t.lang # "java"
  <2>1. Start(env, t) = env
    BY <1>2 DEF Start
  <2>2. Names(env) \cap K = Names(env) \ Claimed(t)
    OBVIOUS
  <2>3. Only(env, K) = Without(env, Claimed(t)) /\ Without(env, Claimed(t)) \in Seq(Entries)
    BY <1>1, <2>2, OnlyOthers, WithoutElements
  <2>4. QED
    BY <2>1, <2>3, KeptAllSame
<1>3. CASE t.lang = "java"
  <2>1. PICK J : J = JavaToolOptions(env)
    OBVIOUS
  <2>2. Start(env, t) = J
    BY <1>3, <2>1 DEF Start
  <2>3. J \in Seq(Entries) /\ Names(J) = Names(env) \cup {Options}
    BY <1>1, <2>1, JavaToolOptionsTyped, ValidSeqs
  <2>4. CASE Options \in Names(env)
    <3>1. Names(J) \cap K = Names(J) \ Claimed(t)
      BY <2>3, <2>4
    <3>2. Only(J, K) = Without(J, Claimed(t))
      BY <2>3, <3>1, OnlyOthers
    <3>3. KeptAll(Without(env, Claimed(t)), Without(J, Claimed(t)))
      BY <2>1, <2>4, OptionsKept
    <3>4. QED
      BY <2>2, <3>2, <3>3
  <2>5. CASE Options \notin Names(env)
    <3>1. PICK v \in Entries : J = Append(env, v) /\ v.name = Options
      <4>1. J = Append(env, Var("JAVA_TOOL_OPTIONS", <<"agent">>))
        BY <2>1, <2>5 DEF JavaToolOptions, Options
      <4>2. "JAVA_TOOL_OPTIONS" \in STRING /\ <<"agent">> \in Seq(STRING)
        BY StringsAssumption
      <4>3. Var("JAVA_TOOL_OPTIONS", <<"agent">>) \in Entries
        BY <4>2, VarTyped DEF ValidEntries
      <4>4. Var("JAVA_TOOL_OPTIONS", <<"agent">>).name = Options
        BY DEF Var, Options
      <4>5. QED
        BY <4>1, <4>3, <4>4
    <3>2. PICK N : N = Claimed(t) \cup {Options}
      OBVIOUS
    <3>3. Names(J) \cap K = Names(J) \ N
      BY <2>3, <2>5, <3>2
    <3>4. Only(J, K) = Without(J, N)
      BY <2>3, <3>3, OnlyOthers
    <3>5. Without(J, N) = Without(env, N)
      <4>1. \A e \in Entries : Without(Append(env, e), N)
                = IF e.name \in N THEN Without(env, N) ELSE Append(Without(env, N), e)
        BY <1>1, WithoutAppend
      <4>2. v.name \in N
        BY <3>1, <3>2
      <4>3. QED
        BY <3>1, <4>1, <4>2
    <3>6. Without(env, N) = Without(env, Claimed(t))
      <4>1. Names(env) \cap N = Names(env) \cap Claimed(t)
        BY <2>5, <3>2
      <4>2. QED
        BY <1>1, <4>1, WithoutSame
    <3>7. Without(env, Claimed(t)) \in Seq(Entries)
      BY <1>1, WithoutElements
    <3>8. QED
      BY <2>2, <3>4, <3>5, <3>6, <3>7, KeptAllSame
  <2>6. QED
    BY <2>4, <2>5
<1>4. QED
  BY <1>2, <1>3

\* Injection keeps every entry of a container that neither the operator owns nor
\* the target sets, in the same order; options may only be appended to
\* (upsertEnvVars, combineEnvVars and the language injectors).
THEOREM UserEntriesAreKept == Spec => UserEnvKept
<1>1. ASSUME PodInv, [Next]_vars, Injects, NEW c \in DOMAIN pod.env
      PROVE  KeptAll(Without(pod.env[c], Claimed(Target)),
                     Only(pod'.env[c], Names(Without(pod.env[c], Claimed(Target)))))
  <2>1. /\ Fresh(pod) /\ ProperTarget(Target)
        /\ pod' = Inject(pod, Target, read)
    BY <1>1, OnlyInjectTargetInjects
  <2>2. ContainersFine(pod, Target, pod')
    BY <2>1, InjectContainers
  <2>3. c \in STRING /\ pod.env[c] \in Seq(PlainEntries)
        /\ pod'.env[c] = InjectEnv(pod.env[c], Target, c)
    BY <1>1, <2>2 DEF ContainersFine
  <2>4. Names(Without(pod.env[c], Claimed(Target))) = Names(pod.env[c]) \ Claimed(Target)
    BY <2>3, WithoutNames
  <2>5. Only(InjectEnv(pod.env[c], Target, c), Names(pod.env[c]) \ Claimed(Target))
          = Only(Start(pod.env[c], Target), Names(pod.env[c]) \ Claimed(Target))
    BY <2>1, <2>3, InjectEnvFacts
  <2>6. KeptAll(Without(pod.env[c], Claimed(Target)),
                Only(Start(pod.env[c], Target), Names(pod.env[c]) \ Claimed(Target)))
    BY <2>3, StartKept
  <2>7. QED
    BY <2>3, <2>4, <2>5, <2>6
<1>2. ASSUME PodInv, [Next]_vars, Injects, NEW c \in DOMAIN pod.env
      PROVE  LET old == Without(pod.env[c], Claimed(Target))
                 new == Only(pod'.env[c], Names(old))
             IN  /\ Len(new) = Len(old)
                 /\ \A i \in DOMAIN old :
                      /\ new[i].name = old[i].name /\ new[i].ref = old[i].ref
                      /\ IsPrefix(old[i].val, new[i].val)
                      /\ old[i].name # "JAVA_TOOL_OPTIONS" => new[i] = old[i]
  BY <1>1, <1>2 DEF KeptAll, Kept, Options
<1>3. PodInv /\ [Next]_vars
        => [Injects =>
              \A c \in DOMAIN pod.env :
                LET old == Without(pod.env[c], Claimed(Target))
                    new == Only(pod'.env[c], Names(old))
                IN  /\ Len(new) = Len(old)
                    /\ \A i \in DOMAIN old :
                         /\ new[i].name = old[i].name /\ new[i].ref = old[i].ref
                         /\ IsPrefix(old[i].val, new[i].val)
                         /\ old[i].name # "JAVA_TOOL_OPTIONS" => new[i] = old[i]]_vars
  BY <1>2
<1>4. QED
  BY <1>3, PodInvAlways, PTL DEF Spec, UserEnvKept

===============================================================================
