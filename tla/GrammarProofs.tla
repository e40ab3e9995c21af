---------------------------- MODULE GrammarProofs ----------------------------
(***************************************************************************)
(* What the walk and the reducer do with every grammar, however deep the   *)
(* walk goes and whatever the engine answers.                              *)
(***************************************************************************)
EXTENDS GrammarWalk, SequenceTheorems, FiniteSetTheorems, FunctionTheorems,
        WellFoundedInduction, TLAPS

(***************************************************************************)
(* Ways                                                                    *)
(***************************************************************************)

\* Every set of naturals that is not empty has a least element.
LEMMA LeastNatural ==
  ASSUME NEW T, T \subseteq Nat, T # {}
  PROVE  \E x \in T : \A y \in T : x <= y
<1> DEFINE R == {ss \in Nat \X Nat : ss[1] < ss[2]}
<1>1. IsWellFoundedOn(R, Nat)
  BY NatLessThanWellFounded DEF OpToRel
<1>2. \A x, y \in Nat : x < y => <<x, y>> \in R
  OBVIOUS
<1> HIDE DEF R
<1>3. PICK x \in T : \A y \in T : ~(<<y, x>> \in R)
  BY <1>1, WFMin
<1>4. ASSUME NEW y \in T PROVE x <= y
  <2>1. x \in Nat /\ y \in Nat
    OBVIOUS
  <2>2. ~(y < x)
    BY <2>1, <1>2, <1>3
  <2> QED BY <2>1, <2>2
<1> QED BY <1>4

\* The numbers up to n are n.
LEMMA UpTo ==
  ASSUME NEW n \in Nat
  PROVE  IsFiniteSet(1..n) /\ Cardinality(1..n) = n
<1>1. n \in Int /\ 1 \in Int
  OBVIOUS
<1>2. IsFiniteSet(1..n) /\ Cardinality(1..n) = IF 1 > n THEN 0 ELSE n - 1 + 1
  BY <1>1, FS_Interval
<1>3. (IF 1 > n THEN 0 ELSE n - 1 + 1) = n
  OBVIOUS
<1> QED BY <1>2, <1>3

\* A way and one step more.
LEMMA OneMore ==
  ASSUME NEW w \in Ways, NEW k \in Nat \ {0}
  PROVE  /\ Append(w, k) \in Ways /\ Append(w, k) # <<>> /\ Len(Append(w, k)) = Len(w) + 1
         /\ Front(Append(w, k)) = w /\ Last(Append(w, k)) = k
<1> DEFINE N == Nat \ {0}
           v == Append(w, k)
<1>1. w \in Seq(N) /\ k \in N
  BY DEF Ways
<1> HIDE DEF N
<1>2. /\ v \in Seq(N) /\ v # <<>> /\ Len(v) = Len(w) + 1
      /\ \A i \in 1..Len(w) : v[i] = w[i]
      /\ v[Len(w) + 1] = k
  BY <1>1, AppendProperties
<1>3. Len(w) \in Nat
  BY <1>1, LenProperties
<1> HIDE DEF v
<1>4. Last(v) = k
  BY <1>2 DEF Last
<1>5. Front(v) = SubSeq(v, 1, Len(w))
  <2>1. Len(v) - 1 = Len(w)
    BY <1>2, <1>3
  <2> QED BY <2>1 DEF Front
<1>6. /\ SubSeq(v, 1, Len(w)) \in Seq(N)
      /\ Len(SubSeq(v, 1, Len(w))) = Len(w)
      /\ \A i \in 1..Len(w) : SubSeq(v, 1, Len(w))[i] = v[i]
  <2>1. \A i \in 1..Len(w) : v[i] \in N
    BY <1>1, <1>2, ElementOfSeq
  <2>2. 1 \in Int /\ Len(w) \in Int
    BY <1>3
  <2>3. /\ SubSeq(v, 1, Len(w)) \in Seq(N)
        /\ Len(SubSeq(v, 1, Len(w))) = IF 1 <= Len(w) THEN Len(w) - 1 + 1 ELSE 0
        /\ \A i \in 1..(Len(w) - 1 + 1) : SubSeq(v, 1, Len(w))[i] = v[1 + i - 1]
    BY <2>1, <2>2, SubSeqProperties
  <2>4. Len(w) - 1 + 1 = Len(w) /\ \A i \in 1..Len(w) : 1 + i - 1 = i
    BY <1>3
  <2>5. (IF 1 <= Len(w) THEN Len(w) - 1 + 1 ELSE 0) = Len(w)
    BY <1>3
  <2> QED BY <2>3, <2>4, <2>5
<1>7. SubSeq(v, 1, Len(w)) = w
  BY <1>1, <1>2, <1>6, SeqEqual
<1> QED BY <1>2, <1>4, <1>5, <1>7 DEF v, Ways, N

\* A way of more than no step is one and one step more.
LEMMA LastStep ==
  ASSUME NEW w \in Ways, w # <<>>
  PROVE  /\ Front(w) \in Ways /\ Last(w) \in Nat \ {0} /\ w = Append(Front(w), Last(w))
         /\ Len(w) = Len(Front(w)) + 1
<1> DEFINE N == Nat \ {0}
<1>1. w \in Seq(N)
  BY DEF Ways
<1>2. PICK v \in Seq(N), k \in N : w = Append(v, k)
  <2> HIDE DEF N
  <2> QED BY <1>1, SequenceEmptyOrAppend
<1>3. v \in Ways
  BY DEF Ways
<1> QED BY <1>2, <1>3, OneMore

\* A way and another after it.
LEMMA Along ==
  ASSUME NEW v \in Ways, NEW w \in Ways
  PROVE  /\ v \o w \in Ways /\ Len(v \o w) = Len(v) + Len(w)
         /\ IsPrefix(v, v \o w) /\ After(v \o w, Len(v)) = w
<1> DEFINE N == Nat \ {0}
           u == v \o w
<1>1. v \in Seq(N) /\ w \in Seq(N)
  BY DEF Ways
<1> HIDE DEF N
<1>2. Len(v) \in Nat /\ Len(w) \in Nat
  BY <1>1, LenProperties
<1>3. /\ u \in Seq(N) /\ Len(u) = Len(v) + Len(w)
      /\ \A i \in 1..(Len(v) + Len(w)) :
           u[i] = IF i <= Len(v) THEN v[i] ELSE w[i - Len(v)]
  BY <1>1, ConcatProperties
<1> HIDE DEF u
<1>4. \A i \in 1..Len(u) : u[i] \in N
  BY <1>3, ElementOfSeq
<1>5. IsPrefix(v, u)
  <2>1. /\ SubSeq(u, 1, Len(v)) \in Seq(N)
        /\ Len(SubSeq(u, 1, Len(v))) = IF 1 <= Len(v) THEN Len(v) - 1 + 1 ELSE 0
        /\ \A i \in 1..(Len(v) - 1 + 1) : SubSeq(u, 1, Len(v))[i] = u[1 + i - 1]
    <3>1. \A i \in 1..Len(v) : u[i] \in N
      BY <1>2, <1>3, <1>4
    <3>2. 1 \in Int /\ Len(v) \in Int
      BY <1>2
    <3> QED BY <3>1, <3>2, SubSeqProperties
  <2>2. Len(SubSeq(u, 1, Len(v))) = Len(v)
    BY <1>2, <2>1
  <2>3. \A i \in 1..Len(v) : SubSeq(u, 1, Len(v))[i] = v[i]
    <3> SUFFICES ASSUME NEW i \in 1..Len(v) PROVE SubSeq(u, 1, Len(v))[i] = v[i]
      OBVIOUS
    <3>1. i \in 1..(Len(v) - 1 + 1) /\ 1 + i - 1 = i /\ i \in 1..(Len(v) + Len(w)) /\ i <= Len(v)
      BY <1>2
    <3> QED BY <1>3, <2>1, <3>1
  <2>4. SubSeq(u, 1, Len(v)) = v
    BY <1>1, <2>1, <2>2, <2>3, SeqEqual
  <2>5. SubSeq(v, 1, Len(v)) = v
    BY <1>1, SubSeqFull
  <2> QED BY <1>2, <1>3, <2>4, <2>5 DEF IsPrefix
<1>6. SubSeq(u, Len(v) + 1, Len(u)) = w
  <2> DEFINE s == SubSeq(u, Len(v) + 1, Len(u))
  <2>1. /\ s \in Seq(N)
        /\ Len(s) = IF Len(v) + 1 <= Len(u) THEN Len(u) - (Len(v) + 1) + 1 ELSE 0
        /\ \A i \in 1..(Len(u) - (Len(v) + 1) + 1) : s[i] = u[Len(v) + 1 + i - 1]
    <3>1. \A i \in (Len(v) + 1)..Len(u) : u[i] \in N
      BY <1>2, <1>3, <1>4
    <3>2. Len(v) + 1 \in Int /\ Len(u) \in Int
      BY <1>2, <1>3
    <3> QED BY <3>1, <3>2, SubSeqProperties
  <2> HIDE DEF s
  <2>2. Len(s) = Len(w)
    BY <1>2, <1>3, <2>1
  <2>3. \A i \in 1..Len(w) : s[i] = w[i]
    <3> SUFFICES ASSUME NEW i \in 1..Len(w) PROVE s[i] = w[i]
      OBVIOUS
    <3> DEFINE j == Len(v) + i
    <3>1. /\ i \in 1..(Len(u) - (Len(v) + 1) + 1) /\ Len(v) + 1 + i - 1 = j
          /\ j \in 1..(Len(v) + Len(w)) /\ ~(j <= Len(v)) /\ j - Len(v) = i
      BY <1>2, <1>3
    <3> HIDE DEF j
    <3> QED BY <1>3, <2>1, <3>1
  <2>4. s = w
    BY <1>1, <2>1, <2>2, <2>3, SeqEqual
  <2> QED BY <2>4 DEF s
<1> QED BY <1>3, <1>5, <1>6 DEF u, N, Ways, After

\* One step more after both is one step more after the second.
LEMMA AlongOneMore ==
  ASSUME NEW v \in Ways, NEW w \in Ways, NEW k \in Nat \ {0}
  PROVE  Append(v \o w, k) = v \o Append(w, k)
<1> DEFINE N == Nat \ {0}
<1>1. v \in Seq(N) /\ w \in Seq(N) /\ k \in N
  BY DEF Ways
<1> HIDE DEF N
<1>2. <<k>> \in Seq(N)
  BY <1>1
<1>3. v \o w \in Seq(N)
  BY <1>1, ConcatProperties
<1>4. Append(v \o w, k) = (v \o w) \o <<k>> /\ Append(w, k) = w \o <<k>>
  BY <1>1, <1>3, AppendIsConcat
<1>5. (v \o w) \o <<k>> = v \o (w \o <<k>>)
  BY <1>1, <1>2, ConcatAssociative
<1> QED BY <1>4, <1>5

\* A way begins another where they agree as far as it goes.
LEMMA BeginsIf ==
  ASSUME NEW v \in Ways, NEW w \in Ways
  PROVE  IsPrefix(v, w) <=> Len(v) <= Len(w) /\ \A i \in 1..Len(v) : w[i] = v[i]
<1> DEFINE N == Nat \ {0}
<1>1. v \in Seq(N) /\ w \in Seq(N)
  BY DEF Ways
<1> HIDE DEF N
<1>2. Len(v) \in Nat /\ Len(w) \in Nat
  BY <1>1, LenProperties
<1>3. SubSeq(v, 1, Len(v)) = v
  BY <1>1, SubSeqFull
<1>4. CASE Len(v) <= Len(w)
  <2> DEFINE s == SubSeq(w, 1, Len(v))
  <2>1. \A i \in 1..Len(v) : w[i] \in N
    <3> SUFFICES ASSUME NEW i \in 1..Len(v) PROVE w[i] \in N
      OBVIOUS
    <3>1. i \in 1..Len(w)
      BY <1>2, <1>4
    <3> QED BY <1>1, <3>1, ElementOfSeq
  <2>2. 1 \in Int /\ Len(v) \in Int
    BY <1>2
  <2>3. /\ s \in Seq(N)
        /\ Len(s) = IF 1 <= Len(v) THEN Len(v) - 1 + 1 ELSE 0
        /\ \A i \in 1..(Len(v) - 1 + 1) : s[i] = w[1 + i - 1]
    BY <2>1, <2>2, SubSeqProperties
  <2> HIDE DEF s
  <2>4. Len(s) = Len(v)
    BY <1>2, <2>3
  <2>5. \A i \in 1..Len(v) : s[i] = w[i]
    <3> SUFFICES ASSUME NEW i \in 1..Len(v) PROVE s[i] = w[i]
      OBVIOUS
    <3>1. i \in 1..(Len(v) - 1 + 1) /\ 1 + i - 1 = i
      BY <1>2
    <3> QED BY <2>3, <3>1
  <2>6. s = v <=> \A i \in 1..Len(v) : w[i] = v[i]
    <3>1. (\A i \in 1..Len(v) : w[i] = v[i]) => \A i \in 1..Len(s) : s[i] = v[i]
      BY <2>4, <2>5
    <3>2. (\A i \in 1..Len(s) : s[i] = v[i]) => s = v
      BY <1>1, <2>3, <2>4, SeqEqual
    <3> QED BY <2>5, <3>1, <3>2
  <2> QED BY <1>3, <1>4, <2>6 DEF IsPrefix, s
<1>5. CASE ~(Len(v) <= Len(w))
  BY <1>5 DEF IsPrefix
<1> QED BY <1>4, <1>5

\* What begins with a way is the way and what comes after.
LEMMA Beginning ==
  ASSUME NEW v \in Ways, NEW w \in Ways, IsPrefix(v, w)
  PROVE  /\ After(w, Len(v)) \in Ways /\ w = v \o After(w, Len(v))
         /\ Len(w) = Len(v) + Len(After(w, Len(v)))
<1> DEFINE N == Nat \ {0}
           s == SubSeq(w, Len(v) + 1, Len(w))
<1>1. v \in Seq(N) /\ w \in Seq(N)
  BY DEF Ways
<1> HIDE DEF N
<1>2. Len(v) \in Nat /\ Len(w) \in Nat
  BY <1>1, LenProperties
<1>3. Len(v) <= Len(w) /\ \A i \in 1..Len(v) : w[i] = v[i]
  BY BeginsIf
<1>4. /\ s \in Seq(N)
      /\ Len(s) = IF Len(v) + 1 <= Len(w) THEN Len(w) - (Len(v) + 1) + 1 ELSE 0
      /\ \A i \in 1..(Len(w) - (Len(v) + 1) + 1) : s[i] = w[Len(v) + 1 + i - 1]
  <2>1. \A i \in (Len(v) + 1)..Len(w) : w[i] \in N
    <3> SUFFICES ASSUME NEW i \in (Len(v) + 1)..Len(w) PROVE w[i] \in N
      OBVIOUS
    <3>1. i \in 1..Len(w)
      BY <1>2
    <3> QED BY <1>1, <3>1, ElementOfSeq
  <2>2. Len(v) + 1 \in Int /\ Len(w) \in Int
    BY <1>2
  <2> QED BY <2>1, <2>2, SubSeqProperties
<1> HIDE DEF s
<1>5. Len(s) = Len(w) - Len(v)
  BY <1>2, <1>3, <1>4
<1> DEFINE u == v \o s
<1>6. /\ u \in Seq(N) /\ Len(u) = Len(v) + Len(s)
      /\ \A i \in 1..(Len(v) + Len(s)) : u[i] = IF i <= Len(v) THEN v[i] ELSE s[i - Len(v)]
  BY <1>1, <1>4, ConcatProperties
<1> HIDE DEF u
<1>7. Len(w) = Len(v) + Len(s)
  BY <1>2, <1>5
<1>8. \A i \in 1..Len(w) : w[i] = u[i]
  <2> SUFFICES ASSUME NEW i \in 1..Len(w) PROVE w[i] = u[i]
    OBVIOUS
  <2>1. i \in 1..(Len(v) + Len(s)) /\ i \in Int
    BY <1>2, <1>7
  <2>2. CASE i <= Len(v)
    <3>1. i \in 1..Len(v)
      BY <1>2, <2>1, <2>2
    <3> QED BY <1>3, <1>6, <2>1, <2>2, <3>1
  <2>3. CASE ~(i <= Len(v))
    <3> DEFINE j == i - Len(v)
    <3>1. j \in 1..(Len(w) - (Len(v) + 1) + 1) /\ Len(v) + 1 + j - 1 = i
      BY <1>2, <2>1, <2>3
    <3>2. s[j] = w[i]
      BY <1>4, <3>1
    <3> QED BY <1>6, <2>1, <2>3, <3>2
  <2> QED BY <2>2, <2>3
<1>9. w = u
  BY <1>1, <1>6, <1>7, <1>8, SeqEqual
<1> QED BY <1>4, <1>7, <1>9 DEF s, u, After, Ways, N

\* One step more begins with a way if it is the way or did so before.
LEMMA OneMoreBegins ==
  ASSUME NEW v \in Ways, NEW w \in Ways, NEW k \in Nat \ {0}
  PROVE  IsPrefix(v, Append(w, k)) <=> IsPrefix(v, w) \/ v = Append(w, k)
<1> DEFINE N == Nat \ {0}
           u == Append(w, k)
<1>1. v \in Seq(N) /\ w \in Seq(N) /\ u \in Seq(N) /\ u \in Ways /\ Len(u) = Len(w) + 1
  BY OneMore DEF Ways
<1>2. Len(v) \in Nat /\ Len(w) \in Nat
  BY <1>1, LenProperties
<1>3. \A i \in 1..Len(w) : u[i] = w[i]
  BY <1>1, AppendProperties
<1> HIDE DEF u, N
<1>4. IsPrefix(v, u) <=> Len(v) <= Len(u) /\ \A i \in 1..Len(v) : u[i] = v[i]
  BY <1>1, BeginsIf
<1>5. IsPrefix(v, w) <=> Len(v) <= Len(w) /\ \A i \in 1..Len(v) : w[i] = v[i]
  BY BeginsIf
<1>6. CASE Len(v) <= Len(w)
  <2>1. \A i \in 1..Len(v) : u[i] = w[i]
    BY <1>2, <1>3, <1>6
  <2>2. Len(v) <= Len(u) /\ v # u
    BY <1>1, <1>2, <1>6
  <2>3. IsPrefix(v, u) <=> IsPrefix(v, w)
    BY <1>4, <1>5, <1>6, <2>1, <2>2
  <2> QED BY <2>2, <2>3 DEF u
<1>7. CASE Len(v) = Len(u)
  <2>1. (\A i \in 1..Len(v) : u[i] = v[i]) => v = u
    BY <1>1, <1>7, SeqEqual
  <2>2. v = u => \A i \in 1..Len(v) : u[i] = v[i]
    OBVIOUS
  <2>3. Len(v) <= Len(u) /\ ~(Len(v) <= Len(w))
    BY <1>1, <1>2, <1>7
  <2> QED BY <1>4, <1>5, <2>1, <2>2, <2>3 DEF u
<1>8. CASE ~(Len(v) <= Len(w)) /\ Len(v) # Len(u)
  <2>1. ~(Len(v) <= Len(u)) /\ v # u
    BY <1>1, <1>2, <1>8
  <2> QED BY <1>4, <1>5, <1>8, <2>1 DEF u
<1> QED BY <1>6, <1>7, <1>8

(***************************************************************************)
(* Trees                                                                   *)
(***************************************************************************)

\* What a function makes of a finite set is finite, and as much where it makes
\* nothing twice.
LEMMA Image ==
  ASSUME NEW S, IsFiniteSet(S), NEW f, DOMAIN f = S
  PROVE  LET T == {f[x] : x \in S}
         IN  /\ IsFiniteSet(T) /\ Cardinality(T) <= Cardinality(S)
             /\ (\A x, y \in S : f[x] = f[y] => x = y) => Cardinality(T) = Cardinality(S)
<1> DEFINE T == {f[x] : x \in S}
           g == [x \in S |-> f[x]]
<1>1. g \in [S -> T] /\ (\A t \in T : \E s \in S : g[s] = t) /\ \A x \in S : g[x] = f[x]
  OBVIOUS
<1> HIDE DEF g, T
<1>2. g \in Surjection(S, T)
  BY <1>1, Fun_IsSurj
<1>3. IsFiniteSet(T) /\ Cardinality(T) <= Cardinality(S)
  BY <1>2, FS_Surjection
<1>4. ASSUME \A x, y \in S : f[x] = f[y] => x = y PROVE Cardinality(T) = Cardinality(S)
  <2>1. \A x, y \in S : g[x] = g[y] => x = y
    BY <1>1, <1>4
  <2>2. g \in Bijection(S, T)
    BY <1>1, <2>1, Fun_IsBij
  <2>3. ExistsBijection(S, T)
    BY <2>2 DEF ExistsBijection
  <2> QED BY <2>3, FS_Bijection
<1> QED BY <1>3, <1>4 DEF T

\* The root's way.
LEMMA RootWay ==
  /\ <<>> \in Ways /\ Len(<<>>) = 0
  /\ \A w \in Ways : /\ w # <<>> => Len(w) \in Nat \ {0}
                     /\ Len(w) \in Nat
                     /\ IsPrefix(<<>>, w) /\ After(w, 0) = w /\ <<>> \o w = w /\ w \o <<>> = w
                     /\ IsPrefix(w, w) /\ After(w, Len(w)) = <<>>
                     /\ (IsPrefix(w, <<>>) => w = <<>>)
<1> DEFINE N == Nat \ {0}
<1>1. Ways = Seq(N)
  BY DEF Ways
<1> HIDE DEF N
<1>2. <<>> \in Ways /\ Len(<<>>) = 0
  BY <1>1, EmptySeq
<1>3. ASSUME NEW w \in Ways
      PROVE  /\ w # <<>> => Len(w) \in Nat \ {0}
             /\ Len(w) \in Nat
             /\ IsPrefix(<<>>, w) /\ After(w, 0) = w /\ <<>> \o w = w /\ w \o <<>> = w
             /\ IsPrefix(w, w) /\ After(w, Len(w)) = <<>>
             /\ (IsPrefix(w, <<>>) => w = <<>>)
  <2>1. (w # <<>> => Len(w) \in Nat \ {0}) /\ Len(w) \in Nat
    BY <1>1, EmptySeq, LenProperties
  <2>2. <<>> \o w = w /\ w \o <<>> = w
    BY <1>1, ConcatEmptySeq
  <2>3. IsPrefix(<<>>, w) /\ After(w, 0) = w
    BY <1>2, <2>2, Along
  <2>4. IsPrefix(w, w) /\ After(w, Len(w)) = <<>>
    BY <1>2, <2>2, Along
  <2>5. IsPrefix(w, <<>>) => w = <<>>
    BY <1>2, <2>1 DEF IsPrefix
  <2> QED BY <2>1, <2>2, <2>3, <2>4, <2>5
<1> QED BY <1>2, <1>3

\* A way of more than no step is one step and a way.
LEMMA FirstStep ==
  ASSUME NEW w \in Ways, w # <<>>
  PROVE  w[1] \in Nat \ {0} /\ After(w, 1) \in Ways /\ w = <<w[1]>> \o After(w, 1)
<1> DEFINE N == Nat \ {0}
<1>1. w \in Seq(N) /\ Len(w) \in Nat \ {0}
  BY RootWay DEF Ways
<1>2. w[1] \in N
  <2>1. 1 \in 1..Len(w)
    BY <1>1
  <2> HIDE DEF N
  <2> QED BY <1>1, <2>1, ElementOfSeq
<1> DEFINE v == <<w[1]>>
<1>3. v \in Ways /\ Len(v) = 1 /\ v[1] = w[1]
  BY <1>2 DEF Ways
<1> HIDE DEF v
<1>4. IsPrefix(v, w)
  <2>1. Len(v) <= Len(w) /\ \A i \in 1..Len(v) : w[i] = v[i]
    BY <1>1, <1>3
  <2> QED BY <1>3, <2>1, BeginsIf
<1>5. After(w, 1) \in Ways /\ w = v \o After(w, 1)
  BY <1>3, <1>4, Beginning
<1> QED BY <1>2, <1>5 DEF v

\* One step and a way.
LEMMA StepAnd ==
  ASSUME NEW k \in Nat \ {0}, NEW w \in Ways
  PROVE  /\ <<k>> \in Ways /\ Len(<<k>>) = 1 /\ <<k>> = Append(<<>>, k)
         /\ <<k>> \o w \in Ways /\ <<k>> \o w # <<>> /\ (<<k>> \o w)[1] = k
         /\ After(<<k>> \o w, 1) = w
         /\ Len(<<k>> \o w) = Len(w) + 1
<1> DEFINE N == Nat \ {0}
           v == <<k>>
<1>1. v \in Ways /\ v \in Seq(N) /\ w \in Seq(N) /\ Len(v) = 1 /\ v[1] = k /\ v = Append(<<>>, k)
  BY DEF Ways
<1>2. Len(w) \in Nat
  BY RootWay
<1> HIDE DEF v, N
<1>3. \A i \in 1..Len(v) + Len(w) : (v \o w)[i] = IF i <= Len(v) THEN v[i] ELSE w[i - Len(v)]
  BY <1>1, ConcatProperties
<1>4. 1 \in 1..Len(v) + Len(w) /\ 1 <= Len(v)
  BY <1>1, <1>2
<1>5. (v \o w)[1] = k
  BY <1>1, <1>3, <1>4
<1>6. v \o w \in Ways /\ Len(v \o w) = Len(v) + Len(w) /\ After(v \o w, Len(v)) = w
  BY <1>1, Along
<1>7. Len(v \o w) = Len(w) + 1
  BY <1>1, <1>2, <1>6
<1>8. v \o w # <<>>
  BY <1>2, <1>7, RootWay
<1> QED BY <1>1, <1>5, <1>6, <1>7, <1>8 DEF v

\* A tree, said of each way and each step at once.
LEMMA TreeSteps ==
  ASSUME NEW d, IsTree(d), NEW f \in Ways, NEW k \in Nat \ {0}
  PROVE  Append(f, k) \in DOMAIN d <=> f \in DOMAIN d /\ k \in 1..d[f].kids
<1> DEFINE w == Append(f, k)
<1>1. w # <<>> /\ Front(w) = f /\ Last(w) = k
  BY OneMore
<1>2. w \in DOMAIN d => f \in DOMAIN d /\ k \in 1..d[f].kids
  BY <1>1 DEF IsTree
<1>3. f \in DOMAIN d /\ k \in 1..d[f].kids => w \in DOMAIN d
  BY DEF IsTree
<1> QED BY <1>2, <1>3

\* A function whose ways are the children of one another is a tree.
LEMMA TreeIf ==
  ASSUME NEW d, IsFiniteSet(DOMAIN d), DOMAIN d \subseteq Ways, <<>> \in DOMAIN d,
         \A way \in DOMAIN d : d[way].kids \in Nat,
         \A f \in Ways : \A k \in Nat \ {0} :
           Append(f, k) \in DOMAIN d <=> f \in DOMAIN d /\ k \in 1..d[f].kids
  PROVE  IsTree(d)
<1>1. ASSUME NEW way \in DOMAIN d, NEW k \in 1..d[way].kids PROVE Append(way, k) \in DOMAIN d
  <2>1. d[way].kids \in Nat /\ way \in Ways
    OBVIOUS
  <2>2. k \in Nat \ {0}
    BY <2>1
  <2> QED BY <2>1, <2>2
<1>2. ASSUME NEW way \in DOMAIN d, way # <<>>
      PROVE  Front(way) \in DOMAIN d /\ Last(way) \in 1..d[Front(way)].kids
  <2>1. Front(way) \in Ways /\ Last(way) \in Nat \ {0} /\ way = Append(Front(way), Last(way))
    BY <1>2, LastStep
  <2> QED BY <2>1
<1> QED BY <1>1, <1>2 DEF IsTree

\* The tree of one node.
LEMMA LeafTree ==
  ASSUME NEW x, x.kids = 0
  PROVE  /\ IsTree(Leaf(x)) /\ DOMAIN Leaf(x) = {<<>>} /\ Leaf(x)[<<>>] = x
         /\ Leaf(x) # Nothing
<1> DEFINE d == Leaf(x)
<1>1. DOMAIN d = {<<>>} /\ d[<<>>] = x
  BY DEF Leaf
<1> HIDE DEF d
<1>2. IsFiniteSet(DOMAIN d) /\ DOMAIN d \subseteq Ways /\ <<>> \in DOMAIN d
      /\ \A way \in DOMAIN d : d[way].kids \in Nat
  <2>1. IsFiniteSet({<<>>})
    BY FS_Singleton
  <2>2. <<>> \in Ways
    BY RootWay
  <2> QED BY <1>1, <2>1, <2>2
<1>3. ASSUME NEW f \in Ways, NEW k \in Nat \ {0}
      PROVE  Append(f, k) \in DOMAIN d <=> f \in DOMAIN d /\ k \in 1..d[f].kids
  <2>1. Append(f, k) # <<>>
    BY OneMore
  <2>2. f \in DOMAIN d => d[f].kids = 0
    BY <1>1
  <2> QED BY <1>1, <2>1, <2>2
<1>4. d # Nothing
  BY <1>1 DEF Nothing
<1>5. IsTree(d)
  BY <1>2, <1>3, TreeIf
<1> QED BY <1>1, <1>4, <1>5 DEF d

\* A node with so many children.
With(x, n) == [x EXCEPT !.kids = n]

\* The tree of a node and what is below it.
LEMMA BranchAt ==
  ASSUME NEW x, NEW S, NEW kids \in Seq(S), \A t \in S : DOMAIN t \subseteq Ways
  PROVE  LET b == Branch(x, kids)
         IN  /\ <<>> \in DOMAIN b /\ b[<<>>] = With(x, Len(kids))
             /\ DOMAIN b \subseteq Ways
             /\ \A k \in Nat \ {0} : \A w \in Ways :
                  /\ <<k>> \o w \in DOMAIN b <=> k \in 1..Len(kids) /\ w \in DOMAIN kids[k]
                  /\ k \in 1..Len(kids) /\ w \in DOMAIN kids[k] => b[<<k>> \o w] = kids[k][w]
<1> DEFINE b == Branch(x, kids)
           n == Len(kids)
           D == UNION {{<<k>> \o w : w \in DOMAIN kids[k]} : k \in DOMAIN kids}
<1>1. n \in Nat /\ DOMAIN kids = 1..n /\ \A k \in 1..n : kids[k] \in S /\ DOMAIN kids[k] \subseteq Ways
  BY LenProperties
<1>2. /\ DOMAIN b = {<<>>} \cup D
      /\ \A way \in DOMAIN b :
           b[way] = IF way = <<>> THEN With(x, Len(kids)) ELSE kids[way[1]][After(way, 1)]
  BY DEF Branch, With
<1> HIDE DEF b, n
<1>3. \A k \in 1..n : k \in Nat \ {0}
  BY <1>1
<1>4. D \subseteq Ways
  <2>1. ASSUME NEW k \in 1..n, NEW w \in DOMAIN kids[k] PROVE <<k>> \o w \in Ways
    <3>1. w \in Ways
      BY <1>1
    <3> QED BY <1>3, <3>1, StepAnd
  <2>2. ASSUME NEW way \in D PROVE way \in Ways
    <3>1. PICK k \in 1..n : \E w \in DOMAIN kids[k] : way = <<k>> \o w
      BY <1>1
    <3> QED BY <2>1, <3>1
  <2> QED BY <2>2
<1>5. ASSUME NEW k \in Nat \ {0}, NEW w \in Ways
      PROVE  /\ <<k>> \o w \in D <=> k \in 1..n /\ w \in DOMAIN kids[k]
             /\ <<k>> \o w # <<>> /\ (<<k>> \o w)[1] = k /\ After(<<k>> \o w, 1) = w
  <2>1. <<k>> \o w # <<>> /\ (<<k>> \o w)[1] = k /\ After(<<k>> \o w, 1) = w
    BY StepAnd
  <2>2. ASSUME k \in 1..n, w \in DOMAIN kids[k] PROVE <<k>> \o w \in D
    <3>1. k \in DOMAIN kids /\ <<k>> \o w \in {<<k>> \o v : v \in DOMAIN kids[k]}
      BY <1>1, <2>2
    <3> QED BY Zenon, <3>1
  <2>3. ASSUME <<k>> \o w \in D PROVE k \in 1..n /\ w \in DOMAIN kids[k]
    <3>0. PICK j \in 1..n : \E v \in DOMAIN kids[j] : <<k>> \o w = <<j>> \o v
      BY <1>1, <2>3
    <3>1. PICK v \in DOMAIN kids[j] : <<k>> \o w = <<j>> \o v
      BY <3>0
    <3>2. v \in Ways /\ j \in Nat \ {0}
      BY <1>1, <1>3
    <3>3. (<<j>> \o v)[1] = j /\ After(<<j>> \o v, 1) = v
      BY <3>2, StepAnd
    <3> QED BY <2>1, <3>1, <3>3
  <2> QED BY <2>1, <2>2, <2>3
<1> HIDE DEF D
<1>6. <<>> \in DOMAIN b /\ b[<<>>] = With(x, Len(kids)) /\ DOMAIN b \subseteq Ways
  BY <1>2, <1>4, RootWay
<1>7. \A k \in Nat \ {0} : \A w \in Ways :
        /\ <<k>> \o w \in DOMAIN b <=> k \in 1..n /\ w \in DOMAIN kids[k]
        /\ k \in 1..n /\ w \in DOMAIN kids[k] => b[<<k>> \o w] = kids[k][w]
  <2> SUFFICES ASSUME NEW k \in Nat \ {0}, NEW w \in Ways
               PROVE  /\ <<k>> \o w \in DOMAIN b <=> k \in 1..n /\ w \in DOMAIN kids[k]
                      /\ k \in 1..n /\ w \in DOMAIN kids[k] => b[<<k>> \o w] = kids[k][w]
    OBVIOUS
  <2> DEFINE kw == <<k>> \o w
  <2>1. /\ kw \in D <=> k \in 1..n /\ w \in DOMAIN kids[k]
        /\ kw # <<>> /\ kw[1] = k /\ After(kw, 1) = w
    BY <1>5
  <2> HIDE DEF kw
  <2>2. kw \in DOMAIN b <=> k \in 1..n /\ w \in DOMAIN kids[k]
    BY <1>2, <2>1
  <2>3. k \in 1..n /\ w \in DOMAIN kids[k] => b[kw] = kids[k][w]
    BY <1>2, <2>1, <2>2
  <2> QED BY <2>2, <2>3 DEF kw
<1> QED BY <1>6, <1>7 DEF b, n

\* A node and the trees below it are one.
LEMMA BranchTree ==
  ASSUME NEW x, NEW S, NEW kids \in Seq(S), \A t \in S : IsTree(t),
         With(x, Len(kids)).kids = Len(kids)
  PROVE  IsTree(Branch(x, kids)) /\ Branch(x, kids) # Nothing
<1> DEFINE b == Branch(x, kids)
           n == Len(kids)
<1>1. n \in Nat /\ DOMAIN kids = 1..n /\ \A k \in 1..n : kids[k] \in S /\ IsTree(kids[k])
  BY LenProperties
<1>2. \A t \in S : DOMAIN t \subseteq Ways
  BY DEF IsTree
<1>3. /\ <<>> \in DOMAIN b /\ b[<<>>] = With(x, n)
      /\ DOMAIN b \subseteq Ways
      /\ \A k \in Nat \ {0} : \A w \in Ways :
           /\ <<k>> \o w \in DOMAIN b <=> k \in 1..n /\ w \in DOMAIN kids[k]
           /\ k \in 1..n /\ w \in DOMAIN kids[k] => b[<<k>> \o w] = kids[k][w]
  BY <1>2, BranchAt
<1>4. b[<<>>].kids = n
  BY <1>3
<1>5. IsFiniteSet(DOMAIN b)
  <2> DEFINE P == [k \in 1..n |-> {<<k>> \o w : w \in DOMAIN kids[k]}]
  <2>1. \A k \in 1..n : IsFiniteSet(P[k])
    <3> SUFFICES ASSUME NEW k \in 1..n PROVE IsFiniteSet(P[k])
      OBVIOUS
    <3> DEFINE f == [w \in DOMAIN kids[k] |-> <<k>> \o w]
               Z == DOMAIN kids[k]
    <3>1. IsFiniteSet(Z)
      BY <1>1 DEF IsTree
    <3>2. DOMAIN f = Z
      OBVIOUS
    <3>3. P[k] = {f[w] : w \in Z}
      OBVIOUS
    <3> HIDE DEF f, Z, P
    <3>4. IsFiniteSet({f[w] : w \in Z})
      BY <3>1, <3>2, Image
    <3> QED BY <3>3, <3>4
  <2>2. DOMAIN b = {<<>>} \cup UNION {P[k] : k \in 1..n}
    BY <1>1 DEF Branch
  <2> DEFINE Q == {P[k] : k \in 1..n}
  <2>3. IsFiniteSet(Q)
    <3>1. IsFiniteSet(1..n) /\ DOMAIN P = 1..n
      BY <1>1, UpTo
    <3> HIDE DEF P, n
    <3> QED BY <3>1, Image
  <2>4. \A T \in Q : IsFiniteSet(T)
    BY <2>1
  <2> HIDE DEF Q, b
  <2>5. IsFiniteSet(UNION Q)
    BY <2>3, <2>4, FS_UNION
  <2>6. DOMAIN b = {<<>>} \cup UNION Q
    BY <2>2 DEF Q
  <2>7. IsFiniteSet({<<>>})
    BY FS_Singleton
  <2> DEFINE U == UNION Q
             R == {<<>>}
  <2>8. IsFiniteSet(U) /\ IsFiniteSet(R) /\ DOMAIN b = R \cup U
    BY <2>5, <2>6, <2>7
  <2> HIDE DEF P, n, U, R
  <2>9. IsFiniteSet(R \cup U)
    BY <2>8, FS_Union
  <2> QED BY <2>8, <2>9
<1> DEFINE Down(k, w) == <<k>> \o w
<1>a. \A k \in Nat \ {0} : \A w \in Ways :
        /\ Down(k, w) \in DOMAIN b <=> k \in 1..n /\ w \in DOMAIN kids[k]
        /\ k \in 1..n /\ w \in DOMAIN kids[k] => b[Down(k, w)] = kids[k][w]
  BY <1>3
<1>b. <<>> \in DOMAIN b /\ b[<<>>] = With(x, n) /\ DOMAIN b \subseteq Ways
  BY <1>3
<1> HIDE DEF b, n, Down
<1>6. ASSUME NEW way \in DOMAIN b, way # <<>>
      PROVE  \E k \in 1..n : \E w \in DOMAIN kids[k] : b[way] = kids[k][w]
  <2>1. way \in Ways
    BY <1>b
  <2> DEFINE k == way[1]
             w == After(way, 1)
  <2>2. k \in Nat \ {0} /\ w \in Ways /\ way = Down(k, w)
    BY <1>6, <2>1, FirstStep DEF Down
  <2> HIDE DEF k, w
  <2>3. k \in 1..n /\ w \in DOMAIN kids[k] /\ b[way] = kids[k][w]
    BY <1>a, <2>2
  <2> QED BY <2>3
<1>7. ASSUME NEW way \in DOMAIN b PROVE b[way].kids \in Nat
  <2>1. CASE way = <<>>
    BY <1>1, <1>4, <2>1
  <2>2. CASE way # <<>>
    <3>1. PICK k \in 1..n : \E w \in DOMAIN kids[k] : b[way] = kids[k][w]
      BY <1>6, <2>2
    <3>2. PICK w \in DOMAIN kids[k] : b[way] = kids[k][w]
      BY <3>1
    <3>3. IsTree(kids[k])
      BY <1>1
    <3> QED BY <3>2, <3>3 DEF IsTree
  <2> QED BY <2>1, <2>2
<1>8. ASSUME NEW f \in Ways, NEW j \in Nat \ {0}
      PROVE  Append(f, j) \in DOMAIN b <=> f \in DOMAIN b /\ j \in 1..b[f].kids
  <2>1. CASE f = <<>>
    <3>1. Append(f, j) = Down(j, <<>>) /\ <<>> \in Ways
      <4>1. <<j>> = Append(<<>>, j) /\ <<j>> \in Ways
        BY StepAnd
      <4> QED BY <2>1, <4>1, RootWay DEF Down
    <3>2. Down(j, <<>>) \in DOMAIN b <=> j \in 1..n /\ <<>> \in DOMAIN kids[j]
      BY <1>a, <3>1
    <3>3. j \in 1..n => <<>> \in DOMAIN kids[j]
      BY <1>1 DEF IsTree
    <3> QED BY <1>b, <1>4, <2>1, <3>1, <3>2, <3>3
  <2>2. CASE f # <<>>
    <3> DEFINE k == f[1]
               w == After(f, 1)
    <3>1. k \in Nat \ {0} /\ w \in Ways /\ f = Down(k, w)
      BY <2>2, FirstStep DEF Down
    <3>2. <<k>> \in Ways
      BY <3>1, StepAnd
    <3> HIDE DEF k, w
    <3> DEFINE v == Append(w, j)
    <3>3. Append(f, j) = Down(k, v) /\ v \in Ways
      BY <3>1, <3>2, AlongOneMore, OneMore DEF Down
    <3>6. k \in 1..n => (v \in DOMAIN kids[k] <=> w \in DOMAIN kids[k] /\ j \in 1..kids[k][w].kids)
      BY <1>1, <3>1, TreeSteps
    <3> HIDE DEF v
    <3>4. Append(f, j) \in DOMAIN b <=> k \in 1..n /\ v \in DOMAIN kids[k]
      BY <1>a, <3>1, <3>3
    <3>5. f \in DOMAIN b <=> k \in 1..n /\ w \in DOMAIN kids[k]
      BY <1>a, <3>1
    <3>7. k \in 1..n /\ w \in DOMAIN kids[k] => b[f] = kids[k][w]
      BY <1>a, <3>1
    <3> QED BY <3>4, <3>5, <3>6, <3>7
  <2> QED BY <2>1, <2>2
<1>9. b # Nothing
  BY <1>b DEF Nothing
<1>10. IsTree(b)
  BY <1>b, <1>5, <1>7, <1>8, TreeIf
<1> QED BY <1>9, <1>10 DEF b

\* The tree below a node.
LEMMA BelowAt ==
  ASSUME NEW d, IsTree(d), NEW at \in DOMAIN d
  PROVE  LET b == Below(d, at)
         IN  /\ DOMAIN b \subseteq Ways
             /\ \A w \in Ways : w \in DOMAIN b <=> at \o w \in DOMAIN d
             /\ \A w \in DOMAIN b : b[w] = d[at \o w]
             /\ <<>> \in DOMAIN b /\ b[<<>>] = d[at] /\ b # Nothing
<1> DEFINE b == Below(d, at)
<1>1. at \in Ways /\ DOMAIN d \subseteq Ways
  BY DEF IsTree
<1>2. /\ DOMAIN b = {After(way, Len(at)) : way \in {way \in DOMAIN d : IsPrefix(at, way)}}
      /\ \A w \in DOMAIN b : b[w] = d[at \o w]
  BY DEF Below, Through
<1> HIDE DEF b
<1>3. DOMAIN b \subseteq Ways
  BY <1>1, <1>2, Beginning
<1>4. ASSUME NEW w \in Ways PROVE w \in DOMAIN b <=> at \o w \in DOMAIN d
  <2>1. IsPrefix(at, at \o w) /\ After(at \o w, Len(at)) = w
    BY <1>1, Along
  <2>2. at \o w \in DOMAIN d => w \in DOMAIN b
    BY <1>2, <2>1
  <2>3. ASSUME w \in DOMAIN b PROVE at \o w \in DOMAIN d
    <3>1. PICK way \in DOMAIN d : IsPrefix(at, way) /\ w = After(way, Len(at))
      BY <1>2, <2>3
    <3>2. way = at \o w
      BY <1>1, <3>1, Beginning
    <3> QED BY <3>2
  <2> QED BY <2>2, <2>3
<1>5. <<>> \in DOMAIN b /\ b[<<>>] = d[at]
  <2>1. at \o <<>> = at /\ <<>> \in Ways
    BY <1>1, RootWay
  <2> QED BY <1>2, <1>4, <2>1
<1>6. b # Nothing
  BY <1>5 DEF Nothing
<1> QED BY <1>2, <1>3, <1>4, <1>5, <1>6 DEF b

\* What is below a node is a tree.
LEMMA BelowTree ==
  ASSUME NEW d, IsTree(d), NEW at \in DOMAIN d
  PROVE  IsTree(Below(d, at))
<1> DEFINE b == Below(d, at)
<1>1. at \in Ways /\ DOMAIN d \subseteq Ways /\ IsFiniteSet(DOMAIN d)
  BY DEF IsTree
<1>2. IsFiniteSet(DOMAIN b)
  <2> DEFINE Z == Through(d, at)
             f == [way \in Z |-> After(way, Len(at))]
  <2>1. DOMAIN b = {f[way] : way \in Z}
    BY DEF Below
  <2>2. IsFiniteSet(Z)
    BY <1>1, FS_Subset DEF Through
  <2>3. DOMAIN f = Z
    OBVIOUS
  <2> HIDE DEF f, Z, b
  <2>4. IsFiniteSet({f[way] : way \in Z})
    BY <2>2, <2>3, Image
  <2> QED BY <2>1, <2>4
<1>3. /\ DOMAIN b \subseteq Ways
      /\ \A w \in Ways : w \in DOMAIN b <=> at \o w \in DOMAIN d
      /\ \A w \in DOMAIN b : b[w] = d[at \o w]
      /\ <<>> \in DOMAIN b
  BY BelowAt
<1> HIDE DEF b
<1>4. \A w \in DOMAIN b : b[w].kids \in Nat
  BY <1>3 DEF IsTree
<1>5. ASSUME NEW f \in Ways, NEW k \in Nat \ {0}
      PROVE  Append(f, k) \in DOMAIN b <=> f \in DOMAIN b /\ k \in 1..b[f].kids
  <2>1. Append(f, k) \in Ways /\ at \o Append(f, k) = Append(at \o f, k) /\ at \o f \in Ways
    BY <1>1, OneMore, AlongOneMore, Along
  <2>2. Append(f, k) \in DOMAIN b <=> Append(at \o f, k) \in DOMAIN d
    BY <1>3, <2>1
  <2>3. Append(at \o f, k) \in DOMAIN d <=> at \o f \in DOMAIN d /\ k \in 1..d[at \o f].kids
    BY <2>1, TreeSteps
  <2>4. f \in DOMAIN b <=> at \o f \in DOMAIN d
    BY <1>3
  <2>5. f \in DOMAIN b => b[f] = d[at \o f]
    BY <1>3
  <2> QED BY <2>2, <2>3, <2>4, <2>5
<1> QED BY <1>2, <1>3, <1>4, <1>5, TreeIf DEF b

\* The tree with another one in the place of a node.
LEMMA GraftAt ==
  ASSUME NEW d, IsTree(d), NEW at \in DOMAIN d, NEW r, IsTree(r)
  PROVE  LET g == Graft(d, at, r)
         IN  /\ DOMAIN g \subseteq Ways /\ <<>> \in DOMAIN g /\ g # Nothing
             /\ g[<<>>] = IF at = <<>> THEN r[<<>>] ELSE d[<<>>]
             /\ \A way \in Ways : ~IsPrefix(at, way) =>
                  /\ way \in DOMAIN g <=> way \in DOMAIN d
                  /\ way \in DOMAIN g => g[way] = d[way]
             /\ \A w \in Ways :
                  /\ at \o w \in DOMAIN g <=> w \in DOMAIN r
                  /\ w \in DOMAIN r => g[at \o w] = r[w]
<1> DEFINE g == Graft(d, at, r)
<1>1. /\ at \in Ways /\ DOMAIN d \subseteq Ways /\ DOMAIN r \subseteq Ways
      /\ <<>> \in DOMAIN d /\ <<>> \in DOMAIN r
  BY DEF IsTree
<1>2. /\ DOMAIN g = {way \in DOMAIN d : ~IsPrefix(at, way)} \cup {at \o w : w \in DOMAIN r}
      /\ \A way \in DOMAIN g :
           g[way] = IF IsPrefix(at, way) THEN r[After(way, Len(at))] ELSE d[way]
  BY DEF Graft, Through
<1> HIDE DEF g
<1>3. \A w \in Ways : at \o w \in Ways /\ IsPrefix(at, at \o w) /\ After(at \o w, Len(at)) = w
  BY <1>1, Along
<1>4. DOMAIN g \subseteq Ways
  BY <1>1, <1>2, <1>3
<1>5. \A way \in Ways : ~IsPrefix(at, way) =>
        /\ way \in DOMAIN g <=> way \in DOMAIN d
        /\ way \in DOMAIN g => g[way] = d[way]
  BY <1>1, <1>2, <1>3
<1>6. ASSUME NEW w \in Ways
      PROVE  /\ at \o w \in DOMAIN g <=> w \in DOMAIN r
             /\ w \in DOMAIN r => g[at \o w] = r[w]
  <2>1. w \in DOMAIN r => at \o w \in DOMAIN g
    BY <1>2
  <2>2. ASSUME at \o w \in DOMAIN g PROVE w \in DOMAIN r
    <3>0. IsPrefix(at, at \o w)
      BY <1>3
    <3>1. PICK v \in DOMAIN r : at \o w = at \o v
      BY <1>2, <2>2, <3>0
    <3>2. v = w
      BY <1>1, <1>3, <3>1
    <3> QED BY <3>2
  <2> QED BY <1>2, <1>3, <2>1, <2>2
<1>7. <<>> \in DOMAIN g /\ g[<<>>] = IF at = <<>> THEN r[<<>>] ELSE d[<<>>]
  <2>1. CASE at = <<>>
    <3>1. at \o <<>> = <<>> /\ <<>> \in Ways
      BY <1>1, <2>1, RootWay
    <3> QED BY <1>1, <1>6, <2>1, <3>1
  <2>2. CASE at # <<>>
    <3>1. ~IsPrefix(at, <<>>) /\ <<>> \in Ways
      BY <1>1, <2>2, RootWay
    <3> QED BY <1>1, <1>5, <2>2, <3>1
  <2> QED BY <2>1, <2>2
<1>8. g # Nothing
  BY <1>7 DEF Nothing
<1> QED BY <1>4, <1>5, <1>6, <1>7, <1>8 DEF g

\* A tree with another one in the place of a node is one.
LEMMA GraftTree ==
  ASSUME NEW d, IsTree(d), NEW at \in DOMAIN d, NEW r, IsTree(r)
  PROVE  IsTree(Graft(d, at, r))
<1> DEFINE g == Graft(d, at, r)
<1>1. /\ at \in Ways /\ DOMAIN d \subseteq Ways /\ DOMAIN r \subseteq Ways
      /\ IsFiniteSet(DOMAIN d) /\ IsFiniteSet(DOMAIN r)
      /\ <<>> \in DOMAIN d /\ <<>> \in DOMAIN r
  BY DEF IsTree
<1>2. IsFiniteSet(DOMAIN g)
  <2> DEFINE Z == DOMAIN r
             f == [w \in Z |-> at \o w]
             A == DOMAIN d \ Through(d, at)
  <2>1. DOMAIN g = A \cup {f[w] : w \in Z}
    BY DEF Graft
  <2>2. DOMAIN f = Z /\ IsFiniteSet(Z)
    BY <1>1
  <2>3. IsFiniteSet(A)
    BY <1>1, FS_Difference
  <2> HIDE DEF f, Z, A, g
  <2>4. IsFiniteSet({f[w] : w \in Z})
    BY <2>2, Image
  <2> QED BY <2>1, <2>3, <2>4, FS_Union
<1>3. /\ DOMAIN g \subseteq Ways /\ <<>> \in DOMAIN g
      /\ \A way \in Ways : ~IsPrefix(at, way) =>
           /\ way \in DOMAIN g <=> way \in DOMAIN d
           /\ way \in DOMAIN g => g[way] = d[way]
      /\ \A w \in Ways :
           /\ at \o w \in DOMAIN g <=> w \in DOMAIN r
           /\ w \in DOMAIN r => g[at \o w] = r[w]
  BY GraftAt
<1> HIDE DEF g
<1>4. ASSUME NEW way \in DOMAIN g PROVE g[way].kids \in Nat
  <2>1. CASE IsPrefix(at, way)
    <3>1. way = at \o After(way, Len(at)) /\ After(way, Len(at)) \in Ways
      BY <1>1, <1>3, <2>1, Beginning
    <3>2. After(way, Len(at)) \in DOMAIN r /\ g[way] = r[After(way, Len(at))]
      BY <1>3, <3>1
    <3> QED BY <3>2 DEF IsTree
  <2>2. CASE ~IsPrefix(at, way)
    <3>1. way \in DOMAIN d /\ g[way] = d[way]
      BY <1>3, <2>2
    <3> QED BY <3>1 DEF IsTree
  <2> QED BY <2>1, <2>2
<1>5. ASSUME NEW f \in Ways, NEW k \in Nat \ {0}
      PROVE  Append(f, k) \in DOMAIN g <=> f \in DOMAIN g /\ k \in 1..g[f].kids
  <2>1. Append(f, k) \in Ways /\ Append(f, k) # <<>>
    BY OneMore
  <2>2. CASE IsPrefix(at, f)
    <3> DEFINE w == After(f, Len(at))
    <3>1. w \in Ways /\ f = at \o w
      BY <1>1, <2>2, Beginning
    <3> HIDE DEF w
    <3>2. Append(f, k) = at \o Append(w, k) /\ Append(w, k) \in Ways
      <4>1. Append(at \o w, k) = at \o Append(w, k)
        BY <1>1, <3>1, AlongOneMore
      <4>2. Append(w, k) \in Ways
        BY <3>1, OneMore
      <4> QED BY Zenon, <3>1, <4>1, <4>2
    <3>3. Append(f, k) \in DOMAIN g <=> Append(w, k) \in DOMAIN r
      BY <1>3, <3>2
    <3>4. Append(w, k) \in DOMAIN r <=> w \in DOMAIN r /\ k \in 1..r[w].kids
      BY <3>1, TreeSteps
    <3>5. (f \in DOMAIN g <=> w \in DOMAIN r) /\ (w \in DOMAIN r => g[f] = r[w])
      BY <1>3, <3>1
    <3> QED BY <3>3, <3>4, <3>5
  <2>3. CASE ~IsPrefix(at, f) /\ at = Append(f, k)
    <3>1. Append(f, k) \in DOMAIN g
      <4>1. at = at \o <<>> /\ <<>> \in Ways
        BY <1>1, RootWay
      <4> QED BY <1>1, <1>3, <2>3, <4>1
    <3>2. f \in DOMAIN d /\ k \in 1..d[f].kids
      BY <2>3, TreeSteps
    <3> QED BY <1>3, <2>3, <3>1, <3>2
  <2>4. CASE ~IsPrefix(at, f) /\ at # Append(f, k)
    <3>1. ~IsPrefix(at, Append(f, k))
      BY <1>1, <2>4, OneMoreBegins
    <3>2. (Append(f, k) \in DOMAIN g <=> Append(f, k) \in DOMAIN d)
          /\ (f \in DOMAIN g <=> f \in DOMAIN d) /\ (f \in DOMAIN g => g[f] = d[f])
      BY <1>3, <2>1, <2>4, <3>1
    <3>3. Append(f, k) \in DOMAIN d <=> f \in DOMAIN d /\ k \in 1..d[f].kids
      BY TreeSteps
    <3> QED BY <3>2, <3>3
  <2> QED BY <2>2, <2>3, <2>4
<1> QED BY <1>2, <1>3, <1>4, <1>5, TreeIf DEF g

(***************************************************************************)
(* What comes first                                                        *)
(***************************************************************************)

\* An order in which no two elements of a set are alike.
StrictOrder(S, order) ==
  /\ \A x \in S : <<x, x>> \notin order
  /\ \A x, y, z \in S : <<x, y>> \in order /\ <<y, z>> \in order => <<x, z>> \in order
  /\ \A x, y \in S : x # y => <<x, y>> \in order \/ <<y, x>> \in order

\* A finite set has a first element in such an order.
LEMMA FirstOf ==
  ASSUME NEW S, IsFiniteSet(S), S # {}, NEW order, StrictOrder(S, order)
  PROVE  \E x \in S : \A y \in S \ {x} : <<x, y>> \in order
<1> DEFINE Before(u) == {w \in S : <<w, u>> \in order}
           T == {Cardinality(Before(u)) : u \in S}
<1>1. \A u \in S : IsFiniteSet(Before(u)) /\ Cardinality(Before(u)) \in Nat
  <2> SUFFICES ASSUME NEW u \in S PROVE IsFiniteSet(Before(u)) /\ Cardinality(Before(u)) \in Nat
    OBVIOUS
  <2>1. Before(u) \in SUBSET S
    OBVIOUS
  <2> HIDE DEF Before
  <2>2. IsFiniteSet(Before(u))
    BY <2>1, FS_Subset
  <2> QED BY <2>2, FS_CardinalityType
<1>2. PICK n \in T : \A m \in T : n <= m
  <2>1. T \subseteq Nat /\ T # {}
    BY <1>1
  <2> HIDE DEF T
  <2> QED BY <2>1, LeastNatural
<1>3. PICK x \in S : \A y \in S : Cardinality(Before(x)) <= Cardinality(Before(y))
  BY <1>2
<1>4. ASSUME NEW y \in S, <<y, x>> \in order PROVE FALSE
  <2>1. Before(y) \subseteq Before(x) /\ y \in Before(x) /\ y \notin Before(y)
    BY <1>4 DEF StrictOrder
  <2> HIDE DEF Before
  <2>2. Cardinality(Before(y)) <= Cardinality(Before(x))
        /\ (Cardinality(Before(x)) = Cardinality(Before(y)) => Before(x) = Before(y))
    BY <1>1, <2>1, FS_Subset
  <2>3. Cardinality(Before(x)) <= Cardinality(Before(y))
    BY <1>3
  <2>4. Cardinality(Before(x)) \in Nat /\ Cardinality(Before(y)) \in Nat
    BY <1>1
  <2>5. Cardinality(Before(x)) = Cardinality(Before(y))
    BY <2>2, <2>3, <2>4
  <2> QED BY <2>1, <2>2, <2>5
<1> QED BY <1>4 DEF StrictOrder

\* Up to k the ways are one, and there v ends or has the lesser step.
PartAt(v, w, k) ==
  /\ k \in DOMAIN w
  /\ \A j \in 1..(k - 1) : j \in DOMAIN v /\ v[j] = w[j]
  /\ k \in DOMAIN v => v[k] < w[k]

\* The two ways to be further left are one.
LEMMA LeftAt ==
  ASSUME NEW v \in Ways, NEW w \in Ways
  PROVE  LeftOf(v, w) <=> \E k \in DOMAIN w : PartAt(v, w, k)
<1> DEFINE m == Len(v)
           n == Len(w)
           N == Nat \ {0}
<1>0. v \in Seq(N) /\ w \in Seq(N)
  BY DEF Ways
<1>1. m \in Nat /\ n \in Nat /\ DOMAIN v = 1..m /\ DOMAIN w = 1..n
  <2> HIDE DEF N
  <2> QED BY <1>0, LenProperties
<1> HIDE DEF m, n, N
<1>2. IsStrictPrefix(v, w) <=> m < n /\ \A j \in 1..m : w[j] = v[j]
  <2>1. IsPrefix(v, w) <=> m <= n /\ \A j \in 1..m : w[j] = v[j]
    BY BeginsIf DEF m, n
  <2>2. (m = n /\ \A j \in 1..m : w[j] = v[j]) => v = w
    BY <1>0, SeqEqual DEF m, n
  <2>3. v = w => m = n
    BY DEF m, n
  <2> QED BY <1>1, <2>1, <2>2, <2>3 DEF IsStrictPrefix
<1>3. ASSUME NEW k \in DOMAIN v \cap DOMAIN w, v[k] < w[k], \A j \in 1..(k - 1) : v[j] = w[j]
      PROVE  PartAt(v, w, k)
  BY <1>1, <1>3 DEF PartAt
<1>4. ASSUME m < n, \A j \in 1..m : w[j] = v[j] PROVE m + 1 \in DOMAIN w /\ PartAt(v, w, m + 1)
  BY <1>1, <1>4 DEF PartAt
<1>5. ASSUME NEW k \in DOMAIN w, PartAt(v, w, k) PROVE LeftOf(v, w)
  <2>1. CASE k \in DOMAIN v
    BY <1>5, <2>1 DEF PartAt, LeftOf
  <2>2. CASE k \notin DOMAIN v
    <3>1. k \in Int /\ m < k /\ 1 <= k /\ k <= n
      BY <1>1, <2>2
    <3>2. k = m + 1
      <4>1. k # 1 => k - 1 \in 1..(k - 1)
        BY <3>1
      <4>2. k # 1 => k - 1 \in DOMAIN v
        BY <1>5, <4>1 DEF PartAt
      <4> QED BY <1>1, <3>1, <4>2
    <3>3. m < n
      BY <1>1, <3>1, <3>2
    <3>4. \A j \in 1..m : w[j] = v[j]
      BY <1>1, <1>5, <3>2 DEF PartAt
    <3> QED BY <1>2, <3>3, <3>4 DEF LeftOf
  <2> QED BY <2>1, <2>2
<1>6. LeftOf(v, w) => \E k \in DOMAIN w : PartAt(v, w, k)
  <2> SUFFICES ASSUME LeftOf(v, w) PROVE \E k \in DOMAIN w : PartAt(v, w, k)
    OBVIOUS
  <2>1. CASE IsStrictPrefix(v, w)
    BY <1>2, <1>4, <2>1
  <2>2. CASE \E k \in DOMAIN v \cap DOMAIN w : v[k] < w[k] /\ \A j \in 1..(k - 1) : v[j] = w[j]
    BY <1>3, <2>2
  <2> QED BY <2>1, <2>2 DEF LeftOf
<1> QED BY <1>5, <1>6

\* Ways are in an order.
LEMMA LeftOfOrders ==
  /\ \A v \in Ways : ~LeftOf(v, v)
  /\ \A v, w, u \in Ways : LeftOf(v, w) /\ LeftOf(w, u) => LeftOf(v, u)
  /\ \A v, w \in Ways : v # w => LeftOf(v, w) \/ LeftOf(w, v)
<1> DEFINE N == Nat \ {0}
<1>0. Ways = Seq(N)
  BY DEF Ways
<1>1. ASSUME NEW v \in Ways
      PROVE  /\ Len(v) \in Nat /\ DOMAIN v = 1..Len(v)
             /\ \A i \in DOMAIN v : v[i] \in Int
  <2> HIDE DEF N
  <2>1. Len(v) \in Nat /\ DOMAIN v = 1..Len(v) /\ \A i \in DOMAIN v : v[i] \in N
    BY <1>0, LenProperties
  <2> QED BY <2>1 DEF N
<1>2. ASSUME NEW v \in Ways PROVE ~LeftOf(v, v)
  <2> SUFFICES ASSUME NEW k \in DOMAIN v, PartAt(v, v, k) PROVE FALSE
    BY LeftAt
  <2>1. v[k] \in Int /\ v[k] < v[k]
    BY <1>1 DEF PartAt
  <2> QED BY <2>1
<1>3. ASSUME NEW v \in Ways, NEW w \in Ways, NEW u \in Ways, LeftOf(v, w), LeftOf(w, u)
      PROVE  LeftOf(v, u)
  <2>1. PICK k \in DOMAIN w : PartAt(v, w, k)
    BY <1>3, LeftAt
  <2>2. PICK i \in DOMAIN u : PartAt(w, u, i)
    BY <1>3, LeftAt
  <2>3. /\ Len(v) \in Nat /\ Len(w) \in Nat /\ Len(u) \in Nat
        /\ DOMAIN v = 1..Len(v) /\ DOMAIN w = 1..Len(w) /\ DOMAIN u = 1..Len(u)
        /\ \A j \in DOMAIN v : v[j] \in Int
        /\ \A j \in DOMAIN w : w[j] \in Int
        /\ \A j \in DOMAIN u : u[j] \in Int
    BY <1>1
  <2>4. i \in Int /\ k \in Int
    BY <2>3
  <2>5. CASE i < k
    <3>1. i \in DOMAIN v /\ v[i] = w[i] /\ i \in DOMAIN w
      BY <2>1, <2>3, <2>4, <2>5 DEF PartAt
    <3>2. PartAt(v, u, i)
      BY <2>1, <2>2, <2>3, <2>4, <2>5, <3>1 DEF PartAt
    <3> QED BY <3>2, LeftAt
  <2>6. CASE k < i
    <3>1. k \in DOMAIN w /\ w[k] = u[k] /\ k \in DOMAIN u
      BY <2>1, <2>2, <2>3, <2>4, <2>6 DEF PartAt
    <3>2. PartAt(v, u, k)
      BY <2>1, <2>2, <2>3, <2>4, <2>6, <3>1 DEF PartAt
    <3> QED BY <3>1, <3>2, LeftAt
  <2>7. CASE i = k
    <3>1. PartAt(v, u, k)
      BY <2>1, <2>2, <2>3, <2>4, <2>7 DEF PartAt
    <3> QED BY <2>2, <2>7, <3>1, LeftAt
  <2> QED BY <2>4, <2>5, <2>6, <2>7
<1>4. ASSUME NEW v \in Ways, NEW w \in Ways, v # w PROVE LeftOf(v, w) \/ LeftOf(w, v)
  <2> DEFINE m == Len(v)
             n == Len(w)
             D == {k \in DOMAIN v \cap DOMAIN w : v[k] # w[k]}
  <2>1. /\ m \in Nat /\ n \in Nat /\ DOMAIN v = 1..m /\ DOMAIN w = 1..n
        /\ (\A k \in DOMAIN v : v[k] \in Int) /\ \A k \in DOMAIN w : w[k] \in Int
    BY <1>1
  <2> HIDE DEF m, n
  <2>2. CASE D # {}
    <3>1. PICK k \in D : \A j \in D : k <= j
      <4>1. D \subseteq Nat
        BY <2>1
      <4> HIDE DEF D
      <4> QED BY <2>2, <4>1, LeastNatural
    <3>2. k \in 1..m /\ k \in 1..n /\ v[k] # w[k] /\ v[k] \in Int /\ w[k] \in Int
      BY <2>1
    <3>3. \A j \in 1..(k - 1) : v[j] = w[j]
      <4> SUFFICES ASSUME NEW j \in 1..(k - 1), v[j] # w[j] PROVE FALSE
        OBVIOUS
      <4>1. j \in 1..m /\ j \in 1..n /\ ~(k <= j)
        BY <2>1, <3>2
      <4>2. j \in D
        BY <2>1, <4>1
      <4> QED BY <3>1, <4>1, <4>2
    <3>4. v[k] < w[k] \/ w[k] < v[k]
      BY <3>2
    <3>5. k \in DOMAIN v \cap DOMAIN w
      BY <2>1, <3>2
    <3> QED BY <3>3, <3>4, <3>5 DEF LeftOf
  <2>3. CASE D = {}
    <3>1. \A k \in DOMAIN v \cap DOMAIN w : v[k] = w[k]
      BY <2>3
    <3> HIDE DEF D
    <3>2. CASE m < n
      <4>1. \A j \in 1..m : w[j] = v[j]
        BY <2>1, <3>1, <3>2
      <4>2. m <= n
        BY <2>1, <3>2
      <4>3. IsPrefix(v, w)
        BY <4>1, <4>2, BeginsIf DEF m, n
      <4> QED BY <1>4, <4>3 DEF LeftOf, IsStrictPrefix
    <3>3. CASE n < m
      <4>1. \A j \in 1..n : v[j] = w[j]
        BY <2>1, <3>1, <3>3
      <4>2. n <= m
        BY <2>1, <3>3
      <4>3. IsPrefix(w, v)
        BY <4>1, <4>2, BeginsIf DEF m, n
      <4> QED BY <1>4, <4>3 DEF LeftOf, IsStrictPrefix
    <3>4. CASE m = n
      <4>1. \A j \in 1..m : v[j] = w[j]
        BY <2>1, <3>1, <3>4
      <4> HIDE DEF N
      <4>2. v = w
        BY <1>0, <3>4, <4>1, SeqEqual DEF m, n
      <4> QED BY <1>4, <4>2
    <3> QED BY <2>1, <3>2, <3>3, <3>4
  <2> QED BY <2>2, <2>3
<1> QED BY <1>2, <1>3, <1>4

\* The leftmost of some ways is one of them.
LEMMA LeftmostIs ==
  ASSUME NEW S, IsFiniteSet(S), S # {}, S \subseteq Ways
  PROVE  (CHOOSE way \in S : \A w \in S \ {way} : LeftOf(way, w)) \in S
<1> DEFINE order == {p \in S \X S : LeftOf(p[1], p[2])}
<1>1. \A x, y \in S : <<x, y>> \in order <=> LeftOf(x, y)
  OBVIOUS
<1> HIDE DEF order
<1>2. StrictOrder(S, order)
  BY <1>1, LeftOfOrders DEF StrictOrder
<1>3. \E x \in S : \A y \in S \ {x} : <<x, y>> \in order
  BY <1>2, FirstOf
<1> QED BY <1>1, <1>3

(***************************************************************************)
(* Derivations                                                             *)
(***************************************************************************)

\* Whether a node is admitted goes by what it says and its children stand for.
LEMMA AdmittedAlike ==
  ASSUME NEW g, NEW d, NEW v, NEW e, NEW w, d[v] = e[w],
         \A k \in 1..d[v].kids : /\ d[Append(v, k)].at = e[Append(w, k)].at
                                 /\ d[Append(v, k)].rule = e[Append(w, k)].rule
  PROVE  Admitted(g, d, v) <=> Admitted(g, e, w)
<1> DEFINE x == d[v]
           A(k) == d[Append(v, k)].at
           R(k) == d[Append(v, k)].rule
           B(k) == e[Append(w, k)].at
           Q(k) == e[Append(w, k)].rule
           n == NodeAt(g, x.at)
           Each(places) == x.kids = Len(places) /\ \A k \in 1..x.kids : R(k) = Blank /\ A(k) = places[k]
           EachE(places) == e[w].kids = Len(places) /\ \A k \in 1..e[w].kids : Q(k) = Blank /\ B(k) = places[k]
           Token ==
             CASE n.kind = "word" -> x.token = n.name /\ x.kids = 0
               [] n.kind = "ref" /\ n.name \in DOMAIN Cut ->
                    x.kids = 0 /\ IF Cut[n.name] = <<>> THEN x.token = Blank
                                  ELSE x.token \in Range(Cut[n.name])
               [] OTHER -> x.token = Blank
           Kids ==
             CASE n.kind = "prose" -> FALSE
               [] n.kind = "opt" -> IF x.taken THEN Each(KidsAt(g, x.at)) ELSE x.kids = 0
               [] n.kind = "repeat" -> x.kids > 0 /\ \A k \in 1..x.kids : R(k) = Blank /\ A(k) = Append(x.at, 1)
               [] n.kind = "alt" -> \E k \in 1..n.kids : Each(<<Append(x.at, k)>>)
               [] n.kind = "seq" -> Each(KidsAt(g, x.at))
               [] n.kind = "ref" /\ n.name \notin DOMAIN Cut ->
                    Defined(g, n.name) /\ x.kids = 1 /\ A(1) = <<>> /\ R(1) = n.name
               [] OTHER -> TRUE
           y == e[w]
           m == NodeAt(g, y.at)
           TokenE ==
             CASE m.kind = "word" -> y.token = m.name /\ y.kids = 0
               [] m.kind = "ref" /\ m.name \in DOMAIN Cut ->
                    y.kids = 0 /\ IF Cut[m.name] = <<>> THEN y.token = Blank
                                  ELSE y.token \in Range(Cut[m.name])
               [] OTHER -> y.token = Blank
           KidsE ==
             CASE m.kind = "prose" -> FALSE
               [] m.kind = "opt" -> IF y.taken THEN EachE(KidsAt(g, y.at)) ELSE y.kids = 0
               [] m.kind = "repeat" -> y.kids > 0 /\ \A k \in 1..y.kids : Q(k) = Blank /\ B(k) = Append(y.at, 1)
               [] m.kind = "alt" -> \E k \in 1..m.kids : EachE(<<Append(y.at, k)>>)
               [] m.kind = "seq" -> EachE(KidsAt(g, y.at))
               [] m.kind = "ref" /\ m.name \notin DOMAIN Cut ->
                    Defined(g, m.name) /\ y.kids = 1 /\ B(1) = <<>> /\ Q(1) = m.name
               [] OTHER -> TRUE
<1>1. Admitted(g, d, v) <=>
        IF x.at = <<>> THEN Defined(g, x.rule) /\ x.token = Blank /\ Each(<< <<RuleNo(g, x.rule)>> >>)
        ELSE x.at \in Places(g) /\ x.rule = Blank /\ Token /\ Kids
  BY Zenon DEF Admitted
<1>2. Admitted(g, e, w) <=>
        IF y.at = <<>> THEN Defined(g, y.rule) /\ y.token = Blank /\ EachE(<< <<RuleNo(g, y.rule)>> >>)
        ELSE y.at \in Places(g) /\ y.rule = Blank /\ TokenE /\ KidsE
  BY Zenon DEF Admitted
<1>3. \A k \in 1..x.kids : A(k) = B(k) /\ R(k) = Q(k)
  OBVIOUS
<1>4. \A places : Each(places) <=> EachE(places)
  <2>1. e[w] = x
    OBVIOUS
  <2> HIDE DEF A, R, B, Q, x
  <2> QED BY <1>3, <2>1
<1>6. y = x /\ m = n
  OBVIOUS
<1>7. Token <=> TokenE
  <2> HIDE DEF A, R, B, Q, x, n, y, m, Each, EachE
  <2> QED BY <1>6
<1> HIDE DEF A, R, B, Q, x, n, y, m, Each, EachE
<1>5. Kids <=> KidsE
  <2>1. x.kids = 1 => A(1) = B(1) /\ R(1) = Q(1)
    BY <1>3
  <2>2. (\A k \in 1..x.kids : R(k) = Blank /\ A(k) = Append(x.at, 1)) <=>
        (\A k \in 1..y.kids : Q(k) = Blank /\ B(k) = Append(y.at, 1))
    BY <1>3, <1>6
  <2> QED BY <1>4, <1>6, <2>1, <2>2
<1> HIDE DEF Kids, KidsE, Token, TokenE
<1> QED BY <1>1, <1>2, <1>4, <1>5, <1>6, <1>7

\* The tree of a node and of derivations is one if its root is admitted.
LEMMA BranchDerives ==
  ASSUME NEW g, NEW x, NEW S, NEW kids \in Seq(S), \A t \in S : Derives(g, t),
         With(x, Len(kids)).kids = Len(kids)
  PROVE  LET b == Branch(x, kids)
         IN  /\ IsTree(b) /\ b # Nothing /\ <<>> \in DOMAIN b
             /\ b[<<>>] = With(x, Len(kids))
             /\ \A k \in 1..Len(kids) :
                  Append(<<>>, k) \in DOMAIN b /\ b[Append(<<>>, k)] = kids[k][<<>>]
             /\ \A way \in DOMAIN b : way # <<>> => Admitted(g, b, way)
<1> DEFINE b == Branch(x, kids)
           n == Len(kids)
<1>1. n \in Nat /\ \A k \in 1..n : kids[k] \in S /\ IsTree(kids[k]) /\ Derives(g, kids[k])
  BY LenProperties DEF Derives
<1>2. With(x, n).kids = n
  OBVIOUS
<1>3. (\A t \in S : IsTree(t)) /\ \A t \in S : DOMAIN t \subseteq Ways
  BY DEF Derives, IsTree
<1>4. IsTree(b) /\ b # Nothing
  BY <1>2, <1>3, BranchTree
<1> DEFINE Down(k, w) == <<k>> \o w
<1>5. /\ <<>> \in DOMAIN b /\ b[<<>>] = With(x, n)
      /\ DOMAIN b \subseteq Ways
      /\ \A k \in Nat \ {0} : \A w \in Ways :
           /\ Down(k, w) \in DOMAIN b <=> k \in 1..n /\ w \in DOMAIN kids[k]
           /\ k \in 1..n /\ w \in DOMAIN kids[k] => b[Down(k, w)] = kids[k][w]
  BY <1>3, BranchAt
<1> HIDE DEF b, n
<1>6. \A k \in Nat \ {0} : Down(k, <<>>) = Append(<<>>, k)
  <2> SUFFICES ASSUME NEW k \in Nat \ {0} PROVE Down(k, <<>>) = Append(<<>>, k)
    OBVIOUS
  <2>1. <<k>> \in Ways /\ <<k>> = Append(<<>>, k)
    BY RootWay, StepAnd
  <2> QED BY <2>1, RootWay
<1>7. \A w \in Ways : w # <<>> => \E k \in Nat \ {0} : \E v \in Ways : w = Down(k, v)
  BY FirstStep
<1>8. \A k, j \in Nat \ {0} : \A w \in Ways :
        Append(w, j) \in Ways /\ Append(Down(k, w), j) = Down(k, Append(w, j))
  <2> SUFFICES ASSUME NEW k \in Nat \ {0}, NEW j \in Nat \ {0}, NEW w \in Ways
               PROVE Append(w, j) \in Ways /\ Append(Down(k, w), j) = Down(k, Append(w, j))
    OBVIOUS
  <2>1. <<k>> \in Ways
    BY RootWay, StepAnd
  <2> QED BY <2>1, AlongOneMore, OneMore
<1> HIDE DEF Down
<1>9. ASSUME NEW k \in 1..n PROVE Append(<<>>, k) \in DOMAIN b /\ b[Append(<<>>, k)] = kids[k][<<>>]
  <2>1. k \in Nat \ {0} /\ <<>> \in Ways /\ <<>> \in DOMAIN kids[k]
    BY <1>1, RootWay DEF IsTree
  <2> QED BY <1>5, <1>6, <2>1
<1>10. ASSUME NEW way \in DOMAIN b, way # <<>> PROVE Admitted(g, b, way)
  <2>1. PICK k \in Nat \ {0} : \E v \in Ways : way = Down(k, v)
    BY <1>5, <1>7, <1>10
  <2>2. PICK v \in Ways : way = Down(k, v)
    BY <2>1
  <2>3. k \in 1..n /\ v \in DOMAIN kids[k] /\ b[way] = kids[k][v]
    BY <1>5, <2>2
  <2>4. ASSUME NEW j \in 1..b[way].kids PROVE b[Append(way, j)] = kids[k][Append(v, j)]
    <3>1. j \in Nat \ {0} /\ Append(v, j) \in DOMAIN kids[k]
      <4>1. kids[k][v].kids \in Nat /\ Append(v, j) \in DOMAIN kids[k]
        BY <1>1, <2>3 DEF IsTree
      <4> QED BY <2>3, <4>1
    <3>2. Append(v, j) \in Ways /\ Append(way, j) = Down(k, Append(v, j))
      BY <1>8, <2>2, <3>1
    <3> QED BY <1>5, <2>3, <3>1, <3>2
  <2>5. Admitted(g, kids[k], v)
    BY <1>1, <2>3 DEF Derives
  <2> QED BY <2>3, <2>4, <2>5, AdmittedAlike
<1> QED BY <1>4, <1>5, <1>9, <1>10 DEF b, n

\* What is below a node of a derivation is one.
LEMMA BelowDerives ==
  ASSUME NEW g, NEW d, Derives(g, d), NEW at \in DOMAIN d
  PROVE  Derives(g, Below(d, at)) /\ Below(d, at)[<<>>] = d[at]
<1> DEFINE b == Below(d, at)
<1>1. IsTree(d) /\ at \in Ways
  BY DEF Derives, IsTree
<1>2. IsTree(b)
  BY <1>1, BelowTree
<1>3. /\ DOMAIN b \subseteq Ways
      /\ \A w \in Ways : w \in DOMAIN b <=> at \o w \in DOMAIN d
      /\ \A w \in DOMAIN b : b[w] = d[at \o w]
      /\ b[<<>>] = d[at]
  BY <1>1, BelowAt
<1> HIDE DEF b
<1>4. ASSUME NEW w \in DOMAIN b PROVE Admitted(g, b, w)
  <2>1. w \in Ways /\ at \o w \in DOMAIN d /\ b[w] = d[at \o w]
    BY <1>3
  <2>2. ASSUME NEW j \in 1..b[w].kids PROVE b[Append(w, j)] = d[Append(at \o w, j)]
    <3>1. j \in Nat \ {0} /\ Append(w, j) \in DOMAIN b
      <4>1. b[w].kids \in Nat /\ Append(w, j) \in DOMAIN b
        BY <1>2 DEF IsTree
      <4> QED BY <4>1
    <3>2. Append(at \o w, j) = at \o Append(w, j)
      BY <1>1, <2>1, <3>1, AlongOneMore
    <3> QED BY <1>3, <3>1, <3>2
  <2>3. Admitted(g, d, at \o w)
    BY <2>1 DEF Derives
  <2> DEFINE v == at \o w
  <2> HIDE DEF v
  <2> QED BY <2>1, <2>2, <2>3, AdmittedAlike
<1> QED BY <1>2, <1>3, <1>4 DEF Derives, b

\* A twig in the place of a node it begins like leaves the others admitted,
\* and is admitted as it was.
LEMMA GraftAdmitted ==
  ASSUME NEW g, NEW d, IsTree(d), NEW at \in DOMAIN d, NEW r, IsTree(r),
         r[<<>>].at = d[at].at, r[<<>>].rule = d[at].rule
  PROVE  LET h == Graft(d, at, r)
         IN  /\ \A way \in DOMAIN d : ~IsPrefix(at, way) /\ Admitted(g, d, way) => Admitted(g, h, way)
             /\ \A w \in DOMAIN r : Admitted(g, r, w) => Admitted(g, h, at \o w)
<1> DEFINE h == Graft(d, at, r)
<1>1. at \in Ways /\ DOMAIN d \subseteq Ways /\ DOMAIN r \subseteq Ways /\ <<>> \in DOMAIN r
  BY DEF IsTree
<1>2. /\ \A way \in Ways : ~IsPrefix(at, way) =>
           /\ way \in DOMAIN h <=> way \in DOMAIN d
           /\ way \in DOMAIN h => h[way] = d[way]
      /\ \A w \in Ways :
           /\ at \o w \in DOMAIN h <=> w \in DOMAIN r
           /\ w \in DOMAIN r => h[at \o w] = r[w]
  BY GraftAt
<1> HIDE DEF h
<1>3. ASSUME NEW way \in DOMAIN d, ~IsPrefix(at, way), Admitted(g, d, way)
      PROVE  Admitted(g, h, way)
  <2>1. h[way] = d[way]
    BY <1>1, <1>2, <1>3
  <2>2. ASSUME NEW k \in 1..d[way].kids
        PROVE  /\ d[Append(way, k)].at = h[Append(way, k)].at
               /\ d[Append(way, k)].rule = h[Append(way, k)].rule
    <3> DEFINE v == Append(way, k)
    <3>1. v \in DOMAIN d /\ d[way].kids \in Nat /\ way \in Ways
      BY <1>1 DEF IsTree
    <3>2. k \in Nat \ {0}
      BY <3>1
    <3>3. IsPrefix(at, v) <=> IsPrefix(at, way) \/ at = v
      BY <1>1, <3>1, <3>2, OneMoreBegins
    <3> HIDE DEF v
    <3>4. CASE at = v
      <4>1. at = at \o <<>> /\ <<>> \in Ways
        BY <1>1, RootWay
      <4>2. h[v] = r[<<>>]
        BY <1>1, <1>2, <3>4, <4>1
      <4> QED BY <3>4, <4>2 DEF v
    <3>5. CASE at # v
      <4>1. h[v] = d[v]
        BY <1>1, <1>2, <1>3, <3>1, <3>3, <3>5
      <4> QED BY <4>1 DEF v
    <3> QED BY <3>4, <3>5
  <2> QED BY <1>3, <2>1, <2>2, AdmittedAlike
<1>4. ASSUME NEW w \in DOMAIN r, Admitted(g, r, w) PROVE Admitted(g, h, at \o w)
  <2>1. h[at \o w] = r[w] /\ w \in Ways
    BY <1>1, <1>2
  <2>2. ASSUME NEW k \in 1..r[w].kids PROVE h[Append(at \o w, k)] = r[Append(w, k)]
    <3>1. Append(w, k) \in DOMAIN r /\ r[w].kids \in Nat
      BY DEF IsTree
    <3>2. k \in Nat \ {0} /\ Append(w, k) \in Ways
      BY <1>1, <3>1
    <3>3. Append(at \o w, k) = at \o Append(w, k)
      BY <1>1, <2>1, <3>2, AlongOneMore
    <3> QED BY <1>2, <3>1, <3>2, <3>3
  <2> DEFINE v == at \o w
  <2>3. h[v] = r[w] /\ \A k \in 1..r[w].kids : h[Append(v, k)] = r[Append(w, k)]
    BY <2>1, <2>2
  <2> HIDE DEF v
  <2>4. Admitted(g, h, v)
    BY <1>4, <2>3, AdmittedAlike
  <2> QED BY <2>4 DEF v
<1> QED BY <1>3, <1>4 DEF h

\* A derivation with another one in the place of a node it begins like.
LEMMA GraftDerives ==
  ASSUME NEW g, NEW d, Derives(g, d), NEW at \in DOMAIN d, NEW r, Derives(g, r),
         r[<<>>].at = d[at].at, r[<<>>].rule = d[at].rule
  PROVE  LET h == Graft(d, at, r)
         IN  /\ Derives(g, h) /\ h # Nothing
             /\ h[<<>>].at = d[<<>>].at /\ h[<<>>].rule = d[<<>>].rule
<1> DEFINE h == Graft(d, at, r)
<1>1. IsTree(d) /\ IsTree(r) /\ at \in Ways
  BY DEF Derives, IsTree
<1>2. IsTree(h)
  BY <1>1, GraftTree
<1>3. /\ DOMAIN h \subseteq Ways /\ h # Nothing
      /\ h[<<>>] = IF at = <<>> THEN r[<<>>] ELSE d[<<>>]
      /\ \A way \in Ways : ~IsPrefix(at, way) => (way \in DOMAIN h <=> way \in DOMAIN d)
      /\ \A w \in Ways : at \o w \in DOMAIN h <=> w \in DOMAIN r
  BY <1>1, GraftAt
<1>4. /\ \A way \in DOMAIN d : ~IsPrefix(at, way) /\ Admitted(g, d, way) => Admitted(g, h, way)
      /\ \A w \in DOMAIN r : Admitted(g, r, w) => Admitted(g, h, at \o w)
  BY <1>1, GraftAdmitted
<1> HIDE DEF h
<1>5. ASSUME NEW way \in DOMAIN h PROVE Admitted(g, h, way)
  <2>1. CASE IsPrefix(at, way)
    <3>1. way = at \o After(way, Len(at)) /\ After(way, Len(at)) \in Ways
      BY <1>1, <1>3, <2>1, Beginning
    <3>2. After(way, Len(at)) \in DOMAIN r
      BY <1>3, <3>1
    <3>3. Admitted(g, r, After(way, Len(at)))
      BY <3>2 DEF Derives
    <3> QED BY <1>4, <3>1, <3>2, <3>3
  <2>2. CASE ~IsPrefix(at, way)
    <3>1. way \in DOMAIN d
      BY <1>3, <2>2
    <3>2. Admitted(g, d, way)
      BY <3>1 DEF Derives
    <3> QED BY <1>4, <2>2, <3>1, <3>2
  <2> QED BY <2>1, <2>2
<1> QED BY <1>2, <1>3, <1>5 DEF Derives, h

(***************************************************************************)
(* Costs                                                                   *)
(***************************************************************************)

\* What f[x] is by step goes by what f is at lower x only.
LooksLower(D, V, N, height, step) ==
  /\ N \in Nat /\ height \in [D -> 0..N] /\ [D -> V] # {}
  /\ step \in [[D -> V] -> [D -> V]]
  /\ \A f, h \in [D -> V] : \A x \in D :
       (\A y \in D : height[y] < height[x] => f[y] = h[y]) => step[f][x] = step[h][x]
\* A recursion that only looks at what is lower has a solution.
LEMMA Recursion ==
  ASSUME NEW D, NEW V, NEW N, NEW height, NEW step, LooksLower(D, V, N, height, step)
  PROVE  \E f \in [D -> V] : f = step[f]
<1> DEFINE Solved(f, n) == \A x \in D : height[x] < n => f[x] = step[f][x]
           Never == {n \in Nat : ~\E f \in [D -> V] : Solved(f, n)}
<1> /\ N \in Nat /\ height \in [D -> 0..N] /\ step \in [[D -> V] -> [D -> V]]
  BY DEF LooksLower
<1> PICK start \in [D -> V] : TRUE
  BY DEF LooksLower
<1>0. \A x \in D : height[x] \in Nat /\ height[x] <= N
  OBVIOUS
<1>1. \E f \in [D -> V] : Solved(f, 0)
  <2>1. Solved(start, 0)
    BY <1>0
  <2> QED BY <2>1
<1>2. ASSUME NEW n \in Nat, NEW f \in [D -> V], Solved(f, n)
      PROVE  \E h \in [D -> V] : Solved(h, n + 1)
  <2> DEFINE h == step[f]
  <2>1. h \in [D -> V]
    OBVIOUS
  <2>2. ASSUME NEW x \in D, height[x] < n + 1 PROVE h[x] = step[h][x]
    <3>1. \A y \in D : height[y] < height[x] => f[y] = h[y]
      <4> SUFFICES ASSUME NEW y \in D, height[y] < height[x] PROVE f[y] = h[y]
        OBVIOUS
      <4>1. height[y] < n
        BY <1>0, <2>2
      <4> QED BY <1>2, <4>1
    <3> HIDE DEF h
    <3>2. step[f][x] = step[h][x]
      BY <2>1, <3>1 DEF LooksLower
    <3> QED BY <3>2 DEF h
  <2> QED BY <2>1, <2>2
<1>3. Never = {}
  <2> SUFFICES ASSUME Never # {} PROVE FALSE
    OBVIOUS
  <2>1. Never \subseteq Nat
    OBVIOUS
  <2>2. PICK n \in Never : \A k \in Never : n <= k
    <3> HIDE DEF Never
    <3> QED BY <2>1, LeastNatural
  <2>3. n \in Nat /\ ~\E f \in [D -> V] : Solved(f, n)
    OBVIOUS
  <2> HIDE DEF Solved
  <2>4. n # 0
    BY <1>1, <2>3
  <2>5. n - 1 \in Nat /\ ~(n <= n - 1) /\ n - 1 + 1 = n
    BY <2>3, <2>4
  <2>6. \E f \in [D -> V] : Solved(f, n - 1)
    BY <2>2, <2>5
  <2> QED BY <1>2, <2>3, <2>5, <2>6
<1>4. PICK f \in [D -> V] : Solved(f, N + 1)
  <2>1. N + 1 \in Nat
    OBVIOUS
  <2> QED BY <1>3, <2>1
<1>5. \A x \in D : f[x] = step[f][x]
  <2> SUFFICES ASSUME NEW x \in D PROVE f[x] = step[f][x]
    OBVIOUS
  <2>1. height[x] < N + 1
    BY <1>0
  <2> QED BY <1>4, <2>1
<1>6. step[f] \in [D -> V]
  OBVIOUS
<1>7. f = step[f]
  BY <1>5, <1>6
<1> QED BY <1>7

\* The least of a set of naturals.
LEMMA MinIs ==
  ASSUME NEW T, T \subseteq Nat, T # {}
  PROVE  Min(T) \in T /\ \A y \in T : Min(T) <= y
BY LeastNatural DEF Min

\* A cost does not go beyond what stands for none.
LEMMA CappedIs ==
  ASSUME NEW n \in Nat
  PROVE  /\ Unreachable \in Nat \ {0}
         /\ Capped(n) \in 0..Unreachable /\ Capped(n) <= n
         /\ (Capped(n) < Unreachable => Capped(n) = n)
         /\ \A m \in Nat : m <= n => Capped(m) <= Capped(n)
<1>1. Unreachable \in Nat \ {0}
  BY GrammarAssumption
<1>2. Capped(n) \in 0..Unreachable /\ Capped(n) <= n /\ (Capped(n) < Unreachable => Capped(n) = n)
  BY <1>1 DEF Capped
<1>3. \A m \in Nat : m <= n => Capped(m) <= Capped(n)
  BY <1>1 DEF Capped
<1> QED BY <1>1, <1>2, <1>3

\* What the parts of a sequence cost adds up, as far as Unreachable.
LEMMA SpentAt ==
  ASSUME NEW n \in Nat, NEW parts, Len(parts) = n, \A k \in 1..n : parts[k] \in Nat
  PROVE  LET s == Spent(parts)
         IN  /\ s[0] = 0
             /\ \A k \in 1..n : s[k] = Capped(s[k - 1] + parts[k])
             /\ \A k \in 0..n : s[k] \in 0..Unreachable
<1> DEFINE D == 0..n
           V == 0..Unreachable
           Part(f, k) == IF k = 0 THEN 0 ELSE Capped(f[k - 1] + parts[k])
           height == [k \in D |-> k]
           step == [f \in [D -> V] |-> [k \in D |-> Part(f, k)]]
           start == [k \in D |-> 0]
<1>0. Unreachable \in Nat \ {0}
  BY GrammarAssumption
<1>1. height \in [D -> 0..n] /\ start \in [D -> V]
  BY <1>0
<1>2. ASSUME NEW f, NEW k \in D, \A j \in D : j < k => f[j] \in V
      PROVE  Part(f, k) \in V
  <2>1. CASE k = 0
    BY <1>0, <2>1
  <2>2. CASE k # 0
    <3>1. k - 1 \in D /\ k - 1 < k /\ k \in 1..n
      BY <2>2
    <3>2. f[k - 1] \in Nat /\ parts[k] \in Nat
      BY <1>0, <1>2, <3>1
    <3>3. f[k - 1] + parts[k] \in Nat
      BY <3>2
    <3> QED BY <2>2, <3>3, CappedIs
  <2> QED BY <2>1, <2>2
<1>3. step \in [[D -> V] -> [D -> V]]
  <2> SUFFICES ASSUME NEW f \in [D -> V] PROVE [k \in D |-> Part(f, k)] \in [D -> V]
    OBVIOUS
  <2> HIDE DEF Part
  <2> QED BY <1>2
<1>4. ASSUME NEW f \in [D -> V], NEW h \in [D -> V], NEW k \in D,
             \A j \in D : height[j] < height[k] => f[j] = h[j]
      PROVE  step[f][k] = step[h][k]
  <2>1. k # 0 => k - 1 \in D /\ height[k - 1] < height[k]
    OBVIOUS
  <2> QED BY <1>4, <2>1
<1>5. PICK f \in [D -> V] : f = step[f]
  <2>1. \A f, h \in [D -> V] : \A k \in D :
          (\A j \in D : height[j] < height[k] => f[j] = h[j]) => step[f][k] = step[h][k]
    BY <1>4
  <2>2. [D -> V] # {}
    BY <1>1
  <2> HIDE DEF D, V, height, step, start
  <2>3. LooksLower(D, V, n, height, step)
    BY <1>1, <1>3, <2>1, <2>2 DEF LooksLower
  <2> QED BY <2>3, Recursion
<1>6. f = [k \in D |-> Part(f, k)]
  BY <1>5
<1> DEFINE s == Spent(parts)
<1>7. s = CHOOSE t : t = [k \in D |-> Part(t, k)]
  BY DEF Spent
<1>8. s = [k \in D |-> Part(s, k)]
  <2> HIDE DEF Part, D, s
  <2> QED BY <1>6, <1>7
<1> HIDE DEF s
<1>9. \A k \in D : s[k] = Part(s, k)
  BY <1>8
<1>10. \A k \in D : s[k] \in V
  <2> DEFINE Bad == {k \in D : s[k] \notin V}
  <2> SUFFICES ASSUME Bad # {} PROVE FALSE
    OBVIOUS
  <2>1. Bad \subseteq Nat
    OBVIOUS
  <2>2. PICK k \in Bad : \A j \in Bad : k <= j
    <3> HIDE DEF Bad
    <3> QED BY <2>1, LeastNatural
  <2>3. \A j \in D : j < k => s[j] \in V
    BY <2>2
  <2>4. k \in D /\ s[k] \notin V
    OBVIOUS
  <2> HIDE DEF Bad, Part, V
  <2> QED BY <1>2, <1>9, <2>3, <2>4
<1>11. s[0] = 0 /\ \A k \in 1..n : s[k] = Capped(s[k - 1] + parts[k])
  BY <1>9
<1> QED BY <1>10, <1>11 DEF s

\* The parts of productions.
Priced(g, prices) == prices \in [DOMAIN g.names -> 0..Unreachable]

\* The number of a defined production.
LEMMA RuleNoIs ==
  ASSUME NEW g, NEW name, Defined(g, name)
  PROVE  RuleNo(g, name) \in DOMAIN g.names /\ g.names[RuleNo(g, name)] = name
BY DEF Defined, RuleNo, Range

\* The children of a place are places.
LEMMA PlaceIs ==
  ASSUME NEW g, WellFormed(g), NEW at \in Places(g)
  PROVE  /\ at \in Ways /\ at # <<>> /\ NodeAt(g, at).kids \in Nat
         /\ Len(at) \in Nat \ {0} /\ Len(at) <= Cardinality(Places(g))
         /\ \A k \in 1..NodeAt(g, at).kids :
              /\ k \in Nat \ {0} /\ Append(at, k) \in Places(g)
              /\ Len(Append(at, k)) = Len(at) + 1
         /\ NodeAt(g, at).kind \in {"word", "prose", "ref", "opt", "repeat", "alt", "seq"}
         /\ NodeAt(g, at).kind \in {"opt", "repeat"} => NodeAt(g, at).kids = 1
         /\ NodeAt(g, at).kind = "word" => NodeAt(g, at).name # Blank
<1>1. at \in Ways /\ at # <<>>
  BY DEF WellFormed
<1>2. Len(at) \in Nat \ {0}
  BY <1>1, RootWay
<1>3. NodeAt(g, at).kids \in Nat /\ Len(at) <= Cardinality(Places(g))
  BY DEF WellFormed
<1>4. ASSUME NEW k \in 1..NodeAt(g, at).kids
      PROVE  /\ k \in Nat \ {0} /\ Append(at, k) \in Places(g)
             /\ Len(Append(at, k)) = Len(at) + 1
  <2>1. k \in Nat \ {0}
    BY <1>3
  <2>2. Append(at, k) \in Places(g)
    BY DEF WellFormed
  <2> QED BY <1>1, <2>1, <2>2, OneMore
<1>5. /\ NodeAt(g, at).kind \in {"word", "prose", "ref", "opt", "repeat", "alt", "seq"}
      /\ NodeAt(g, at).kind \in {"opt", "repeat"} => NodeAt(g, at).kids = 1
      /\ NodeAt(g, at).kind = "word" => NodeAt(g, at).name # Blank
  BY DEF WellFormed
<1> QED BY <1>1, <1>2, <1>3, <1>4, <1>5

\* What a node parts, by what its children cost.
KidCosts(g, cost, at) == [k \in 1..NodeAt(g, at).kids |-> cost[Append(at, k)]]

\* The cost of a node, by the kind of the node.
LEMMA NodeCostIs ==
  ASSUME NEW g, NEW prices, NEW cost, NEW at
  PROVE  LET n == NodeAt(g, at)
             kids == KidCosts(g, cost, at)
             c == NodeCost(g, prices, cost, at)
         IN  /\ n.kind = "word" => c = 1
             /\ n.kind = "prose" => c = Unreachable
             /\ n.kind = "ref" => c = RefCost(g, prices, n.name)
             /\ n.kind = "opt" => c = 0
             /\ n.kind = "alt" => c = Min({Unreachable} \cup Range(kids))
             /\ n.kind = "repeat" => c = kids[1]
             /\ n.kind = "seq" => c = Spent(kids)[n.kids]
<1> DEFINE n == NodeAt(g, at)
           kids == KidCosts(g, cost, at)
<1>1. NodeCost(g, prices, cost, at) =
        CASE n.kind = "word" -> 1
          [] n.kind = "prose" -> Unreachable
          [] n.kind = "ref" -> RefCost(g, prices, n.name)
          [] n.kind = "opt" -> 0
          [] n.kind = "alt" -> Min({Unreachable} \cup Range(kids))
          [] n.kind = "repeat" -> kids[1]
          [] n.kind = "seq" -> Spent(kids)[n.kids]
  BY DEF NodeCost, KidCosts
<1> HIDE DEF n, kids
<1> QED BY <1>1 DEF n, kids

\* A reference has a cost.
LEMMA RefCostIs ==
  ASSUME NEW g, NEW prices, Priced(g, prices), NEW name
  PROVE  RefCost(g, prices, name) \in 0..Unreachable
<1>1. Unreachable \in Nat \ {0}
  BY GrammarAssumption
<1>2. Defined(g, name) => prices[RuleNo(g, name)] \in 0..Unreachable
  BY RuleNoIs DEF Priced
<1> QED BY <1>1, <1>2 DEF RefCost

\* A node has a cost when its children do.
LEMMA NodeCostTyped ==
  ASSUME NEW g, WellFormed(g), NEW prices, Priced(g, prices), NEW at \in Places(g),
         NEW cost, \A k \in 1..NodeAt(g, at).kids : cost[Append(at, k)] \in 0..Unreachable
  PROVE  NodeCost(g, prices, cost, at) \in 0..Unreachable
<1> DEFINE n == NodeAt(g, at)
           kids == KidCosts(g, cost, at)
           V == 0..Unreachable
           m == n.kids
<1>0. Unreachable \in Nat \ {0}
  BY GrammarAssumption
<1>1. m \in Nat /\ DOMAIN kids = 1..m /\ Len(kids) = m /\ \A k \in 1..m : kids[k] \in V
  <2>1. m \in Nat
    BY PlaceIs
  <2>2. kids = [k \in 1..m |-> cost[Append(at, k)]]
    BY DEF KidCosts
  <2> HIDE DEF m, kids
  <2>3. DOMAIN kids = 1..m /\ \A k \in 1..m : kids[k] = cost[Append(at, k)]
    BY <2>2
  <2>4. \A k \in 1..m : kids[k] \in V
    BY <2>3 DEF m
  <2>5. Len(kids) = m
    BY <2>1, <2>2
  <2> QED BY <2>1, <2>3, <2>4, <2>5
<1>2. /\ n.kind \in {"word", "prose", "ref", "opt", "repeat", "alt", "seq"}
      /\ n.kind \in {"opt", "repeat"} => m = 1
  BY PlaceIs
<1> DEFINE c == NodeCost(g, prices, cost, at)
<1>3. /\ n.kind = "word" => c = 1
      /\ n.kind = "prose" => c = Unreachable
      /\ n.kind = "ref" => c = RefCost(g, prices, n.name)
      /\ n.kind = "opt" => c = 0
      /\ n.kind = "alt" => c = Min({Unreachable} \cup Range(kids))
      /\ n.kind = "repeat" => c = kids[1]
      /\ n.kind = "seq" => c = Spent(kids)[m]
  BY NodeCostIs
<1>4. RefCost(g, prices, n.name) \in V
  BY RefCostIs
<1> HIDE DEF n, kids, m, c
<1>5. Min({Unreachable} \cup Range(kids)) \in V
  <2> DEFINE T == {Unreachable} \cup Range(kids)
  <2>1. T \subseteq V /\ T # {} /\ T \subseteq Nat
    BY <1>0, <1>1 DEF Range
  <2> HIDE DEF T
  <2> QED BY <2>1, MinIs DEF T
<1>6. Spent(kids)[m] \in V
  <2>1. \A k \in 1..m : kids[k] \in Nat
    BY <1>0, <1>1
  <2>2. m \in 0..m
    BY <1>1
  <2> QED BY <1>1, <2>1, <2>2, SpentAt
<1>7. m = 1 => kids[1] \in V
  BY <1>1
<1>8. 1 \in V /\ 0 \in V /\ Unreachable \in V
  BY <1>0
<1> HIDE DEF V
<1>9. c \in V
  BY <1>2, <1>3, <1>4, <1>5, <1>6, <1>7, <1>8
<1> QED BY <1>9 DEF V, c

\* Everything in a grammar has a cost, which is as it is worked out.
LEMMA CostIs ==
  ASSUME NEW g, WellFormed(g), NEW prices, Priced(g, prices)
  PROVE  LET cost == CostOf(g, prices)
         IN  /\ DOMAIN cost = Places(g)
             /\ \A at \in Places(g) : /\ cost[at] = NodeCost(g, prices, cost, at)
                                          /\ cost[at] \in 0..Unreachable
<1> DEFINE D == Places(g)
           V == 0..Unreachable
           N == Cardinality(D)
           height == [at \in D |-> N - Len(at)]
           Node(f, at) == NodeCost(g, prices, f, at)
           step == [f \in [D -> V] |-> [at \in D |-> Node(f, at)]]
           start == [at \in D |-> 0]
<1>0. N \in Nat /\ Unreachable \in Nat \ {0}
  BY GrammarAssumption, FS_CardinalityType DEF WellFormed
<1> HIDE DEF N
<1>1. height \in [D -> 0..N] /\ start \in [D -> V]
  <2>1. ASSUME NEW at \in D PROVE N - Len(at) \in 0..N
    <3>1. Len(at) \in Nat /\ Len(at) <= N
      BY PlaceIs DEF N
    <3> QED BY <1>0, <3>1
  <2>2. 0 \in V
    BY <1>0
  <2> HIDE DEF D, V
  <2> QED BY <2>1, <2>2
<1>2. ASSUME NEW at \in D, NEW k \in 1..NodeAt(g, at).kids
      PROVE  Append(at, k) \in D /\ height[Append(at, k)] < height[at]
  <2>1. /\ Append(at, k) \in D /\ Len(Append(at, k)) = Len(at) + 1 /\ Len(at) \in Nat
    BY PlaceIs
  <2>2. height[Append(at, k)] = N - Len(Append(at, k)) /\ height[at] = N - Len(at)
    BY <2>1
  <2> HIDE DEF height
  <2> QED BY <1>0, <2>1, <2>2
<1>3. ASSUME NEW f, NEW at \in D, \A y \in D : height[y] < height[at] => f[y] \in V
      PROVE  Node(f, at) \in V
  <2>1. \A k \in 1..NodeAt(g, at).kids : f[Append(at, k)] \in V
    BY <1>2, <1>3
  <2> QED BY <2>1, NodeCostTyped
<1>4. step \in [[D -> V] -> [D -> V]]
  <2> SUFFICES ASSUME NEW f \in [D -> V] PROVE [at \in D |-> Node(f, at)] \in [D -> V]
    OBVIOUS
  <2> HIDE DEF Node, D, V, height
  <2> QED BY <1>3
<1>5. ASSUME NEW f \in [D -> V], NEW h \in [D -> V], NEW at \in D,
             \A y \in D : height[y] < height[at] => f[y] = h[y]
      PROVE  step[f][at] = step[h][at]
  <2>1. KidCosts(g, f, at) = KidCosts(g, h, at)
    BY <1>2, <1>5 DEF KidCosts
  <2>2. Node(f, at) = Node(h, at)
    BY <2>1 DEF NodeCost, KidCosts
  <2>3. step[f][at] = Node(f, at) /\ step[h][at] = Node(h, at)
    OBVIOUS
  <2> HIDE DEF step, Node
  <2> QED BY <2>2, <2>3
<1>6. PICK f \in [D -> V] : f = step[f]
  <2>1. \A f, h \in [D -> V] : \A at \in D :
          (\A y \in D : height[y] < height[at] => f[y] = h[y]) => step[f][at] = step[h][at]
    BY <1>5
  <2>2. [D -> V] # {}
    BY <1>1
  <2> HIDE DEF D, V, height, step, start
  <2>3. LooksLower(D, V, N, height, step)
    BY <1>0, <1>1, <1>4, <2>1, <2>2 DEF LooksLower
  <2> QED BY <2>3, Recursion
<1>7. f = [at \in D |-> Node(f, at)]
  BY <1>6
<1> DEFINE cost == CostOf(g, prices)
<1>8. cost = CHOOSE t : t = [at \in D |-> Node(t, at)]
  BY DEF CostOf
<1>9. cost = [at \in D |-> Node(cost, at)]
  <2> HIDE DEF Node, D, cost
  <2> QED BY <1>7, <1>8
<1> HIDE DEF cost
<1>10. DOMAIN cost = D /\ \A at \in D : cost[at] = Node(cost, at)
  <2> HIDE DEF Node, D
  <2> QED BY <1>9
<1>11. \A at \in D : cost[at] \in V
  <2> DEFINE Bad == {at \in D : cost[at] \notin V}
             T == {height[at] : at \in Bad}
  <2> SUFFICES ASSUME Bad # {} PROVE FALSE
    OBVIOUS
  <2>0. \A at \in D : height[at] \in Nat
    BY <1>0, <1>1
  <2> HIDE DEF height
  <2>1. T \subseteq Nat /\ T # {}
    BY <2>0
  <2>2. PICK h \in T : \A j \in T : h <= j
    <3> HIDE DEF T
    <3> QED BY <2>1, LeastNatural
  <2>3. PICK at \in Bad : \A y \in Bad : height[at] <= height[y]
    BY <2>2
  <2>4. at \in D /\ cost[at] \notin V /\ \A y \in D : height[y] < height[at] => cost[y] \in V
    BY <2>0, <2>3
  <2> HIDE DEF Bad, Node, V, D
  <2> QED BY <1>3, <1>10, <2>4
<1> QED BY <1>10, <1>11 DEF cost

(***************************************************************************)
(* The smallest derivations                                                *)
(***************************************************************************)

\* The children of a node stand for these places.
EachStands(d, way, places) ==
  /\ d[way].kids = Len(places)
  /\ \A k \in 1..d[way].kids : d[Append(way, k)].rule = Blank /\ d[Append(way, k)].at = places[k]

\* Its one child stands for a child of a place, or for a production.
OneOf(d, way, at, k) == EachStands(d, way, <<Append(at, k)>>)
BodyOf(d, way, i) == EachStands(d, way, << <<i>> >>)

One(x) == <<x>>
\* A sequence of one.
LEMMA OneIs ==
  ASSUME NEW S, NEW x \in S
  PROVE  One(x) \in Seq(S) /\ Len(One(x)) = 1 /\ One(x)[1] = x /\ DOMAIN One(x) = {1}
BY DEF One

\* What a node says whose children are counted.
LEMMA WithPlain ==
  ASSUME NEW at, NEW n
  PROVE  LET x == With(Plain(at), n)
         IN  x.kids = n /\ x.at = at /\ x.rule = Blank /\ x.token = Blank
BY DEF With, Plain, Deriv
\* The same where a production was entered.
LEMMA WithEntered ==
  ASSUME NEW name, NEW n
  PROVE  LET x == With(Entered(name), n)
         IN  x.kids = n /\ x.at = <<>> /\ x.rule = name /\ x.token = Blank
BY DEF With, Entered, Deriv

\* A tree of a node and of derivations, for the steps below.
Branched(g, b, y, kids) ==
  /\ IsTree(b) /\ b # Nothing /\ <<>> \in DOMAIN b /\ b[<<>>] = y
  /\ \A k \in 1..Len(kids) : b[Append(<<>>, k)] = kids[k][<<>>]
  /\ \A way \in DOMAIN b : way # <<>> => Admitted(g, b, way)
\* The same as BranchDerives, in one word.
LEMMA BranchIs ==
  ASSUME NEW g, NEW x, NEW S, NEW kids \in Seq(S), \A t \in S : Derives(g, t),
         With(x, Len(kids)).kids = Len(kids)
  PROVE  Branched(g, Branch(x, kids), With(x, Len(kids)), kids)
<1> DEFINE b == Branch(x, kids)
<1>1. /\ IsTree(b) /\ b # Nothing /\ <<>> \in DOMAIN b
      /\ b[<<>>] = With(x, Len(kids))
      /\ \A k \in 1..Len(kids) :
           Append(<<>>, k) \in DOMAIN b /\ b[Append(<<>>, k)] = kids[k][<<>>]
      /\ \A way \in DOMAIN b : way # <<>> => Admitted(g, b, way)
  BY Zenon, BranchDerives
<1> QED BY Zenon, <1>1 DEF Branched

\* What is admitted, by the kind of the place.
LEMMA AdmittedAt ==
  ASSUME NEW g, NEW d, NEW way, d[way].at # <<>>
  PROVE  LET x == d[way]
             n == NodeAt(g, x.at)
         IN  Admitted(g, d, way) <=>
               /\ x.at \in Places(g) /\ x.rule = Blank
               /\ n.kind = "word" => x.token = n.name /\ x.kids = 0
               /\ n.kind = "ref" /\ n.name \in DOMAIN Cut =>
                    x.kids = 0 /\ IF Cut[n.name] = <<>> THEN x.token = Blank ELSE x.token \in Range(Cut[n.name])
               /\ n.kind # "word" /\ ~(n.kind = "ref" /\ n.name \in DOMAIN Cut) => x.token = Blank
               /\ n.kind # "prose"
               /\ n.kind = "opt" => IF x.taken THEN EachStands(d, way, KidsAt(g, x.at)) ELSE x.kids = 0
               /\ n.kind = "repeat" =>
                    x.kids > 0 /\ \A k \in 1..x.kids : /\ d[Append(way, k)].rule = Blank
                                                      /\ d[Append(way, k)].at = Append(x.at, 1)
               /\ n.kind = "alt" => \E k \in 1..n.kids : OneOf(d, way, x.at, k)
               /\ n.kind = "seq" => EachStands(d, way, KidsAt(g, x.at))
               /\ n.kind = "ref" /\ n.name \notin DOMAIN Cut =>
                    /\ Defined(g, n.name) /\ x.kids = 1
                    /\ d[Append(way, 1)].at = <<>> /\ d[Append(way, 1)].rule = n.name
<1> DEFINE x == d[way]
           n == NodeAt(g, x.at)
           Token ==
             CASE n.kind = "word" -> x.token = n.name /\ x.kids = 0
               [] n.kind = "ref" /\ n.name \in DOMAIN Cut ->
                    x.kids = 0 /\ IF Cut[n.name] = <<>> THEN x.token = Blank
                                  ELSE x.token \in Range(Cut[n.name])
               [] OTHER -> x.token = Blank
           Repeated == x.kids > 0 /\ \A k \in 1..x.kids : /\ d[Append(way, k)].rule = Blank
                                                          /\ d[Append(way, k)].at = Append(x.at, 1)
           Kids ==
             CASE n.kind = "prose" -> FALSE
               [] n.kind = "opt" -> IF x.taken THEN EachStands(d, way, KidsAt(g, x.at)) ELSE x.kids = 0
               [] n.kind = "repeat" -> Repeated
               [] n.kind = "alt" -> \E k \in 1..n.kids : OneOf(d, way, x.at, k)
               [] n.kind = "seq" -> EachStands(d, way, KidsAt(g, x.at))
               [] n.kind = "ref" /\ n.name \notin DOMAIN Cut ->
                    /\ Defined(g, n.name) /\ x.kids = 1
                    /\ d[Append(way, 1)].at = <<>> /\ d[Append(way, 1)].rule = n.name
               [] OTHER -> TRUE
<1>1. Admitted(g, d, way) <=> x.at \in Places(g) /\ x.rule = Blank /\ Token /\ Kids
  BY Zenon DEF Admitted, EachStands, OneOf
<1> DEFINE OptOk == IF x.taken THEN EachStands(d, way, KidsAt(g, x.at)) ELSE x.kids = 0
           AltOk == \E k \in 1..n.kids : OneOf(d, way, x.at, k)
           SeqOk == EachStands(d, way, KidsAt(g, x.at))
           RefOk == /\ Defined(g, n.name) /\ x.kids = 1
                    /\ d[Append(way, 1)].at = <<>> /\ d[Append(way, 1)].rule = n.name
           CutOk == x.kids = 0 /\ IF Cut[n.name] = <<>> THEN x.token = Blank
                                  ELSE x.token \in Range(Cut[n.name])
           WordOk == x.token = n.name /\ x.kids = 0
<1>2. Kids <=> CASE n.kind = "prose" -> FALSE
                 [] n.kind = "opt" -> OptOk
                 [] n.kind = "repeat" -> Repeated
                 [] n.kind = "alt" -> AltOk
                 [] n.kind = "seq" -> SeqOk
                 [] n.kind = "ref" /\ n.name \notin DOMAIN Cut -> RefOk
                 [] OTHER -> TRUE
  BY Zenon
<1>3. Token <=> CASE n.kind = "word" -> WordOk
                  [] n.kind = "ref" /\ n.name \in DOMAIN Cut -> CutOk
                  [] OTHER -> x.token = Blank
  BY Zenon
<1>7. Admitted(g, d, way) <=>
               /\ x.at \in Places(g) /\ x.rule = Blank
               /\ n.kind = "word" => WordOk
               /\ n.kind = "ref" /\ n.name \in DOMAIN Cut => CutOk
               /\ n.kind # "word" /\ ~(n.kind = "ref" /\ n.name \in DOMAIN Cut) => x.token = Blank
               /\ n.kind # "prose"
               /\ n.kind = "opt" => OptOk
               /\ n.kind = "repeat" => Repeated
               /\ n.kind = "alt" => AltOk
               /\ n.kind = "seq" => SeqOk
               /\ n.kind = "ref" /\ n.name \notin DOMAIN Cut => RefOk
  <2>1. ~("word" = "ref") /\ ~("prose" = "opt")
    OBVIOUS
  <2> HIDE DEF Token, Kids, OptOk, Repeated, AltOk, SeqOk, RefOk, CutOk, WordOk, x, n
  <2>2. Kids <=>
               /\ n.kind # "prose"
               /\ n.kind = "opt" => OptOk
               /\ n.kind = "repeat" => Repeated
               /\ n.kind = "alt" => AltOk
               /\ n.kind = "seq" => SeqOk
               /\ n.kind = "ref" /\ n.name \notin DOMAIN Cut => RefOk
    BY <1>2
  <2>3. Token <=>
               /\ n.kind = "word" => WordOk
               /\ n.kind = "ref" /\ n.name \in DOMAIN Cut => CutOk
               /\ n.kind # "word" /\ ~(n.kind = "ref" /\ n.name \in DOMAIN Cut) => x.token = Blank
    BY <1>3
  <2> QED BY <1>1, <2>2, <2>3
<1> QED BY Zenon, <1>7 DEF x, n

\* What is admitted where a production was entered.
LEMMA AdmittedEntry ==
  ASSUME NEW g, NEW d, NEW way, d[way].at = <<>>
  PROVE  Admitted(g, d, way) <=>
           /\ Defined(g, d[way].rule) /\ d[way].token = Blank
           /\ BodyOf(d, way, RuleNo(g, d[way].rule))
BY Zenon DEF Admitted, EachStands, BodyOf

\* A derivation that stands for a place.
Stands(g, d, at) == Derives(g, d) /\ d[<<>>].at = at /\ d[<<>>].rule = Blank

\* The nodes' costs.
NodesPriced(g, table) ==
  /\ DOMAIN table \subseteq Places(g)
  /\ \A at \in DOMAIN table : table[at] \in 0..Unreachable

\* The alternative that is taken can be written, and none costs less.
LEMMA CheapestIs ==
  ASSUME NEW g, NEW table, NodesPriced(g, table), NEW at,
         NodeAt(g, at).kids \in Nat, Writable(g, table, at) # {}
  PROVE  LET c == Cheapest(g, table, at)
         IN  /\ c \in Writable(g, table, at)
             /\ \A j \in Writable(g, table, at) :
                  table[Append(at, c)] <= table[Append(at, j)]
<1> DEFINE w == Writable(g, table, at)
           C(k) == table[Append(at, k)]
           cheap == {k \in w : \A j \in w : C(k) <= C(j)}
           T == {C(k) : k \in w}
<1>1. ASSUME NEW k \in w PROVE C(k) \in Nat /\ k \in Nat
  <2>1. k \in 1..NodeAt(g, at).kids /\ Append(at, k) \in DOMAIN table
    BY DEF Writable
  <2>2. table[Append(at, k)] \in 0..Unreachable /\ Unreachable \in Nat
    BY <2>1, GrammarAssumption DEF NodesPriced
  <2> QED BY <2>1, <2>2
<1> HIDE DEF w, C
<1>2. T \subseteq Nat /\ T # {}
  BY <1>1 DEF w
<1>3. PICK c \in T : \A j \in T : c <= j
  <2> HIDE DEF T
  <2> QED BY <1>2, LeastNatural
<1>4. cheap # {} /\ cheap \subseteq Nat
  BY <1>1, <1>3
<1> HIDE DEF cheap
<1>5. Min(cheap) \in cheap
  BY <1>4, MinIs
<1>6. Cheapest(g, table, at) = Min(cheap)
  BY DEF Cheapest, cheap, w, C
<1> QED BY <1>5, <1>6 DEF cheap, w, C

\* A node over places that belong there is admitted.
LEMMA AdmittedOver ==
  ASSUME NEW g, WellFormed(g), NEW at \in Places(g), NEW m, NEW places,
         m[<<>>].at = at, m[<<>>].rule = Blank, m[<<>>].token = Blank, EachStands(m, <<>>, places),
         NodeAt(g, at).kind \in {"seq", "repeat", "alt", "opt"},
         NodeAt(g, at).kind = "seq" => places = KidsAt(g, at),
         NodeAt(g, at).kind = "opt" => m[<<>>].taken /\ places = KidsAt(g, at),
         NodeAt(g, at).kind = "alt" =>
           \E k \in 1..NodeAt(g, at).kids : places = One(Append(at, k)),
         NodeAt(g, at).kind = "repeat" =>
           Len(places) > 0 /\ \A k \in 1..Len(places) : places[k] = Append(at, 1)
  PROVE  Admitted(g, m, <<>>)
<1> DEFINE n == NodeAt(g, at)
           x == m[<<>>]
           SeqOk == EachStands(m, <<>>, KidsAt(g, at))
           AltOk == \E k \in 1..n.kids : OneOf(m, <<>>, at, k)
           OptOk == x.taken /\ SeqOk
           RepeatOk == /\ x.kids > 0
                       /\ \A k \in 1..x.kids : /\ m[Append(<<>>, k)].rule = Blank
                                               /\ m[Append(<<>>, k)].at = Append(at, 1)
           p == NodeAt(g, x.at)
           Rest == /\ x.at \in Places(g) /\ x.rule = Blank
                   /\ p.kind = "word" => x.token = p.name /\ x.kids = 0
                   /\ p.kind = "ref" /\ p.name \in DOMAIN Cut =>
                        x.kids = 0 /\ IF Cut[p.name] = <<>> THEN x.token = Blank
                                      ELSE x.token \in Range(Cut[p.name])
                   /\ p.kind # "word" /\ ~(p.kind = "ref" /\ p.name \in DOMAIN Cut) => x.token = Blank
                   /\ p.kind # "prose"
                   /\ p.kind = "ref" /\ p.name \notin DOMAIN Cut =>
                        /\ Defined(g, p.name) /\ x.kids = 1
                        /\ m[Append(<<>>, 1)].at = <<>> /\ m[Append(<<>>, 1)].rule = p.name
<1>1. x.kids = Len(places) /\ \A k \in 1..Len(places) : /\ m[Append(<<>>, k)].rule = Blank
                                                       /\ m[Append(<<>>, k)].at = places[k]
  BY DEF EachStands
<1>2. n.kind = "alt" => AltOk
  BY DEF OneOf, One
<1>3. n.kind = "repeat" => RepeatOk
  BY <1>1
<1>4. (n.kind = "seq" => SeqOk) /\ (n.kind = "opt" => OptOk)
  OBVIOUS
<1>5. p.kind = n.kind /\ p.kids = n.kids /\ KidsAt(g, x.at) = KidsAt(g, at) /\ x.at = at
  OBVIOUS
<1>6. Rest
  BY <1>5
<1>7. x.at # <<>>
  BY PlaceIs
<1>8. /\ p.kind = "repeat" =>
           x.kids > 0 /\ \A k \in 1..x.kids : /\ m[Append(<<>>, k)].rule = Blank
                                             /\ m[Append(<<>>, k)].at = Append(x.at, 1)
      /\ p.kind = "alt" => \E k \in 1..p.kids : OneOf(m, <<>>, x.at, k)
      /\ p.kind = "seq" => EachStands(m, <<>>, KidsAt(g, x.at))
  BY <1>2, <1>3, <1>4, <1>5
<1>9. p.kind = "opt" => IF x.taken THEN EachStands(m, <<>>, KidsAt(g, x.at)) ELSE x.kids = 0
  BY <1>4, <1>5
<1> QED BY Zenon, <1>6, <1>7, <1>8, <1>9, AdmittedAt

\* m has what is smallest at each of the places below a node that stands there.
Over(g, m, smaller, at, places) ==
  /\ IsTree(m) /\ m[<<>>] = With(Plain(at), Len(places))
  /\ EachStands(m, <<>>, places)
  /\ Admitted(g, m, <<>>) => Derives(g, m)
  /\ \A k \in 1..Len(places) : smaller[places[k]] # Nothing
  /\ m = Branch(Plain(at), [k \in DOMAIN places |-> smaller[places[k]]])

\* The smallest derivation over some places stands for each of them below.
LEMMA SmallestOfIs ==
  ASSUME NEW g, NEW at, NEW smaller,
         \A p \in Places(g) : smaller[p] = Nothing \/ Stands(g, smaller[p], p),
         NEW places \in Seq(Places(g))
  PROVE  LET m == SmallestOf(smaller, at, places)
         IN  m # Nothing => Over(g, m, smaller, at, places)
<1> DEFINE ds == [k \in DOMAIN places |-> smaller[places[k]]]
           S == {smaller[places[k]] : k \in DOMAIN places}
           m == SmallestOf(smaller, at, places)
           n == Len(places)
           b == Branch(Plain(at), ds)
<1> SUFFICES ASSUME m # Nothing PROVE Over(g, m, smaller, at, places)
  OBVIOUS
<1> SUFFICES        /\ IsTree(m) /\ m[<<>>] = With(Plain(at), n)
                    /\ EachStands(m, <<>>, places)
                    /\ Admitted(g, m, <<>>) => Derives(g, m)
                    /\ \A k \in 1..n : smaller[places[k]] # Nothing
                    /\ m = b
  BY DEF Over
<1>1. n \in Nat /\ DOMAIN places = 1..n /\ \A k \in 1..n : places[k] \in Places(g)
  BY LenProperties
<1>2. Nothing \notin Range(ds) /\ m = b
  BY DEF SmallestOf
<1>3. \A k \in 1..n : Stands(g, smaller[places[k]], places[k]) /\ smaller[places[k]] # Nothing
  BY <1>1, <1>2 DEF Range
<1>4. ds \in Seq(S) /\ Len(ds) = n /\ \A k \in 1..n : ds[k] = smaller[places[k]]
  <2>1. ds = [k \in 1..n |-> smaller[places[k]]] /\ \A k \in 1..n : smaller[places[k]] \in S
    BY <1>1
  <2> HIDE DEF ds, S, n
  <2> QED BY <1>1, <2>1
<1>5. \A t \in S : Derives(g, t)
  BY <1>1, <1>3 DEF Stands
<1> DEFINE x == Plain(at)
<1> HIDE DEF ds, S, m, n, b
<1>6. b = Branch(x, ds) /\ With(x, n).kids = n
  BY WithPlain DEF b
<1> HIDE DEF x
<1>7. /\ IsTree(b) /\ <<>> \in DOMAIN b
      /\ b[<<>>] = With(x, n)
      /\ \A k \in 1..n : b[Append(<<>>, k)] = ds[k][<<>>]
      /\ \A way \in DOMAIN b : way # <<>> => Admitted(g, b, way)
  <2>1. Branched(g, b, With(x, n), ds)
    BY <1>4, <1>5, <1>6, BranchIs
  <2> QED BY <1>4, <2>1 DEF Branched
<1>8. x = Plain(at)
  BY DEF x
<1>9. b[<<>>].kids = n
  BY <1>6, <1>7
<1>10. EachStands(b, <<>>, places)
  <2> SUFFICES ASSUME NEW k \in 1..n
               PROVE b[Append(<<>>, k)].rule = Blank /\ b[Append(<<>>, k)].at = places[k]
    BY <1>9 DEF EachStands, n
  <2>1. smaller[places[k]][<<>>].rule = Blank /\ smaller[places[k]][<<>>].at = places[k]
    BY <1>3 DEF Stands
  <2>2. b[Append(<<>>, k)] = smaller[places[k]][<<>>]
    BY <1>4, <1>7
  <2> QED BY <2>1, <2>2
<1>11. Admitted(g, b, <<>>) => Derives(g, b)
  BY <1>7 DEF Derives
<1> QED BY <1>2, <1>3, <1>7, <1>8, <1>10, <1>11

\* A leaf that is admitted stands for its place.
LEMMA LeafStands ==
  ASSUME NEW g, WellFormed(g), NEW at \in Places(g), NEW x,
         x.kids = 0, x.at = at, x.rule = Blank,
         LET n == NodeAt(g, at)
         IN  \/ n.kind = "word" /\ x.token = n.name
             \/ n.kind = "opt" /\ x.token = Blank /\ ~x.taken
             \/ /\ n.kind = "ref" /\ n.name \in DOMAIN Cut
                /\ IF Cut[n.name] = <<>> THEN x.token = Blank ELSE x.token \in Range(Cut[n.name])
  PROVE  Stands(g, Leaf(x), at)
<1> DEFINE m == Leaf(x)
<1>1. IsTree(m) /\ DOMAIN m = {<<>>} /\ m[<<>>] = x
  BY LeafTree
<1>2. x.at # <<>>
  BY PlaceIs
<1> HIDE DEF m
<1>3. Admitted(g, m, <<>>)
  BY <1>1, <1>2, AdmittedAt
<1> QED BY <1>1, <1>3 DEF Stands, Derives, m

\* The smallest derivation at a place, where there is one, stands for it.
LEMMA SmallestStands ==
  ASSUME NEW g, WellFormed(g), NEW table, NodesPriced(g, table), NEW smaller,
         \A p \in Places(g) : smaller[p] = Nothing \/ Stands(g, smaller[p], p),
         NEW at \in Places(g)
  PROVE  LET m == SmallestAt(g, table, smaller, at) IN m = Nothing \/ Stands(g, m, at)
<1> DEFINE m == SmallestAt(g, table, smaller, at)
           n == NodeAt(g, at)
<1> SUFFICES ASSUME m # Nothing PROVE Stands(g, m, at)
  OBVIOUS
<1>1. /\ at # <<>> /\ n.kids \in Nat
      /\ n.kind \in {"word", "prose", "ref", "opt", "repeat", "alt", "seq"}
      /\ n.kind \in {"opt", "repeat"} => n.kids = 1
      /\ \A k \in 1..n.kids : Append(at, k) \in Places(g)
  BY PlaceIs
<1>2. m = CASE n.kind = "word" -> Leaf([Plain(at) EXCEPT !.token = n.name])
            [] n.kind = "prose" -> Nothing
            [] n.kind = "opt" -> Leaf(Plain(at))
            [] n.kind = "ref" -> SmallestRef(g, smaller, at, n.name)
            [] n.kind \in {"seq", "repeat"} -> SmallestOf(smaller, at, KidsAt(g, at))
            [] n.kind = "alt" ->
                 IF Writable(g, table, at) = {} THEN Nothing
                 ELSE SmallestOf(smaller, at, <<Append(at, Cheapest(g, table, at))>>)
  BY DEF SmallestAt
<1> HIDE DEF m
<1>4. CASE n.kind = "word"
  <2> DEFINE x == [Plain(at) EXCEPT !.token = n.name]
  <2>1. m = Leaf(x)
    BY <1>2, <1>4
  <2>2. x.kids = 0 /\ x.at = at /\ x.rule = Blank /\ x.token = n.name /\ x.taken = FALSE
    BY DEF Plain, Deriv
  <2> HIDE DEF x
  <2> QED BY <1>4, <2>1, <2>2, LeafStands
<1>5. CASE n.kind = "opt"
  <2> DEFINE x == Plain(at)
  <2>1. m = Leaf(x)
    BY <1>2, <1>5
  <2>2. x.kids = 0 /\ x.at = at /\ x.rule = Blank /\ x.token = Blank /\ x.taken = FALSE
    BY DEF Plain, Deriv
  <2> HIDE DEF x
  <2> QED BY <1>5, <2>1, <2>2, LeafStands
<1>6. CASE n.kind = "ref" /\ n.name \in DOMAIN Cut
  <2> DEFINE t == IF Cut[n.name] = <<>> THEN Blank ELSE Cut[n.name][1]
             x == [Plain(at) EXCEPT !.token = t]
  <2>1. m = Leaf(x)
    BY <1>2, <1>6 DEF SmallestRef
  <2>2. x.kids = 0 /\ x.at = at /\ x.rule = Blank /\ x.token = t /\ x.taken = FALSE
    BY DEF Plain, Deriv
  <2>3. Cut[n.name] # <<>> => Cut[n.name][1] \in Range(Cut[n.name])
    <3> DEFINE s == Cut[n.name]
               R == Range(s)
    <3>1. s \in Seq(R)
      BY <1>6, GrammarAssumption
    <3> HIDE DEF s, R
    <3>2. s # <<>> => 1 \in 1..Len(s)
      BY <3>1, EmptySeq
    <3>3. s # <<>> => s[1] \in R
      BY <3>1, <3>2, ElementOfSeq
    <3> QED BY <3>3 DEF s, R
  <2> HIDE DEF x
  <2> QED BY <1>6, <2>1, <2>2, <2>3, LeafStands
<1>7. CASE n.kind = "ref" /\ n.name \notin DOMAIN Cut
  <2> DEFINE i == RuleNo(g, n.name)
             body == smaller[<<i>>]
             e == Branch(Entered(n.name), <<body>>)
  <2>1. Defined(g, n.name) /\ body # Nothing /\ m = Branch(Plain(at), <<e>>)
    <3>1. m = SmallestRef(g, smaller, at, n.name)
      BY <1>2, <1>7
    <3> QED BY <1>7, <3>1 DEF SmallestRef
  <2>2. <<i>> \in Places(g)
    BY <2>1, RuleNoIs DEF WellFormed
  <2> HIDE DEF i
  <2>3. Stands(g, body, <<i>>)
    BY <2>1, <2>2
  <2> DEFINE S == {body}
             kids == One(body)
             x == Entered(n.name)
  <2>4. kids \in Seq(S) /\ Len(kids) = 1 /\ kids[1] = body /\ \A t \in S : Derives(g, t)
    BY <2>3, OneIs DEF Stands
  <2>5. e = Branch(x, kids) /\ With(x, 1).kids = 1
    BY WithEntered DEF One
  <2> HIDE DEF body, e, S, kids
  <2>6. /\ IsTree(e) /\ <<>> \in DOMAIN e /\ e[<<>>] = With(x, 1)
        /\ e[Append(<<>>, 1)] = kids[1][<<>>]
        /\ \A way \in DOMAIN e : way # <<>> => Admitted(g, e, way)
    <3> HIDE DEF x
    <3>1. Branched(g, e, With(x, 1), kids)
      BY <2>4, <2>5, BranchIs
    <3> QED BY <2>4, <3>1 DEF Branched
  <2>7. e[<<>>].at = <<>> /\ e[<<>>].rule = n.name /\ e[<<>>].token = Blank /\ e[<<>>].kids = 1
    BY <2>6, WithEntered
  <2>8. e[Append(<<>>, 1)].at = <<i>> /\ e[Append(<<>>, 1)].rule = Blank
    BY <2>3, <2>4, <2>6 DEF Stands
  <2>10. Derives(g, e)
    <3>1. BodyOf(e, <<>>, i)
      <4> DEFINE q == <<i>>
      <4>1. EachStands(e, <<>>, One(q))
        <5> HIDE DEF q
        <5>1. e[Append(<<>>, 1)].at = q /\ e[Append(<<>>, 1)].rule = Blank
          BY <2>8 DEF q
        <5>2. One(q)[1] = q /\ Len(One(q)) = 1
          BY OneIs
        <5> QED BY <2>7, <5>1, <5>2 DEF EachStands
      <4> QED BY <4>1 DEF BodyOf, One
    <3>2. Admitted(g, e, <<>>)
      BY <2>1, <2>7, <3>1, AdmittedEntry DEF i
    <3> QED BY <2>6, <3>2 DEF Derives
  <2> DEFINE Q == {e}
             twigs == One(e)
             y == Plain(at)
  <2>11. twigs \in Seq(Q) /\ Len(twigs) = 1 /\ twigs[1] = e /\ \A t \in Q : Derives(g, t)
    BY <2>10, OneIs
  <2>12. m = Branch(y, twigs) /\ With(y, 1).kids = 1
    BY <2>1, WithPlain DEF One
  <2> HIDE DEF Q, twigs, x
  <2>13. /\ IsTree(m) /\ <<>> \in DOMAIN m /\ m[<<>>] = With(y, 1)
         /\ m[Append(<<>>, 1)] = twigs[1][<<>>]
         /\ \A way \in DOMAIN m : way # <<>> => Admitted(g, m, way)
    <3> HIDE DEF y
    <3>1. Branched(g, m, With(y, 1), twigs)
      BY <2>11, <2>12, BranchIs
    <3> QED BY <2>11, <3>1 DEF Branched
  <2>14. m[<<>>].at = at /\ m[<<>>].rule = Blank /\ m[<<>>].token = Blank /\ m[<<>>].kids = 1
    BY <2>13, WithPlain
  <2>15. m[Append(<<>>, 1)].at = <<>> /\ m[Append(<<>>, 1)].rule = n.name
    BY <2>7, <2>11, <2>13
  <2>16. Admitted(g, m, <<>>)
    <3>1. m[<<>>].at # <<>> /\ NodeAt(g, m[<<>>].at) = n
      BY <1>1, <2>14
    <3> HIDE DEF n
    <3> QED BY <1>7, <2>1, <2>14, <2>15, <3>1, AdmittedAt
  <2> QED BY <2>13, <2>14, <2>16 DEF Stands, Derives
<1>8. ASSUME NEW places \in Seq(Places(g)), m = SmallestOf(smaller, at, places),
             n.kind \in {"seq", "repeat", "alt"},
             n.kind = "seq" => places = KidsAt(g, at),
             n.kind = "repeat" => places = One(Append(at, 1)),
             n.kind = "alt" => \E k \in 1..n.kids : places = One(Append(at, k))
      PROVE  Stands(g, m, at)
  <2>1. /\ IsTree(m) /\ m[<<>>] = With(Plain(at), Len(places))
        /\ EachStands(m, <<>>, places)
        /\ Admitted(g, m, <<>>) => Derives(g, m)
    <3> DEFINE q == SmallestOf(smaller, at, places)
    <3>1. q # Nothing
      BY <1>8
    <3>2. places \in Seq(Places(g))
      BY <1>8
    <3>4. q # Nothing => Over(g, q, smaller, at, places)
      <4> HIDE DEF n
      <4> QED BY <3>2, SmallestOfIs
    <3> HIDE DEF q
    <3>3. m = q
      BY <1>8 DEF q
    <3> QED BY <3>1, <3>3, <3>4 DEF Over
  <2>2. m[<<>>].at = at /\ m[<<>>].rule = Blank /\ m[<<>>].token = Blank /\ m[<<>>].kids = Len(places)
    BY <2>1, WithPlain
  <2>3. n.kind = "repeat" => Len(places) > 0 /\ \A k \in 1..Len(places) : places[k] = Append(at, 1)
    <3> DEFINE q == Append(at, 1)
    <3> HIDE DEF q
    <3>1. Len(One(q)) = 1 /\ One(q)[1] = q
      BY OneIs
    <3> QED BY <1>8, <3>1 DEF q
  <2>6. Admitted(g, m, <<>>)
    <3>1. n.kind # "opt"
      BY <1>8
    <3> QED BY <1>8, <2>1, <2>2, <2>3, <3>1, AdmittedOver
  <2> QED BY <2>1, <2>2, <2>6 DEF Stands
<1>9. CASE n.kind \in {"seq", "repeat"}
  <2> DEFINE places == KidsAt(g, at)
  <2>1. places = [k \in 1..n.kids |-> Append(at, k)]
    BY DEF KidsAt
  <2>2. places \in Seq(Places(g))
    <3> DEFINE p == n.kids
    <3>1. p \in Nat /\ \A k \in 1..p : Append(at, k) \in Places(g)
      BY <1>1
    <3>2. places = [k \in 1..p |-> Append(at, k)]
      BY <2>1
    <3> HIDE DEF p, places
    <3> QED BY <3>1, <3>2
  <2>3. n.kids = 1 => places = One(Append(at, 1))
    BY <2>1 DEF One
  <2>4. m = SmallestOf(smaller, at, places)
    BY <1>2, <1>9
  <2> HIDE DEF places
  <2> QED BY <1>1, <1>8, <1>9, <2>2, <2>3, <2>4 DEF places
<1>10. CASE n.kind = "alt"
  <2> DEFINE c == Cheapest(g, table, at)
  <2>1. Writable(g, table, at) # {} /\ m = SmallestOf(smaller, at, One(Append(at, c)))
    BY <1>2, <1>10 DEF One
  <2>2. c \in 1..n.kids
    <3>1. c \in Writable(g, table, at)
      BY <1>1, <2>1, CheapestIs
    <3> QED BY <3>1 DEF Writable
  <2>3. One(Append(at, c)) \in Seq(Places(g))
    BY <1>1, <2>2, OneIs
  <2> HIDE DEF c
  <2> QED BY <1>8, <1>10, <2>1, <2>2, <2>3
<1>11. n.kind # "prose"
  BY <1>2
<1> QED BY <1>1, <1>4, <1>5, <1>6, <1>7, <1>9, <1>10, <1>11

\* minimal level by level: nothing at first, and then by what is one level down.
LEMMA MinimalLevels ==
  ASSUME NEW g, NEW table, NEW levels \in Nat
  PROVE  \E f : /\ \A p \in Places(g) : f[0][p] = Nothing
                /\ \A j \in 1..levels : \A p \in Places(g) :
                     f[j][p] = SmallestAt(g, table, f[j - 1], p)
                /\ Minimal(g, table, levels) = f[levels]
<1> DEFINE D == Places(g)
           Base == [p \in D |-> Nothing]
           Step(s) == [p \in D |-> SmallestAt(g, table, s, p)]
           Row(f, j) == [p \in D |-> IF j = 0 THEN Nothing ELSE SmallestAt(g, table, f[j - 1], p)]
           Solves(f, n) == f = [j \in 0..n |-> Row(f, j)]
           Never == {n \in Nat : ~\E f : Solves(f, n)}
<1>1. \A f, j : Row(f, j) = IF j = 0 THEN Base ELSE Step(f[j - 1])
  OBVIOUS
<1> HIDE DEF D, Base, Step, Row
<1>2. \E f : Solves(f, 0)
  <2> DEFINE f == [j \in 0..0 |-> Base]
  <2>1. \A j \in 0..0 : Row(f, j) = Base
    BY <1>1
  <2> HIDE DEF f
  <2>2. [j \in 0..0 |-> Row(f, j)] = [j \in 0..0 |-> Base]
    BY <2>1
  <2>3. Solves(f, 0)
    BY <2>2 DEF f
  <2> QED BY <2>3
<1>3. ASSUME NEW n \in Nat, NEW f, Solves(f, n)
      PROVE  \E h : Solves(h, n + 1)
  <2> DEFINE h == [j \in 0..(n + 1) |-> Row(f, j)]
  <2>1. \A j \in 0..n : f[j] = Row(f, j) /\ h[j] = Row(f, j)
    BY <1>3
  <2>2. \A j \in 0..(n + 1) : Row(f, j) = Row(h, j)
    <3> SUFFICES ASSUME NEW j \in 0..(n + 1) PROVE Row(f, j) = Row(h, j)
      OBVIOUS
    <3> HIDE DEF h
    <3>1. CASE j = 0
      BY <1>1, <3>1
    <3>2. CASE j # 0
      <4>1. j - 1 \in 0..n
        BY <3>2
      <4>2. f[j - 1] = h[j - 1]
        BY <2>1, <4>1
      <4> QED BY <1>1, <3>2, <4>2
    <3> QED BY <3>1, <3>2
  <2> HIDE DEF h
  <2>3. [j \in 0..(n + 1) |-> Row(f, j)] = [j \in 0..(n + 1) |-> Row(h, j)]
    BY <2>2
  <2>4. Solves(h, n + 1)
    BY <2>3 DEF h
  <2> QED BY <2>4
<1> HIDE DEF Solves
<1>4. \E f : Solves(f, levels)
  <2> SUFFICES ASSUME Never # {} PROVE FALSE
    OBVIOUS
  <2>1. Never \subseteq Nat
    OBVIOUS
  <2>2. PICK n \in Never : \A k \in Never : n <= k
    <3> HIDE DEF Never
    <3> QED BY <2>1, LeastNatural
  <2>3. n \in Nat /\ ~\E f : Solves(f, n)
    OBVIOUS
  <2>4. n # 0
    BY <1>2, <2>3
  <2>5. n - 1 \in Nat /\ ~(n <= n - 1) /\ n - 1 + 1 = n
    BY <2>3, <2>4
  <2>6. \E f : Solves(f, n - 1)
    BY <2>2, <2>5
  <2> QED BY <1>3, <2>3, <2>5, <2>6
<1> DEFINE m == CHOOSE f : Solves(f, levels)
<1>5. Solves(m, levels)
  BY <1>4
<1>6. Minimal(g, table, levels) = m[levels]
  BY Zenon DEF Minimal, m, Solves, Row, D
<1> HIDE DEF m
<1>7. m = [j \in 0..levels |-> Row(m, j)]
  BY <1>5 DEF Solves
<1>8. \A j \in 0..levels : m[j] = Row(m, j)
  BY Zenon, <1>7
<1>9. \A p \in D : m[0][p] = Nothing
  <2>1. m[0] = Base
    BY <1>1, <1>8
  <2> QED BY <2>1 DEF Base
<1>10. \A j \in 1..levels : \A p \in D : m[j][p] = SmallestAt(g, table, m[j - 1], p)
  <2> SUFFICES ASSUME NEW j \in 1..levels, NEW p \in D
               PROVE m[j][p] = SmallestAt(g, table, m[j - 1], p)
    OBVIOUS
  <2>1. j \in 0..levels /\ j # 0
    OBVIOUS
  <2>2. m[j] = Row(m, j)
    BY <1>8, <2>1
  <2>3. m[j] = Step(m[j - 1])
    BY Zenon, <1>1, <2>1, <2>2
  <2> QED BY Zenon, <2>3 DEF Step
<1> QED BY <1>6, <1>9, <1>10 DEF D

\* Whatever minimal gives stands for the place it was asked for.
LEMMA MinimalStands ==
  ASSUME NEW g, WellFormed(g), NEW table, NodesPriced(g, table), NEW levels \in Nat,
         NEW at \in Places(g)
  PROVE  LET m == Minimal(g, table, levels)[at] IN m = Nothing \/ Stands(g, m, at)
<1> DEFINE D == Places(g)
           Small(f, j, p) == SmallestAt(g, table, f[j - 1], p)
<1>1. PICK f : /\ \A p \in D : f[0][p] = Nothing
               /\ \A j \in 1..levels : \A p \in D : f[j][p] = Small(f, j, p)
               /\ Minimal(g, table, levels) = f[levels]
  BY MinimalLevels
<1> DEFINE Fine(j) == \A p \in D : f[j][p] = Nothing \/ Stands(g, f[j][p], p)
           Bad == {j \in 0..levels : ~Fine(j)}
<1>2. ASSUME NEW j \in 1..levels, Fine(j - 1) PROVE Fine(j)
  <2> SUFFICES ASSUME NEW p \in D PROVE f[j][p] = Nothing \/ Stands(g, f[j][p], p)
    OBVIOUS
  <2> DEFINE s == f[j - 1]
             t == SmallestAt(g, table, s, p)
  <2>1. \A q \in D : s[q] = Nothing \/ Stands(g, s[q], q)
    BY <1>2
  <2> HIDE DEF s
  <2>2. t = Nothing \/ Stands(g, t, p)
    BY <2>1, SmallestStands
  <2>3. f[j][p] = t
    BY <1>1 DEF s
  <2> HIDE DEF t
  <2> QED BY <2>2, <2>3
<1>3. Fine(0)
  BY <1>1
<1> HIDE DEF Fine
<1>4. Bad = {}
  <2> SUFFICES ASSUME Bad # {} PROVE FALSE
    OBVIOUS
  <2>1. Bad \subseteq Nat
    OBVIOUS
  <2>2. PICK n \in Bad : \A k \in Bad : n <= k
    <3> HIDE DEF Bad
    <3> QED BY <2>1, LeastNatural
  <2>3. n \in 0..levels /\ ~Fine(n) /\ n # 0
    BY <1>3
  <2>4. n \in 1..levels /\ n - 1 \in 0..levels /\ ~(n <= n - 1)
    BY <2>3
  <2>5. Fine(n - 1)
    BY <2>2, <2>4
  <2> QED BY <1>2, <2>3, <2>4, <2>5
<1>5. Fine(levels)
  <2>1. levels \in 0..levels
    OBVIOUS
  <2> QED BY <1>4, <2>1
<1> QED BY <1>1, <1>5 DEF Fine

(***************************************************************************)
(* Trees that grow                                                         *)
(***************************************************************************)

\* A tree that is still to be expanded at some of its leaves, and is a
\* derivation otherwise.
Growing(g, d, todo) ==
  /\ IsTree(d) /\ todo \subseteq DOMAIN d
  /\ \A way \in todo : d[way].at \in Places(g) /\ d[way].rule = Blank /\ d[way].kids = 0
  /\ \A way \in DOMAIN d : way \notin todo => Admitted(g, d, way)

\* There is nothing below a leaf.
LEMMA LeafEnds ==
  ASSUME NEW d, IsTree(d), NEW at \in DOMAIN d, d[at].kids = 0, NEW way \in DOMAIN d, IsPrefix(at, way)
  PROVE  way = at
<1> DEFINE b == Below(d, at)
           T == {Len(w) : w \in DOMAIN b \ {<<>>}}
<1>1. at \in Ways /\ way \in Ways
  BY DEF IsTree
<1>2. IsTree(b)
  BY BelowTree
<1>3. b[<<>>].kids = 0 /\ DOMAIN b \subseteq Ways /\ \A w \in Ways : w \in DOMAIN b <=> at \o w \in DOMAIN d
  BY BelowAt
<1> HIDE DEF b
<1>4. T = {}
  <2> SUFFICES ASSUME T # {} PROVE FALSE
    OBVIOUS
  <2>1. T \subseteq Nat
    BY <1>3, RootWay
  <2>2. PICK n \in T : \A m \in T : n <= m
    <3> HIDE DEF T
    <3> QED BY <2>1, LeastNatural
  <2>3. PICK w \in DOMAIN b \ {<<>>} : n = Len(w)
    BY <2>2
  <2>4. /\ Front(w) \in DOMAIN b /\ Last(w) \in 1..b[Front(w)].kids
        /\ Len(w) = Len(Front(w)) + 1 /\ Len(Front(w)) \in Nat
    <3>1. Front(w) \in DOMAIN b /\ Last(w) \in 1..b[Front(w)].kids
      BY <1>2, <2>3 DEF IsTree
    <3>2. Len(w) = Len(Front(w)) + 1 /\ Front(w) \in Ways
      BY <1>3, <2>3, LastStep
    <3> QED BY <3>1, <3>2, RootWay
  <2>5. Front(w) # <<>>
    BY <1>3, <2>4
  <2>6. Len(Front(w)) \in T
    BY <2>4, <2>5
  <2> QED BY <2>2, <2>3, <2>4, <2>6
<1>5. After(way, Len(at)) \in Ways /\ way = at \o After(way, Len(at))
  BY <1>1, Beginning
<1>6. After(way, Len(at)) = <<>>
  BY <1>3, <1>4, <1>5
<1> QED BY <1>1, <1>5, <1>6, RootWay

\* Where the trees below a node are todo, as ways of the tree.
Openings(todo, n) == UNION {{<<k>> \o w : w \in todo[k]} : k \in 1..n}

\* A node of trees that grow, which does when it is admitted.
Twig(g, b, y, kids, todo) ==
  /\ IsTree(b) /\ b # Nothing /\ b[<<>>] = y
  /\ \A k \in 1..Len(kids) : b[Append(<<>>, k)] = kids[k][<<>>]
  /\ Admitted(g, b, <<>>) => Growing(g, b, Openings(todo, Len(kids)))
\* A node of trees that grow does when it is admitted.
LEMMA BranchGrows ==
  ASSUME NEW g, NEW x, NEW S, NEW kids \in Seq(S), NEW todo,
         \A k \in 1..Len(kids) : Growing(g, kids[k], todo[k]), \A t \in S : IsTree(t),
         With(x, Len(kids)).kids = Len(kids)
  PROVE  Twig(g, Branch(x, kids), With(x, Len(kids)), kids, todo)
<1> DEFINE b == Branch(x, kids)
           n == Len(kids)
           Down(k, w) == <<k>> \o w
           o == UNION {{Down(k, w) : w \in todo[k]} : k \in 1..n}
<1>1. n \in Nat /\ \A k \in 1..n : kids[k] \in S /\ IsTree(kids[k])
  BY LenProperties
<1>4. IsTree(b) /\ b # Nothing
  BY BranchTree
<1>5. /\ <<>> \in DOMAIN b /\ b[<<>>] = With(x, n)
      /\ DOMAIN b \subseteq Ways
      /\ \A k \in Nat \ {0} : \A w \in Ways :
           /\ Down(k, w) \in DOMAIN b <=> k \in 1..n /\ w \in DOMAIN kids[k]
           /\ k \in 1..n /\ w \in DOMAIN kids[k] => b[Down(k, w)] = kids[k][w]
  <2>1. \A t \in S : DOMAIN t \subseteq Ways
    BY DEF IsTree
  <2> QED BY <2>1, BranchAt
<1>7. \A w \in Ways : w # <<>> => \E k \in Nat \ {0} : \E v \in Ways : w = Down(k, v)
  BY FirstStep
<1>8. \A k, j \in Nat \ {0} : \A w \in Ways :
        Append(w, j) \in Ways /\ Append(Down(k, w), j) = Down(k, Append(w, j))
  <2> SUFFICES ASSUME NEW k \in Nat \ {0}, NEW j \in Nat \ {0}, NEW w \in Ways
               PROVE Append(w, j) \in Ways /\ Append(Down(k, w), j) = Down(k, Append(w, j))
    OBVIOUS
  <2>1. <<k>> \in Ways
    BY RootWay, StepAnd
  <2> QED BY <2>1, AlongOneMore, OneMore
<1>6. \A k \in Nat \ {0} : Down(k, <<>>) = Append(<<>>, k)
  <2> SUFFICES ASSUME NEW k \in Nat \ {0} PROVE Down(k, <<>>) = Append(<<>>, k)
    OBVIOUS
  <2>1. <<k>> \in Ways /\ <<k>> = Append(<<>>, k)
    BY RootWay, StepAnd
  <2> QED BY <2>1, RootWay
<1>2. \A k \in Nat \ {0} : \A w \in Ways : Down(k, w) # <<>>
  BY StepAnd
<1> HIDE DEF b, n, Down
<1>3. \A k \in 1..n : /\ k \in Nat \ {0} /\ todo[k] \subseteq DOMAIN kids[k]
                      /\ DOMAIN kids[k] \subseteq Ways /\ <<>> \in DOMAIN kids[k]
                      /\ Growing(g, kids[k], todo[k])
  <2> SUFFICES ASSUME NEW k \in 1..n
               PROVE /\ k \in Nat \ {0} /\ todo[k] \subseteq DOMAIN kids[k]
                     /\ DOMAIN kids[k] \subseteq Ways /\ <<>> \in DOMAIN kids[k]
                     /\ Growing(g, kids[k], todo[k])
    OBVIOUS
  <2>1. Growing(g, kids[k], todo[k])
    BY DEF n
  <2> QED BY <1>1, <2>1 DEF Growing, IsTree
<1>9. ASSUME NEW k \in 1..n PROVE b[Append(<<>>, k)] = kids[k][<<>>]
  <2>1. k \in Nat \ {0} /\ <<>> \in Ways /\ <<>> \in DOMAIN kids[k]
    BY <1>3, RootWay
  <2> QED BY <1>5, <1>6, <2>1
<1>10. ASSUME NEW way \in DOMAIN b, way # <<>>, way \notin o PROVE Admitted(g, b, way)
  <2>1. PICK k \in Nat \ {0} : \E v \in Ways : way = Down(k, v)
    BY <1>5, <1>7, <1>10
  <2>2. PICK v \in Ways : way = Down(k, v)
    BY <2>1
  <2>3. k \in 1..n /\ v \in DOMAIN kids[k] /\ b[way] = kids[k][v]
    BY <1>5, <2>2
  <2>4. ASSUME NEW j \in 1..b[way].kids PROVE b[Append(way, j)] = kids[k][Append(v, j)]
    <3>1. j \in Nat \ {0} /\ Append(v, j) \in DOMAIN kids[k]
      <4>1. kids[k][v].kids \in Nat /\ Append(v, j) \in DOMAIN kids[k]
        BY <1>1, <2>3 DEF IsTree
      <4> QED BY <2>3, <4>1
    <3>2. Append(v, j) \in Ways /\ Append(way, j) = Down(k, Append(v, j))
      BY <1>8, <2>2, <3>1
    <3> QED BY <1>5, <2>3, <3>1, <3>2
  <2>5. Admitted(g, kids[k], v)
    <3>1. v \notin todo[k]
      BY <1>10, <2>2, <2>3
    <3> QED BY <1>3, <2>3, <3>1 DEF Growing
  <2> QED BY <2>3, <2>4, <2>5, AdmittedAlike
<1>11. ASSUME NEW way \in o
       PROVE  /\ way \in DOMAIN b /\ way # <<>>
              /\ b[way].at \in Places(g) /\ b[way].rule = Blank /\ b[way].kids = 0
  <2>1. PICK k \in 1..n : way \in {Down(k, w) : w \in todo[k]}
    OBVIOUS
  <2>2. PICK w \in todo[k] : way = Down(k, w)
    BY <2>1
  <2>3. k \in Nat \ {0} /\ w \in DOMAIN kids[k] /\ w \in Ways
    BY <1>3
  <2>4. way \in DOMAIN b /\ b[way] = kids[k][w] /\ way # <<>>
    BY <1>2, <1>5, <2>2, <2>3
  <2>5. kids[k][w].at \in Places(g) /\ kids[k][w].rule = Blank /\ kids[k][w].kids = 0
    BY <1>3 DEF Growing
  <2> QED BY <2>4, <2>5
<1>12. Admitted(g, b, <<>>) => Growing(g, b, o)
  <2> HIDE DEF o
  <2> QED BY <1>4, <1>10, <1>11 DEF Growing
<1>13. o = Openings(todo, n)
  BY DEF Down, Openings
<1>14. Twig(g, b, With(x, n), kids, todo)
  <2> HIDE DEF o
  <2> QED BY <1>4, <1>5, <1>9, <1>12, <1>13 DEF Twig, n
<1> QED BY <1>14 DEF b, n

\* What is to be expanded after a twig has grown.
Rest(todo, at, rest) == (todo \ {at}) \cup {at \o w : w \in rest}

\* A tree that grows, with a twig that does in the place of a leaf.
LEMMA GraftGrows ==
  ASSUME NEW g, NEW d, NEW todo, Growing(g, d, todo), NEW at \in todo,
         NEW r, NEW rest, Growing(g, r, rest), r[<<>>].at = d[at].at, r[<<>>].rule = Blank
  PROVE  LET h == Graft(d, at, r)
         IN  /\ Growing(g, h, Rest(todo, at, rest))
             /\ h # Nothing /\ h[<<>>].at = d[<<>>].at /\ h[<<>>].rule = d[<<>>].rule
<1> DEFINE h == Graft(d, at, r)
           old == todo \ {at}
           new == {at \o w : w \in rest}
<1>1. /\ IsTree(d) /\ IsTree(r) /\ at \in DOMAIN d /\ at \in Ways /\ DOMAIN d \subseteq Ways
      /\ DOMAIN r \subseteq Ways /\ rest \subseteq DOMAIN r /\ todo \subseteq DOMAIN d
      /\ d[at].kids = 0 /\ d[at].rule = Blank
  <2>1. IsTree(d) /\ IsTree(r) /\ rest \subseteq DOMAIN r /\ todo \subseteq DOMAIN d
        /\ d[at].kids = 0 /\ d[at].rule = Blank
    BY DEF Growing
  <2> QED BY <2>1 DEF IsTree
<1>2. IsTree(h)
  BY <1>1, GraftTree
<1>3. /\ DOMAIN h \subseteq Ways /\ h # Nothing
      /\ h[<<>>] = IF at = <<>> THEN r[<<>>] ELSE d[<<>>]
      /\ \A way \in Ways : ~IsPrefix(at, way) =>
           /\ way \in DOMAIN h <=> way \in DOMAIN d
           /\ way \in DOMAIN h => h[way] = d[way]
      /\ \A w \in Ways :
           /\ at \o w \in DOMAIN h <=> w \in DOMAIN r
           /\ w \in DOMAIN r => h[at \o w] = r[w]
  BY <1>1, GraftAt
<1>4. /\ \A way \in DOMAIN d : ~IsPrefix(at, way) /\ Admitted(g, d, way) => Admitted(g, h, way)
      /\ \A w \in DOMAIN r : Admitted(g, r, w) => Admitted(g, h, at \o w)
  BY <1>1, GraftAdmitted
<1> HIDE DEF h
<1>5. \A way \in DOMAIN d : IsPrefix(at, way) => way = at
  BY <1>1, LeafEnds
<1>6. ASSUME NEW way \in old
      PROVE  /\ way \in DOMAIN h
             /\ h[way].at \in Places(g) /\ h[way].rule = Blank /\ h[way].kids = 0
  <2>1. way \in DOMAIN d /\ ~IsPrefix(at, way)
    BY <1>1, <1>5
  <2>2. way \in DOMAIN h /\ h[way] = d[way]
    BY <1>1, <1>3, <2>1
  <2>3. d[way].at \in Places(g) /\ d[way].rule = Blank /\ d[way].kids = 0
    BY DEF Growing
  <2> QED BY <2>2, <2>3
<1>7. ASSUME NEW way \in new
      PROVE  /\ way \in DOMAIN h
             /\ h[way].at \in Places(g) /\ h[way].rule = Blank /\ h[way].kids = 0
  <2>1. PICK w \in rest : way = at \o w
    OBVIOUS
  <2>2. w \in DOMAIN r /\ w \in Ways
    BY <1>1
  <2>3. way \in DOMAIN h /\ h[way] = r[w]
    BY <1>3, <2>1, <2>2
  <2>4. r[w].at \in Places(g) /\ r[w].rule = Blank /\ r[w].kids = 0
    BY DEF Growing
  <2> QED BY <2>3, <2>4
<1>8. ASSUME NEW way \in DOMAIN h, way \notin old, way \notin new PROVE Admitted(g, h, way)
  <2>1. CASE IsPrefix(at, way)
    <3> DEFINE w == After(way, Len(at))
    <3>1. way = at \o w /\ w \in Ways
      BY <1>1, <1>3, <2>1, Beginning
    <3> HIDE DEF w
    <3>2. w \in DOMAIN r /\ w \notin rest
      BY <1>3, <1>8, <3>1
    <3>3. Admitted(g, r, w)
      BY <3>2 DEF Growing
    <3> QED BY <1>4, <3>1, <3>2, <3>3
  <2>2. CASE ~IsPrefix(at, way)
    <3>1. way \in DOMAIN d /\ way # at
      BY <1>1, <1>3, <2>2, RootWay
    <3>2. way \notin todo
      BY <1>8, <3>1
    <3>3. Admitted(g, d, way)
      BY <3>1, <3>2 DEF Growing
    <3> QED BY <1>4, <2>2, <3>1, <3>3
  <2> QED BY <2>1, <2>2
<1>9. Growing(g, h, old \cup new)
  <2> HIDE DEF old, new
  <2> QED BY <1>2, <1>6, <1>7, <1>8 DEF Growing
<1>10. h[<<>>].at = d[<<>>].at /\ h[<<>>].rule = d[<<>>].rule
  BY <1>1, <1>3
<1> QED BY <1>3, <1>9, <1>10 DEF h, Rest

\* A derivation is a tree with nothing left to be expanded.
LEMMA DerivesGrown ==
  ASSUME NEW g, NEW d
  PROVE  Derives(g, d) <=> Growing(g, d, {})
BY DEF Derives, Growing

\* A leaf that is still to be expanded.
LEMMA LeafGrows ==
  ASSUME NEW g, WellFormed(g), NEW p \in Places(g)
  PROVE  LET d == Leaf(Plain(p))
         IN  Growing(g, d, {<<>>}) /\ d[<<>>].at = p /\ d[<<>>].rule = Blank
<1> DEFINE x == Plain(p)
<1>1. x.kids = 0 /\ x.at = p /\ x.rule = Blank
  BY DEF Plain, Deriv
<1> HIDE DEF x
<1>2. IsTree(Leaf(x)) /\ DOMAIN Leaf(x) = {<<>>} /\ Leaf(x)[<<>>] = x
  BY <1>1, LeafTree
<1> DEFINE d == Leaf(x)
<1> HIDE DEF d
<1>3. Growing(g, d, {<<>>}) /\ d[<<>>].at = p /\ d[<<>>].rule = Blank
  BY <1>1, <1>2 DEF Growing, d
<1> QED BY <1>3 DEF d, x

\* A node and a leaf for each of some places.
LEMMA LeavesGrow ==
  ASSUME NEW g, WellFormed(g), NEW places \in Seq(Places(g)), NEW x,
         With(x, Len(places)).kids = Len(places)
  PROVE  LET b == Branch(x, [k \in DOMAIN places |-> Leaf(Plain(places[k]))])
         IN  /\ IsTree(b) /\ b # Nothing /\ b[<<>>] = With(x, Len(places)) /\ EachStands(b, <<>>, places)
             /\ Admitted(g, b, <<>>) => Growing(g, b, {<<k>> : k \in DOMAIN places})
<1> DEFINE L(p) == Leaf(Plain(p))
           kids == [k \in DOMAIN places |-> L(places[k])]
           S == {L(p) : p \in Places(g)}
           n == Len(places)
           todo == [k \in 1..n |-> {<<>>}]
           b == Branch(x, kids)
<1>1. n \in Nat /\ DOMAIN places = 1..n /\ \A k \in 1..n : places[k] \in Places(g)
  BY LenProperties
<1>2. \A p \in Places(g) : Growing(g, L(p), {<<>>}) /\ L(p)[<<>>].at = p /\ L(p)[<<>>].rule = Blank
  BY LeafGrows
<1> HIDE DEF L
<1>3. kids \in Seq(S) /\ Len(kids) = n /\ \A k \in 1..n : kids[k] = L(places[k])
  <2>1. kids = [k \in 1..n |-> L(places[k])] /\ \A k \in 1..n : L(places[k]) \in S
    BY <1>1
  <2> HIDE DEF kids, S, n
  <2> QED BY <1>1, <2>1
<1>4. \A t \in S : IsTree(t)
  BY <1>2 DEF Growing
<1>5. \A k \in 1..n : todo[k] = {<<>>} /\ Growing(g, kids[k], todo[k])
  <2>1. \A k \in 1..n : todo[k] = {<<>>}
    OBVIOUS
  <2> HIDE DEF todo, kids
  <2> QED BY <1>1, <1>2, <1>3, <2>1
<1>6. With(x, Len(kids)).kids = Len(kids)
  <2> HIDE DEF kids
  <2> QED BY <1>3
<1> DEFINE o == Openings(todo, n)
<1> HIDE DEF kids, S, b, todo
<1>7. /\ IsTree(b) /\ b # Nothing /\ b[<<>>] = With(x, n)
      /\ \A k \in 1..n : b[Append(<<>>, k)] = kids[k][<<>>]
      /\ Admitted(g, b, <<>>) => Growing(g, b, o)
  <2>1. Twig(g, b, With(x, Len(kids)), kids, todo)
    BY <1>3, <1>4, <1>5, <1>6, BranchGrows DEF b
  <2> QED BY <1>3, <2>1 DEF Twig
<1>8. o = {<<k>> : k \in 1..n}
  <2>1. \A k \in 1..n : {<<k>> \o w : w \in todo[k]} = {<<k>>}
    <3> SUFFICES ASSUME NEW k \in 1..n PROVE {<<k>> \o w : w \in todo[k]} = {<<k>>}
      OBVIOUS
    <3>1. k \in Nat \ {0}
      BY <1>1
    <3>2. <<k>> \in Ways
      BY <3>1, RootWay, StepAnd
    <3> DEFINE v == <<k>>
    <3> HIDE DEF v
    <3>3. v \o <<>> = v
      BY <3>2, RootWay DEF v
    <3>4. {v \o w : w \in todo[k]} = {v}
      <4>1. {v \o w : w \in {<<>>}} = {v}
        BY Zenon, <3>3
      <4> QED BY <1>5, <4>1
    <3> QED BY <3>4 DEF v
  <2> DEFINE A(k) == {<<k>> \o w : w \in todo[k]}
             B(k) == <<k>>
  <2>2. \A k \in 1..n : A(k) = {B(k)}
    BY <2>1
  <2> HIDE DEF A, B
  <2>3. UNION {A(k) : k \in 1..n} = {B(k) : k \in 1..n}
    BY <2>2
  <2> QED BY Zenon, <2>3 DEF A, B, Openings
<1>9. EachStands(b, <<>>, places)
  <2>1. b[<<>>].kids = n
    BY <1>3, <1>6, <1>7
  <2>2. ASSUME NEW k \in 1..n PROVE b[Append(<<>>, k)].at = places[k] /\ b[Append(<<>>, k)].rule = Blank
    <3>1. places[k] \in Places(g) /\ kids[k] = L(places[k])
      BY <1>1, <1>3
    <3>2. L(places[k])[<<>>].at = places[k] /\ L(places[k])[<<>>].rule = Blank
      BY <1>2, <3>1
    <3>3. b[Append(<<>>, k)] = L(places[k])[<<>>]
      BY <1>7, <3>1
    <3> QED BY <3>2, <3>3
  <2> QED BY <2>1, <2>2 DEF EachStands
<1> HIDE DEF o, n
<1>10. /\ IsTree(b) /\ b # Nothing /\ b[<<>>] = With(x, n) /\ EachStands(b, <<>>, places)
       /\ Admitted(g, b, <<>>) => Growing(g, b, {<<k>> : k \in DOMAIN places})
  BY <1>1, <1>7, <1>8, <1>9
<1> QED BY <1>10 DEF b, kids, L, n

\* A production that is entered.
LEMMA EnterGrows ==
  ASSUME NEW g, WellFormed(g), NEW name, Defined(g, name)
  PROVE  LET d == Branch(Entered(name), <<Leaf(Plain(<<RuleNo(g, name)>>))>>)
         IN  Growing(g, d, {<<1>>}) /\ d # Nothing /\ d[<<>>].at = <<>> /\ d[<<>>].rule = name
<1> DEFINE i == RuleNo(g, name)
           p == <<i>>
           places == One(p)
           x == Entered(name)
           L(q) == Leaf(Plain(q))
           kids == [k \in DOMAIN places |-> L(places[k])]
           b == Branch(x, kids)
<1>1. p \in Places(g)
  BY RuleNoIs DEF WellFormed
<1> HIDE DEF p
<1>2. places \in Seq(Places(g)) /\ Len(places) = 1 /\ places[1] = p /\ DOMAIN places = {1}
  BY <1>1, OneIs
<1> HIDE DEF places
<1>3. With(x, Len(places)).kids = Len(places)
  BY WithEntered
<1>4. /\ b # Nothing /\ b[<<>>] = With(x, Len(places)) /\ EachStands(b, <<>>, places)
      /\ Admitted(g, b, <<>>) => Growing(g, b, {<<k>> : k \in DOMAIN places})
  <2> HIDE DEF x
  <2> QED BY Zenon, <1>2, <1>3, LeavesGrow
<1> HIDE DEF b
<1>5. b[<<>>].at = <<>> /\ b[<<>>].rule = name /\ b[<<>>].token = Blank
  BY <1>4, WithEntered
<1>6. Admitted(g, b, <<>>)
  <2>1. BodyOf(b, <<>>, i)
    BY <1>4 DEF BodyOf, places, One, p
  <2> HIDE DEF i
  <2> QED BY <1>5, <2>1, AdmittedEntry DEF i
<1>7. {<<k>> : k \in DOMAIN places} = {<<1>>}
  BY <1>2
<1>8. kids = <<L(p)>>
  BY <1>2
<1> HIDE DEF kids, L
<1>9. b = Branch(x, <<L(p)>>)
  BY <1>8 DEF b
<1>10. Growing(g, b, {<<1>>})
  BY <1>4, <1>6, <1>7
<1> QED BY <1>4, <1>5, <1>9, <1>10 DEF L, p

\* A reference and the production it enters.
LEMMA RefGrows ==
  ASSUME NEW g, WellFormed(g), NEW at \in Places(g), NodeAt(g, at).kind = "ref",
         NodeAt(g, at).name \notin DOMAIN Cut, Defined(g, NodeAt(g, at).name)
  PROVE  LET e == Branch(Entered(NodeAt(g, at).name), <<Leaf(Plain(<<RuleNo(g, NodeAt(g, at).name)>>))>>)
             d == Branch(Plain(at), <<e>>)
         IN  Growing(g, d, {<<1, 1>>}) /\ d[<<>>].at = at /\ d[<<>>].rule = Blank
<1> DEFINE name == NodeAt(g, at).name
           e == Branch(Entered(name), <<Leaf(Plain(<<RuleNo(g, name)>>))>>)
           x == Plain(at)
           kids == One(e)
           todo == One({<<1>>})
           d == Branch(x, kids)
           S == {e}
<1>1. Growing(g, e, {<<1>>}) /\ e[<<>>].at = <<>> /\ e[<<>>].rule = name
  BY Zenon, EnterGrows
<1> HIDE DEF e
<1>2. kids \in Seq(S) /\ Len(kids) = 1 /\ kids[1] = e
  BY OneIs
<1>3. todo[1] = {<<1>>}
  BY OneIs
<1> HIDE DEF kids, todo
<1>4. /\ \A k \in 1..Len(kids) : Growing(g, kids[k], todo[k])
      /\ \A t \in S : IsTree(t)
  BY <1>1, <1>2, <1>3 DEF Growing
<1>5. With(x, 1).kids = 1
  BY WithPlain
<1> DEFINE o == Openings(todo, 1)
<1>6. /\ d[<<>>] = With(x, 1)
      /\ d[Append(<<>>, 1)] = kids[1][<<>>]
      /\ Admitted(g, d, <<>>) => Growing(g, d, o)
  <2> HIDE DEF S, x
  <2>1. Twig(g, d, With(x, 1), kids, todo)
    BY <1>2, <1>4, <1>5, BranchGrows
  <2> QED BY <1>2, <2>1 DEF Twig
<1> HIDE DEF d
<1>7. d[<<>>].at = at /\ d[<<>>].rule = Blank /\ d[<<>>].token = Blank /\ d[<<>>].kids = 1
  BY <1>6, WithPlain
<1>8. d[Append(<<>>, 1)].at = <<>> /\ d[Append(<<>>, 1)].rule = name
  BY <1>1, <1>2, <1>6
<1>9. Admitted(g, d, <<>>)
  <2>1. d[<<>>].at # <<>>
    BY <1>7, PlaceIs
  <2> QED BY <1>7, <1>8, <2>1, AdmittedAt
<1>10. o = {<<1, 1>>}
  <2>1. o = {<<1>> \o w : w \in todo[1]}
    <3> DEFINE A(k) == {<<k>> \o w : w \in todo[k]}
    <3>1. o = UNION {A(k) : k \in 1..1}
      BY DEF Openings
    <3> HIDE DEF A, o
    <3>2. o = A(1)
      BY <3>1
    <3> QED BY <3>2 DEF A
  <2>2. <<1>> \o <<1>> = <<1, 1>>
    <3>1. <<1>> \in Ways /\ <<>> \in Ways /\ <<1>> = Append(<<>>, 1) /\ <<1>> \o <<>> = <<1>>
      BY RootWay, StepAnd
    <3>2. Append(<<1>> \o <<>>, 1) = <<1>> \o Append(<<>>, 1)
      BY <3>1, AlongOneMore
    <3>3. Append(<<1>>, 1) = <<1, 1>>
      <4> DEFINE a == Append(<<1>>, 1)
                 c == <<1, 1>>
      <4>1. c \in Seq(Nat) /\ Len(c) = 2 /\ c[1] = 1 /\ c[2] = 1
        OBVIOUS
      <4>2. a \in Seq(Nat) /\ Len(a) = 2 /\ a[1] = 1 /\ a[2] = 1
        OBVIOUS
      <4> HIDE DEF a, c
      <4>3. Len(a) = Len(c) /\ \A k \in 1..Len(a) : a[k] = c[k]
        BY <4>1, <4>2
      <4>4. a = c
        BY <4>1, <4>2, <4>3, SeqEqual
      <4> QED BY <4>4 DEF a, c
    <3> QED BY Zenon, <3>1, <3>2, <3>3
  <2> HIDE DEF o
  <2>3. {<<1>> \o w : w \in {<<1>>}} = {<<1>> \o <<1>>}
    BY Zenon
  <2> QED BY Zenon, <1>3, <2>1, <2>2, <2>3
<1>11. Growing(g, d, {<<1, 1>>})
  BY <1>6, <1>9, <1>10
<1> QED BY <1>7, <1>11 DEF d, e, kids, One

(***************************************************************************)
(* What a reduction tries                                                  *)
(***************************************************************************)

\* What minimal gives at every place, nothing or what stands for the place.
Offered(g, minimal) == \A p \in Places(g) : minimal[p] = Nothing \/ Stands(g, minimal[p], p)

\* What a reduction tries in the place of a node begins like the node.
LEMMA ReplacementStands ==
  ASSUME NEW g, WellFormed(g), NEW minimal, Offered(g, minimal),
         NEW d, Derives(g, d), NEW way \in DOMAIN d,
         Replacement(g, minimal, d, way) # Nothing
  PROVE  /\ d[way].at \in Places(g) /\ d[way].rule = Blank
         /\ KindOf(g, d[way]) = NodeAt(g, d[way].at).kind
         /\ Stands(g, Replacement(g, minimal, d, way), d[way].at)
<1> DEFINE x == d[way]
           at == x.at
           n == NodeAt(g, at)
           small == Replacement(g, minimal, d, way)
           kind == KindOf(g, x)
<1>1. small = CASE kind = "opt" /\ x.taken -> Leaf(Plain(at))
                [] kind = "repeat" /\ x.kids > 1 -> Branch(Plain(at), <<Below(d, Append(way, 1))>>)
                [] kind \in {"alt", "ref"} -> minimal[at]
                [] OTHER -> Nothing
  BY Zenon DEF Replacement
<1>2. Admitted(g, d, way) /\ IsTree(d)
  BY DEF Derives
<1>3. at # <<>>
  <2> SUFFICES ASSUME at = <<>> PROVE FALSE
    OBVIOUS
  <2>1. kind = "rule"
    BY DEF KindOf
  <2>2. small = Nothing
    <3> HIDE DEF kind, small
    <3> QED BY <1>1, <2>1
  <2> QED BY <2>2
<1>4. kind = n.kind
  BY <1>3 DEF KindOf
<1>5. /\ at \in Places(g) /\ x.rule = Blank
      /\ n.kind = "repeat" =>
           x.kids > 0 /\ \A k \in 1..x.kids : /\ d[Append(way, k)].rule = Blank
                                             /\ d[Append(way, k)].at = Append(at, 1)
  BY <1>2, <1>3, AdmittedAt
<1>6. small # Nothing
  OBVIOUS
<1> HIDE DEF small, kind
<1>7. ASSUME kind = "opt" PROVE small = Leaf(Plain(at)) => Stands(g, small, at)
  <2> DEFINE y == Plain(at)
  <2>1. y.kids = 0 /\ y.at = at /\ y.rule = Blank /\ y.token = Blank /\ ~y.taken
    BY DEF Plain, Deriv
  <2> HIDE DEF y
  <2>3. Stands(g, Leaf(y), at)
    BY <1>4, <1>5, <1>7, <2>1, LeafStands
  <2> QED BY <2>3 DEF y
<1>8. ASSUME kind = "repeat", x.kids > 1 PROVE Stands(g, small, at)
  <2> DEFINE v == Append(way, 1)
             b == Below(d, v)
             y == Plain(at)
             kids == One(b)
             S == {b}
             m == Branch(y, kids)
             p == Append(at, 1)
             places == One(p)
  <2>1. small = m
    BY <1>1, <1>8 DEF One
  <2>2. x.kids \in Nat /\ v \in DOMAIN d /\ 1 \in 1..x.kids
    <3>1. x.kids \in Nat /\ \A k \in 1..x.kids : Append(way, k) \in DOMAIN d
      BY <1>2 DEF IsTree
    <3>2. 1 \in 1..x.kids
      BY <1>8, <3>1
    <3> QED BY <3>1, <3>2
  <2>3. Derives(g, b) /\ b[<<>>] = d[v]
    BY <2>2, BelowDerives
  <2>4. d[v].at = p /\ d[v].rule = Blank
    BY <1>4, <1>5, <1>8, <2>2
  <2> HIDE DEF b, v, p
  <2>5. kids \in Seq(S) /\ Len(kids) = 1 /\ kids[1] = b
    BY OneIs
  <2>6. places[1] = p /\ Len(places) = 1
    BY OneIs
  <2>7. \A t \in S : Derives(g, t)
    BY <2>3
  <2>8. With(y, 1).kids = 1
    BY WithPlain
  <2> HIDE DEF S, kids, places
  <2>9. Branched(g, m, With(y, 1), kids)
    <3> HIDE DEF y
    <3> QED BY <2>5, <2>7, <2>8, BranchIs
  <2> HIDE DEF m
  <2>10. /\ IsTree(m) /\ m[<<>>] = With(y, 1) /\ m[Append(<<>>, 1)] = b[<<>>]
         /\ \A w \in DOMAIN m : w # <<>> => Admitted(g, m, w)
    BY <2>5, <2>9 DEF Branched
  <2>11. m[<<>>].at = at /\ m[<<>>].rule = Blank /\ m[<<>>].token = Blank /\ m[<<>>].kids = 1
    BY <2>10, WithPlain
  <2>12. EachStands(m, <<>>, places)
    BY <2>3, <2>4, <2>6, <2>10, <2>11 DEF EachStands
  <2>13. Len(places) > 0 /\ \A k \in 1..Len(places) : places[k] = Append(at, 1)
    BY <2>6 DEF p
  <2>14. Admitted(g, m, <<>>)
    <3>1. n.kind = "repeat" /\ n.kind # "opt"
      BY <1>4, <1>8
    <3> HIDE DEF m, n
    <3> QED BY <1>5, <2>11, <2>12, <2>13, <3>1, AdmittedOver DEF n
  <2> QED BY <2>1, <2>10, <2>11, <2>14 DEF Stands, Derives
<1>9. ASSUME kind \in {"alt", "ref"} PROVE Stands(g, small, at)
  <2>1. small = minimal[at]
    BY <1>1, <1>9
  <2> QED BY <1>5, <1>6, <2>1 DEF Offered
<1>10. (kind = "opt" /\ small = Leaf(Plain(at))) \/ (kind = "repeat" /\ x.kids > 1) \/ kind \in {"alt", "ref"}
  BY Zenon, <1>1, <1>6
<1>11. Stands(g, small, at)
  BY <1>7, <1>8, <1>9, <1>10
<1> QED BY <1>4, <1>5, <1>11 DEF small, kind

\* How many nodes a tree has.
LEMMA SizeIs ==
  ASSUME NEW d, IsTree(d)
  PROVE  Size(d) \in Nat
BY FS_CardinalityType DEF IsTree, Size

\* The sites of a derivation.
LEMMA SitesAre ==
  ASSUME NEW g, WellFormed(g), NEW minimal, Offered(g, minimal), NEW d, Derives(g, d)
  PROVE  LET S == Sites(g, minimal, d)
         IN  /\ IsFiniteSet(S)
             /\ \A s \in S : /\ s.way \in DOMAIN d /\ s.way \in Ways /\ s.saving \in Int
                             /\ s.replace = Replacement(g, minimal, d, s.way)
                             /\ s.replace # Nothing
             /\ \A s, t \in S : s.way = t.way => s = t
<1> DEFINE S == Sites(g, minimal, d)
           Small(w) == Replacement(g, minimal, d, w)
           W == {w \in DOMAIN d : Small(w) # Nothing /\ Size(Small(w)) < Size(Below(d, w))}
           At(w) == Site(g, minimal, d, w)
           f == [w \in W |-> At(w)]
<1>1. IsTree(d) /\ IsFiniteSet(DOMAIN d) /\ DOMAIN d \subseteq Ways
  BY DEF Derives, IsTree
<1>2. S = {At(w) : w \in W}
  BY DEF Sites
<1>3. \A w : At(w).way = w /\ At(w).replace = Small(w)
  BY DEF Site
<1>4. ASSUME NEW w \in W PROVE At(w).saving \in Int
  <2> DEFINE b == Size(Below(d, w))
             c == Size(Small(w))
  <2>1. Stands(g, Small(w), d[w].at)
    BY ReplacementStands
  <2>2. IsTree(Small(w))
    BY <2>1 DEF Stands, Derives
  <2>3. b \in Nat /\ c \in Nat
    BY <1>1, <2>2, BelowTree, SizeIs
  <2>4. At(w).saving = IF KindOf(g, d[w]) = "opt" THEN b ELSE b - c
    BY DEF Site
  <2> HIDE DEF b, c
  <2> QED BY <2>3, <2>4
<1> HIDE DEF At
<1>5. IsFiniteSet(S)
  <2>1. IsFiniteSet(W)
    BY <1>1, FS_Subset
  <2>2. DOMAIN f = W /\ S = {f[w] : w \in W}
    BY <1>2
  <2> HIDE DEF f, W, S
  <2> QED BY <2>1, <2>2, Image
<1>6. ASSUME NEW s \in S
      PROVE  /\ s.way \in DOMAIN d /\ s.way \in Ways /\ s.saving \in Int
             /\ s.replace = Small(s.way) /\ s.replace # Nothing
             /\ s = At(s.way)
  <2>1. PICK w \in W : s = At(w)
    BY <1>2
  <2>2. s.way = w /\ s.replace = Small(w) /\ s.saving \in Int
    BY <1>3, <1>4, <2>1
  <2>3. w \in DOMAIN d /\ Small(w) # Nothing
    OBVIOUS
  <2> HIDE DEF Small, W
  <2> QED BY <1>1, <2>1, <2>2, <2>3
<1>7. \A s, t \in S : s.way = t.way => s = t
  <2> SUFFICES ASSUME NEW s \in S, NEW t \in S, s.way = t.way PROVE s = t
    OBVIOUS
  <2>1. s = At(s.way) /\ t = At(t.way)
    BY <1>6
  <2> HIDE DEF S
  <2> QED BY <2>1
<1> HIDE DEF S
<1>8. \A s \in S : /\ s.way \in DOMAIN d /\ s.way \in Ways /\ s.saving \in Int
                   /\ s.replace = Small(s.way) /\ s.replace # Nothing
  BY <1>6
<1> QED BY <1>5, <1>7, <1>8 DEF S, Small

\* The candidate that comes first is one of those left.
LEMMA FirstIs ==
  ASSUME NEW S, IsFiniteSet(S), S # {}, \A s \in S : s.way \in Ways /\ s.saving \in Int,
         \A s, t \in S : s.way = t.way => s = t
  PROVE  First(S) \in S
<1> DEFINE Before(s, t) == s.saving > t.saving \/ (s.saving = t.saving /\ LeftOf(s.way, t.way))
           order == {p \in S \X S : Before(p[1], p[2])}
<1>1. \A s, t \in S : <<s, t>> \in order <=> Before(s, t)
  OBVIOUS
<1> HIDE DEF order
<1>2. StrictOrder(S, order)
  <2>1. ASSUME NEW s \in S PROVE ~Before(s, s)
    BY LeftOfOrders
  <2>2. ASSUME NEW s \in S, NEW t \in S, NEW u \in S, Before(s, t), Before(t, u) PROVE Before(s, u)
    <3> DEFINE a == s.saving
               b == t.saving
               c == u.saving
               v == s.way
               w == t.way
               z == u.way
    <3>1. a \in Int /\ b \in Int /\ c \in Int /\ v \in Ways /\ w \in Ways /\ z \in Ways
      OBVIOUS
    <3>2. LeftOf(v, w) /\ LeftOf(w, z) => LeftOf(v, z)
      BY <3>1, LeftOfOrders
    <3>3. (a > b \/ (a = b /\ LeftOf(v, w))) /\ (b > c \/ (b = c /\ LeftOf(w, z)))
      BY <2>2
    <3> HIDE DEF a, b, c, v, w, z
    <3>4. a > c \/ (a = c /\ LeftOf(v, z))
      BY <3>1, <3>2, <3>3
    <3> QED BY <3>4 DEF a, c, v, z
  <2>3. ASSUME NEW s \in S, NEW t \in S, s # t PROVE Before(s, t) \/ Before(t, s)
    <3> DEFINE a == s.saving
               b == t.saving
               v == s.way
               w == t.way
    <3>1. a \in Int /\ b \in Int /\ v \in Ways /\ w \in Ways /\ v # w
      BY <2>3
    <3>2. LeftOf(v, w) \/ LeftOf(w, v)
      BY <3>1, LeftOfOrders
    <3> HIDE DEF a, b, v, w
    <3>3. (a > b \/ (a = b /\ LeftOf(v, w))) \/ (b > a \/ (b = a /\ LeftOf(w, v)))
      BY <3>1, <3>2
    <3> QED BY <3>3 DEF a, b, v, w
  <2> HIDE DEF Before
  <2> QED BY <1>1, <2>1, <2>2, <2>3 DEF StrictOrder
<1>3. PICK s \in S : \A t \in S \ {s} : <<s, t>> \in order
  BY <1>2, FirstOf
<1>4. \A t \in S \ {s} : Before(s, t)
  BY <1>1, <1>3
<1>5. First(S) = CHOOSE r \in S : \A t \in S \ {r} : Before(r, t)
  BY Zenon DEF First
<1> HIDE DEF Before
<1> QED BY <1>4, <1>5

(***************************************************************************)
(* The walk and the reduction                                              *)
(***************************************************************************)

\* A node with leaves that are still to be expanded, and a twig of a place.
Leaves(x, places) == Branch(x, [k \in DOMAIN places |-> Leaf(Plain(places[k]))])
Sprouts(g, d, o, at) == Growing(g, d, o) /\ d[<<>>].at = at /\ d[<<>>].rule = Blank

\* A node whose children belong at its place, and are still to be expanded.
LEMMA DescendGrows ==
  ASSUME NEW g, WellFormed(g), NEW at \in Places(g), NEW x, NEW places \in Seq(Places(g)),
         With(x, Len(places)).kids = Len(places), With(x, Len(places)).at = at,
         With(x, Len(places)).rule = Blank, With(x, Len(places)).token = Blank,
         NodeAt(g, at).kind = "opt" => With(x, Len(places)).taken,
         NodeAt(g, at).kind \in {"seq", "repeat", "alt", "opt"},
         NodeAt(g, at).kind \in {"seq", "opt"} => places = KidsAt(g, at),
         NodeAt(g, at).kind = "alt" =>
           \E k \in 1..NodeAt(g, at).kids : places = One(Append(at, k)),
         NodeAt(g, at).kind = "repeat" =>
           Len(places) > 0 /\ \A k \in 1..Len(places) : places[k] = Append(at, 1)
  PROVE  Sprouts(g, Leaves(x, places), {<<k>> : k \in DOMAIN places}, at)
<1> DEFINE b == Branch(x, [k \in DOMAIN places |-> Leaf(Plain(places[k]))])
           o == {<<k>> : k \in DOMAIN places}
           n == NodeAt(g, at)
<1>1. /\ IsTree(b) /\ b[<<>>] = With(x, Len(places)) /\ EachStands(b, <<>>, places)
      /\ Admitted(g, b, <<>>) => Growing(g, b, o)
  BY Zenon, LeavesGrow
<1> HIDE DEF b, o
<1>2. b[<<>>].at = at /\ b[<<>>].rule = Blank /\ b[<<>>].token = Blank
  BY <1>1
<1>3. Admitted(g, b, <<>>)
  <2>1. n.kind = "opt" => b[<<>>].taken
    BY Zenon, <1>1
  <2>2. (n.kind = "seq" => places = KidsAt(g, at)) /\ (n.kind = "opt" => places = KidsAt(g, at))
    OBVIOUS
  <2>3. n.kind = "opt" => b[<<>>].taken /\ places = KidsAt(g, at)
    BY Zenon, <2>1, <2>2
  <2> QED BY Zenon, <1>1, <1>2, <2>2, <2>3, AdmittedOver
<1> QED BY <1>1, <1>2, <1>3 DEF b, o, Sprouts, Leaves

\* The places of the children of a place.
LEMMA KidsAtIs ==
  ASSUME NEW g, WellFormed(g), NEW at \in Places(g)
  PROVE  /\ KidsAt(g, at) \in Seq(Places(g)) /\ Len(KidsAt(g, at)) = NodeAt(g, at).kids
         /\ DOMAIN KidsAt(g, at) = 1..NodeAt(g, at).kids
         /\ NodeAt(g, at).kids = 1 => KidsAt(g, at) = One(Append(at, 1))
<1> DEFINE n == NodeAt(g, at).kids
           s == KidsAt(g, at)
<1>1. n \in Nat /\ \A k \in 1..n : Append(at, k) \in Places(g)
  BY PlaceIs
<1>2. s = [k \in 1..n |-> Append(at, k)]
  BY DEF KidsAt
<1> HIDE DEF n, s
<1>3. s \in Seq(Places(g)) /\ Len(s) = n /\ DOMAIN s = 1..n
  BY <1>1, <1>2
<1>4. n = 1 => s = One(Append(at, 1))
  BY <1>2 DEF One
<1> QED BY <1>3, <1>4 DEF n, s

\* What has a root is not nothing.
LEMMA TreeThere ==
  ASSUME NEW d, IsTree(d)
  PROVE  d # Nothing
BY DEF IsTree, Nothing

-----------------------------------------------------------------------------
\* The walk has the start production at its root, and is a derivation but for
\* what is still to be expanded; what is reduced is one, and the candidates
\* left are sites of it.
Walked ==
  /\ Growing(rules, built, open) /\ built[<<>>].at = <<>> /\ built[<<>>].rule = Start
Standing ==
  /\ phase \in {"reduce", "done"}
  /\ Derives(rules, tree) /\ tree[<<>>].at = <<>> /\ tree[<<>>].rule = Start
  /\ tree \in held /\ left \subseteq Smaller(tree)
WalkInv ==
  /\ rules \in Grammars /\ Priced(rules, ruleCost) /\ NodesPriced(rules, nodeCost)
  /\ phase = "walk" => Walked
  /\ tree # Nothing => Standing
  /\ phase = "reduce" => tree # Nothing

\* Nothing is walked and nothing reported at first.
LEMMA InitWalk == Init => WalkInv
<1> SUFFICES ASSUME Init PROVE WalkInv
  OBVIOUS
<1>1. rules \in Grammars /\ phase = "cost" /\ tree = Nothing
  BY DEF Init
<1>2. Priced(rules, ruleCost)
  BY GrammarAssumption DEF Init, Priced
<1>3. NodesPriced(rules, nodeCost)
  BY DEF Init, NodesPriced
<1> QED BY <1>1, <1>2, <1>3 DEF WalkInv

\* What is still to be expanded comes first from the left.
LEMMA TopIs ==
  ASSUME WalkInv, phase = "walk", open # {}
  PROVE  /\ WellFormed(rules) /\ Top \in open /\ Here \in Places(rules)
         /\ built[Top].rule = Blank /\ built[Top].at = Here
<1>1. WellFormed(rules)
  BY WalkAssumption DEF WalkInv
<1>2. open \subseteq Ways /\ IsFiniteSet(open)
  BY FS_Subset DEF WalkInv, Walked, Growing, IsTree
<1>3. Top \in open
  BY <1>2, LeftmostIs DEF Top
<1> QED BY <1>1, <1>3 DEF WalkInv, Walked, Growing, Here

\* The walk grows by a twig that grows.
LEMMA GrowKeeps ==
  ASSUME WalkInv, phase = "walk", open # {}, NEW twig, NEW rest, Growing(rules, twig, rest),
         twig[<<>>].at = Here, twig[<<>>].rule = Blank, Grow(twig, rest)
  PROVE  WalkInv'
<1>1. Top \in open /\ built[Top].at = Here
  BY TopIs
<1> DEFINE h == Graft(built, Top, twig)
           o == Rest(open, Top, rest)
<1>2. /\ Growing(rules, h, o) /\ h[<<>>].at = built[<<>>].at /\ h[<<>>].rule = built[<<>>].rule
  <2>1. Growing(rules, built, open) /\ twig[<<>>].at = built[Top].at
    BY <1>1 DEF WalkInv, Walked
  <2> QED BY <1>1, <2>1, GraftGrows
<1>3. built' = h /\ open' = o /\ UNCHANGED <<rules, phase, ruleCost, nodeCost, tree, left, held>>
  BY DEF Grow, costs, cut, Rest
<1> HIDE DEF h, o
<1>4. Walked'
  BY <1>2, <1>3 DEF WalkInv, Walked
<1>5. tree = Nothing
  BY DEF WalkInv, Standing
<1> QED BY <1>3, <1>4, <1>5 DEF WalkInv

\* What leaves the tables and the trees alone keeps the invariant, unless it
\* begins to walk.
LEMMA SameKeeps ==
  ASSUME WalkInv, UNCHANGED <<rules, costs, tree, held>>, left' \subseteq left,
         phase' = "walk" => UNCHANGED <<phase, walk>>, phase' = "reduce" => phase = "reduce",
         phase \in {"reduce", "done"} => phase' \in {"reduce", "done"}
  PROVE  WalkInv'
<1>1. rules' = rules /\ ruleCost' = ruleCost /\ nodeCost' = nodeCost /\ tree' = tree /\ held' = held
  BY DEF costs
<1>2. phase' = "walk" => Walked'
  BY <1>1 DEF WalkInv, Walked, walk
<1>3. tree # Nothing => Standing'
  <2> SUFFICES ASSUME tree # Nothing PROVE Standing'
    OBVIOUS
  <2>1. Standing
    BY DEF WalkInv
  <2>2. Smaller(tree)' = Smaller(tree)
    BY <1>1 DEF Smaller
  <2> QED BY <1>1, <2>1, <2>2 DEF Standing
<1> QED BY <1>1, <1>2, <1>3 DEF WalkInv

\* A walk that begins.
LEMMA BeginWalks ==
  ASSUME WalkInv, Begin, rules' = rules
  PROVE  phase' = "walk" /\ Walked'
<1>1. WellFormed(rules) /\ Defined(rules, Start)
  BY WalkAssumption DEF WalkInv
<1> DEFINE d == Branch(Entered(Start), <<Leaf(Plain(<<RuleNo(rules, Start)>>))>>)
<1>2. Growing(rules, d, {<<1>>}) /\ d[<<>>].at = <<>> /\ d[<<>>].rule = Start
  BY Zenon, <1>1, EnterGrows
<1>3. built' = d /\ open' = {<<1>>} /\ phase' = "walk"
  BY DEF Begin, Enter, Entry
<1> HIDE DEF d
<1> QED BY <1>2, <1>3 DEF Walked

\* The node that is expanded is what the grammar has at its place, and what it
\* is expanded into belongs there.
LEMMA ExpandKeeps ==
  ASSUME WalkInv,
         \/ ExpandWord \/ ExpandProse \/ ExpandLeaf \/ ExpandRef \/ ExpandSeq
         \/ ExpandOpt \/ ExpandRepeat \/ ExpandAlt
  PROVE  WalkInv'
<1> DEFINE n == NodeAt(rules, Here)
<1>1. phase = "walk" /\ open # {}
  BY DEF ExpandWord, ExpandProse, ExpandLeaf, ExpandRef, ExpandSeq, ExpandOpt, ExpandRepeat,
         ExpandAlt, Expanding
<1>2. WellFormed(rules) /\ Here \in Places(rules)
  BY <1>1, TopIs
<1>3. ASSUME NEW token, Write(token),
             \/ n.kind = "word" /\ token = n.name
             \/ n.kind = "opt" /\ token = Blank
             \/ /\ n.kind = "ref" /\ n.name \in DOMAIN Cut
                /\ IF Cut[n.name] = <<>> THEN token = Blank ELSE token \in Range(Cut[n.name])
      PROVE  WalkInv'
  <2> DEFINE x == [Plain(Here) EXCEPT !.token = token]
  <2>1. x.kids = 0 /\ x.at = Here /\ x.rule = Blank /\ x.token = token /\ x.taken = FALSE
    BY DEF Plain, Deriv
  <2>2. Grow(Leaf(x), {})
    BY <1>3 DEF Write
  <2> HIDE DEF x
  <2>3. Stands(rules, Leaf(x), Here)
    BY <1>2, <1>3, <2>1, LeafStands
  <2> DEFINE d == Leaf(x)
  <2> HIDE DEF d
  <2>4. Growing(rules, d, {}) /\ d[<<>>].at = Here /\ d[<<>>].rule = Blank
    BY <2>3, DerivesGrown DEF Stands, d
  <2>5. Grow(d, {})
    BY <2>2 DEF d
  <2> QED BY <1>1, <2>4, <2>5, GrowKeeps
<1>4. ASSUME NEW x, NEW places \in Seq(Places(rules)), Descend(x, places),
             With(x, Len(places)).kids = Len(places), With(x, Len(places)).at = Here,
             With(x, Len(places)).rule = Blank, With(x, Len(places)).token = Blank,
             n.kind = "opt" => With(x, Len(places)).taken,
             n.kind \in {"seq", "repeat", "alt", "opt"},
             n.kind \in {"seq", "opt"} => places = KidsAt(rules, Here),
             n.kind = "alt" => \E k \in 1..n.kids : places = One(Append(Here, k)),
             n.kind = "repeat" =>
               Len(places) > 0 /\ \A k \in 1..Len(places) : places[k] = Append(Here, 1)
      PROVE  WalkInv'
  <2> DEFINE d == Leaves(x, places)
             o == {<<k>> : k \in DOMAIN places}
  <2>1. Grow(d, o)
    BY <1>4 DEF Descend, Leaves
  <2>2. Growing(rules, d, o) /\ d[<<>>].at = Here /\ d[<<>>].rule = Blank
    <3>1. Sprouts(rules, d, o, Here)
      BY Zenon, <1>2, <1>4, DescendGrows
    <3> QED BY Zenon, <3>1 DEF Sprouts
  <2> HIDE DEF d, o
  <2> QED BY <1>1, <2>1, <2>2, GrowKeeps
<1>5. ASSUME Fail PROVE WalkInv'
  BY <1>1, <1>5, SameKeeps DEF Fail, costs, walk, cut
<1>6. CASE ExpandWord
  BY <1>3, <1>6 DEF ExpandWord, Expanding
<1>7. CASE ExpandProse
  BY <1>5, <1>7 DEF ExpandProse
<1>8. CASE ExpandLeaf
  <2> DEFINE s == Cut[n.name]
  <2>1. n.kind = "ref" /\ n.name \in DOMAIN Cut
    BY <1>8 DEF ExpandLeaf, Expanding
  <2>2. IF s = <<>> THEN Write(Blank) ELSE \E k \in DOMAIN s : Write(s[k])
    BY <1>8 DEF ExpandLeaf, Blank
  <2>3. CASE s = <<>>
    BY <1>3, <2>1, <2>2, <2>3
  <2>4. CASE s # <<>>
    <3>1. PICK k \in DOMAIN s : Write(s[k])
      BY <2>2, <2>4
    <3>2. s[k] \in Range(s)
      BY DEF Range
    <3> QED BY <1>3, <2>1, <2>4, <3>1, <3>2
  <2> QED BY <2>3, <2>4
<1>9. CASE ExpandRef
  <2>1. n.kind = "ref" /\ n.name \notin DOMAIN Cut
    BY <1>9 DEF ExpandRef, Expanding
  <2>2. CASE ~Defined(rules, n.name)
    BY <1>5, <1>9, <2>2 DEF ExpandRef
  <2>3. CASE Defined(rules, n.name)
    <3> DEFINE name == n.name
               d == Branch(Plain(Here), <<Enter(name)>>)
    <3>1. Grow(d, {<<1, 1>>})
      BY <1>9, <2>3 DEF ExpandRef
    <3>2. Growing(rules, d, {<<1, 1>>}) /\ d[<<>>].at = Here /\ d[<<>>].rule = Blank
      <4> DEFINE e == Branch(Plain(Here), <<Branch(Entered(name), <<Leaf(Plain(<<RuleNo(rules, name)>>))>>)>>)
      <4>1. Growing(rules, e, {<<1, 1>>}) /\ e[<<>>].at = Here /\ e[<<>>].rule = Blank
        BY Zenon, <1>2, <2>1, <2>3, RefGrows
      <4>2. d = e
        BY Zenon DEF Enter, Entry
      <4> HIDE DEF d, e
      <4> QED BY <4>1, <4>2
    <3> HIDE DEF d
    <3> QED BY <1>1, <3>1, <3>2, GrowKeeps
  <2> QED BY <2>2, <2>3
<1>10. CASE ExpandSeq
  <2> DEFINE x == Plain(Here)
             places == KidsAt(rules, Here)
             y == With(x, Len(places))
  <2>1. n.kind = "seq" /\ Descend(x, places)
    BY <1>10 DEF ExpandSeq, Expanding
  <2>2. y.kids = Len(places) /\ y.at = Here /\ y.rule = Blank /\ y.token = Blank
    BY WithPlain
  <2>3. places \in Seq(Places(rules))
    BY <1>2, KidsAtIs
  <2>4. n.kind # "opt" /\ n.kind # "alt" /\ n.kind # "repeat" /\ n.kind \in {"seq", "repeat", "alt", "opt"}
    BY <2>1
  <2> HIDE DEF x, n, places
  <2>5. places = KidsAt(rules, Here)
    BY DEF places
  <2> QED BY Zenon, <1>4, <2>1, <2>2, <2>3, <2>4, <2>5
<1>11. CASE ExpandOpt
  <2>1. n.kind = "opt"
    BY <1>11 DEF ExpandOpt, Expanding
  <2> DEFINE x == [Plain(Here) EXCEPT !.taken = TRUE]
             places == <<Append(Here, 1)>>
             y == With(x, Len(places))
  <2>2. CASE Write(Blank)
    BY <1>3, <2>1, <2>2
  <2>3. CASE Descend(x, places)
    <3>1. y.kids = Len(places) /\ y.at = Here /\ y.rule = Blank /\ y.token = Blank /\ y.taken
      BY DEF With, Plain, Deriv
    <3>2. n.kids = 1
      BY <1>2, <2>1, PlaceIs
    <3>3. KidsAt(rules, Here) \in Seq(Places(rules)) /\ KidsAt(rules, Here) = One(Append(Here, 1))
      BY <1>2, <3>2, KidsAtIs
    <3>4. places = KidsAt(rules, Here)
      BY <3>3 DEF One
    <3>5. n.kind # "seq" /\ n.kind # "alt" /\ n.kind # "repeat" /\ n.kind \in {"seq", "repeat", "alt", "opt"}
      BY <2>1
    <3> HIDE DEF x, n, places
    <3>6. places \in Seq(Places(rules))
      BY <3>3, <3>4
    <3> QED BY Zenon, <1>4, <2>3, <3>1, <3>4, <3>5, <3>6
  <2>4. Write(Blank) \/ Descend(x, places)
    BY Zenon, <1>11 DEF ExpandOpt, Blank
  <2> QED BY <2>2, <2>3, <2>4
<1>12. CASE ExpandRepeat
  <2>1. n.kind = "repeat"
    BY <1>12 DEF ExpandRepeat, Expanding
  <2>2. PICK reps \in {1, 2} : Descend(Plain(Here), [k \in 1..reps |-> Append(Here, 1)])
    BY <1>12 DEF ExpandRepeat
  <2> DEFINE x == Plain(Here)
             q == Append(Here, 1)
             places == [k \in 1..reps |-> q]
             y == With(x, Len(places))
  <2>3. q \in Places(rules)
    <3>1. n.kids = 1
      BY <1>2, <2>1, PlaceIs
    <3>2. 1 \in 1..n.kids
      BY <3>1
    <3> QED BY <1>2, <3>2, PlaceIs
  <2> HIDE DEF q
  <2>4. places \in Seq(Places(rules)) /\ Len(places) = reps /\ \A k \in 1..Len(places) : places[k] = q
    BY <2>3
  <2>5. y.kids = Len(places) /\ y.at = Here /\ y.rule = Blank /\ y.token = Blank
    BY WithPlain
  <2>6. n.kind # "opt" /\ n.kind # "alt" /\ n.kind # "seq" /\ n.kind \in {"seq", "repeat", "alt", "opt"}
    BY <2>1
  <2>7. Len(places) > 0
    <3> HIDE DEF places
    <3> QED BY <2>4
  <2>8. Descend(x, places)
    BY <2>2 DEF q
  <2> HIDE DEF x, n, places
  <2> QED BY Zenon, <1>4, <2>4, <2>5, <2>6, <2>7, <2>8 DEF q
<1>13. CASE ExpandAlt
  <2>1. n.kind = "alt"
    BY <1>13 DEF ExpandAlt, Expanding
  <2> DEFINE w == Writable(rules, nodeCost, Here)
  <2>2. CASE w = {}
    BY <1>5, <1>13, <2>2 DEF ExpandAlt
  <2>3. CASE w # {}
    <3>1. n.kids \in Nat
      BY <1>2, PlaceIs
    <3>2. Cheapest(rules, nodeCost, Here) \in w
      BY <1>2, <2>3, <3>1, CheapestIs DEF WalkInv
    <3>3. PICK k \in w : Descend(Plain(Here), <<Append(Here, k)>>)
      BY <1>13, <2>3, <3>2 DEF ExpandAlt
    <3> DEFINE x == Plain(Here)
               places == One(Append(Here, k))
               y == With(x, Len(places))
    <3>4. k \in 1..n.kids
      BY DEF Writable
    <3>5. places \in Seq(Places(rules))
      BY <1>2, <3>4, OneIs, PlaceIs
    <3>6. y.kids = Len(places) /\ y.at = Here /\ y.rule = Blank /\ y.token = Blank
      BY WithPlain
    <3>7. n.kind # "opt" /\ n.kind # "repeat" /\ n.kind # "seq" /\ n.kind \in {"seq", "repeat", "alt", "opt"}
      BY <2>1
    <3>8. Descend(x, places)
      BY <3>3 DEF One
    <3>9. \E j \in 1..n.kids : places = One(Append(Here, j))
      BY <3>4
    <3> HIDE DEF x, n, places
    <3> QED BY Zenon, <1>4, <3>5, <3>6, <3>7, <3>8, <3>9
  <2> QED BY <2>2, <2>3
<1> QED BY <1>6, <1>7, <1>8, <1>9, <1>10, <1>11, <1>12, <1>13

\* What is left of a derivation's sites keeps to it.
LEMMA FirstStands ==
  ASSUME WalkInv, phase = "reduce", left # {}
  PROVE  /\ First(left) \in left /\ Derives(rules, Candidate) /\ Candidate # Nothing
         /\ Candidate[<<>>].at = <<>> /\ Candidate[<<>>].rule = Start
         /\ First(left).way \in DOMAIN tree
         /\ First(left).replace = Replacement(rules, Minimal(rules, nodeCost, Guard), tree, First(left).way)
         /\ First(left).replace # Nothing
<1> DEFINE m == Minimal(rules, nodeCost, Guard)
           s == First(left)
           r == s.replace
<1>1. WellFormed(rules) /\ NodesPriced(rules, nodeCost) /\ Guard \in Nat
  BY WalkAssumption DEF WalkInv
<1>2. Offered(rules, m)
  BY <1>1, MinimalStands DEF Offered
<1>3. Standing
  BY DEF WalkInv
<1> HIDE DEF m, s
<1>4. left \subseteq Sites(rules, m, tree) /\ Derives(rules, tree)
  BY <1>3 DEF Standing, Smaller, m
<1>5. /\ IsFiniteSet(left)
      /\ \A t \in left : /\ t.way \in DOMAIN tree /\ t.way \in Ways /\ t.saving \in Int
                         /\ t.replace = Replacement(rules, m, tree, t.way)
                         /\ t.replace # Nothing
      /\ \A t, u \in left : t.way = u.way => t = u
  <2> DEFINE S == Sites(rules, m, tree)
  <2>1. /\ IsFiniteSet(S)
        /\ \A t \in S : /\ t.way \in DOMAIN tree /\ t.way \in Ways /\ t.saving \in Int
                        /\ t.replace = Replacement(rules, m, tree, t.way)
                        /\ t.replace # Nothing
        /\ \A t, u \in S : t.way = u.way => t = u
    BY <1>1, <1>2, <1>4, SitesAre
  <2> HIDE DEF S
  <2>2. left \subseteq S
    BY <1>4 DEF S
  <2> QED BY <2>1, <2>2, FS_Subset
<1>6. s \in left
  BY <1>5, FirstIs DEF s
<1>7. s.way \in DOMAIN tree /\ r = Replacement(rules, m, tree, s.way) /\ r # Nothing
  BY <1>5, <1>6
<1>8. tree[s.way].rule = Blank /\ Stands(rules, r, tree[s.way].at)
  BY <1>1, <1>2, <1>4, <1>7, ReplacementStands
<1>9. Candidate = Graft(tree, s.way, r)
  BY DEF Candidate, s
<1> DEFINE w == s.way
<1> HIDE DEF r, w
<1>10. Derives(rules, r) /\ r[<<>>].at = tree[w].at /\ r[<<>>].rule = tree[w].rule /\ w \in DOMAIN tree
  BY <1>7, <1>8 DEF Stands, w
<1> DEFINE c == Graft(tree, w, r)
<1>11. /\ Derives(rules, c) /\ c # Nothing
       /\ c[<<>>].at = tree[<<>>].at /\ c[<<>>].rule = tree[<<>>].rule
  BY <1>4, <1>10, GraftDerives
<1>12. Candidate = c
  BY <1>9 DEF w
<1> HIDE DEF c
<1>13. tree[<<>>].at = <<>> /\ tree[<<>>].rule = Start
  BY <1>3 DEF Standing
<1> QED BY <1>6, <1>7, <1>11, <1>12, <1>13 DEF s, r, m

\* No step takes the walk or the reduction out of the grammar.
LEMMA NextKeepsWalk == WalkInv /\ [Next]_vars => WalkInv'
<1> SUFFICES ASSUME WalkInv, [Next]_vars PROVE WalkInv'
  OBVIOUS
<1>1. CASE Relax
  <2>1. phase = "cost" /\ sweep \in DOMAIN rules.names /\ rules \in Grammars /\ WellFormed(rules)
    BY <1>1, WalkAssumption DEF Relax, WalkInv
  <2> DEFINE cost == CostOf(rules, ruleCost)
             t == CostTable(rules, ruleCost, sweep)
  <2>2. DOMAIN cost = Places(rules) /\ \A at \in Places(rules) : cost[at] \in 0..Unreachable
    BY <2>1, CostIs DEF WalkInv
  <2>3. t = [at \in Visited(rules, cost, sweep) |-> cost[at]]
    BY DEF CostTable
  <2> HIDE DEF cost, t
  <2>4. Visited(rules, cost, sweep) \subseteq Places(rules)
    BY DEF Visited
  <2>5. DOMAIN t \subseteq Places(rules) /\ \A at \in DOMAIN t : t[at] \in 0..Unreachable
    BY <2>2, <2>3, <2>4
  <2>6. nodeCost' = [at \in (DOMAIN t) \cup (DOMAIN nodeCost) |->
                       IF at \in DOMAIN t THEN t[at] ELSE nodeCost[at]]
    BY Zenon, <1>1 DEF Relax, t
  <2>7. NodesPriced(rules, nodeCost')
    BY <2>5, <2>6 DEF WalkInv, NodesPriced
  <2>8. <<sweep>> \in DOMAIN t
    <3> DEFINE at == <<sweep>>
    <3>1. at \in Places(rules) /\ Len(at) = 1 /\ at[1] = sweep
      BY <2>1 DEF WellFormed
    <3> HIDE DEF at
    <3>2. \A l \in 1..(Len(at) - 1) : FALSE
      BY <3>1
    <3>3. at \in Visited(rules, cost, sweep)
      BY <3>1, <3>2 DEF Visited
    <3> QED BY <2>3, <3>3 DEF at
  <2>9. nodeCost'[<<sweep>>] \in 0..Unreachable
    <3> DEFINE at == <<sweep>>
    <3> HIDE DEF at
    <3> QED BY <2>5, <2>6, <2>8 DEF at
  <2>10. Priced(rules, ruleCost')
    <3> DEFINE c == nodeCost'[<<sweep>>]
    <3>1. ruleCost' = ruleCost \/ ruleCost' = [ruleCost EXCEPT ![sweep] = c]
      BY <1>1 DEF Relax
    <3> HIDE DEF c
    <3>2. c \in 0..Unreachable
      BY <2>9 DEF c
    <3> QED BY <2>1, <3>1, <3>2 DEF WalkInv, Priced
  <2>11. tree = Nothing
    BY <2>1 DEF WalkInv, Standing
  <2> QED BY <1>1, <2>1, <2>7, <2>10, <2>11 DEF Relax, WalkInv, cut
<1>2. CASE NextSweep
  <2>1. phase = "cost" /\ UNCHANGED <<rules, phase, ruleCost, nodeCost, tree>>
    BY <1>2 DEF NextSweep, cut
  <2>2. tree = Nothing
    BY <2>1 DEF WalkInv, Standing
  <2> QED BY <2>1, <2>2 DEF WalkInv
<1>3. CASE Costed
  <2>1. /\ phase = "cost" /\ UNCHANGED <<rules, ruleCost, nodeCost, tree>>
        /\ phase' = "refused" \/ Begin
    BY <1>3 DEF Costed, costs, cut
  <2>2. tree = Nothing
    BY <2>1 DEF WalkInv, Standing
  <2>3. phase' = "refused" \/ (phase' = "walk" /\ Walked')
    BY <2>1, BeginWalks
  <2> QED BY <2>1, <2>2, <2>3 DEF WalkInv
<1>4. CASE \/ ExpandWord \/ ExpandProse \/ ExpandLeaf \/ ExpandRef \/ ExpandSeq
           \/ ExpandOpt \/ ExpandRepeat \/ ExpandAlt
  BY <1>4, ExpandKeeps
<1>5. CASE Generated
  <2>1. /\ phase = "walk" /\ open = {} /\ UNCHANGED <<rules, ruleCost, nodeCost>>
    BY <1>5 DEF Generated, costs
  <2>2. tree = Nothing
    BY <2>1 DEF WalkInv, Standing
  <2>3. CASE phase' = "reduce" /\ tree' = built /\ left' = Smaller(built) /\ held' = {built}
    <3>1. Growing(rules, built, {}) /\ built[<<>>].at = <<>> /\ built[<<>>].rule = Start
      BY <2>1 DEF WalkInv, Walked
    <3>2. Derives(rules, built) /\ built # Nothing
      BY <3>1, DerivesGrown, TreeThere DEF Derives
    <3>3. Smaller(tree)' = Smaller(built)
      BY <2>1, <2>3 DEF Smaller
    <3>4. Standing'
      BY <2>1, <2>3, <3>1, <3>2, <3>3 DEF Standing
    <3> QED BY <2>1, <2>3, <3>2, <3>4 DEF WalkInv
  <2>4. CASE Begin /\ UNCHANGED tree
    <3>1. phase' = "walk" /\ Walked'
      BY <2>1, <2>4, BeginWalks
    <3> QED BY <2>1, <2>2, <2>4, <3>1 DEF WalkInv
  <2> QED BY <1>5, <2>3, <2>4 DEF Generated
<1>6. CASE SkipEmpty
  BY <1>6, SameKeeps DEF SkipEmpty, Reducing
<1>7. CASE Ask
  <2>1. phase = "reduce" /\ left # {} /\ UNCHANGED <<rules, phase, ruleCost, nodeCost>> /\ UNCHANGED costs
    BY <1>7 DEF Ask, Reducing, costs
  <2>2. PICK still \in BOOLEAN :
          /\ held' = IF still THEN held \cup {Candidate} ELSE held
          /\ IF Kept(still)
             THEN tree' = Candidate /\ left' = Smaller(tree') /\ steps' = steps + 1
             ELSE left' = left \ {First(left)} /\ UNCHANGED <<tree, steps>>
    BY <1>7 DEF Ask
  <2>3. CASE still
    <3>1. held' = held \cup {Candidate} /\ tree' = Candidate /\ left' = Smaller(tree')
      BY <2>2, <2>3 DEF Kept
    <3>2. /\ Derives(rules, Candidate) /\ Candidate # Nothing
          /\ Candidate[<<>>].at = <<>> /\ Candidate[<<>>].rule = Start
      BY <2>1, FirstStands
    <3>3. Smaller(tree)' = Smaller(tree')
      BY <2>1 DEF Smaller
    <3>4. Standing'
      BY <2>1, <3>1, <3>2, <3>3 DEF Standing
    <3> QED BY <2>1, <3>1, <3>2, <3>4 DEF WalkInv
  <2>4. CASE ~still
    <3>1. held' = held /\ left' \subseteq left /\ tree' = tree
      BY <2>2, <2>4 DEF Kept
    <3> QED BY <2>1, <3>1, SameKeeps
  <2> QED BY <2>3, <2>4
<1>8. CASE Reduced
  BY <1>8, SameKeeps DEF Reduced, cut
<1>9. CASE UNCHANGED vars
  BY <1>9, SameKeeps DEF vars, cut, walk
<1> QED BY <1>1, <1>2, <1>3, <1>4, <1>5, <1>6, <1>7, <1>8, <1>9
    DEF Next, ComputeCost, Walk, Reduce

\* What is reported is a statement the grammar admits, and one the engine was
\* seen to do the thing with, whatever the grammar.
THEOREM Admits == Spec => []ReducedIsAdmitted
<1>1. WalkInv => ReducedIsAdmitted
  BY DEF WalkInv, Standing, ReducedIsAdmitted
<1> QED BY InitWalk, NextKeepsWalk, <1>1, PTL DEF Spec

(***************************************************************************)
(* Places, and what they cost                                              *)
(***************************************************************************)

\* A set of places each of which has a child in it is empty.
LEMMA NoneAbove ==
  ASSUME NEW g, WellFormed(g), NEW bad, bad \subseteq Places(g),
         \A at \in bad : \E k \in 1..NodeAt(g, at).kids : Append(at, k) \in bad
  PROVE  bad = {}
<1> DEFINE N == Cardinality(Places(g))
           T == {N - Len(at) : at \in bad}
<1>0. N \in Nat
  BY FS_CardinalityType DEF WellFormed
<1> HIDE DEF N
<1>1. ASSUME NEW at \in bad PROVE Len(at) \in Nat /\ N - Len(at) \in Nat
  <2>1. Len(at) \in Nat /\ Len(at) <= N
    BY PlaceIs DEF N
  <2> QED BY <1>0, <2>1
<1> SUFFICES ASSUME bad # {} PROVE FALSE
  OBVIOUS
<1>2. T \subseteq Nat /\ T # {}
  BY <1>1
<1>3. PICK h \in T : \A j \in T : h <= j
  <2> HIDE DEF T
  <2> QED BY <1>2, LeastNatural
<1>4. PICK at \in bad : h = N - Len(at)
  OBVIOUS
<1>5. PICK k \in 1..NodeAt(g, at).kids : Append(at, k) \in bad
  OBVIOUS
<1>6. Len(Append(at, k)) = Len(at) + 1
  BY PlaceIs
<1>7. N - Len(at) <= N - Len(Append(at, k))
  BY <1>3, <1>4, <1>5
<1>8. Len(at) \in Nat
  BY <1>1
<1> QED BY <1>0, <1>6, <1>7, <1>8

\* A set of numbers up to n with the one before each, but without 0, is empty.
LEMMA NoneBefore ==
  ASSUME NEW n \in Nat, NEW bad, bad \subseteq 0..n, 0 \notin bad,
         \A k \in 1..n : k \in bad => k - 1 \in bad
  PROVE  bad = {}
<1> SUFFICES ASSUME bad # {} PROVE FALSE
  OBVIOUS
<1>1. bad \subseteq Nat
  OBVIOUS
<1>2. PICK k \in bad : \A j \in bad : k <= j
  BY <1>1, LeastNatural
<1>3. k \in 1..n /\ k - 1 \in bad
  OBVIOUS
<1>4. k <= k - 1 /\ k \in Nat
  BY <1>1, <1>2, <1>3
<1> QED BY <1>4

\* What the parts of a sequence cost falls when they do.
LEMMA SpentFalls ==
  ASSUME NEW n \in Nat, NEW parts, NEW lower, Len(parts) = n, Len(lower) = n,
         \A k \in 1..n : parts[k] \in Nat, \A k \in 1..n : lower[k] \in Nat,
         \A k \in 1..n : lower[k] <= parts[k]
  PROVE  \A k \in 0..n : Spent(lower)[k] <= Spent(parts)[k]
<1> DEFINE s == Spent(parts)
           t == Spent(lower)
           bad == {k \in 0..n : ~(t[k] <= s[k])}
<1>1. /\ s[0] = 0 /\ \A k \in 1..n : s[k] = Capped(s[k - 1] + parts[k])
      /\ \A k \in 0..n : s[k] \in 0..Unreachable
  BY SpentAt
<1>2. /\ t[0] = 0 /\ \A k \in 1..n : t[k] = Capped(t[k - 1] + lower[k])
      /\ \A k \in 0..n : t[k] \in 0..Unreachable
  BY SpentAt
<1> HIDE DEF s, t
<1>3. 0 \notin bad /\ bad \subseteq 0..n
  BY <1>1, <1>2
<1>4. ASSUME NEW k \in 1..n, k \in bad PROVE k - 1 \in bad
  <2> SUFFICES ASSUME t[k - 1] <= s[k - 1] PROVE FALSE
    OBVIOUS
  <2>1. k - 1 \in 0..n /\ k \in 0..n
    OBVIOUS
  <2>2. s[k - 1] \in Nat /\ t[k - 1] \in Nat
    BY <1>1, <1>2, <2>1
  <2>3. s[k - 1] + parts[k] \in Nat /\ t[k - 1] + lower[k] \in Nat
        /\ t[k - 1] + lower[k] <= s[k - 1] + parts[k]
    BY <2>2
  <2>4. Capped(t[k - 1] + lower[k]) <= Capped(s[k - 1] + parts[k])
    BY <2>3, CappedIs
  <2> QED BY <1>1, <1>2, <1>4, <2>4
<1>5. bad = {}
  <2> HIDE DEF bad
  <2> QED BY <1>3, <1>4, NoneBefore
<1> QED BY <1>5 DEF s, t

\* The children's costs, in a row.
LEMMA KidCostsAre ==
  ASSUME NEW g, WellFormed(g), NEW prices, Priced(g, prices), NEW at \in Places(g)
  PROVE  LET kids == KidCosts(g, CostOf(g, prices), at)
             n == NodeAt(g, at).kids
         IN  /\ n \in Nat /\ Len(kids) = n /\ DOMAIN kids = 1..n
             /\ \A k \in 1..n : kids[k] = CostOf(g, prices)[Append(at, k)]
             /\ \A k \in 1..n : kids[k] \in 0..Unreachable
             /\ \A k \in 1..n : kids[k] \in Nat
             /\ Range(kids) = {kids[k] : k \in 1..n}
<1> DEFINE n == NodeAt(g, at).kids
           cost == CostOf(g, prices)
           kids == KidCosts(g, cost, at)
<1>1. n \in Nat /\ \A k \in 1..n : Append(at, k) \in Places(g)
  BY PlaceIs
<1>2. kids = [k \in 1..n |-> cost[Append(at, k)]]
  BY DEF KidCosts
<1>3. \A k \in 1..n : cost[Append(at, k)] \in 0..Unreachable
  BY <1>1, CostIs
<1>4. Unreachable \in Nat
  BY GrammarAssumption
<1> HIDE DEF n, cost, kids
<1>5. DOMAIN kids = 1..n /\ \A k \in 1..n : kids[k] = cost[Append(at, k)]
  BY <1>2
<1>6. Len(kids) = n
  BY <1>1, <1>2
<1>7. Range(kids) = {kids[k] : k \in 1..n}
  BY <1>5 DEF Range
<1>8. \A k \in 1..n : kids[k] \in 0..Unreachable /\ kids[k] \in Nat
  BY <1>3, <1>4, <1>5
<1> QED BY <1>1, <1>5, <1>6, <1>7, <1>8 DEF n, cost, kids

\* Prices that are nowhere above these.
NoDearer(g, lower, prices) == \A i \in DOMAIN g.names : lower[i] <= prices[i]

\* A reference costs no more when the productions do not.
LEMMA RefCostFalls ==
  ASSUME NEW g, NEW prices, Priced(g, prices), NEW lower, Priced(g, lower),
         NoDearer(g, lower, prices), NEW name
  PROVE  RefCost(g, lower, name) <= RefCost(g, prices, name)
<1>1. Unreachable \in Nat \ {0}
  BY GrammarAssumption
<1>2. Defined(g, name) => lower[RuleNo(g, name)] <= prices[RuleNo(g, name)]
  BY RuleNoIs DEF NoDearer
<1> QED BY <1>1, <1>2 DEF RefCost

\* Nothing in a grammar costs more when the productions do not.
LEMMA CostFalls ==
  ASSUME NEW g, WellFormed(g), NEW prices, Priced(g, prices), NEW lower, Priced(g, lower),
         NoDearer(g, lower, prices)
  PROVE  \A at \in Places(g) : CostOf(g, lower)[at] <= CostOf(g, prices)[at]
<1> DEFINE c == CostOf(g, prices)
           b == CostOf(g, lower)
           bad == {at \in Places(g) : ~(b[at] <= c[at])}
<1>0. Unreachable \in Nat \ {0}
  BY GrammarAssumption
<1>1. /\ \A at \in Places(g) : c[at] = NodeCost(g, prices, c, at) /\ c[at] \in 0..Unreachable
      /\ \A at \in Places(g) : b[at] = NodeCost(g, lower, b, at) /\ b[at] \in 0..Unreachable
  BY CostIs
<1>2. ASSUME NEW at \in bad PROVE \E k \in 1..NodeAt(g, at).kids : Append(at, k) \in bad
  <2>0. at \in Places(g) /\ ~(b[at] <= c[at])
    OBVIOUS
  <2> DEFINE n == NodeAt(g, at)
             m == NodeAt(g, at).kids
             ck == KidCosts(g, c, at)
             bk == KidCosts(g, b, at)
  <2>1. SUFFICES ASSUME \A k \in 1..m : ~(Append(at, k) \in bad) PROVE FALSE
    OBVIOUS
  <2>2. \A k \in 1..m : Append(at, k) \in Places(g)
    BY <2>0, PlaceIs
  <2>3. /\ m \in Nat /\ Len(ck) = m /\ \A k \in 1..m : ck[k] = c[Append(at, k)]
        /\ \A k \in 1..m : ck[k] \in Nat
        /\ Range(ck) = {ck[k] : k \in 1..m}
    BY <2>0, KidCostsAre
  <2>4. /\ Len(bk) = m /\ \A k \in 1..m : bk[k] = b[Append(at, k)]
        /\ \A k \in 1..m : bk[k] \in Nat
        /\ Range(bk) = {bk[k] : k \in 1..m}
    BY <2>0, KidCostsAre
  <2>5. \A k \in 1..m : bk[k] <= ck[k]
    BY <2>1, <2>2, <2>3, <2>4
  <2>6. /\ n.kind = "word" => c[at] = 1
        /\ n.kind = "prose" => c[at] = Unreachable
        /\ n.kind = "ref" => c[at] = RefCost(g, prices, n.name)
        /\ n.kind = "opt" => c[at] = 0
        /\ n.kind = "alt" => c[at] = Min({Unreachable} \cup Range(ck))
        /\ n.kind = "repeat" => c[at] = ck[1]
        /\ n.kind = "seq" => c[at] = Spent(ck)[m]
    BY <1>1, <2>0, NodeCostIs
  <2>7. /\ n.kind = "word" => b[at] = 1
        /\ n.kind = "prose" => b[at] = Unreachable
        /\ n.kind = "ref" => b[at] = RefCost(g, lower, n.name)
        /\ n.kind = "opt" => b[at] = 0
        /\ n.kind = "alt" => b[at] = Min({Unreachable} \cup Range(bk))
        /\ n.kind = "repeat" => b[at] = bk[1]
        /\ n.kind = "seq" => b[at] = Spent(bk)[m]
    BY <1>1, <2>0, NodeCostIs
  <2>8. RefCost(g, lower, n.name) <= RefCost(g, prices, n.name)
    BY RefCostFalls
  <2>9. /\ n.kind \in {"word", "prose", "ref", "opt", "repeat", "alt", "seq"}
        /\ n.kind \in {"opt", "repeat"} => m = 1
    BY <2>0, PlaceIs
  <2> HIDE DEF n, m, ck, bk, b, c, bad
  <2>10. Min({Unreachable} \cup Range(bk)) <= Min({Unreachable} \cup Range(ck))
    <3> DEFINE T == {Unreachable} \cup Range(bk)
               U == {Unreachable} \cup Range(ck)
    <3>1. T \subseteq Nat /\ T # {} /\ U \subseteq Nat /\ U # {}
      BY <1>0, <2>3, <2>4
    <3>2. \A u \in U : \E t \in T : t <= u
      <4> SUFFICES ASSUME NEW u \in U PROVE \E t \in T : t <= u
        OBVIOUS
      <4>1. CASE u = Unreachable
        BY <1>0, <4>1
      <4>2. CASE u \in Range(ck)
        <5>1. PICK k \in 1..m : u = ck[k]
          BY <2>3, <4>2
        <5>2. bk[k] \in T /\ bk[k] <= u
          BY <2>4, <2>5, <5>1
        <5> QED BY <5>2
      <4> QED BY <4>1, <4>2
    <3> HIDE DEF T, U
    <3>3. Min(T) \in T /\ (\A y \in T : Min(T) <= y) /\ Min(U) \in U
      BY <3>1, MinIs
    <3>4. PICK t \in T : t <= Min(U)
      BY <3>2, <3>3
    <3>5. Min(T) <= t /\ Min(T) \in Nat /\ t \in Nat /\ Min(U) \in Nat
      BY <3>1, <3>3
    <3>6. Min(T) <= Min(U)
      BY <3>4, <3>5
    <3> QED BY <3>6 DEF T, U
  <2>11. Spent(bk)[m] <= Spent(ck)[m]
    <3>1. m \in 0..m
      BY <2>3
    <3> QED BY <2>3, <2>4, <2>5, <3>1, SpentFalls
  <2>12. m = 1 => bk[1] <= ck[1]
    BY <2>5
  <2> QED BY <1>0, <2>0, <2>6, <2>7, <2>8, <2>9, <2>10, <2>11, <2>12
<1>3. bad \subseteq Places(g)
  OBVIOUS
<1>4. bad = {}
  <2> HIDE DEF bad
  <2> QED BY <1>2, <1>3, NoneAbove
<1> QED BY <1>4

\* The first of a sequence.
LEMMA FirstOnes ==
  ASSUME NEW v \in Seq(Nat), NEW l \in Nat \ {0}, l <= Len(v)
  PROVE  /\ SubSeq(v, 1, l) \in Seq(Nat) /\ Len(SubSeq(v, 1, l)) = l
         /\ \A j \in 1..l : SubSeq(v, 1, l)[j] = v[j]
<1> DEFINE n == Len(v)
<1>1. n \in Nat /\ \A j \in 1..n : v[j] \in Nat
  BY ElementOfSeq
<1>2. l <= n
  OBVIOUS
<1> HIDE DEF n
<1>3. 1 \in Int /\ l \in Int /\ l - 1 + 1 = l /\ 1 <= l
  OBVIOUS
<1>4. \A j \in 1..l : j \in 1..n
  BY <1>1, <1>2
<1>5. \A j \in 1..l : v[j] \in Nat
  BY <1>1, <1>4
<1> DEFINE a == SubSeq(v, 1, l)
<1>6. /\ a \in Seq(Nat)
      /\ Len(a) = IF 1 <= l THEN l - 1 + 1 ELSE 0
      /\ \A j \in 1..(l - 1 + 1) : a[j] = v[1 + j - 1]
  BY SMTT(30), <1>3, <1>5, SubSeqProperties
<1> HIDE DEF a
<1>7. \A j \in 1..l : 1 + j - 1 = j
  OBVIOUS
<1>8. a \in Seq(Nat) /\ Len(a) = l /\ \A j \in 1..l : a[j] = v[j]
  BY <1>3, <1>6, <1>7
<1> QED BY <1>8 DEF a

\* A way with one more step begins as it did before.
LEMMA OneMoreOf ==
  ASSUME NEW w \in Ways, w # <<>>, NEW k \in Nat \ {0}
  PROVE  LET v == Append(w, k)
         IN  /\ v[1] = w[1] /\ v[Len(w) + 1] = k /\ SubSeq(v, 1, Len(w)) = w
             /\ \A l \in 1..(Len(w) - 1) : v[l + 1] = w[l + 1] /\ SubSeq(v, 1, l) = SubSeq(w, 1, l)
<1> DEFINE v == Append(w, k)
           n == Len(w)
<1>1. w \in Seq(Nat) /\ v \in Seq(Nat) /\ n \in Nat \ {0} /\ Len(v) = n + 1
  BY RootWay, OneMore DEF Ways
<1>2. (\A l \in 1..n : v[l] = w[l]) /\ v[n + 1] = k
  BY <1>1
<1>3. ASSUME NEW l \in 1..n PROVE SubSeq(v, 1, l) = SubSeq(w, 1, l)
  <2> DEFINE a == SubSeq(v, 1, l)
             b == SubSeq(w, 1, l)
  <2>1. l \in Nat \ {0} /\ l <= Len(v) /\ l <= Len(w)
    BY <1>1
  <2>2. a \in Seq(Nat) /\ Len(a) = l /\ \A j \in 1..l : a[j] = v[j]
    BY <1>1, <2>1, FirstOnes
  <2>3. b \in Seq(Nat) /\ Len(b) = l /\ \A j \in 1..l : b[j] = w[j]
    BY <1>1, <2>1, FirstOnes
  <2>4. \A j \in 1..l : j \in 1..n
    BY <1>1
  <2> HIDE DEF a, b
  <2>5. \A j \in 1..l : a[j] = b[j]
    BY <1>2, <2>2, <2>3, <2>4
  <2>6. a = b
    BY <2>2, <2>3, <2>5, SeqEqual
  <2> QED BY <2>6 DEF a, b
<1>4. SubSeq(w, 1, n) = w
  BY <1>1
<1>5. SubSeq(v, 1, n) = w
  BY <1>1, <1>3, <1>4
<1>6. \A l \in 1..(n - 1) : l + 1 \in 1..n /\ l \in 1..n
  BY <1>1
<1> HIDE DEF v, n
<1>7. v[1] = w[1]
  BY <1>1, <1>2
<1> QED BY <1>2, <1>3, <1>5, <1>6, <1>7 DEF v, n

\* cost comes by a child when it comes by the node and enters the child.
LEMMA VisitedStep ==
  ASSUME NEW g, WellFormed(g), NEW cost, NEW i, NEW at \in Places(g), NEW k \in 1..NodeAt(g, at).kids
  PROVE  Append(at, k) \in Visited(g, cost, i) <=> at \in Visited(g, cost, i) /\ Enters(g, cost, at, k)
<1> DEFINE b == Append(at, k)
           n == Len(at)
           In(w, l) == Enters(g, cost, SubSeq(w, 1, l), w[l + 1])
<1>1. /\ at \in Ways /\ at # <<>> /\ k \in Nat \ {0} /\ b \in Places(g) /\ Len(b) = n + 1
      /\ n \in Nat \ {0}
  BY PlaceIs
<1>2. /\ b[1] = at[1] /\ b[n + 1] = k /\ SubSeq(b, 1, n) = at
      /\ \A l \in 1..(n - 1) : b[l + 1] = at[l + 1] /\ SubSeq(b, 1, l) = SubSeq(at, 1, l)
  BY <1>1, OneMoreOf
<1>3. at \in Visited(g, cost, i) <=> at[1] = i /\ \A l \in 1..(n - 1) : In(at, l)
  BY DEF Visited
<1>4. b \in Visited(g, cost, i) <=> b[1] = i /\ \A l \in 1..(Len(b) - 1) : In(b, l)
  BY <1>1 DEF Visited
<1>5. \A l \in 1..(n - 1) : In(b, l) <=> In(at, l)
  BY <1>2
<1>6. In(b, n) <=> Enters(g, cost, at, k)
  BY <1>2
<1> HIDE DEF b, n, In
<1>7. (\A l \in 1..(Len(b) - 1) : In(b, l)) <=> (\A l \in 1..(n - 1) : In(b, l)) /\ In(b, n)
  <2>1. Len(b) - 1 = n
    BY <1>1
  <2>2. \A l \in 1..n : l \in 1..(n - 1) \/ l = n
    BY <1>1
  <2>3. n \in 1..n /\ \A l \in 1..(n - 1) : l \in 1..n
    BY <1>1
  <2> QED BY <2>1, <2>2, <2>3
<1> QED BY <1>2, <1>3, <1>4, <1>5, <1>6, <1>7 DEF b

\* cost comes by the body of the production.
LEMMA VisitedRoot ==
  ASSUME NEW g, WellFormed(g), NEW cost, NEW i \in DOMAIN g.names
  PROVE  <<i>> \in Visited(g, cost, i) /\ <<i>> \in Places(g)
<1> DEFINE at == <<i>>
<1>1. at \in Places(g) /\ Len(at) = 1 /\ at[1] = i
  BY DEF WellFormed
<1> HIDE DEF at
<1>2. \A l \in 1..(Len(at) - 1) : FALSE
  BY <1>1
<1>3. at \in Visited(g, cost, i)
  BY <1>1, <1>2 DEF Visited
<1> QED BY <1>1, <1>3 DEF at

\* A place is the body of a production or a child of a place.
LEMMA PlaceSteps ==
  ASSUME NEW g, WellFormed(g), NEW at \in Places(g)
  PROVE  \/ \E i \in DOMAIN g.names : at = <<i>>
         \/ \E p \in Places(g) : \E k \in 1..NodeAt(g, p).kids : at = Append(p, k)
<1>1. at \in Ways /\ at # <<>>
  BY PlaceIs
<1>2. CASE Len(at) = 1
  <2>1. at[1] \in DOMAIN g.names
    BY <1>2 DEF WellFormed
  <2>2. at \in Seq(Nat)
    BY <1>1 DEF Ways
  <2>3. at = <<at[1]>>
    BY <1>2, <2>2
  <2> QED BY <2>1, <2>3
<1>3. CASE Len(at) # 1
  <2>1. Front(at) \in Places(g) /\ Last(at) \in 1..NodeAt(g, Front(at)).kids
    BY <1>3 DEF WellFormed
  <2>2. at = Append(Front(at), Last(at))
    BY <1>1, LastStep
  <2> QED BY <2>1, <2>2
<1> QED BY <1>2, <1>3

\* A child of one of these places.
ChildIn(g, places, at) == \E p \in places : \E k \in 1..NodeAt(g, p).kids : at = Append(p, k)

\* A set of places each of which is a child of one in it is empty.
LEMMA NoneBelow ==
  ASSUME NEW g, WellFormed(g), NEW bad, bad \subseteq Places(g),
         \A at \in bad : ChildIn(g, bad, at)
  PROVE  bad = {}
<1> DEFINE T == {Len(at) : at \in bad}
<1> SUFFICES ASSUME bad # {} PROVE FALSE
  OBVIOUS
<1>1. \A at \in bad : Len(at) \in Nat
  BY PlaceIs
<1>2. T \subseteq Nat /\ T # {}
  BY <1>1
<1>3. PICK h \in T : \A j \in T : h <= j
  <2> HIDE DEF T
  <2> QED BY <1>2, LeastNatural
<1>4. PICK at \in bad : h = Len(at)
  OBVIOUS
<1>5. PICK p \in bad : \E k \in 1..NodeAt(g, p).kids : at = Append(p, k)
  BY DEF ChildIn
<1>6. PICK k \in 1..NodeAt(g, p).kids : at = Append(p, k)
  BY <1>5
<1>7. Len(at) = Len(p) + 1
  BY <1>6, PlaceIs
<1>8. h <= Len(p)
  BY <1>3
<1> QED BY <1>1, <1>4, <1>7, <1>8

\* Where it comes by stays when the costs fall.
LEMMA VisitedGrows ==
  ASSUME NEW g, WellFormed(g), NEW prices, Priced(g, prices), NEW lower, Priced(g, lower),
         NoDearer(g, lower, prices), NEW i
  PROVE  Visited(g, CostOf(g, prices), i) \subseteq Visited(g, CostOf(g, lower), i)
<1> DEFINE c == CostOf(g, prices)
           b == CostOf(g, lower)
<1>0. \A at \in Places(g) : b[at] <= c[at]
  BY CostFalls
<1>1. ASSUME NEW at \in Places(g), NEW k \in 1..NodeAt(g, at).kids, Enters(g, c, at, k)
      PROVE  Enters(g, b, at, k)
  <2> DEFINE m == NodeAt(g, at).kids
             ck == KidCosts(g, c, at)
             bk == KidCosts(g, b, at)
  <2>1. \A j \in 1..m : Append(at, j) \in Places(g)
    BY PlaceIs
  <2>2. /\ m \in Nat /\ Len(ck) = m /\ \A j \in 1..m : ck[j] = c[Append(at, j)]
        /\ \A j \in 1..m : ck[j] \in Nat
    BY KidCostsAre
  <2>3. /\ Len(bk) = m /\ \A j \in 1..m : bk[j] = b[Append(at, j)]
        /\ \A j \in 1..m : bk[j] \in Nat
    BY KidCostsAre
  <2>4. \A j \in 1..m : bk[j] <= ck[j]
    BY <1>0, <2>1, <2>2, <2>3
  <2>5. \A j \in 0..m : Spent(ck)[j] \in 0..Unreachable
    BY <2>2, SpentAt
  <2>6. \A j \in 0..m : Spent(bk)[j] \in 0..Unreachable
    BY <2>2, <2>3, SpentAt
  <2>7. \A j \in 0..m : Spent(bk)[j] <= Spent(ck)[j]
    BY <2>2, <2>3, <2>4, SpentFalls
  <2>8. k - 1 \in 0..m
    BY <2>2
  <2>9. Unreachable \in Nat
    BY GrammarAssumption
  <2>10. Spent(ck)[k - 1] < Unreachable => Spent(bk)[k - 1] < Unreachable
    <3> HIDE DEF ck, bk, m
    <3> QED BY <2>5, <2>6, <2>7, <2>8, <2>9
  <2> QED BY <1>1, <2>10 DEF Enters, KidCosts
<1> DEFINE bad == Visited(g, c, i) \ Visited(g, b, i)
<1>2. bad \subseteq Places(g)
  BY DEF Visited
<1>3. ASSUME NEW at \in bad PROVE ChildIn(g, bad, at)
  <2>1. at \in Places(g) /\ at[1] = i /\ at \in Visited(g, c, i) /\ at \notin Visited(g, b, i)
    BY DEF Visited
  <2> HIDE DEF b, c
  <2>2. CASE \E j \in DOMAIN g.names : at = <<j>>
    <3>1. PICK j \in DOMAIN g.names : at = <<j>>
      BY <2>2
    <3>2. j = i
      BY <2>1, <3>1
    <3> QED BY <2>1, <3>1, <3>2, VisitedRoot
  <2>3. CASE \E p \in Places(g) : \E k \in 1..NodeAt(g, p).kids : at = Append(p, k)
    <3>1. PICK p \in Places(g) : \E k \in 1..NodeAt(g, p).kids : at = Append(p, k)
      BY <2>3
    <3>2. PICK k \in 1..NodeAt(g, p).kids : at = Append(p, k)
      BY <3>1
    <3>3. /\ at \in Visited(g, c, i) <=> p \in Visited(g, c, i) /\ Enters(g, c, p, k)
          /\ at \in Visited(g, b, i) <=> p \in Visited(g, b, i) /\ Enters(g, b, p, k)
      BY <3>2, VisitedStep
    <3>4. p \in bad
      BY <1>1, <2>1, <3>3
    <3> QED BY <3>2, <3>4 DEF ChildIn
  <2> QED BY <2>1, <2>2, <2>3, PlaceSteps
<1>4. bad = {}
  <2> HIDE DEF bad
  <2> QED BY <1>2, <1>3, NoneBelow
<1> QED BY <1>4

(***************************************************************************)
(* What the costs come to                                                  *)
(***************************************************************************)

\* What the costs come to: every production costs what its body does with the
\* productions at these prices, and the table has what was come by.
Settled(g, prices, table) ==
  LET cost == CostOf(g, prices)
  IN  /\ \A i \in DOMAIN g.names : prices[i] = cost[<<i>>]
      /\ \A i \in DOMAIN g.names : \A at \in Visited(g, cost, i) :
           at \in DOMAIN table /\ table[at] = cost[at]
      /\ \A at \in DOMAIN table : \E i \in DOMAIN g.names : at \in Visited(g, cost, i)

\* On the way there, no production costs less than its body, and while nothing
\* has changed the productions before the next one are settled.
Settling(g, prices, table, next, same) ==
  LET cost == CostOf(g, prices)
  IN  /\ \A i \in DOMAIN g.names : cost[<<i>>] <= prices[i]
      /\ \A at \in DOMAIN table : \E i \in DOMAIN g.names : at \in Visited(g, cost, i)
      /\ same => \A i \in DOMAIN g.names : i < next =>
                   /\ prices[i] <= cost[<<i>>]
                   /\ \A at \in Visited(g, cost, i) : at \in DOMAIN table /\ table[at] = cost[at]

CostInv ==
  /\ sweep \in 1..(Len(rules.names) + 1)
  /\ phase = "cost" => Settling(rules, ruleCost, nodeCost, sweep, ~changed)
  /\ phase # "cost" => Settled(rules, ruleCost, nodeCost)

\* The productions of a grammar are numbered.
LEMMA NamesAre ==
  ASSUME NEW g, WellFormed(g)
  PROVE  Len(g.names) \in Nat /\ DOMAIN g.names = 1..Len(g.names)
BY DEF WellFormed

\* What a relaxation comes to: the table has what is come by from the body, and
\* a production that gets cheaper costs what its body does.
LEMMA RelaxIs ==
  ASSUME WalkInv, Relax
  PROVE  LET cost == CostOf(rules, ruleCost)
             seen == Visited(rules, cost, sweep)
         IN  /\ phase = "cost" /\ sweep \in DOMAIN rules.names /\ WellFormed(rules)
             /\ Priced(rules, ruleCost) /\ rules' = rules /\ phase' = phase /\ sweep' = sweep + 1
             /\ DOMAIN nodeCost' = seen \cup DOMAIN nodeCost
             /\ \A at \in seen : nodeCost'[at] = cost[at]
             /\ \A at \in (DOMAIN nodeCost) \ seen : nodeCost'[at] = nodeCost[at]
             /\ \/ /\ cost[<<sweep>>] < ruleCost[sweep] /\ changed' = TRUE
                   /\ ruleCost' = [ruleCost EXCEPT ![sweep] = cost[<<sweep>>]]
                \/ /\ ~(cost[<<sweep>>] < ruleCost[sweep])
                   /\ UNCHANGED <<ruleCost, changed>>
<1> DEFINE cost == CostOf(rules, ruleCost)
           t == CostTable(rules, ruleCost, sweep)
           seen == Visited(rules, cost, sweep)
           c == nodeCost'[<<sweep>>]
<1>1. /\ phase = "cost" /\ sweep \in DOMAIN rules.names /\ WellFormed(rules)
      /\ Priced(rules, ruleCost) /\ rules' = rules /\ phase' = phase /\ sweep' = sweep + 1
  BY WalkAssumption DEF Relax, WalkInv
<1>2. t = [at \in seen |-> cost[at]]
  BY DEF CostTable
<1>3. nodeCost' = [at \in (DOMAIN t) \cup (DOMAIN nodeCost) |->
                     IF at \in DOMAIN t THEN t[at] ELSE nodeCost[at]]
  BY Zenon DEF Relax, t
<1> HIDE DEF t, cost, seen
<1>4. /\ DOMAIN nodeCost' = seen \cup DOMAIN nodeCost
      /\ \A at \in seen : nodeCost'[at] = cost[at]
      /\ \A at \in (DOMAIN nodeCost) \ seen : nodeCost'[at] = nodeCost[at]
  BY <1>2, <1>3
<1>5. <<sweep>> \in seen
  BY <1>1, VisitedRoot DEF seen
<1>6. c = cost[<<sweep>>]
  BY <1>4, <1>5
<1>7. IF c < ruleCost[sweep]
      THEN ruleCost' = [ruleCost EXCEPT ![sweep] = c] /\ changed' = TRUE
      ELSE UNCHANGED <<ruleCost, changed>>
  BY DEF Relax, Better
<1> HIDE DEF c
<1>8. \/ /\ cost[<<sweep>>] < ruleCost[sweep] /\ changed' = TRUE
         /\ ruleCost' = [ruleCost EXCEPT ![sweep] = cost[<<sweep>>]]
      \/ /\ ~(cost[<<sweep>>] < ruleCost[sweep])
         /\ UNCHANGED <<ruleCost, changed>>
  BY <1>6, <1>7
<1> QED BY <1>1, <1>4, <1>8 DEF cost, seen

\* Nothing is cheap at first.
LEMMA InitCost == Init => CostInv
<1> SUFFICES ASSUME Init PROVE CostInv
  OBVIOUS
<1>1. WellFormed(rules) /\ phase = "cost" /\ sweep = 1 /\ nodeCost = <<>>
  BY WalkAssumption DEF Init
<1>2. Len(rules.names) \in Nat /\ DOMAIN rules.names = 1..Len(rules.names)
  BY <1>1, NamesAre
<1>3. ruleCost = [i \in DOMAIN rules.names |-> Unreachable] /\ Priced(rules, ruleCost)
  BY GrammarAssumption DEF Init, Priced
<1> DEFINE cost == CostOf(rules, ruleCost)
<1>4. \A i \in DOMAIN rules.names : <<i>> \in Places(rules)
  BY <1>1, VisitedRoot
<1>5. \A i \in DOMAIN rules.names : cost[<<i>>] \in 0..Unreachable
  BY <1>1, <1>3, <1>4, CostIs
<1> HIDE DEF cost
<1>6. ASSUME NEW i \in DOMAIN rules.names PROVE cost[<<i>>] <= ruleCost[i]
  <2> DEFINE c == cost[<<i>>]
  <2>1. Unreachable \in Nat
    BY GrammarAssumption
  <2>2. c \in 0..Unreachable /\ ruleCost[i] = Unreachable
    BY <1>3, <1>5
  <2> HIDE DEF c
  <2>3. c <= ruleCost[i]
    BY <2>1, <2>2
  <2> QED BY <2>3 DEF c
<1>7. DOMAIN nodeCost = {}
  BY <1>1
<1>8. \A i \in DOMAIN rules.names : ~(i < sweep)
  BY <1>1, <1>2
<1>9. Settling(rules, ruleCost, nodeCost, sweep, ~changed)
  BY <1>6, <1>7, <1>8 DEF Settling, cost
<1> QED BY <1>1, <1>2, <1>9 DEF CostInv

\* A relaxation keeps to it, and so do the sweeps.
LEMMA RelaxSettles ==
  ASSUME WalkInv, CostInv, Relax
  PROVE  CostInv'
<1> DEFINE cost == CostOf(rules, ruleCost)
           low == CostOf(rules, ruleCost')
           names == rules.names
<1>1. /\ phase = "cost" /\ sweep \in DOMAIN names /\ WellFormed(rules)
      /\ Priced(rules, ruleCost) /\ rules' = rules /\ phase' = phase /\ sweep' = sweep + 1
  BY RelaxIs
<1>2. /\ DOMAIN nodeCost' = Visited(rules, cost, sweep) \cup DOMAIN nodeCost
      /\ \A at \in Visited(rules, cost, sweep) : nodeCost'[at] = cost[at]
      /\ \A at \in (DOMAIN nodeCost) \ Visited(rules, cost, sweep) : nodeCost'[at] = nodeCost[at]
  BY RelaxIs
<1>3. \/ /\ cost[<<sweep>>] < ruleCost[sweep] /\ changed' = TRUE
         /\ ruleCost' = [ruleCost EXCEPT ![sweep] = cost[<<sweep>>]]
      \/ ~(cost[<<sweep>>] < ruleCost[sweep]) /\ ruleCost' = ruleCost /\ changed' = changed
  BY RelaxIs
<1>4. Len(names) \in Nat /\ DOMAIN names = 1..Len(names)
  BY <1>1, NamesAre
<1>5. \A i \in DOMAIN names : <<i>> \in Places(rules)
  BY <1>1, VisitedRoot
<1>6. \A i \in DOMAIN names : cost[<<i>>] \in 0..Unreachable /\ ruleCost[i] \in 0..Unreachable
  BY <1>1, <1>5, CostIs DEF Priced
<1>7. /\ \A i \in DOMAIN names : cost[<<i>>] <= ruleCost[i]
      /\ \A at \in DOMAIN nodeCost : \E i \in DOMAIN names : at \in Visited(rules, cost, i)
      /\ ~changed => \A i \in DOMAIN names : i < sweep =>
           /\ ruleCost[i] <= cost[<<i>>]
           /\ \A at \in Visited(rules, cost, i) : at \in DOMAIN nodeCost /\ nodeCost[at] = cost[at]
  BY <1>1 DEF CostInv, Settling
<1>8. \A at \in DOMAIN nodeCost' : \E i \in DOMAIN names : at \in Visited(rules, cost, i)
  BY <1>1, <1>2, <1>7
<1>9. sweep' \in 1..(Len(names) + 1)
  BY <1>1, <1>4
<1>10. Unreachable \in Nat
  BY GrammarAssumption
<1>11. ruleCost' \in [DOMAIN names -> 0..Unreachable] /\ \A i \in DOMAIN names : ruleCost'[i] <= ruleCost[i]
  <2> HIDE DEF cost, names
  <2>1. ruleCost \in [DOMAIN names -> 0..Unreachable]
    BY <1>1 DEF Priced, names
  <2>2. CASE ruleCost' = ruleCost
    BY <2>1, <2>2, <1>10
  <2>3. CASE /\ cost[<<sweep>>] < ruleCost[sweep]
             /\ ruleCost' = [ruleCost EXCEPT ![sweep] = cost[<<sweep>>]]
    <3> DEFINE c == cost[<<sweep>>]
    <3>1. c \in 0..Unreachable /\ c < ruleCost[sweep]
      BY <1>1, <1>6, <2>3
    <3>2. ruleCost' = [ruleCost EXCEPT ![sweep] = c]
      BY <2>3
    <3> HIDE DEF c
    <3> QED BY <1>1, <2>1, <3>1, <3>2, <1>10
  <2> QED BY <1>3, <2>2, <2>3
<1>12. Priced(rules, ruleCost') /\ NoDearer(rules, ruleCost', ruleCost)
  BY <1>11 DEF Priced, NoDearer
<1>13. \A at \in Places(rules) : low[at] <= cost[at] /\ low[at] \in 0..Unreachable
  BY <1>1, <1>12, CostFalls, CostIs
<1>14. \A i \in DOMAIN names : Visited(rules, cost, i) \subseteq Visited(rules, low, i)
  BY <1>1, <1>12, VisitedGrows
<1> HIDE DEF cost, low, names
<1>15. \A i \in DOMAIN names : low[<<i>>] <= ruleCost'[i]
  <2> SUFFICES ASSUME NEW i \in DOMAIN names PROVE low[<<i>>] <= ruleCost'[i]
    OBVIOUS
  <2>1. low[<<i>>] <= cost[<<i>>] /\ low[<<i>>] \in 0..Unreachable /\ cost[<<i>>] \in 0..Unreachable
    BY <1>5, <1>6, <1>13
  <2>2. ruleCost'[i] = ruleCost[i] \/ ruleCost'[i] = cost[<<i>>]
    <3> DEFINE c == cost[<<sweep>>]
    <3>1. ruleCost' = ruleCost \/ ruleCost' = [ruleCost EXCEPT ![sweep] = c]
      BY <1>3
    <3>2. DOMAIN ruleCost = DOMAIN names
      BY <1>1 DEF Priced, names
    <3> HIDE DEF c
    <3>3. ruleCost'[i] = ruleCost[i] \/ (i = sweep /\ ruleCost'[i] = c)
      BY <3>1, <3>2
    <3> QED BY <3>3 DEF c
  <2>3. cost[<<i>>] <= ruleCost[i] /\ ruleCost[i] \in 0..Unreachable
    BY <1>6, <1>7
  <2> QED BY <1>10, <2>1, <2>2, <2>3
<1>16. \A at \in DOMAIN nodeCost' : \E i \in DOMAIN names : at \in Visited(rules, low, i)
  BY <1>8, <1>14
<1>17. ASSUME ~changed', NEW i \in DOMAIN names, i < sweep'
       PROVE  /\ ruleCost'[i] <= low[<<i>>]
              /\ \A at \in Visited(rules, low, i) : at \in DOMAIN nodeCost' /\ nodeCost'[at] = low[at]
  <2>1. ruleCost' = ruleCost /\ low = cost /\ ~(cost[<<sweep>>] < ruleCost[sweep]) /\ ~changed
    BY <1>3, <1>17 DEF low, cost
  <2>2. CASE i = sweep
    <3>1. ruleCost[i] <= cost[<<i>>]
      BY <1>6, <1>10, <2>1, <2>2
    <3> QED BY <1>2, <2>1, <2>2, <3>1
  <2>3. CASE i # sweep
    <3>1. i < sweep
      BY <1>1, <1>4, <1>17, <2>3
    <3>2. /\ ruleCost[i] <= cost[<<i>>]
          /\ \A at \in Visited(rules, cost, i) : at \in DOMAIN nodeCost /\ nodeCost[at] = cost[at]
      BY <1>7, <2>1, <3>1
    <3> QED BY <1>2, <2>1, <3>2
  <2> QED BY <2>2, <2>3
<1>18. Settling(rules, ruleCost', nodeCost', sweep', ~changed')
  BY <1>15, <1>16, <1>17 DEF Settling, low, names
<1> QED BY <1>1, <1>9, <1>18 DEF CostInv, names

\* No step takes the costs from where they settle.
LEMMA NextSettles == WalkInv /\ CostInv /\ [Next]_vars => CostInv'
<1> SUFFICES ASSUME WalkInv, CostInv, [Next]_vars PROVE CostInv'
  OBVIOUS
<1>0. WellFormed(rules)
  BY WalkAssumption DEF WalkInv
<1>00. Len(rules.names) \in Nat /\ DOMAIN rules.names = 1..Len(rules.names)
  BY <1>0, NamesAre
<1>1. CASE Relax
  BY <1>1, RelaxSettles
<1>2. CASE NextSweep
  <2>1. /\ phase = "cost" /\ sweep' = 1 /\ changed' = FALSE
        /\ UNCHANGED <<rules, phase, ruleCost, nodeCost>>
    BY <1>2 DEF NextSweep
  <2>2. \A i \in DOMAIN rules.names : ~(i < 1)
    BY <1>00
  <2>3. Settling(rules, ruleCost, nodeCost, sweep, ~changed)
    BY <2>1 DEF CostInv
  <2>4. Settling(rules, ruleCost, nodeCost, 1, ~changed')
    BY <2>2, <2>3 DEF Settling
  <2>5. 1 \in 1..(Len(rules.names) + 1)
    BY <1>00
  <2> QED BY <2>1, <2>4, <2>5 DEF CostInv
<1>3. CASE Costed
  <2>1. /\ phase = "cost" /\ sweep \notin DOMAIN rules.names /\ ~changed
        /\ UNCHANGED <<rules, costs>> /\ phase' # "cost"
    BY <1>3 DEF Costed, Again, Begin
  <2>2. sweep \in 1..(Len(rules.names) + 1)
    BY DEF CostInv
  <2>3. \A i \in DOMAIN rules.names : i < sweep
    BY <1>00, <2>1, <2>2
  <2> DEFINE cost == CostOf(rules, ruleCost)
  <2>4. \A i \in DOMAIN rules.names : cost[<<i>>] \in 0..Unreachable /\ ruleCost[i] \in 0..Unreachable
    BY <1>0, VisitedRoot, CostIs DEF WalkInv, Priced
  <2>5. Settling(rules, ruleCost, nodeCost, sweep, TRUE)
    BY <2>1 DEF CostInv
  <2>6. \A i \in DOMAIN rules.names : ruleCost[i] = cost[<<i>>]
    <3>1. \A i \in DOMAIN rules.names : cost[<<i>>] <= ruleCost[i] /\ ruleCost[i] <= cost[<<i>>]
      BY <2>3, <2>5 DEF Settling
    <3> SUFFICES ASSUME NEW i \in DOMAIN rules.names PROVE ruleCost[i] = cost[<<i>>]
      OBVIOUS
    <3> DEFINE c == cost[<<i>>]
    <3>2. c \in 0..Unreachable /\ ruleCost[i] \in 0..Unreachable /\ c <= ruleCost[i] /\ ruleCost[i] <= c
      BY <2>4, <3>1
    <3>3. Unreachable \in Nat
      BY GrammarAssumption
    <3> HIDE DEF c
    <3>4. ruleCost[i] = c
      BY <3>2, <3>3
    <3> QED BY <3>4 DEF c
  <2>7. Settled(rules, ruleCost, nodeCost)
    BY <2>3, <2>5, <2>6 DEF Settling, Settled
  <2> QED BY <2>1, <2>2, <2>7 DEF CostInv, costs
<1>4. CASE UNCHANGED <<rules, costs>> /\ phase # "cost" /\ phase' # "cost"
  BY <1>4 DEF CostInv, costs
<1>5. CASE UNCHANGED vars
  BY <1>5 DEF CostInv, vars, costs
<1>6. CASE Walk
  <2>1. UNCHANGED <<rules, costs>> /\ phase = "walk" /\ phase' # "cost"
    BY <1>6 DEF Walk, ExpandWord, ExpandProse, ExpandLeaf, ExpandRef, ExpandSeq, ExpandOpt,
                ExpandRepeat, ExpandAlt, Expanding, Grow, Write, Descend, Fail, Generated, Begin
  <2> QED BY <1>4, <2>1
<1>7. CASE Reduce
  <2>1. UNCHANGED <<rules, costs>> /\ phase = "reduce" /\ phase' # "cost"
    BY <1>7 DEF Reduce, SkipEmpty, Ask, Reduced, Reducing
  <2> QED BY <1>4, <2>1
<1> QED BY <1>1, <1>2, <1>3, <1>5, <1>6, <1>7 DEF Next, ComputeCost

(***************************************************************************)
(* What is written, and what it costs                                      *)
(***************************************************************************)

\* What is written from a node on, and from its first so many children.
Written(d, way) == {w \in Tokens(d) : IsPrefix(way, w)}
Begun(d, way, n) == {w \in Tokens(d) : \E k \in 1..n : IsPrefix(Append(way, k), w)}

\* What begins with a way begins with what that begins with.
LEMMA PrefixGoesOn ==
  ASSUME NEW u \in Ways, NEW v \in Ways, NEW w \in Ways, IsPrefix(u, v), IsPrefix(v, w)
  PROVE  IsPrefix(u, w)
<1>1. Len(u) \in Nat /\ Len(v) \in Nat /\ Len(w) \in Nat
  BY RootWay
<1>2. Len(u) <= Len(v) /\ \A i \in 1..Len(u) : v[i] = u[i]
  BY BeginsIf
<1>3. Len(v) <= Len(w) /\ \A i \in 1..Len(v) : w[i] = v[i]
  BY BeginsIf
<1>4. \A i \in 1..Len(u) : i \in 1..Len(v)
  BY <1>1, <1>2
<1>5. Len(u) <= Len(w) /\ \A i \in 1..Len(u) : w[i] = u[i]
  BY <1>1, <1>2, <1>3, <1>4
<1> QED BY <1>5, BeginsIf

\* A way does not go by two children of a node.
LEMMA OneChild ==
  ASSUME NEW v \in Ways, NEW j \in Nat \ {0}, NEW k \in Nat \ {0}, NEW w \in Ways,
         IsPrefix(Append(v, j), w), IsPrefix(Append(v, k), w)
  PROVE  j = k
<1> DEFINE N == Nat \ {0}
           n == Len(v) + 1
<1>1. v \in Seq(N) /\ Len(v) \in Nat
  BY RootWay DEF Ways
<1>2. ASSUME NEW x \in N, IsPrefix(Append(v, x), w) PROVE w[n] = x
  <2>1. Append(v, x) \in Ways /\ Len(Append(v, x)) = n
    BY <1>2, OneMore
  <2>2. n \in 1..Len(Append(v, x))
    BY <1>1, <2>1
  <2>3. Append(v, x)[n] = x
    <3> HIDE DEF N
    <3> QED BY <1>1, <1>2, AppendProperties
  <2> HIDE DEF n
  <2> QED BY <1>2, <2>1, <2>2, <2>3, BeginsIf
<1> QED BY <1>2

\* What is below a node is the node or goes by one of its children.
LEMMA BelowSteps ==
  ASSUME NEW d, IsTree(d), NEW way \in DOMAIN d, NEW w \in DOMAIN d, IsPrefix(way, w), w # way
  PROVE  \E k \in 1..d[way].kids : IsPrefix(Append(way, k), w)
<1> DEFINE By(x) == \E k \in 1..d[way].kids : IsPrefix(Append(way, k), x)
           bad == {x \in DOMAIN d : IsPrefix(way, x) /\ x # way /\ ~By(x)}
           T == {Len(x) : x \in bad}
<1> SUFFICES ASSUME bad # {} PROVE FALSE
  OBVIOUS
<1>1. DOMAIN d \subseteq Ways /\ way \in Ways /\ d[way].kids \in Nat
  BY DEF IsTree
<1>2. T \subseteq Nat /\ T # {}
  <2>1. \A x \in bad : Len(x) \in Nat
    <3>1. bad \subseteq Ways
      BY <1>1
    <3> HIDE DEF bad
    <3> QED BY <3>1, RootWay
  <2> HIDE DEF bad
  <2> QED BY <2>1
<1>3. PICK h \in T : \A j \in T : h <= j
  <2> HIDE DEF T
  <2> QED BY <1>2, LeastNatural
<1>4. PICK x \in bad : h = Len(x)
  OBVIOUS
<1>5. x \in DOMAIN d /\ x \in Ways /\ IsPrefix(way, x) /\ x # way /\ ~By(x)
  BY <1>1
<1> HIDE DEF By
<1>6. x # <<>>
  BY <1>1, <1>5, RootWay
<1>7. Front(x) \in DOMAIN d /\ Last(x) \in 1..d[Front(x)].kids
  BY <1>5, <1>6 DEF IsTree
<1>8. /\ Front(x) \in Ways /\ Last(x) \in Nat \ {0} /\ x = Append(Front(x), Last(x))
      /\ Len(x) = Len(Front(x)) + 1
  BY <1>5, <1>6, LastStep
<1>9. IsPrefix(way, Front(x))
  BY <1>1, <1>5, <1>8, OneMoreBegins
<1>10. Front(x) # way
  <2> SUFFICES ASSUME Front(x) = way PROVE FALSE
    OBVIOUS
  <2>1. IsPrefix(Append(way, Last(x)), x)
    BY <1>5, <1>8, RootWay
  <2> QED BY <1>5, <1>7, <2>1 DEF By
<1>11. ~By(Front(x))
  <2> SUFFICES ASSUME By(Front(x)) PROVE FALSE
    OBVIOUS
  <2>1. PICK k \in 1..d[way].kids : IsPrefix(Append(way, k), Front(x))
    BY DEF By
  <2>2. k \in Nat \ {0}
    BY <1>1
  <2>3. Append(way, k) \in Ways
    BY <1>1, <2>2, OneMore
  <2>4. IsPrefix(Append(way, k), x)
    BY <1>8, <2>1, <2>3, OneMoreBegins
  <2> QED BY <1>5, <2>4 DEF By
<1>12. Len(Front(x)) \in T
  BY <1>7, <1>9, <1>10, <1>11
<1>13. Len(Front(x)) \in Nat /\ h <= Len(Front(x))
  BY <1>3, <1>8, <1>12, RootWay
<1> QED BY <1>4, <1>8, <1>13

\* What is written is as much as there are ways to it.
LEMMA WrittenIs ==
  ASSUME NEW d, IsTree(d)
  PROVE  /\ IsFiniteSet(Tokens(d)) /\ Cardinality(Tokens(d)) \in Nat
         /\ Written(d, <<>>) = Tokens(d)
         /\ \A way : IsFiniteSet(Written(d, way)) /\ Cardinality(Written(d, way)) \in Nat
         /\ \A way, n : IsFiniteSet(Begun(d, way, n)) /\ Cardinality(Begun(d, way, n)) \in Nat
<1>1. IsFiniteSet(DOMAIN d) /\ DOMAIN d \subseteq Ways
  BY DEF IsTree
<1>2. Tokens(d) \subseteq DOMAIN d
  BY DEF Tokens
<1>3. IsFiniteSet(Tokens(d))
  BY <1>1, <1>2, FS_Subset
<1>4. \A way : Written(d, way) \subseteq Tokens(d)
  BY DEF Written
<1>5. \A way, n : Begun(d, way, n) \subseteq Tokens(d)
  BY DEF Begun
<1>6. Written(d, <<>>) = Tokens(d)
  BY <1>1, <1>2, RootWay DEF Written
<1>7. \A way : IsFiniteSet(Written(d, way)) /\ Cardinality(Written(d, way)) \in Nat
  BY <1>3, <1>4, FS_Subset, FS_CardinalityType
<1>8. \A way, n : IsFiniteSet(Begun(d, way, n)) /\ Cardinality(Begun(d, way, n)) \in Nat
  BY <1>3, <1>5, FS_Subset, FS_CardinalityType
<1> QED BY <1>3, <1>6, <1>7, <1>8, FS_CardinalityType

\* What is written from a child on is written from the node on, and what is
\* written from its children on adds up.
LEMMA WrittenAddsUp ==
  ASSUME NEW d, IsTree(d), NEW way \in DOMAIN d
  PROVE  /\ \A k \in 1..d[way].kids :
              Cardinality(Written(d, Append(way, k))) <= Cardinality(Written(d, way))
         /\ Cardinality(Begun(d, way, 0)) = 0
         /\ \A k \in 1..d[way].kids : Cardinality(Begun(d, way, k)) =
              Cardinality(Begun(d, way, k - 1)) + Cardinality(Written(d, Append(way, k)))
         /\ Cardinality(Begun(d, way, d[way].kids)) <= Cardinality(Written(d, way))
         /\ d[way].token # Blank => 1 <= Cardinality(Written(d, way))
         /\ d[way].token = Blank =>
              Cardinality(Written(d, way)) = Cardinality(Begun(d, way, d[way].kids))
<1> DEFINE n == d[way].kids
           W(k) == Written(d, Append(way, k))
           B(k) == Begun(d, way, k)
           V == Written(d, way)
<1>1. way \in Ways /\ DOMAIN d \subseteq Ways /\ n \in Nat /\ Tokens(d) \subseteq DOMAIN d
  BY DEF IsTree, Tokens
<1>2. \A x : IsFiniteSet(Written(d, x))
  BY WrittenIs
<1>3. \A x, k : IsFiniteSet(Begun(d, x, k)) /\ Cardinality(Begun(d, x, k)) \in Nat
  BY WrittenIs
<1>4. ASSUME NEW k \in 1..n PROVE W(k) \subseteq V
  <2>1. k \in Nat \ {0} /\ Append(way, k) \in Ways
    BY <1>1, OneMore
  <2>2. IsPrefix(way, Append(way, k))
    BY <1>1, <2>1, OneMoreBegins, RootWay
  <2>3. ASSUME NEW w \in W(k) PROVE w \in V
    <3>1. w \in Tokens(d) /\ w \in Ways /\ IsPrefix(Append(way, k), w)
      BY <1>1 DEF Written
    <3>2. IsPrefix(way, w)
      BY <1>1, <2>1, <2>2, <3>1, PrefixGoesOn
    <3> QED BY <3>1, <3>2 DEF Written
  <2> QED BY <2>3
<1>5. B(0) = {}
  BY DEF Begun
<1>6. ASSUME NEW k \in 1..n PROVE B(k) = B(k - 1) \cup W(k) /\ B(k - 1) \cap W(k) = {}
  <2>1. k \in Nat \ {0} /\ \A j \in 1..k : j \in 1..(k - 1) \/ j = k
    BY <1>1
  <2>2. \A j \in 1..(k - 1) : j \in 1..k /\ j # k /\ j \in Nat \ {0}
    BY <2>1
  <2>3. k \in 1..k
    BY <2>1
  <2>4. B(k) = B(k - 1) \cup W(k)
    BY <2>1, <2>2, <2>3 DEF Begun, Written
  <2>5. ASSUME NEW w, w \in B(k - 1), w \in W(k) PROVE FALSE
    <3>1. w \in Ways /\ IsPrefix(Append(way, k), w)
      BY <1>1, <2>5 DEF Written
    <3>2. PICK j \in 1..(k - 1) : IsPrefix(Append(way, j), w)
      BY <2>5 DEF Begun
    <3> QED BY <1>1, <2>1, <2>2, <3>1, <3>2, OneChild
  <2> QED BY <2>4, <2>5
<1>7. ASSUME NEW w \in V, w # way PROVE w \in B(n)
  <2>1. w \in Tokens(d) /\ w \in DOMAIN d /\ IsPrefix(way, w)
    BY <1>1 DEF Written
  <2> QED BY <1>7, <2>1, BelowSteps DEF Begun
<1>8. B(n) \subseteq V
  BY <1>4 DEF Begun, Written
<1>9. d[way].token # Blank => way \in V
  BY <1>1, RootWay DEF Written, Tokens
<1>10. d[way].token = Blank => way \notin V
  BY DEF Written, Tokens
<1>11. Cardinality(B(0)) = 0
  BY <1>5, FS_EmptySet
<1>12. ASSUME NEW k \in 1..n PROVE Cardinality(W(k)) <= Cardinality(V)
  BY <1>2, <1>4, FS_Subset
<1>13. ASSUME NEW k \in 1..n
       PROVE  Cardinality(B(k)) = Cardinality(B(k - 1)) + Cardinality(W(k))
  <2>1. IsFiniteSet(B(k - 1)) /\ IsFiniteSet(W(k))
    BY <1>2, <1>3
  <2>2. /\ Cardinality(B(k - 1) \cup W(k)) =
             Cardinality(B(k - 1)) + Cardinality(W(k)) - Cardinality(B(k - 1) \cap W(k))
    BY <2>1, FS_Union
  <2>3. Cardinality(B(k - 1) \cap W(k)) = 0
    BY <1>6, FS_EmptySet
  <2>4. Cardinality(B(k - 1)) \in Nat /\ Cardinality(W(k)) \in Nat
    BY <2>1, FS_CardinalityType
  <2>5. B(k) = B(k - 1) \cup W(k)
    BY <1>6
  <2> HIDE DEF B, W
  <2>6. Cardinality(B(k)) =
          Cardinality(B(k - 1)) + Cardinality(W(k)) - Cardinality(B(k - 1) \cap W(k))
    BY <2>2, <2>5
  <2> QED BY <2>3, <2>4, <2>6
<1>14. Cardinality(B(n)) <= Cardinality(V)
  BY <1>2, <1>8, FS_Subset
<1>15. ASSUME d[way].token # Blank PROVE 1 <= Cardinality(V)
  <2>1. IsFiniteSet(V) /\ V # {}
    BY <1>2, <1>9, <1>15
  <2>2. Cardinality(V) \in Nat /\ Cardinality(V) # 0
    BY <2>1, FS_EmptySet, FS_CardinalityType
  <2> QED BY <2>2
<1>16. ASSUME d[way].token = Blank PROVE V = B(n)
  BY <1>7, <1>8, <1>10, <1>16
<1> QED BY <1>11, <1>12, <1>13, <1>14, <1>15, <1>16

\* What adds up to as much as the parts cost, or more, is not below Spent.
LEMMA SpentIsLeast ==
  ASSUME NEW n \in Nat, NEW parts, Len(parts) = n, \A k \in 1..n : parts[k] \in Nat,
         NEW b, NEW w, \A k \in 0..n : b[k] \in Nat, \A k \in 1..n : w[k] \in Nat,
         \A k \in 1..n : b[k] = b[k - 1] + w[k], \A k \in 1..n : parts[k] <= w[k]
  PROVE  Spent(parts)[n] <= b[n]
<1> DEFINE s == Spent(parts)
           bad == {k \in 0..n : ~(s[k] <= b[k])}
<1>1. /\ s[0] = 0 /\ \A k \in 1..n : s[k] = Capped(s[k - 1] + parts[k])
      /\ \A k \in 0..n : s[k] \in 0..Unreachable
  BY SpentAt
<1> HIDE DEF s
<1>2. 0 \notin bad /\ bad \subseteq 0..n
  BY <1>1
<1>3. ASSUME NEW k \in 1..n, k \in bad PROVE k - 1 \in bad
  <2> SUFFICES ASSUME s[k - 1] <= b[k - 1] PROVE FALSE
    OBVIOUS
  <2>1. k - 1 \in 0..n /\ k \in 0..n
    OBVIOUS
  <2>2. s[k - 1] \in Nat /\ b[k - 1] \in Nat /\ w[k] \in Nat /\ parts[k] \in Nat
    BY <1>1, <2>1
  <2>3. s[k - 1] + parts[k] \in Nat /\ s[k - 1] + parts[k] <= b[k - 1] + w[k]
    BY <2>2
  <2>4. Capped(s[k - 1] + parts[k]) <= s[k - 1] + parts[k] /\ Capped(s[k - 1] + parts[k]) \in 0..Unreachable
    BY <2>3, CappedIs
  <2>5. s[k] <= b[k]
    BY <1>1, <2>2, <2>3, <2>4
  <2> QED BY <1>3, <2>5
<1>4. bad = {}
  <2> HIDE DEF bad
  <2> QED BY <1>2, <1>3, NoneBefore
<1>5. n \in 0..n
  OBVIOUS
<1> QED BY <1>4, <1>5 DEF s

\* What adds up to as much as the parts cost, or less, is not above Spent while
\* that is not cut off.
LEMMA SpentIsMost ==
  ASSUME NEW n \in Nat, NEW parts, Len(parts) = n, \A k \in 1..n : parts[k] \in Nat,
         NEW b, NEW w, \A k \in 0..n : b[k] \in Nat, \A k \in 1..n : w[k] \in Nat, b[0] = 0,
         \A k \in 1..n : b[k] = b[k - 1] + w[k],
         \A k \in 1..n : Spent(parts)[k - 1] < Unreachable /\ parts[k] < Unreachable => w[k] <= parts[k],
         Spent(parts)[n] < Unreachable
  PROVE  b[n] <= Spent(parts)[n]
<1> DEFINE s == Spent(parts)
           bad == {k \in 0..n : ~(s[k] < Unreachable => b[k] <= s[k])}
<1>0. Unreachable \in Nat
  BY GrammarAssumption
<1>1. /\ s[0] = 0 /\ \A k \in 1..n : s[k] = Capped(s[k - 1] + parts[k])
      /\ \A k \in 0..n : s[k] \in 0..Unreachable
  BY SpentAt
<1>a. /\ \A k \in 1..n : s[k - 1] < Unreachable /\ parts[k] < Unreachable => w[k] <= parts[k]
      /\ s[n] < Unreachable
  OBVIOUS
<1> HIDE DEF s
<1>2. 0 \notin bad /\ bad \subseteq 0..n
  BY <1>1
<1>3. ASSUME NEW k \in 1..n, k \in bad PROVE k - 1 \in bad
  <2> SUFFICES ASSUME s[k - 1] < Unreachable => b[k - 1] <= s[k - 1] PROVE FALSE
    OBVIOUS
  <2>1. k - 1 \in 0..n /\ k \in 0..n /\ s[k] < Unreachable /\ ~(b[k] <= s[k])
    BY <1>3
  <2>2. s[k - 1] \in Nat /\ b[k - 1] \in Nat /\ w[k] \in Nat /\ parts[k] \in Nat
    BY <1>0, <1>1, <2>1
  <2>3. s[k - 1] + parts[k] \in Nat
    BY <2>2
  <2>4. Capped(s[k - 1] + parts[k]) < Unreachable => Capped(s[k - 1] + parts[k]) = s[k - 1] + parts[k]
    BY <2>3, CappedIs
  <2>5. s[k] = s[k - 1] + parts[k]
    BY <1>1, <2>1, <2>4
  <2>6. s[k - 1] < Unreachable /\ parts[k] < Unreachable
    BY <1>0, <2>1, <2>2, <2>5
  <2>7. b[k - 1] <= s[k - 1] /\ w[k] <= parts[k] /\ b[k] = b[k - 1] + w[k]
    BY <1>a, <2>6
  <2> QED BY <2>1, <2>2, <2>5, <2>7
<1>4. bad = {}
  <2> HIDE DEF bad
  <2> QED BY <1>2, <1>3, NoneBefore
<1>5. n \in 0..n
  OBVIOUS
<1> QED BY <1>4, <1>5, <1>a DEF s

\* One of these nodes is below this one.
Has(way, nodes) == \E x \in nodes : x # way /\ IsPrefix(way, x)

\* A set of nodes each of which has another below it is empty.
LEMMA NoneUp ==
  ASSUME NEW d, IsTree(d), NEW bad, bad \subseteq DOMAIN d, \A way \in bad : Has(way, bad)
  PROVE  bad = {}
<1> DEFINE T == {Cardinality(Through(d, way)) : way \in bad}
<1> SUFFICES ASSUME bad # {} PROVE FALSE
  OBVIOUS
<1>0. IsFiniteSet(DOMAIN d) /\ DOMAIN d \subseteq Ways
  BY DEF IsTree
<1>1. \A way : IsFiniteSet(Through(d, way)) /\ Cardinality(Through(d, way)) \in Nat
  <2>1. \A way : Through(d, way) \subseteq DOMAIN d
    BY DEF Through
  <2> QED BY <1>0, <2>1, FS_Subset, FS_CardinalityType
<1>2. T \subseteq Nat /\ T # {}
  BY <1>1
<1>3. PICK h \in T : \A j \in T : h <= j
  <2> HIDE DEF T
  <2> QED BY <1>2, LeastNatural
<1>4. PICK way \in bad : h = Cardinality(Through(d, way))
  OBVIOUS
<1>5. PICK x \in bad : x # way /\ IsPrefix(way, x)
  BY DEF Has
<1>6. way \in Ways /\ x \in Ways /\ way \in DOMAIN d
  BY <1>0
<1>7. Through(d, x) \subseteq Through(d, way)
  BY <1>0, <1>5, <1>6, PrefixGoesOn DEF Through
<1>8. way \in Through(d, way)
  BY <1>6, RootWay DEF Through
<1>9. way \notin Through(d, x)
  <2> SUFFICES ASSUME IsPrefix(x, way) PROVE FALSE
    BY DEF Through
  <2>1. /\ After(x, Len(way)) \in Ways /\ x = way \o After(x, Len(way))
        /\ Len(x) = Len(way) + Len(After(x, Len(way)))
    BY <1>5, <1>6, Beginning
  <2>2. Len(way) = Len(x) + Len(After(way, Len(x))) /\ After(way, Len(x)) \in Ways
    BY <1>6, Beginning
  <2>3. /\ Len(way) \in Nat /\ Len(x) \in Nat
        /\ Len(After(x, Len(way))) \in Nat /\ Len(After(way, Len(x))) \in Nat
    BY <1>6, <2>1, <2>2, RootWay
  <2>4. ~(Len(After(x, Len(way))) \in Nat \ {0})
    BY <2>1, <2>2, <2>3
  <2>5. After(x, Len(way)) = <<>>
    BY <2>1, <2>4, RootWay
  <2> QED BY <1>5, <1>6, <2>1, <2>5, RootWay
<1>10. Cardinality(Through(d, x)) <= Cardinality(Through(d, way))
       /\ Cardinality(Through(d, x)) # Cardinality(Through(d, way))
  BY <1>1, <1>7, <1>8, <1>9, FS_Subset
<1>11. h <= Cardinality(Through(d, x))
  BY <1>3
<1> QED BY <1>1, <1>4, <1>10, <1>11

\* No production costs more than its body.
Paid(g, prices) == \A i \in DOMAIN g.names : prices[i] <= CostOf(g, prices)[<<i>>]

\* A child of a node of a tree.
LEMMA ChildIs ==
  ASSUME NEW d, IsTree(d), NEW way \in DOMAIN d, NEW k \in 1..d[way].kids
  PROVE  /\ k \in Nat \ {0} /\ Append(way, k) \in DOMAIN d /\ Append(way, k) # way
         /\ IsPrefix(way, Append(way, k))
<1>1. way \in Ways /\ d[way].kids \in Nat
  BY DEF IsTree
<1>2. k \in Nat \ {0}
  BY <1>1
<1>3. Append(way, k) \in DOMAIN d
  BY DEF IsTree
<1>4. IsPrefix(way, Append(way, k))
  BY <1>1, <1>2, OneMoreBegins, RootWay
<1>5. Append(way, k) # way
  <2>1. Len(Append(way, k)) = Len(way) + 1 /\ Len(way) \in Nat
    BY <1>1, <1>2, OneMore, RootWay
  <2> QED BY <2>1
<1> QED BY <1>2, <1>3, <1>4, <1>5

\* The nodes that write less than their places cost.
Short(g, cost, d) ==
  {way \in DOMAIN d : d[way].at # <<>> /\ ~(cost[d[way].at] <= Cardinality(Written(d, way)))}

\* Below each of them there is another.
LEMMA ShortBelow ==
  ASSUME NEW g, WellFormed(g), NEW prices, Priced(g, prices), Paid(g, prices),
         NEW d, Derives(g, d), NEW way \in Short(g, CostOf(g, prices), d)
  PROVE  Has(way, Short(g, CostOf(g, prices), d))
<1> DEFINE c == CostOf(g, prices)
           bad == Short(g, c, d)
           W(v) == Cardinality(Written(d, v))
           x == d[way]
           p == x.at
           node == NodeAt(g, p)
<1> SUFFICES ASSUME ~Has(way, bad) PROVE FALSE
  OBVIOUS
<1>0. IsTree(d) /\ way \in DOMAIN d /\ p # <<>> /\ ~(c[p] <= W(way)) /\ x.kids \in Nat
  BY DEF Short, Derives, IsTree
<1>1. Admitted(g, d, way)
  BY <1>0 DEF Derives
<1>2. /\ p \in Places(g)
      /\ node.kind = "word" => x.token = node.name
      /\ node.kind = "ref" /\ node.name \in DOMAIN Cut /\ Cut[node.name] # <<>> =>
           x.token \in Range(Cut[node.name])
      /\ node.kind # "word" /\ ~(node.kind = "ref" /\ node.name \in DOMAIN Cut) => x.token = Blank
      /\ node.kind # "prose"
      /\ node.kind = "repeat" =>
           x.kids > 0 /\ \A k \in 1..x.kids : d[Append(way, k)].at = Append(p, 1)
      /\ node.kind = "alt" => \E k \in 1..node.kids : OneOf(d, way, p, k)
      /\ node.kind = "seq" => EachStands(d, way, KidsAt(g, p))
      /\ node.kind = "ref" /\ node.name \notin DOMAIN Cut =>
           /\ Defined(g, node.name) /\ x.kids = 1
           /\ d[Append(way, 1)].at = <<>> /\ d[Append(way, 1)].rule = node.name
  BY <1>0, <1>1, AdmittedAt
<1>3. /\ c[p] = NodeCost(g, prices, c, p) /\ c[p] \in 0..Unreachable
      /\ \A q \in Places(g) : c[q] \in 0..Unreachable
  BY <1>2, CostIs
<1>4. Unreachable \in Nat
  BY GrammarAssumption
<1>5. \A v : W(v) \in Nat
  BY <1>0, WrittenIs
<1>6. ASSUME NEW y \in DOMAIN d, IsPrefix(way, y), y # way, d[y].at \in Places(g)
      PROVE  c[d[y].at] <= W(y)
  <2>1. d[y].at # <<>>
    BY <1>6, PlaceIs
  <2>2. y \notin bad
    BY <1>6 DEF Has
  <2> QED BY <1>6, <2>1, <2>2 DEF Short
<1>7. ASSUME NEW k \in 1..x.kids
      PROVE  /\ Append(way, k) \in DOMAIN d /\ IsPrefix(way, Append(way, k)) /\ Append(way, k) # way
             /\ W(Append(way, k)) <= W(way)
  BY <1>0, ChildIs, WrittenAddsUp
<1>8. /\ node.kind \in {"word", "prose", "ref", "opt", "repeat", "alt", "seq"}
      /\ node.kind \in {"opt", "repeat"} => node.kids = 1
      /\ node.kids \in Nat /\ p \in Ways
      /\ node.kind = "word" => node.name # Blank
      /\ \A k \in 1..node.kids : Append(p, k) \in Places(g)
  BY <1>2, PlaceIs
<1> DEFINE kids == KidCosts(g, c, p)
           n == node.kids
<1>9. /\ Len(kids) = n /\ (\A k \in 1..n : kids[k] = c[Append(p, k)]) /\ \A k \in 1..n : kids[k] \in Nat
      /\ Range(kids) = {kids[k] : k \in 1..n}
  BY <1>2, KidCostsAre
<1>10. /\ node.kind = "word" => c[p] = 1
       /\ node.kind = "ref" => c[p] = RefCost(g, prices, node.name)
       /\ node.kind = "opt" => c[p] = 0
       /\ node.kind = "alt" => c[p] = Min({Unreachable} \cup Range(kids))
       /\ node.kind = "repeat" => c[p] = kids[1]
       /\ node.kind = "seq" => c[p] = Spent(kids)[n]
  BY <1>3, NodeCostIs
<1>11. x.token # Blank => 1 <= W(way)
  BY <1>0, WrittenAddsUp
<1> HIDE DEF c, W, bad, kids, p, node, n, x
<1>12. CASE node.kind = "word"
  BY <1>0, <1>2, <1>8, <1>10, <1>11, <1>12
<1>13. CASE node.kind = "opt"
  BY <1>0, <1>5, <1>10, <1>13
<1>14. CASE node.kind = "repeat"
  <2>1. 1 \in 1..x.kids /\ 1 \in 1..n
    BY <1>0, <1>2, <1>8, <1>14 DEF n
  <2>2. d[Append(way, 1)].at = Append(p, 1) /\ Append(p, 1) \in Places(g)
    BY <1>2, <1>8, <1>14, <2>1 DEF n
  <2>3. c[Append(p, 1)] <= W(Append(way, 1)) /\ W(Append(way, 1)) <= W(way)
    BY <1>6, <1>7, <2>1, <2>2
  <2>4. c[p] = c[Append(p, 1)] /\ c[p] \in Nat
    BY <1>3, <1>4, <1>9, <1>10, <1>14, <2>1
  <2> QED BY <1>0, <1>5, <2>3, <2>4
<1>15. CASE node.kind = "alt"
  <2>1. PICK k \in 1..n : OneOf(d, way, p, k)
    BY <1>2, <1>15 DEF n
  <2>2. x.kids = 1 /\ d[Append(way, 1)].at = Append(p, k)
    <3>1. EachStands(d, way, One(Append(p, k)))
      BY <2>1 DEF OneOf, One
    <3> DEFINE q == Append(p, k)
    <3>2. Len(One(q)) = 1 /\ One(q)[1] = q
      <4>1. q \in {q}
        OBVIOUS
      <4> QED BY <4>1, OneIs
    <3> HIDE DEF q
    <3>3. 1 \in 1..1
      OBVIOUS
    <3> QED BY <3>1, <3>2, <3>3 DEF EachStands, q, x
  <2>3. 1 \in 1..x.kids /\ Append(p, k) \in Places(g)
    BY <1>8, <2>1, <2>2 DEF n
  <2>4. c[Append(p, k)] <= W(Append(way, 1)) /\ W(Append(way, 1)) <= W(way)
    BY <1>6, <1>7, <2>2, <2>3
  <2>5. kids[k] = c[Append(p, k)] /\ kids[k] \in Nat /\ kids[k] \in Range(kids)
    BY <1>9, <2>1
  <2> DEFINE U == {Unreachable} \cup Range(kids)
  <2>6. U \subseteq Nat /\ U # {} /\ kids[k] \in U
    BY <1>4, <1>9, <2>5
  <2> HIDE DEF U
  <2>7. Min(U) \in U /\ Min(U) <= kids[k]
    BY <2>6, MinIs
  <2>8. c[p] = Min(U) /\ c[p] \in Nat
    BY <1>10, <1>15, <2>6, <2>7 DEF U
  <2> QED BY <1>0, <1>5, <2>4, <2>5, <2>7, <2>8
<1>16. CASE node.kind = "seq"
  <2>1. x.kids = n /\ \A k \in 1..n : d[Append(way, k)].at = Append(p, k)
    <3>1. EachStands(d, way, KidsAt(g, p))
      BY <1>2, <1>16
    <3>2. Len(KidsAt(g, p)) = n
      BY <1>2, KidsAtIs DEF n, node
    <3>3. \A k \in 1..n : KidsAt(g, p)[k] = Append(p, k)
      BY DEF KidsAt, n, node
    <3> QED BY <3>1, <3>2, <3>3 DEF EachStands, x
  <2> DEFINE b == [k \in 0..n |-> Cardinality(Begun(d, way, k))]
             w == [k \in 1..n |-> W(Append(way, k))]
  <2>2. /\ \A k \in 1..n : Cardinality(Begun(d, way, k)) =
             Cardinality(Begun(d, way, k - 1)) + W(Append(way, k))
        /\ Cardinality(Begun(d, way, n)) <= W(way)
    BY <1>0, <2>1, WrittenAddsUp DEF x, W
  <2>3. \A k : Cardinality(Begun(d, way, k)) \in Nat
    BY <1>0, WrittenIs
  <2>4. n \in Nat
    BY <1>8 DEF n
  <2>5. \A k \in 1..n : k \in 0..n /\ k - 1 \in 0..n
    BY <2>4
  <2>6. /\ \A k \in 0..n : b[k] \in Nat
        /\ \A k \in 1..n : w[k] \in Nat /\ w[k] = W(Append(way, k))
        /\ \A k \in 1..n : b[k] = b[k - 1] + w[k]
        /\ b[n] <= W(way)
    BY <1>5, <2>2, <2>3, <2>4, <2>5
  <2>7. \A k \in 1..n : kids[k] <= w[k]
    <3> SUFFICES ASSUME NEW k \in 1..n PROVE kids[k] <= w[k]
      OBVIOUS
    <3>1. Append(p, k) \in Places(g)
      BY <1>8 DEF n
    <3>2. c[Append(p, k)] <= W(Append(way, k))
      BY <1>6, <1>7, <2>1, <3>1
    <3> QED BY <1>9, <2>6, <3>2
  <2> HIDE DEF b, w
  <2>8. Spent(kids)[n] <= b[n]
    BY <1>9, <2>4, <2>6, <2>7, SpentIsLeast
  <2>9. b[n] \in Nat /\ c[p] \in Nat
    BY <1>3, <1>4, <2>4, <2>6
  <2> QED BY <1>0, <1>5, <1>10, <1>16, <2>6, <2>8, <2>9
<1>17. CASE node.kind = "ref" /\ node.name \in DOMAIN Cut
  <2>1. c[p] = IF Cut[node.name] = <<>> THEN 0 ELSE 1
    BY <1>10, <1>17 DEF RefCost
  <2>2. Cut[node.name] # <<>> => x.token # Blank
    BY <1>2, <1>17, GrammarAssumption
  <2> QED BY <1>0, <1>5, <1>11, <2>1, <2>2
<1>18. CASE node.kind = "ref" /\ node.name \notin DOMAIN Cut
  <2> DEFINE i == RuleNo(g, node.name)
             y == Append(way, 1)
             z == Append(y, 1)
  <2>1. /\ Defined(g, node.name) /\ x.kids = 1 /\ d[y].at = <<>> /\ d[y].rule = node.name
    BY <1>2, <1>18
  <2>2. i \in DOMAIN g.names
    BY <2>1, RuleNoIs
  <2>3. c[p] = prices[i]
    BY <1>10, <1>18, <2>1 DEF RefCost
  <2>4. prices[i] <= c[<<i>>] /\ prices[i] \in 0..Unreachable
    BY <2>2 DEF Paid, Priced, c
  <2>5. 1 \in 1..x.kids
    BY <2>1
  <2>6. y \in DOMAIN d /\ IsPrefix(way, y) /\ y # way /\ W(y) <= W(way)
    BY <1>7, <2>5
  <2>7. Admitted(g, d, y)
    BY <2>6 DEF Derives
  <2>8. BodyOf(d, y, i)
    BY <2>1, <2>7, AdmittedEntry
  <2>9. d[y].kids = 1 /\ d[z].at = <<i>>
    <3> DEFINE q == <<i>>
    <3>1. EachStands(d, y, One(q))
      BY <2>8 DEF BodyOf, One
    <3>2. Len(One(q)) = 1 /\ One(q)[1] = q
      <4>1. q \in {q}
        OBVIOUS
      <4> QED BY <4>1, OneIs
    <3> HIDE DEF q
    <3>3. 1 \in 1..1
      OBVIOUS
    <3> QED BY <3>1, <3>2, <3>3 DEF EachStands, q
  <2>10. 1 \in 1..d[y].kids
    BY <2>9
  <2> HIDE DEF y, z, i
  <2>11. z \in DOMAIN d /\ IsPrefix(y, z) /\ W(z) <= W(y) /\ z # y
    BY <1>0, <2>6, <2>10, ChildIs, WrittenAddsUp DEF z, W
  <2>12. IsPrefix(way, z) /\ z # way
    <3>1. way \in Ways /\ y \in Ways /\ z \in Ways
      BY <1>0, <2>6, <2>11 DEF IsTree
    <3>2. IsPrefix(way, z)
      BY <2>6, <2>11, <3>1, PrefixGoesOn
    <3>3. Len(y) = Len(way) + 1 /\ Len(z) = Len(y) + 1 /\ Len(way) \in Nat
      BY <3>1, OneMore, RootWay DEF y, z
    <3>4. Len(z) # Len(way)
      BY <3>3
    <3> QED BY <3>2, <3>4
  <2>13. <<i>> \in Places(g)
    BY <2>2, VisitedRoot
  <2>14. c[<<i>>] <= W(z)
    BY <1>6, <2>9, <2>11, <2>12, <2>13
  <2>15. c[<<i>>] \in 0..Unreachable
    BY <1>3, <2>13
  <2> DEFINE e == c[<<i>>]
  <2> HIDE DEF e
  <2>16. e <= W(z) /\ e \in 0..Unreachable /\ prices[i] <= e
    BY <2>4, <2>14, <2>15 DEF e
  <2> QED BY <1>0, <1>4, <1>5, <2>3, <2>4, <2>6, <2>11, <2>16
<1> QED BY <1>2, <1>8, <1>12, <1>13, <1>14, <1>15, <1>16, <1>17, <1>18

\* A derivation writes no fewer tokens than its place costs.
LEMMA NothingIsShorter ==
  ASSUME NEW g, WellFormed(g), NEW prices, Priced(g, prices), Paid(g, prices),
         NEW d, Derives(g, d), NEW way \in DOMAIN d, d[way].at # <<>>
  PROVE  CostOf(g, prices)[d[way].at] <= Cardinality(Written(d, way))
<1> DEFINE bad == Short(g, CostOf(g, prices), d)
<1>1. bad \subseteq DOMAIN d /\ IsTree(d)
  BY DEF Short, Derives
<1>2. \A v \in bad : Has(v, bad)
  BY ShortBelow
<1>3. bad = {}
  <2> HIDE DEF bad
  <2> QED BY <1>1, <1>2, NoneUp
<1> QED BY <1>3 DEF Short

(***************************************************************************)
(* What the smallest derivations write                                     *)
(***************************************************************************)

\* What a function makes of a finite set without making anything twice.
LEMMA OneToOne ==
  ASSUME NEW S, IsFiniteSet(S), NEW f, \A x, y \in S : f[x] = f[y] => x = y,
         NEW T, T = {f[x] : x \in S}
  PROVE  IsFiniteSet(T) /\ Cardinality(T) = Cardinality(S)
<1> DEFINE g == [x \in S |-> f[x]]
<1>1. g \in [S -> T] /\ (\A t \in T : \E s \in S : g[s] = t) /\ \A x \in S : g[x] = f[x]
  OBVIOUS
<1> HIDE DEF g
<1>2. \A x, y \in S : g[x] = g[y] => x = y
  BY <1>1
<1>3. g \in Bijection(S, T)
  BY <1>1, <1>2, Fun_IsBij
<1>4. ExistsBijection(S, T)
  BY <1>3 DEF ExistsBijection
<1> QED BY <1>4, FS_Bijection

\* A tree over trees writes from a child on what the child's tree does.
LEMMA BranchWrites ==
  ASSUME NEW x, NEW S, NEW kids \in Seq(S), \A t \in S : IsTree(t),
         With(x, Len(kids)).kids = Len(kids), NEW k \in 1..Len(kids)
  PROVE  Cardinality(Written(Branch(x, kids), Append(<<>>, k))) = Cardinality(Tokens(kids[k]))
<1> DEFINE b == Branch(x, kids)
           v == <<k>>
           t == kids[k]
           W == Written(b, v)
           f == [w \in Tokens(t) |-> v \o w]
<1>1. Len(kids) \in Nat /\ k \in Nat \ {0} /\ t \in S
  BY LenProperties, ElementOfSeq
<1>2. IsTree(t) /\ DOMAIN t \subseteq Ways /\ Tokens(t) \subseteq DOMAIN t /\ IsFiniteSet(Tokens(t))
  BY <1>1, WrittenIs DEF IsTree, Tokens
<1>3. v \in Ways /\ Len(v) = 1 /\ v = Append(<<>>, k)
  BY <1>1, StepAnd, RootWay
<1>4. /\ DOMAIN b \subseteq Ways
      /\ \A w \in Ways : /\ v \o w \in DOMAIN b <=> w \in DOMAIN t
                         /\ w \in DOMAIN t => b[v \o w] = t[w]
  <2>1. \A s \in S : DOMAIN s \subseteq Ways
    BY DEF IsTree
  <2> QED BY <1>1, <2>1, BranchAt
<1> HIDE DEF b, v, t, W, f
<1>5. \A w \in Ways : IsPrefix(v, v \o w) /\ After(v \o w, Len(v)) = w
  BY <1>3, Along
<1>6. DOMAIN f = Tokens(t) /\ \A w \in Tokens(t) : f[w] = v \o w
  BY DEF f
<1>7. W = {f[w] : w \in Tokens(t)}
  <2>1. ASSUME NEW w \in Tokens(t) PROVE f[w] \in W
    <3>1. w \in DOMAIN t /\ w \in Ways /\ t[w].token # Blank
      BY <1>2 DEF Tokens
    <3>2. v \o w \in DOMAIN b /\ b[v \o w].token # Blank
      BY <1>4, <3>1
    <3> QED BY <1>5, <1>6, <3>1, <3>2 DEF W, Written, Tokens
  <2>2. ASSUME NEW u \in W PROVE \E w \in Tokens(t) : u = f[w]
    <3>1. u \in DOMAIN b /\ u \in Ways /\ b[u].token # Blank /\ IsPrefix(v, u)
      BY <1>4 DEF W, Written, Tokens
    <3> DEFINE w == After(u, Len(v))
    <3>2. w \in Ways /\ u = v \o w
      BY <1>3, <3>1, Beginning
    <3> HIDE DEF w
    <3>3. w \in DOMAIN t /\ b[u] = t[w]
      BY <1>4, <3>1, <3>2
    <3>4. w \in Tokens(t)
      BY <3>1, <3>3 DEF Tokens
    <3> QED BY <1>6, <3>2, <3>4
  <2> QED BY <2>1, <2>2
<1>8. ASSUME NEW w \in Tokens(t), NEW u \in Tokens(t), f[w] = f[u] PROVE w = u
  <2>1. w \in Ways /\ u \in Ways /\ v \o w = v \o u
    BY <1>2, <1>6, <1>8
  <2>2. After(v \o w, Len(v)) = w /\ After(v \o u, Len(v)) = u
    BY <1>5, <2>1
  <2> QED BY <2>1, <2>2
<1>9. Cardinality(W) = Cardinality(Tokens(t))
  <2> DEFINE Z == Tokens(t)
  <2>1. \A w, u \in Z : f[w] = f[u] => w = u
    BY <1>8
  <2>2. IsFiniteSet(Z) /\ DOMAIN f = Z /\ W = {f[w] : w \in Z}
    BY <1>2, <1>6, <1>7
  <2> HIDE DEF Z
  <2>3. Cardinality(W) = Cardinality(Z)
    BY <2>1, <2>2, OneToOne
  <2> QED BY <2>3 DEF Z
<1> QED BY <1>3, <1>9 DEF W, b, v, t

\* A tree over one tree, which writes nothing itself, writes what that does.
LEMMA OnlyChildWrites ==
  ASSUME NEW x, NEW t, IsTree(t), With(x, 1).kids = 1, With(x, 1).token = Blank
  PROVE  LET b == Branch(x, <<t>>)
         IN  IsTree(b) /\ Cardinality(Tokens(b)) = Cardinality(Tokens(t))
<1> DEFINE kids == One(t)
           S == {t}
           b == Branch(x, kids)
<1>1. kids \in Seq(S) /\ Len(kids) = 1 /\ kids[1] = t /\ \A s \in S : IsTree(s)
  BY OneIs
<1>2. b = Branch(x, <<t>>)
  BY DEF One
<1> HIDE DEF kids, S, b
<1>3. With(x, Len(kids)) = With(x, 1) /\ With(x, Len(kids)).kids = Len(kids)
  BY <1>1
<1>4. IsTree(b)
  BY <1>1, <1>3, BranchTree DEF b
<1>5. b[<<>>] = With(x, 1) /\ <<>> \in DOMAIN b
  <2>1. \A s \in S : DOMAIN s \subseteq Ways
    BY <1>1 DEF IsTree
  <2> QED BY <1>1, <1>3, <2>1, BranchAt DEF b
<1>6. b[<<>>].kids = 1 /\ b[<<>>].token = Blank
  BY <1>5
<1>7. /\ Cardinality(Begun(b, <<>>, 0)) = 0
      /\ \A k \in 1..1 : Cardinality(Begun(b, <<>>, k)) =
           Cardinality(Begun(b, <<>>, k - 1)) + Cardinality(Written(b, Append(<<>>, k)))
      /\ Cardinality(Written(b, <<>>)) = Cardinality(Begun(b, <<>>, 1))
  BY <1>4, <1>5, <1>6, WrittenAddsUp
<1>8. 1 \in 1..1 /\ 1 - 1 = 0
  OBVIOUS
<1>9. Cardinality(Written(b, Append(<<>>, 1))) = Cardinality(Tokens(t))
  <2>1. 1 \in 1..Len(kids)
    BY <1>1
  <2> QED BY <1>1, <1>3, <2>1, BranchWrites DEF b
<1>10. Cardinality(Tokens(t)) \in Nat
  BY WrittenIs
<1>11. Cardinality(Begun(b, <<>>, 1)) = 0 + Cardinality(Tokens(t))
  BY <1>7, <1>8, <1>9
<1>12. Written(b, <<>>) = Tokens(b)
  BY <1>4, WrittenIs
<1>13. Cardinality(Tokens(b)) = Cardinality(Tokens(t))
  BY <1>7, <1>10, <1>11, <1>12
<1> QED BY <1>2, <1>4, <1>13

\* The places that have a cost in the table, and the references, whose
\* productions have.
Reached(g, table, at) == at \in DOMAIN table \/ NodeAt(g, at).kind = "ref"

\* What is in a table is what it costs there, and so is what is below it as far
\* as cost came.
Agrees(g, prices, table) ==
  LET cost == CostOf(g, prices)
  IN  \A at \in DOMAIN table :
        /\ table[at] = cost[at]
        /\ \A k \in 1..NodeAt(g, at).kids :
             Enters(g, cost, at, k) =>
               Append(at, k) \in DOMAIN table /\ table[Append(at, k)] = cost[Append(at, k)]

\* The table that was come by does.
LEMMA TableIs ==
  ASSUME NEW g, WellFormed(g), NEW prices, NEW table, Settled(g, prices, table)
  PROVE  Agrees(g, prices, table)
<1> DEFINE cost == CostOf(g, prices)
<1> SUFFICES ASSUME NEW at \in DOMAIN table
             PROVE  /\ table[at] = cost[at]
                    /\ \A k \in 1..NodeAt(g, at).kids :
                         Enters(g, cost, at, k) =>
                           Append(at, k) \in DOMAIN table /\ table[Append(at, k)] = cost[Append(at, k)]
  BY DEF Agrees
<1>1. PICK i \in DOMAIN g.names : at \in Visited(g, cost, i)
  BY DEF Settled
<1>2. at \in Places(g)
  BY <1>1 DEF Visited
<1>3. \A p \in Visited(g, cost, i) : p \in DOMAIN table /\ table[p] = cost[p]
  BY DEF Settled
<1>4. ASSUME NEW k \in 1..NodeAt(g, at).kids, Enters(g, cost, at, k)
      PROVE  Append(at, k) \in Visited(g, cost, i)
  BY <1>1, <1>2, <1>4, VisitedStep
<1> QED BY <1>1, <1>3, <1>4

\* What a leaf writes.
LEMMA LeafWrites ==
  ASSUME NEW x, x.kids = 0
  PROVE  /\ Cardinality(Tokens(Leaf(x))) \in Nat /\ Cardinality(Tokens(Leaf(x))) <= 1
         /\ x.token = Blank => Cardinality(Tokens(Leaf(x))) = 0
<1> DEFINE m == Leaf(x)
<1>1. DOMAIN m = {<<>>} /\ m[<<>>] = x /\ IsTree(m)
  BY LeafTree
<1> HIDE DEF m
<1>2. Tokens(m) \subseteq {<<>>} /\ (x.token = Blank => Tokens(m) = {})
  BY <1>1 DEF Tokens
<1>3. Cardinality({<<>>}) = 1 /\ IsFiniteSet({<<>>}) /\ Cardinality({}) = 0
  BY FS_Singleton, FS_EmptySet
<1>4. Cardinality(Tokens(m)) <= 1
  BY <1>2, <1>3, FS_Subset
<1>5. Cardinality(Tokens(m)) \in Nat
  BY <1>1, WrittenIs
<1>6. x.token = Blank => Cardinality(Tokens(m)) = 0
  BY <1>2, <1>3
<1> QED BY <1>4, <1>5, <1>6 DEF m

\* Derivations that write no more than the productions and their places cost.
Frugal(g, prices, table, smaller) ==
  \A p \in Places(g) : smaller[p] # Nothing =>
    /\ Stands(g, smaller[p], p)
    /\ \A i \in DOMAIN g.names : p = <<i>> => Cardinality(Tokens(smaller[p])) <= prices[i]
    /\ Len(p) > 1 /\ Reached(g, table, p) =>
         Cardinality(Tokens(smaller[p])) <= CostOf(g, prices)[p]

\* m writes what the smallest at each of the places does, one after the other.
WritesEach(m, smaller, places) ==
  LET n == Len(places)
  IN  /\ IsTree(m) /\ n \in Nat
      /\ \A k \in 1..n : smaller[places[k]] # Nothing
      /\ \A k \in 1..n : Cardinality(Tokens(smaller[places[k]])) \in Nat
      /\ Cardinality(Begun(m, <<>>, 0)) = 0
      /\ \A k \in 0..n : Cardinality(Begun(m, <<>>, k)) \in Nat
      /\ \A k \in 1..n : Cardinality(Begun(m, <<>>, k)) =
           Cardinality(Begun(m, <<>>, k - 1)) + Cardinality(Tokens(smaller[places[k]]))
      /\ Cardinality(Tokens(m)) = Cardinality(Begun(m, <<>>, n))

\* The smallest over some places does.
LEMMA OverWrites ==
  ASSUME NEW g, NEW at, NEW smaller,
         \A p \in Places(g) : smaller[p] = Nothing \/ Stands(g, smaller[p], p),
         NEW places \in Seq(Places(g)), SmallestOf(smaller, at, places) # Nothing
  PROVE  WritesEach(SmallestOf(smaller, at, places), smaller, places)
<1> DEFINE m == SmallestOf(smaller, at, places)
<1> DEFINE n == Len(places)
           ds == [k \in DOMAIN places |-> smaller[places[k]]]
           S == {smaller[places[k]] : k \in DOMAIN places}
<1>1. Over(g, m, smaller, at, places)
  BY SmallestOfIs
<1>2. n \in Nat /\ DOMAIN places = 1..n /\ \A k \in 1..n : places[k] \in Places(g)
  BY LenProperties, ElementOfSeq
<1> HIDE DEF m
<1>3. /\ IsTree(m) /\ m[<<>>] = With(Plain(at), n)
      /\ \A k \in 1..n : smaller[places[k]] # Nothing
      /\ m = Branch(Plain(at), ds)
  BY <1>1 DEF Over
<1>4. ds \in Seq(S) /\ Len(ds) = n /\ \A k \in 1..n : ds[k] = smaller[places[k]]
  <2>1. ds = [k \in 1..n |-> smaller[places[k]]] /\ \A k \in 1..n : smaller[places[k]] \in S
    BY <1>2
  <2> HIDE DEF ds, S, n
  <2> QED BY <1>2, <2>1
<1>5. \A t \in S : IsTree(t)
  <2> SUFFICES ASSUME NEW k \in 1..n PROVE IsTree(smaller[places[k]])
    BY <1>2
  <2>1. Stands(g, smaller[places[k]], places[k])
    BY <1>2, <1>3
  <2> QED BY <2>1 DEF Stands, Derives
<1> HIDE DEF ds, S, n
<1>6. With(Plain(at), n).kids = n /\ With(Plain(at), n).token = Blank
  BY WithPlain
<1>7. <<>> \in DOMAIN m /\ m[<<>>].kids = n /\ m[<<>>].token = Blank
  BY <1>3, <1>6 DEF IsTree
<1>8. /\ Cardinality(Begun(m, <<>>, 0)) = 0
      /\ \A k \in 1..n : Cardinality(Begun(m, <<>>, k)) =
           Cardinality(Begun(m, <<>>, k - 1)) + Cardinality(Written(m, Append(<<>>, k)))
      /\ Cardinality(Written(m, <<>>)) = Cardinality(Begun(m, <<>>, n))
  BY <1>3, <1>7, WrittenAddsUp
<1>9. Written(m, <<>>) = Tokens(m) /\ \A k : Cardinality(Begun(m, <<>>, k)) \in Nat
  BY <1>3, WrittenIs
<1>10. ASSUME NEW k \in 1..n
       PROVE  Cardinality(Written(m, Append(<<>>, k))) = Cardinality(Tokens(smaller[places[k]]))
  <2> DEFINE x == Plain(at)
  <2> HIDE DEF x
  <2>1. m = Branch(x, ds) /\ With(x, Len(ds)).kids = Len(ds) /\ k \in 1..Len(ds)
    BY <1>3, <1>4, <1>6 DEF x
  <2>2. Cardinality(Written(Branch(x, ds), Append(<<>>, k))) = Cardinality(Tokens(ds[k]))
    BY <1>4, <1>5, <2>1, BranchWrites
  <2> QED BY <1>4, <2>1, <2>2
<1>11. \A k \in 1..n : Cardinality(Tokens(smaller[places[k]])) \in Nat
  <2> SUFFICES ASSUME NEW k \in 1..n PROVE Cardinality(Tokens(ds[k])) \in Nat
    BY <1>4
  <2>1. k \in 1..Len(ds)
    BY <1>4
  <2>2. ds[k] \in S
    BY <1>4, <2>1, ElementOfSeq
  <2> QED BY <1>5, <2>2, WrittenIs
<1> QED BY <1>2, <1>3, <1>8, <1>9, <1>10, <1>11 DEF m, n, WritesEach

\* The smallest derivation, where the table reaches, writes no more than it says.
LEMMA SmallestReaches ==
  ASSUME NEW g, WellFormed(g), NEW prices, Priced(g, prices), NEW table, NodesPriced(g, table),
         Agrees(g, prices, table), NEW smaller, Frugal(g, prices, table, smaller),
         NEW at \in Places(g), Reached(g, table, at), SmallestAt(g, table, smaller, at) # Nothing
  PROVE  Cardinality(Tokens(SmallestAt(g, table, smaller, at))) <= CostOf(g, prices)[at]
<1> DEFINE m == SmallestAt(g, table, smaller, at)
           n == NodeAt(g, at)
           c == CostOf(g, prices)
           T(d) == Cardinality(Tokens(d))
<1> SUFFICES T(m) <= c[at]
  OBVIOUS
<1>0. Unreachable \in Nat \ {0}
  BY GrammarAssumption
<1>1. /\ at # <<>> /\ n.kids \in Nat
      /\ n.kind \in {"word", "prose", "ref", "opt", "repeat", "alt", "seq"}
      /\ n.kind \in {"opt", "repeat"} => n.kids = 1
      /\ \A k \in 1..n.kids : Append(at, k) \in Places(g)
  BY PlaceIs
<1>2. /\ n.kind = "word" => m = Leaf([Plain(at) EXCEPT !.token = n.name])
      /\ n.kind = "opt" => m = Leaf(Plain(at))
      /\ n.kind = "ref" => m = SmallestRef(g, smaller, at, n.name)
      /\ n.kind \in {"seq", "repeat"} => m = SmallestOf(smaller, at, KidsAt(g, at))
      /\ n.kind = "alt" =>
           /\ Writable(g, table, at) # {}
           /\ m = SmallestOf(smaller, at, One(Append(at, Cheapest(g, table, at))))
  BY DEF SmallestAt, One
<1>3. n.kind # "prose" /\ ~(at \in DOMAIN table /\ table[at] >= Unreachable)
  BY DEF SmallestAt
<1>4. c[at] \in 0..Unreachable /\ \A p \in Places(g) : c[p] \in 0..Unreachable
  BY CostIs
<1> DEFINE kids == KidCosts(g, c, at)
<1>5. /\ Len(kids) = n.kids /\ (\A k \in 1..n.kids : kids[k] = c[Append(at, k)])
      /\ \A k \in 1..n.kids : kids[k] \in Nat
      /\ Range(kids) = {kids[k] : k \in 1..n.kids}
  BY KidCostsAre
<1>6. /\ n.kind = "word" => c[at] = 1
      /\ n.kind = "ref" => c[at] = RefCost(g, prices, n.name)
      /\ n.kind = "opt" => c[at] = 0
      /\ n.kind = "alt" => c[at] = Min({Unreachable} \cup Range(kids))
      /\ n.kind = "repeat" => c[at] = kids[1]
      /\ n.kind = "seq" => c[at] = Spent(kids)[n.kids]
  <2>1. c[at] = NodeCost(g, prices, c, at)
    BY CostIs
  <2> QED BY <2>1, NodeCostIs
<1>7. \A p \in Places(g) : smaller[p] = Nothing \/ Stands(g, smaller[p], p)
  BY DEF Frugal
<1>8. ASSUME NEW k \in 1..n.kids, Append(at, k) \in DOMAIN table, smaller[Append(at, k)] # Nothing
      PROVE  T(smaller[Append(at, k)]) <= c[Append(at, k)]
  <2> DEFINE p == Append(at, k)
  <2>1. p \in Places(g) /\ Len(p) > 1
    BY PlaceIs
  <2> HIDE DEF p
  <2>2. T(smaller[p]) <= c[p]
    BY <1>8, <2>1 DEF Frugal, Reached, p
  <2> QED BY <2>2 DEF p
<1>9. ASSUME n.kind # "ref"
      PROVE  /\ at \in DOMAIN table /\ c[at] < Unreachable
             /\ \A k \in 1..n.kids : Enters(g, c, at, k) =>
                  Append(at, k) \in DOMAIN table /\ table[Append(at, k)] = c[Append(at, k)]
  <2>1. at \in DOMAIN table
    BY <1>9 DEF Reached
  <2>2. table[at] = c[at] /\ \A k \in 1..n.kids : Enters(g, c, at, k) =>
          Append(at, k) \in DOMAIN table /\ table[Append(at, k)] = c[Append(at, k)]
    BY <2>1 DEF Agrees
  <2>3. ~(c[at] >= Unreachable)
    BY <1>3, <2>1, <2>2
  <2> HIDE DEF c, n
  <2>4. c[at] < Unreachable
    BY <1>0, <1>4, <2>3
  <2> QED BY <2>1, <2>2, <2>4
<1> HIDE DEF m, c
<1>10. CASE n.kind = "word"
  <2> DEFINE x == [Plain(at) EXCEPT !.token = n.name]
  <2>1. x.kids = 0
    BY DEF Plain, Deriv
  <2>2. m = Leaf(x)
    BY <1>2, <1>10
  <2> HIDE DEF x
  <2> QED BY <1>6, <1>10, <2>1, <2>2, LeafWrites
<1>11. CASE n.kind = "opt"
  <2> DEFINE x == Plain(at)
  <2>1. x.kids = 0 /\ x.token = Blank
    BY DEF Plain, Deriv
  <2>2. m = Leaf(x)
    BY <1>2, <1>11
  <2> HIDE DEF x
  <2> QED BY <1>6, <1>11, <2>1, <2>2, LeafWrites
<1>12. CASE n.kind = "ref" /\ n.name \in DOMAIN Cut
  <2> DEFINE t == IF Cut[n.name] = <<>> THEN Blank ELSE Cut[n.name][1]
             x == [Plain(at) EXCEPT !.token = t]
  <2>1. m = Leaf(x)
    BY <1>2, <1>12 DEF SmallestRef
  <2>2. x.kids = 0 /\ x.token = t
    BY DEF Plain, Deriv
  <2>3. c[at] = IF Cut[n.name] = <<>> THEN 0 ELSE 1
    BY <1>6, <1>12 DEF RefCost
  <2>4. Cut[n.name] = <<>> => t = Blank
    OBVIOUS
  <2> HIDE DEF x, t
  <2>5. Cardinality(Tokens(Leaf(x))) <= 1 /\ (x.token = Blank => Cardinality(Tokens(Leaf(x))) = 0)
    BY <2>2, LeafWrites
  <2> QED BY <2>1, <2>2, <2>3, <2>4, <2>5
<1>13. CASE n.kind = "ref" /\ n.name \notin DOMAIN Cut
  <2> DEFINE i == RuleNo(g, n.name)
             q == <<i>>
             body == smaller[q]
             e == Branch(Entered(n.name), <<body>>)
  <2>1. Defined(g, n.name) /\ body # Nothing /\ m = Branch(Plain(at), <<e>>)
    <3>1. m = SmallestRef(g, smaller, at, n.name)
      BY <1>2, <1>13
    <3> QED BY <1>13, <3>1, TreeThere DEF SmallestRef, m
  <2>2. i \in DOMAIN g.names
    BY <2>1, RuleNoIs
  <2>3. q \in Places(g)
    BY <2>2, VisitedRoot
  <2>4. T(smaller[q]) <= prices[i]
    BY <2>1, <2>2, <2>3 DEF Frugal
  <2>5. c[at] = prices[i]
    BY <1>6, <1>13, <2>1 DEF RefCost
  <2> HIDE DEF q, i
  <2>6. IsTree(body) /\ T(body) <= prices[i]
    BY <1>7, <2>1, <2>3, <2>4 DEF Stands, Derives
  <2> HIDE DEF body
  <2>7. IsTree(e) /\ T(e) = T(body)
    <3> DEFINE x == Entered(n.name)
    <3>1. With(x, 1).kids = 1 /\ With(x, 1).token = Blank
      BY WithEntered
    <3> HIDE DEF x
    <3>2. e = Branch(x, <<body>>)
      BY DEF x
    <3> HIDE DEF e
    <3> QED BY <2>6, <3>1, <3>2, OnlyChildWrites
  <2> HIDE DEF e
  <2>8. T(m) = T(e)
    <3> DEFINE x == Plain(at)
    <3>1. With(x, 1).kids = 1 /\ With(x, 1).token = Blank
      BY WithPlain
    <3> HIDE DEF x
    <3>2. m = Branch(x, <<e>>)
      BY <2>1 DEF x
    <3> QED BY <2>7, <3>1, <3>2, OnlyChildWrites
  <2>9. T(m) <= c[at]
    BY <2>5, <2>6, <2>7, <2>8
  <2> QED BY <2>9 DEF m, c
<1>14. CASE n.kind = "seq"
  <2> DEFINE places == KidsAt(g, at)
             p == n.kids
             b == [k \in 0..p |-> Cardinality(Begun(m, <<>>, k))]
             w == [k \in 1..p |-> T(smaller[places[k]])]
  <2>1. places \in Seq(Places(g)) /\ Len(places) = p /\ \A k \in 1..p : places[k] = Append(at, k)
    BY KidsAtIs DEF KidsAt
  <2>2. m = SmallestOf(smaller, at, places) /\ m # Nothing
    BY <1>2, <1>14 DEF m
  <2> HIDE DEF places, p
  <2>3. /\ p \in Nat
        /\ \A k \in 1..p : smaller[places[k]] # Nothing
        /\ \A k \in 1..p : T(smaller[places[k]]) \in Nat
        /\ Cardinality(Begun(m, <<>>, 0)) = 0
        /\ \A k \in 0..p : Cardinality(Begun(m, <<>>, k)) \in Nat
        /\ \A k \in 1..p : Cardinality(Begun(m, <<>>, k)) =
             Cardinality(Begun(m, <<>>, k - 1)) + T(smaller[places[k]])
        /\ T(m) = Cardinality(Begun(m, <<>>, p))
    <3>1. WritesEach(m, smaller, places)
      BY <1>7, <2>1, <2>2, OverWrites
    <3> QED BY <2>1, <3>1 DEF WritesEach
  <2>4. \A k \in 1..p : k \in 0..p /\ k - 1 \in 0..p
    BY <2>3
  <2>5. /\ \A k \in 0..p : b[k] \in Nat
        /\ \A k \in 1..p : w[k] \in Nat /\ w[k] = T(smaller[places[k]])
        /\ b[0] = 0 /\ \A k \in 1..p : b[k] = b[k - 1] + w[k]
        /\ T(m) = b[p]
    BY <2>3, <2>4
  <2>6. \A k \in 1..p : Spent(kids)[k - 1] < Unreachable /\ kids[k] < Unreachable => w[k] <= kids[k]
    <3> SUFFICES ASSUME NEW k \in 1..p, Spent(kids)[k - 1] < Unreachable PROVE w[k] <= kids[k]
      OBVIOUS
    <3>1. k \in 1..n.kids
      BY DEF p
    <3>2. Enters(g, c, at, k)
      BY <1>14 DEF Enters, KidCosts
    <3>3. Append(at, k) \in DOMAIN table
      BY <1>9, <1>14, <3>1, <3>2
    <3>4. places[k] = Append(at, k) /\ kids[k] = c[Append(at, k)]
      BY <1>5, <2>1, <3>1
    <3>5. T(smaller[places[k]]) <= c[Append(at, k)]
      BY <1>8, <2>3, <3>1, <3>3, <3>4
    <3> QED BY <2>5, <3>4, <3>5
  <2>7. Spent(kids)[p] = c[at] /\ Spent(kids)[p] < Unreachable
    BY <1>6, <1>9, <1>14 DEF p
  <2>8. Len(kids) = p /\ \A k \in 1..p : kids[k] \in Nat
    BY <1>5 DEF p
  <2> HIDE DEF b, w, kids
  <2>9. b[p] <= Spent(kids)[p]
    BY <2>3, <2>5, <2>6, <2>7, <2>8, SpentIsMost
  <2> QED BY <2>5, <2>7, <2>9 DEF m, c
<1>15. ASSUME NEW k \in 1..n.kids, m = SmallestOf(smaller, at, One(Append(at, k))),
              Append(at, k) \in DOMAIN table
       PROVE  T(m) <= c[Append(at, k)]
  <2> DEFINE q == Append(at, k)
             places == One(q)
  <2>1. q \in Places(g) /\ q \in DOMAIN table
    BY <1>1, <1>15
  <2>0. smaller[q] # Nothing => T(smaller[q]) <= c[q]
    BY <1>8, <1>15
  <2> HIDE DEF q
  <2>2. places \in Seq(Places(g)) /\ Len(places) = 1 /\ places[1] = q
    BY <2>1, OneIs
  <2>3. m = SmallestOf(smaller, at, places) /\ m # Nothing
    BY <1>15 DEF q, m
  <2> HIDE DEF places
  <2>4. /\ \A j \in 1..1 : smaller[places[j]] # Nothing
        /\ \A j \in 1..1 : T(smaller[places[j]]) \in Nat
        /\ Cardinality(Begun(m, <<>>, 0)) = 0
        /\ \A j \in 1..1 : Cardinality(Begun(m, <<>>, j)) =
             Cardinality(Begun(m, <<>>, j - 1)) + T(smaller[places[j]])
        /\ T(m) = Cardinality(Begun(m, <<>>, 1))
    <3>1. WritesEach(m, smaller, places)
      BY <1>7, <2>2, <2>3, OverWrites
    <3> QED BY <2>2, <3>1 DEF WritesEach
  <2>5. 1 \in 1..1 /\ 1 - 1 = 0
    OBVIOUS
  <2>6. smaller[q] # Nothing /\ T(smaller[q]) \in Nat /\ T(m) = 0 + T(smaller[q])
    BY <2>2, <2>4, <2>5
  <2>7. T(smaller[q]) <= c[q]
    BY <2>0, <2>6
  <2>8. T(m) <= c[q]
    BY <2>6, <2>7
  <2> QED BY <2>8 DEF q
<1>16. CASE n.kind = "repeat"
  <2>1. 1 \in 1..n.kids
    BY <1>1, <1>16
  <2>2. KidsAt(g, at) = One(Append(at, 1))
    BY <1>1, <1>16, KidsAtIs
  <2>3. m = SmallestOf(smaller, at, One(Append(at, 1)))
    BY <1>2, <1>16, <2>2
  <2>4. Append(at, 1) \in DOMAIN table
    BY <1>9, <1>16, <2>1 DEF Enters
  <2>5. T(m) <= c[Append(at, 1)]
    BY <1>15, <2>1, <2>3, <2>4
  <2> QED BY <1>5, <1>6, <1>16, <2>1, <2>5 DEF m, c
<1>17. CASE n.kind = "alt"
  <2> DEFINE k == Cheapest(g, table, at)
             U == {Unreachable} \cup Range(kids)
  <2>1. k \in Writable(g, table, at) /\ \A j \in Writable(g, table, at) :
          table[Append(at, k)] <= table[Append(at, j)]
    BY <1>1, <1>2, <1>17, CheapestIs
  <2>2. m = SmallestOf(smaller, at, One(Append(at, k)))
    BY <1>2, <1>17
  <2> HIDE DEF k
  <2>3. k \in 1..n.kids /\ Append(at, k) \in DOMAIN table
    BY <2>1 DEF Writable
  <2>4. T(m) <= c[Append(at, k)]
    BY <1>15, <2>2, <2>3
  <2>5. \A j \in 1..n.kids : Append(at, j) \in DOMAIN table /\ table[Append(at, j)] = c[Append(at, j)]
    BY <1>9, <1>17 DEF Enters
  <2>6. U \subseteq Nat /\ U # {}
    BY <1>0, <1>5
  <2>7. Min(U) \in U /\ c[at] = Min(U) /\ Min(U) < Unreachable
    <3>1. c[at] = Min(U) /\ c[at] < Unreachable
      BY <1>6, <1>9, <1>17
    <3> HIDE DEF U
    <3> QED BY <2>6, <3>1, MinIs
  <2>8. PICK j \in 1..n.kids : Min(U) = kids[j]
    <3>1. Min(U) # Unreachable
      BY <1>0, <2>6, <2>7
    <3> QED BY <1>5, <2>7, <3>1
  <2>9. table[Append(at, j)] = c[at] /\ c[at] < Unreachable /\ Append(at, j) \in DOMAIN table
    BY <1>5, <2>5, <2>7, <2>8
  <2>10. j \in Writable(g, table, at)
    BY <2>9 DEF Writable
  <2>11. c[Append(at, k)] <= c[at]
    BY <2>1, <2>3, <2>5, <2>9, <2>10
  <2>12. c[Append(at, k)] \in 0..Unreachable
    BY <1>1, <1>4, <2>3
  <2>13. T(m) \in Nat
    <3>1. m # Nothing
      BY DEF m
    <3>2. Stands(g, m, at)
      BY <1>7, <3>1, SmallestStands DEF m
    <3> QED BY <3>2, WrittenIs DEF Stands, Derives
  <2> DEFINE e == c[Append(at, k)]
             a == c[at]
             t == T(m)
  <2>14. t <= e /\ e <= a /\ e \in 0..Unreachable /\ a \in 0..Unreachable /\ t \in Nat
    BY <1>4, <2>4, <2>11, <2>12, <2>13
  <2> HIDE DEF e, a, t
  <2>15. t <= a
    BY <1>0, <2>14
  <2> QED BY <2>15 DEF t, a, m, c
<1> QED BY <1>1, <1>3, <1>10, <1>11, <1>12, <1>13, <1>14, <1>16, <1>17

\* A place that is nobody's child is a production's.
LEMMA RootOf ==
  ASSUME NEW g, WellFormed(g), NEW at \in Places(g), ~(Len(at) > 1)
  PROVE  \E i \in DOMAIN g.names : at = <<i>>
<1>0. Len(at) \in Nat \ {0}
  BY PlaceIs
<1> DEFINE n == Len(at)
<1>1. n = 1
  <2>1. n \in Nat \ {0} /\ ~(n > 1)
    BY <1>0
  <2> HIDE DEF n
  <2> QED BY <2>1
<1>2. at \in Seq(Nat \ {0}) /\ at[1] \in DOMAIN g.names
  BY <1>1, PlaceIs DEF WellFormed, Ways
<1> QED BY <1>1, <1>2

\* The smallest derivations write no more than their places cost, level by level.
LEMMA MinimalReaches ==
  ASSUME NEW g, WellFormed(g), NEW prices, Priced(g, prices), NEW table, NodesPriced(g, table),
         Settled(g, prices, table), NEW levels \in Nat, NEW at \in Places(g),
         NodeAt(g, at).kind \in {"alt", "ref"}, Minimal(g, table, levels)[at] # Nothing
  PROVE  Cardinality(Tokens(Minimal(g, table, levels)[at])) <= CostOf(g, prices)[at]
<1> DEFINE D == Places(g)
           c == CostOf(g, prices)
           Small(f, j, p) == SmallestAt(g, table, f[j - 1], p)
<1>1. PICK f : /\ \A p \in D : f[0][p] = Nothing
               /\ \A j \in 1..levels : \A p \in D : f[j][p] = Small(f, j, p)
               /\ Minimal(g, table, levels) = f[levels]
  BY MinimalLevels
<1> DEFINE bad == {j \in 0..levels : ~Frugal(g, prices, table, f[j])}
<1> HIDE DEF c
<1>2. 0 \notin bad /\ bad \subseteq 0..levels
  BY <1>1 DEF Frugal
<1>3. ASSUME NEW j \in 1..levels, j \in bad PROVE j - 1 \in bad
  <2> DEFINE s == f[j - 1]
  <2> SUFFICES ASSUME Frugal(g, prices, table, s) PROVE Frugal(g, prices, table, f[j])
    BY <1>3
  <2> SUFFICES ASSUME NEW p \in D, f[j][p] # Nothing
               PROVE  /\ Stands(g, f[j][p], p)
                      /\ \A i \in DOMAIN g.names : p = <<i>> => Cardinality(Tokens(f[j][p])) <= prices[i]
                      /\ Reached(g, table, p) => Cardinality(Tokens(f[j][p])) <= c[p]
    BY DEF Frugal, c
  <2> HIDE DEF s
  <2>1. f[j][p] = SmallestAt(g, table, s, p)
    BY <1>1 DEF s
  <2>2. \A q \in Places(g) : s[q] = Nothing \/ Stands(g, s[q], q)
    BY DEF Frugal
  <2>3. Stands(g, f[j][p], p)
    BY <2>1, <2>2, SmallestStands
  <2>4. Reached(g, table, p) => Cardinality(Tokens(f[j][p])) <= c[p]
    <3>1. SmallestAt(g, table, s, p) # Nothing /\ Agrees(g, prices, table)
      BY <2>1, TableIs
    <3>2. Reached(g, table, p) => Cardinality(Tokens(SmallestAt(g, table, s, p))) <= CostOf(g, prices)[p]
      BY <3>1, SmallestReaches
    <3> QED BY <2>1, <3>2 DEF c
  <2>5. ASSUME NEW i \in DOMAIN g.names, p = <<i>>
        PROVE  Cardinality(Tokens(f[j][p])) <= prices[i]
    <3>1. p \in Visited(g, c, i) /\ prices[i] = c[p]
      BY <2>5, VisitedRoot DEF Settled, c
    <3>2. p \in DOMAIN table
      BY <3>1 DEF Settled, c
    <3> QED BY <2>4, <3>1, <3>2 DEF Reached
  <2> QED BY <2>3, <2>4, <2>5
<1>4. bad = {}
  <2> HIDE DEF bad
  <2> QED BY <1>2, <1>3, NoneBefore
<1>5. levels \in 0..levels
  OBVIOUS
<1>6. Frugal(g, prices, table, f[levels]) /\ f[levels][at] # Nothing
  BY <1>1, <1>4, <1>5
<1>7. Reached(g, table, at)
  <2>1. CASE NodeAt(g, at).kind = "ref"
    BY <2>1 DEF Reached
  <2>2. CASE NodeAt(g, at).kind = "alt"
    <3>1. levels \in 1..levels
      BY <1>1, <1>6
    <3> DEFINE s == f[levels - 1]
    <3>2. SmallestAt(g, table, s, at) # Nothing
      BY <1>1, <1>6, <3>1
    <3> HIDE DEF s
    <3>3. Writable(g, table, at) # {}
      BY <2>2, <3>2 DEF SmallestAt
    <3>4. PICK k \in 1..NodeAt(g, at).kids : Append(at, k) \in DOMAIN table
      BY <3>3 DEF Writable
    <3>5. PICK i \in DOMAIN g.names : Append(at, k) \in Visited(g, c, i)
      BY <3>4 DEF Settled, c
    <3>6. at \in Visited(g, c, i)
      BY <3>5, VisitedStep
    <3>7. at \in DOMAIN table
      BY <3>6 DEF Settled, c
    <3> QED BY <3>7 DEF Reached
  <2> QED BY <2>1, <2>2
<1>8. CASE Len(at) > 1
  BY <1>1, <1>6, <1>7, <1>8 DEF Frugal, c
<1>9. CASE ~(Len(at) > 1)
  <2>1. PICK i \in DOMAIN g.names : at = <<i>>
    BY <1>9, RootOf
  <2>2. <<i>> \in Visited(g, c, i) /\ prices[i] = c[<<i>>]
    BY VisitedRoot DEF Settled, c
  <2> QED BY <1>1, <1>6, <2>1, <2>2 DEF Frugal, c
<1> QED BY <1>8, <1>9

\* A tree below a node writes what is written from the node on.
LEMMA BelowWrites ==
  ASSUME NEW d, IsTree(d), NEW at \in DOMAIN d
  PROVE  Cardinality(Tokens(Below(d, at))) = Cardinality(Written(d, at))
<1> DEFINE b == Below(d, at)
           Z == Tokens(b)
           W == Written(d, at)
           f == [w \in Z |-> at \o w]
<1>1. at \in Ways /\ DOMAIN d \subseteq Ways /\ IsTree(b)
  BY BelowTree DEF IsTree
<1>2. /\ DOMAIN b \subseteq Ways
      /\ \A w \in Ways : w \in DOMAIN b <=> at \o w \in DOMAIN d
      /\ \A w \in DOMAIN b : b[w] = d[at \o w]
  BY BelowAt
<1>3. IsFiniteSet(Z)
  BY <1>1, WrittenIs
<1> HIDE DEF b
<1>4. Z \subseteq DOMAIN b
  BY DEF Tokens
<1>5. \A w \in Ways : IsPrefix(at, at \o w) /\ After(at \o w, Len(at)) = w
  BY <1>1, Along
<1>6. DOMAIN f = Z /\ \A w \in Z : f[w] = at \o w
  OBVIOUS
<1> HIDE DEF f
<1>7. \A w, u \in Z : f[w] = f[u] => w = u
  <2> SUFFICES ASSUME NEW w \in Z, NEW u \in Z, f[w] = f[u] PROVE w = u
    OBVIOUS
  <2>1. w \in Ways /\ u \in Ways /\ at \o w = at \o u
    BY <1>2, <1>4, <1>6
  <2>2. After(at \o w, Len(at)) = w /\ After(at \o u, Len(at)) = u
    BY <1>5, <2>1
  <2> QED BY <2>1, <2>2
<1>8. ASSUME NEW w \in Z PROVE f[w] \in W
  <2>1. w \in DOMAIN b /\ w \in Ways /\ b[w].token # Blank
    BY <1>2 DEF Tokens
  <2> QED BY <1>2, <1>5, <1>6, <2>1 DEF Written, Tokens
<1>9. ASSUME NEW u \in W PROVE \E w \in Z : u = f[w]
  <2>1. u \in DOMAIN d /\ u \in Ways /\ d[u].token # Blank /\ IsPrefix(at, u)
    BY <1>1 DEF Written, Tokens
  <2> DEFINE w == After(u, Len(at))
  <2>2. w \in Ways /\ u = at \o w
    BY <1>1, <2>1, Beginning
  <2> HIDE DEF w
  <2>3. w \in DOMAIN b /\ b[w] = d[u]
    BY <1>2, <2>1, <2>2
  <2>4. w \in Z
    BY <2>1, <2>3 DEF Tokens
  <2> QED BY <1>6, <2>2, <2>4
<1>10. W = {f[w] : w \in Z}
  <2> HIDE DEF W, Z
  <2> QED BY <1>8, <1>9
<1>11. Cardinality(W) = Cardinality(Z)
  <2> HIDE DEF W, Z
  <2> QED BY <1>3, <1>7, <1>10, OneToOne
<1> QED BY <1>11 DEF b

\* A tree does not write more for another one in the place of a node that
\* writes no more than what was there.
LEMMA GraftWrites ==
  ASSUME NEW d, IsTree(d), NEW at \in DOMAIN d, NEW r, IsTree(r),
         Cardinality(Tokens(r)) <= Cardinality(Written(d, at))
  PROVE  Cardinality(Tokens(Graft(d, at, r))) <= Cardinality(Tokens(d))
<1> DEFINE h == Graft(d, at, r)
           O == {w \in Tokens(d) : ~IsPrefix(at, w)}
           W == Written(d, at)
           Z == Tokens(r)
           f == [w \in Z |-> at \o w]
           I == {f[w] : w \in Z}
<1>1. /\ at \in Ways /\ DOMAIN d \subseteq Ways /\ DOMAIN r \subseteq Ways
      /\ IsFiniteSet(Tokens(d)) /\ IsFiniteSet(Z) /\ IsFiniteSet(W)
  BY WrittenIs DEF IsTree
<1>2. /\ DOMAIN h \subseteq Ways
      /\ \A way \in Ways : ~IsPrefix(at, way) =>
           /\ way \in DOMAIN h <=> way \in DOMAIN d
           /\ way \in DOMAIN h => h[way] = d[way]
      /\ \A w \in Ways :
           /\ at \o w \in DOMAIN h <=> w \in DOMAIN r
           /\ w \in DOMAIN r => h[at \o w] = r[w]
  BY GraftAt
<1> HIDE DEF h
<1>3. DOMAIN f = Z /\ \A w \in Z : f[w] = at \o w
  OBVIOUS
<1>4. Tokens(h) \subseteq O \cup I
  <2> SUFFICES ASSUME NEW u \in Tokens(h) PROVE u \in O \cup I
    OBVIOUS
  <2>1. u \in DOMAIN h /\ u \in Ways /\ h[u].token # Blank
    BY <1>2 DEF Tokens
  <2>2. CASE ~IsPrefix(at, u)
    BY <1>2, <2>1, <2>2 DEF Tokens
  <2>3. CASE IsPrefix(at, u)
    <3> DEFINE w == After(u, Len(at))
    <3>1. w \in Ways /\ u = at \o w
      BY <1>1, <2>1, <2>3, Beginning
    <3> HIDE DEF w, f
    <3>2. w \in DOMAIN r /\ h[u] = r[w]
      BY <1>2, <2>1, <3>1
    <3>3. w \in Z
      BY <2>1, <3>2 DEF Tokens
    <3> QED BY <1>3, <3>1, <3>3
  <2> QED BY <2>2, <2>3
<1>5. Tokens(d) = O \cup W /\ O \cap W = {}
  BY DEF Written
<1> HIDE DEF f
<1>6. IsFiniteSet(I) /\ Cardinality(I) <= Cardinality(Z)
  <2> HIDE DEF Z
  <2> QED BY <1>1, <1>3, Image
<1>7. IsFiniteSet(O)
  <2>1. O \subseteq Tokens(d)
    OBVIOUS
  <2> QED BY <1>1, <2>1, FS_Subset
<1> HIDE DEF O, W, I, Z
<1>8. IsFiniteSet(O \cup I) /\ Cardinality(O \cup I) <= Cardinality(O) + Cardinality(I)
  <2>1. /\ IsFiniteSet(O \cup I)
        /\ Cardinality(O \cup I) = Cardinality(O) + Cardinality(I) - Cardinality(O \cap I)
    BY <1>6, <1>7, FS_Union
  <2>2. IsFiniteSet(O \cap I)
    BY <1>7, FS_Subset
  <2>3. Cardinality(O) \in Nat /\ Cardinality(I) \in Nat /\ Cardinality(O \cap I) \in Nat
    BY <1>6, <1>7, <2>2, FS_CardinalityType
  <2> QED BY <2>1, <2>3
<1>9. Cardinality(Tokens(d)) = Cardinality(O) + Cardinality(W)
  <2>1. Cardinality(O \cup W) = Cardinality(O) + Cardinality(W) - Cardinality(O \cap W)
    BY <1>1, <1>7, FS_Union
  <2>2. Cardinality(O \cap W) = 0
    BY <1>5, FS_EmptySet
  <2>3. Cardinality(O) \in Nat /\ Cardinality(W) \in Nat
    BY <1>1, <1>7, FS_CardinalityType
  <2>4. Cardinality(Tokens(d)) = Cardinality(O \cup W)
    BY <1>5
  <2> QED BY <2>1, <2>2, <2>3, <2>4
<1>10. Cardinality(Tokens(h)) <= Cardinality(O \cup I) /\ IsFiniteSet(Tokens(h))
  BY <1>4, <1>8, FS_Subset
<1>11. /\ Cardinality(O) \in Nat /\ Cardinality(W) \in Nat /\ Cardinality(I) \in Nat /\ Cardinality(Z) \in Nat
       /\ Cardinality(Tokens(h)) \in Nat /\ Cardinality(O \cup I) \in Nat
  BY <1>1, <1>6, <1>7, <1>8, <1>10, FS_CardinalityType
<1>12. Cardinality(Z) <= Cardinality(W)
  BY DEF Z, W
<1> QED BY <1>6, <1>8, <1>9, <1>10, <1>11, <1>12 DEF h

\* What a reduction tries writes no more than what was there.
LEMMA ReplacementWrites ==
  ASSUME NEW g, WellFormed(g), NEW prices, Priced(g, prices), NEW table, NodesPriced(g, table),
         Settled(g, prices, table), NEW levels \in Nat,
         NEW d, Derives(g, d), NEW way \in DOMAIN d,
         Replacement(g, Minimal(g, table, levels), d, way) # Nothing
  PROVE  Cardinality(Tokens(Replacement(g, Minimal(g, table, levels), d, way)))
           <= Cardinality(Written(d, way))
<1> DEFINE minimal == Minimal(g, table, levels)
           small == Replacement(g, minimal, d, way)
           x == d[way]
           at == x.at
           kind == KindOf(g, x)
<1>0. Offered(g, minimal)
  BY MinimalStands DEF Offered
<1>1. /\ at \in Places(g) /\ kind = NodeAt(g, at).kind
      /\ Stands(g, small, at)
  BY <1>0, ReplacementStands
<1>2. small = CASE kind = "opt" /\ x.taken -> Leaf(Plain(at))
                [] kind = "repeat" /\ x.kids > 1 -> Branch(Plain(at), <<Below(d, Append(way, 1))>>)
                [] kind \in {"alt", "ref"} -> minimal[at]
                [] OTHER -> Nothing
  BY Zenon DEF Replacement
<1>3. small # Nothing /\ IsTree(d) /\ IsTree(small) /\ x.kids \in Nat
  BY <1>1 DEF Derives, Stands, IsTree
<1>4. Cardinality(Written(d, way)) \in Nat
  BY <1>3, WrittenIs
<1> HIDE DEF small, minimal, kind
<1>5. CASE kind = "opt" /\ small = Leaf(Plain(at))
  <2> DEFINE y == Plain(at)
  <2>1. y.kids = 0 /\ y.token = Blank
    BY DEF Plain, Deriv
  <2> HIDE DEF y
  <2>2. Cardinality(Tokens(Leaf(y))) = 0
    BY <2>1, LeafWrites
  <2>3. small = Leaf(y)
    BY <1>5 DEF y
  <2> QED BY <1>4, <2>2, <2>3 DEF small, minimal
<1>6. CASE kind = "repeat" /\ x.kids > 1
  <2> DEFINE v == Append(way, 1)
             b == Below(d, v)
             y == Plain(at)
  <2>1. small = Branch(y, <<b>>)
    BY <1>2, <1>6
  <2>2. 1 \in 1..x.kids
    BY <1>3, <1>6
  <2>3. v \in DOMAIN d /\ Cardinality(Written(d, v)) <= Cardinality(Written(d, way))
    BY <1>3, <2>2, ChildIs, WrittenAddsUp
  <2> HIDE DEF v
  <2>4. IsTree(b) /\ Cardinality(Tokens(b)) = Cardinality(Written(d, v))
    BY <1>3, <2>3, BelowTree, BelowWrites
  <2>5. With(y, 1).kids = 1 /\ With(y, 1).token = Blank
    BY WithPlain
  <2> HIDE DEF b, y
  <2>6. Cardinality(Tokens(small)) = Cardinality(Tokens(b))
    BY <2>1, <2>4, <2>5, OnlyChildWrites
  <2> QED BY <2>3, <2>4, <2>6 DEF small, minimal
<1>7. CASE kind \in {"alt", "ref"}
  <2>1. small = minimal[at]
    BY <1>2, <1>7
  <2>2. Cardinality(Tokens(minimal[at])) <= CostOf(g, prices)[at]
    BY <1>1, <1>3, <1>7, <2>1, MinimalReaches DEF minimal
  <2>3. CostOf(g, prices)[at] <= Cardinality(Written(d, way))
    <3>1. Paid(g, prices)
      <4> SUFFICES ASSUME NEW i \in DOMAIN g.names PROVE prices[i] <= CostOf(g, prices)[<<i>>]
        BY DEF Paid
      <4>1. prices[i] = CostOf(g, prices)[<<i>>]
        BY DEF Settled
      <4>2. prices[i] \in Int
        BY GrammarAssumption DEF Priced
      <4> QED BY <4>1, <4>2
    <3>2. at # <<>>
      BY <1>1, PlaceIs
    <3> QED BY <3>1, <3>2, NothingIsShorter
  <2>4. CostOf(g, prices)[at] \in Int /\ Cardinality(Tokens(small)) \in Nat
    <3>1. CostOf(g, prices)[at] \in 0..Unreachable
      BY <1>1, CostIs
    <3>2. Cardinality(Tokens(small)) \in Nat
      BY <1>3, WrittenIs
    <3> QED BY <3>1, <3>2
  <2> DEFINE a == Cardinality(Tokens(small))
             e == CostOf(g, prices)[at]
             t == Cardinality(Written(d, way))
  <2>5. a <= e /\ e <= t /\ a \in Nat /\ e \in Int /\ t \in Nat
    BY <1>4, <2>1, <2>2, <2>3, <2>4
  <2> HIDE DEF a, e, t
  <2>6. a <= t
    BY <2>5
  <2> QED BY <2>6 DEF a, t, small, minimal
<1>8. (kind = "opt" /\ small = Leaf(Plain(at))) \/ (kind = "repeat" /\ x.kids > 1) \/ kind \in {"alt", "ref"}
  BY Zenon, <1>2, <1>3
<1> QED BY <1>5, <1>6, <1>7, <1>8

\* A step of the reduction keeps to it, and what has not been written yet is
\* not reduced.
LEMMA NextNeverLonger ==
  ASSUME WalkInv, CostInv, [Next]_vars, tree # Nothing
  PROVE  Cardinality(Tokens(tree')) <= Cardinality(Tokens(tree))
<1>1. phase \in {"reduce", "done"} /\ Derives(rules, tree)
  BY DEF WalkInv, Standing
<1>2. IsTree(tree) /\ Cardinality(Tokens(tree)) \in Nat
  BY <1>1, WrittenIs DEF Derives
<1>3. CASE tree' = tree
  BY <1>2, <1>3
<1>4. CASE Ask /\ tree' = Candidate
  <2>1. phase = "reduce" /\ left # {}
    BY <1>4 DEF Ask, Reducing
  <2> DEFINE m == Minimal(rules, nodeCost, Guard)
             s == First(left)
             w == s.way
             r == s.replace
  <2>2. /\ w \in DOMAIN tree /\ r = Replacement(rules, m, tree, w) /\ r # Nothing
    BY <2>1, FirstStands
  <2>3. /\ WellFormed(rules) /\ NodesPriced(rules, nodeCost) /\ Priced(rules, ruleCost) /\ Guard \in Nat
        /\ Settled(rules, ruleCost, nodeCost)
    BY <2>1, WalkAssumption DEF WalkInv, CostInv
  <2>4. IsTree(r)
    <3>1. Offered(rules, m)
      BY <2>3, MinimalStands DEF Offered
    <3> HIDE DEF m
    <3> QED BY <1>1, <2>2, <2>3, <3>1, ReplacementStands DEF Stands, Derives
  <2>5. Candidate = Graft(tree, w, r)
    BY DEF Candidate
  <2> HIDE DEF w, r
  <2>6. Cardinality(Tokens(r)) <= Cardinality(Written(tree, w))
    BY <1>1, <2>2, <2>3, ReplacementWrites
  <2> QED BY <1>2, <1>4, <2>2, <2>4, <2>5, <2>6, GraftWrites
<1>5. tree' = tree \/ (Ask /\ tree' = Candidate)
  BY <1>1 DEF Next, ComputeCost, Walk, Reduce, Relax, NextSweep, Costed, ExpandWord, ExpandProse,
     ExpandLeaf, ExpandRef, ExpandSeq, ExpandOpt, ExpandRepeat, ExpandAlt, Expanding, Generated,
     SkipEmpty, Ask, Reduced, vars, cut
<1> QED BY <1>3, <1>4, <1>5

\* A reduction never makes the statement longer, whatever the grammar and the
\* derivation it goes by.
THEOREM Shrinks == Spec => NeverLonger
<1>1. WalkInv /\ CostInv /\ [Next]_vars =>
        [tree # Nothing => Cardinality(Tokens(tree')) <= Cardinality(Tokens(tree))]_vars
  BY NextNeverLonger
<1> QED BY InitWalk, InitCost, NextKeepsWalk, NextSettles, <1>1, PTL DEF Spec, NeverLonger

(***************************************************************************)
(* The shortest derivations                                                *)
(***************************************************************************)

\* A derivation of a place that writes no more than so many tokens.
WritesWithin(g, d, at, n) == Stands(g, d, at) /\ Cardinality(Tokens(d)) <= n

\* Every production that has a price can be written within it.
Afforded(g, prices) ==
  \A i \in DOMAIN g.names :
    prices[i] < Unreachable => \E d : WritesWithin(g, d, <<i>>, prices[i])

\* A branch is not nothing.
LEMMA BranchThere ==
  ASSUME NEW x, NEW kids
  PROVE  Branch(x, kids) # Nothing
<1>1. <<>> \in DOMAIN Branch(x, kids)
  BY DEF Branch
<1>2. <<>> \notin DOMAIN Nothing
  BY DEF Nothing
<1> QED BY <1>1, <1>2

\* A sequence that can be written has parts that can.
LEMMA SpentReaches ==
  ASSUME NEW n \in Nat, NEW parts, Len(parts) = n, \A k \in 1..n : parts[k] \in 0..Unreachable,
         Spent(parts)[n] < Unreachable, NEW j \in 1..n
  PROVE  parts[j] < Unreachable
<1> DEFINE s == Spent(parts)
           bad == {k \in 0..n : k >= j /\ s[k] < Unreachable}
<1>0. Unreachable \in Nat /\ \A k \in 1..n : parts[k] \in Nat
  BY GrammarAssumption
<1>1. /\ \A k \in 1..n : s[k] = Capped(s[k - 1] + parts[k])
      /\ \A k \in 0..n : s[k] \in 0..Unreachable
  BY <1>0, SpentAt
<1> HIDE DEF s
<1> SUFFICES ASSUME parts[j] = Unreachable PROVE FALSE
  BY <1>0
<1>2. ASSUME NEW k \in 1..n, parts[k] = Unreachable \/ s[k - 1] = Unreachable
      PROVE  s[k] = Unreachable
  <2>1. k - 1 \in 0..n /\ k \in 0..n
    OBVIOUS
  <2> DEFINE a == s[k - 1]
             b == parts[k]
  <2>2. a \in 0..Unreachable /\ b \in 0..Unreachable /\ s[k] = Capped(a + b)
    BY <1>1, <2>1
  <2>3. b = Unreachable \/ a = Unreachable
    BY <1>2
  <2> HIDE DEF a, b
  <2>4. a + b >= Unreachable
    BY <1>0, <2>2, <2>3
  <2> QED BY <1>0, <2>2, <2>4 DEF Capped
<1>3. s[j] = Unreachable
  BY <1>2
<1>4. 0 \notin bad /\ bad \subseteq 0..n
  OBVIOUS
<1>5. ASSUME NEW k \in 1..n, k \in bad PROVE k - 1 \in bad
  <2>1. k >= j /\ s[k] < Unreachable /\ k # j
    BY <1>0, <1>3, <1>5
  <2>2. s[k - 1] # Unreachable
    BY <1>0, <1>2, <2>1
  <2>3. k - 1 \in 0..n /\ k - 1 >= j
    BY <2>1
  <2>4. s[k - 1] < Unreachable
    BY <1>0, <1>1, <2>2, <2>3
  <2> QED BY <2>3, <2>4
<1>6. bad = {}
  <2> HIDE DEF bad
  <2> QED BY <1>4, <1>5, NoneBefore
<1>7. n \in bad
  BY DEF s
<1> QED BY <1>6, <1>7

\* What has a cost has a smallest derivation, if what it is made of does.
LEMMA SmallestIsThere ==
  ASSUME NEW g, WellFormed(g), NEW prices, Priced(g, prices), NEW at \in Places(g),
         CostOf(g, prices)[at] < Unreachable, NEW smaller,
         \A k \in 1..NodeAt(g, at).kids :
           CostOf(g, prices)[Append(at, k)] < Unreachable => smaller[Append(at, k)] # Nothing,
         \A i \in DOMAIN g.names : prices[i] < Unreachable => smaller[<<i>>] # Nothing
  PROVE  SmallestAt(g, CostOf(g, prices), smaller, at) # Nothing
<1> DEFINE c == CostOf(g, prices)
           n == NodeAt(g, at)
           m == SmallestAt(g, c, smaller, at)
           kids == KidCosts(g, c, at)
<1> SUFFICES m # Nothing
  OBVIOUS
<1>0. Unreachable \in Nat \ {0}
  BY GrammarAssumption
<1>1. /\ n.kids \in Nat
      /\ n.kind \in {"word", "prose", "ref", "opt", "repeat", "alt", "seq"}
      /\ n.kind \in {"opt", "repeat"} => n.kids = 1
      /\ \A k \in 1..n.kids : Append(at, k) \in Places(g)
  BY PlaceIs
<1>2. DOMAIN c = Places(g) /\ \A p \in Places(g) : c[p] \in 0..Unreachable
  BY CostIs
<1>3. /\ Len(kids) = n.kids /\ (\A k \in 1..n.kids : kids[k] = c[Append(at, k)])
      /\ \A k \in 1..n.kids : kids[k] \in 0..Unreachable
      /\ Range(kids) = {kids[k] : k \in 1..n.kids}
  BY KidCostsAre
<1>4. /\ n.kind = "prose" => c[at] = Unreachable
      /\ n.kind = "ref" => c[at] = RefCost(g, prices, n.name)
      /\ n.kind = "alt" => c[at] = Min({Unreachable} \cup Range(kids))
      /\ n.kind = "repeat" => c[at] = kids[1]
      /\ n.kind = "seq" => c[at] = Spent(kids)[n.kids]
  <2>1. c[at] = NodeCost(g, prices, c, at)
    BY CostIs
  <2> QED BY <2>1, NodeCostIs
<1>5. c[at] < Unreachable /\ c[at] \in 0..Unreachable
  BY <1>2
<1>6. ~(c[at] >= Unreachable)
  <2> DEFINE a == c[at]
  <2>1. a < Unreachable /\ a \in 0..Unreachable
    BY <1>5
  <2> HIDE DEF a
  <2>2. ~(a >= Unreachable)
    BY <1>0, <2>1
  <2> QED BY <2>2 DEF a
<1>7. \A k \in 1..n.kids : kids[k] < Unreachable => smaller[Append(at, k)] # Nothing
  BY <1>3
<1> HIDE DEF c
<1>8. /\ n.kind = "word" => m = Leaf([Plain(at) EXCEPT !.token = n.name])
      /\ n.kind = "opt" => m = Leaf(Plain(at))
      /\ n.kind = "ref" => m = SmallestRef(g, smaller, at, n.name)
      /\ n.kind \in {"seq", "repeat"} => m = SmallestOf(smaller, at, KidsAt(g, at))
      /\ n.kind = "alt" /\ Writable(g, c, at) # {} =>
           m = SmallestOf(smaller, at, One(Append(at, Cheapest(g, c, at))))
  BY <1>6 DEF SmallestAt, One
<1>9. ASSUME NEW places, \A k \in DOMAIN places : smaller[places[k]] # Nothing,
             m = SmallestOf(smaller, at, places)
      PROVE  m # Nothing
  <2> DEFINE ds == [k \in DOMAIN places |-> smaller[places[k]]]
  <2>1. Nothing \notin Range(ds)
    BY <1>9 DEF Range
  <2>2. m = Branch(Plain(at), ds)
    BY <1>9, <2>1 DEF SmallestOf
  <2> QED BY <2>2, BranchThere
<1>10. ASSUME NEW k \in 1..n.kids, kids[k] < Unreachable,
              m = SmallestOf(smaller, at, One(Append(at, k)))
       PROVE  m # Nothing
  <2> DEFINE p == Append(at, k)
  <2>1. smaller[p] # Nothing /\ m = SmallestOf(smaller, at, One(p)) /\ p \in Places(g)
    BY <1>1, <1>7, <1>10
  <2> HIDE DEF p, m
  <2>2. DOMAIN One(p) = {1} /\ One(p)[1] = p
    BY <2>1, OneIs
  <2> QED BY <1>9, <2>1, <2>2
<1> HIDE DEF m
<1>11. CASE n.kind = "word" \/ n.kind = "opt"
  <2>1. [Plain(at) EXCEPT !.token = n.name].kids = 0 /\ Plain(at).kids = 0
    BY DEF Plain, Deriv
  <2> QED BY <1>8, <1>11, <2>1, LeafTree
<1>12. CASE n.kind = "ref"
  <2>1. CASE n.name \in DOMAIN Cut
    <3> DEFINE x == [Plain(at) EXCEPT !.token = IF Cut[n.name] = <<>> THEN Blank ELSE Cut[n.name][1]]
    <3>1. x.kids = 0
      BY DEF Plain, Deriv
    <3>2. m = Leaf(x)
      BY <1>8, <1>12, <2>1 DEF SmallestRef
    <3> HIDE DEF x
    <3> QED BY <3>1, <3>2, LeafTree
  <2>2. CASE n.name \notin DOMAIN Cut
    <3> DEFINE i == RuleNo(g, n.name)
               e == Branch(Entered(n.name), <<smaller[<<i>>]>>)
    <3>1. c[at] = IF Defined(g, n.name) THEN prices[i] ELSE Unreachable
      BY <1>4, <1>12, <2>2 DEF RefCost
    <3>2. Defined(g, n.name) /\ prices[i] < Unreachable
      <4>1. c[at] # Unreachable
        BY <1>0, <1>5
      <4> QED BY <1>5, <3>1, <4>1
    <3>3. smaller[<<i>>] # Nothing
      BY <3>2, RuleNoIs
    <3>4. m = Branch(Plain(at), <<e>>)
      BY <1>8, <1>12, <2>2, <3>2, <3>3 DEF SmallestRef
    <3> HIDE DEF e
    <3> QED BY <3>4, BranchThere
  <2> QED BY <2>1, <2>2
<1>13. CASE n.kind = "repeat"
  <2>1. 1 \in 1..n.kids /\ KidsAt(g, at) = One(Append(at, 1))
    BY <1>1, <1>13, KidsAtIs
  <2>2. m = SmallestOf(smaller, at, One(Append(at, 1)))
    BY <1>8, <1>13, <2>1
  <2>3. kids[1] < Unreachable
    BY <1>4, <1>5, <1>13
  <2> HIDE DEF kids
  <2> QED BY <1>10, <2>1, <2>2, <2>3
<1>14. CASE n.kind = "seq"
  <2>1. Spent(kids)[n.kids] < Unreachable
    BY <1>4, <1>5, <1>14
  <2> DEFINE q == n.kids
  <2>2. q \in Nat /\ Len(kids) = q /\ (\A k \in 1..q : kids[k] \in 0..Unreachable)
        /\ Spent(kids)[q] < Unreachable
    BY <1>1, <1>3, <2>1
  <2>3. \A k \in 1..q : kids[k] < Unreachable
    <3> HIDE DEF kids, q
    <3> QED BY <2>2, SpentReaches
  <2>4. DOMAIN KidsAt(g, at) = 1..q /\ \A k \in 1..q : KidsAt(g, at)[k] = Append(at, k)
    BY DEF KidsAt
  <2>5. \A k \in DOMAIN KidsAt(g, at) : smaller[KidsAt(g, at)[k]] # Nothing
    BY <1>7, <2>3, <2>4
  <2>6. m = SmallestOf(smaller, at, KidsAt(g, at))
    BY <1>8, <1>14
  <2> QED BY <1>9, <2>5, <2>6
<1>15. CASE n.kind = "alt"
  <2> DEFINE k == Cheapest(g, c, at)
             U == {Unreachable} \cup Range(kids)
  <2>1. U \subseteq Nat /\ U # {}
    BY <1>0, <1>3
  <2>2. Min(U) \in U /\ Min(U) < Unreachable
    <3>1. c[at] = Min(U)
      BY <1>4, <1>15
    <3> HIDE DEF U
    <3> QED BY <1>5, <2>1, <3>1, MinIs
  <2>3. PICK j \in 1..n.kids : Min(U) = kids[j]
    <3>1. Min(U) # Unreachable
      BY <1>0, <2>1, <2>2
    <3> QED BY <1>3, <2>2, <3>1
  <2>4. j \in Writable(g, c, at)
    BY <1>1, <1>2, <1>3, <2>2, <2>3 DEF Writable
  <2>5. NodesPriced(g, c) /\ NodeAt(g, at).kids \in Nat /\ Writable(g, c, at) # {}
    BY <1>1, <1>2, <2>4 DEF NodesPriced
  <2>6. k \in Writable(g, c, at)
    BY <2>5, CheapestIs
  <2>7. m = SmallestOf(smaller, at, One(Append(at, k)))
    BY <1>8, <1>15, <2>4
  <2> HIDE DEF k
  <2>8. k \in 1..n.kids /\ kids[k] < Unreachable
    BY <1>3, <2>6 DEF Writable
  <2> HIDE DEF kids
  <2> QED BY <1>10, <2>7, <2>8
<1>16. n.kind # "prose"
  BY <1>0, <1>4, <1>5
<1> QED BY <1>1, <1>11, <1>12, <1>13, <1>14, <1>15, <1>16

\* Where the productions can be written within their prices, every place that
\* has a cost can be written within it.
LEMMA PlacesAfforded ==
  ASSUME NEW g, WellFormed(g), NEW prices, Priced(g, prices), Afforded(g, prices),
         NEW at \in Places(g), CostOf(g, prices)[at] < Unreachable
  PROVE  \E d : WritesWithin(g, d, at, CostOf(g, prices)[at])
<1> DEFINE D == Places(g)
           c == CostOf(g, prices)
           Fine(p) == c[p] < Unreachable => \E d : WritesWithin(g, d, p, c[p])
           bad == {p \in D : ~Fine(p)}
           Price(p) == IF Len(p) = 1 THEN prices[p[1]] ELSE c[p]
           Good(p) == Price(p) < Unreachable /\ \E d : WritesWithin(g, d, p, Price(p))
           smaller == [p \in D |->
             IF Good(p) THEN CHOOSE d : WritesWithin(g, d, p, Price(p)) ELSE Nothing]
<1>1. DOMAIN c = D /\ \A p \in D : c[p] \in 0..Unreachable
  BY CostIs
<1>2. \A p \in D : Good(p) => WritesWithin(g, smaller[p], p, Price(p))
  OBVIOUS
<1>3. \A p \in D : ~Good(p) => smaller[p] = Nothing
  OBVIOUS
<1> HIDE DEF smaller, c
<1>4. ASSUME NEW p \in D, smaller[p] # Nothing
      PROVE  Stands(g, smaller[p], p) /\ Cardinality(Tokens(smaller[p])) <= Price(p)
  BY <1>2, <1>3, <1>4 DEF WritesWithin
<1>5. ASSUME NEW p \in D, Good(p) PROVE smaller[p] # Nothing
  <2>1. IsTree(smaller[p])
    BY <1>2, <1>5 DEF WritesWithin, Stands, Derives
  <2> QED BY <2>1, TreeThere
<1>6. ASSUME NEW i \in DOMAIN g.names
      PROVE  <<i>> \in D /\ Price(<<i>>) = prices[i]
  BY <1>6, VisitedRoot
<1>7. ASSUME NEW p \in D, Len(p) > 1 PROVE Price(p) = c[p]
  <2> DEFINE n == Len(p)
  <2>1. n # 1
    <3>1. n > 1
      BY <1>7
    <3> HIDE DEF n
    <3> QED BY <3>1
  <2> QED BY <2>1
<1> HIDE DEF Price
<1>8. Frugal(g, prices, c, smaller)
  <2> SUFFICES ASSUME NEW p \in D, smaller[p] # Nothing
               PROVE  /\ Stands(g, smaller[p], p)
                      /\ \A i \in DOMAIN g.names : p = <<i>> =>
                           Cardinality(Tokens(smaller[p])) <= prices[i]
                      /\ Len(p) > 1 => Cardinality(Tokens(smaller[p])) <= c[p]
    BY DEF Frugal, c
  <2> QED BY <1>4, <1>6, <1>7
<1>9. Agrees(g, prices, c)
  <2>1. \A p \in D : \A k \in 1..NodeAt(g, p).kids : Append(p, k) \in D
    BY PlaceIs
  <2> QED BY <1>1, <2>1 DEF Agrees, c
<1>10. NodesPriced(g, c)
  BY <1>1 DEF NodesPriced
<1>11. ASSUME NEW i \in DOMAIN g.names, prices[i] < Unreachable
       PROVE  smaller[<<i>>] # Nothing
  <2>1. Good(<<i>>)
    BY <1>6, <1>11 DEF Afforded
  <2> QED BY <1>5, <1>6, <2>1
<1>12. ASSUME NEW p \in D, c[p] < Unreachable,
              \A k \in 1..NodeAt(g, p).kids : Fine(Append(p, k))
       PROVE  Fine(p)
  <2> DEFINE m == SmallestAt(g, c, smaller, p)
  <2>1. ASSUME NEW k \in 1..NodeAt(g, p).kids, c[Append(p, k)] < Unreachable
        PROVE  smaller[Append(p, k)] # Nothing
    <3> DEFINE q == Append(p, k)
    <3>1. q \in D /\ Len(q) > 1
      BY PlaceIs
    <3>2. Fine(q) /\ c[q] < Unreachable
      BY <1>12, <2>1
    <3> HIDE DEF q
    <3>3. Good(q)
      BY <1>7, <3>1, <3>2
    <3>4. smaller[q] # Nothing
      BY <1>5, <3>1, <3>3
    <3> QED BY <3>4 DEF q
  <2>2. SmallestAt(g, CostOf(g, prices), smaller, p) # Nothing
    BY <1>11, <1>12, <2>1, SmallestIsThere DEF c
  <2>3. m # Nothing /\ m = SmallestAt(g, CostOf(g, prices), smaller, p)
    BY <2>2 DEF c
  <2>4. \A q \in Places(g) : smaller[q] = Nothing \/ Stands(g, smaller[q], q)
    BY <1>4
  <2>5. Stands(g, m, p)
    BY <1>10, <2>3, <2>4, SmallestStands
  <2>6. Reached(g, c, p)
    BY <1>1 DEF Reached
  <2>7. Cardinality(Tokens(SmallestAt(g, c, smaller, p))) <= CostOf(g, prices)[p]
    BY <1>8, <1>9, <1>10, <2>3, <2>6, SmallestReaches
  <2>8. WritesWithin(g, m, p, c[p])
    BY <2>5, <2>7 DEF WritesWithin, c
  <2> QED BY <2>8
<1> HIDE DEF Fine
<1>13. \A p \in bad : \E k \in 1..NodeAt(g, p).kids : Append(p, k) \in bad
  <2> SUFFICES ASSUME NEW p \in bad, \A k \in 1..NodeAt(g, p).kids : Append(p, k) \notin bad
               PROVE  FALSE
    OBVIOUS
  <2>1. p \in D /\ ~Fine(p) /\ c[p] < Unreachable
    BY DEF Fine
  <2>2. \A k \in 1..NodeAt(g, p).kids : Append(p, k) \in D
    BY <2>1, PlaceIs
  <2> QED BY <1>12, <2>1, <2>2
<1>14. bad = {}
  <2>1. bad \subseteq Places(g)
    OBVIOUS
  <2> HIDE DEF bad
  <2> QED BY <1>13, <2>1, NoneAbove
<1>15. Fine(at)
  BY <1>14
<1> QED BY <1>15 DEF Fine, c

\* At first there is nothing to afford.
LEMMA InitAffords == Init => Afforded(rules, ruleCost)
<1> SUFFICES ASSUME Init PROVE Afforded(rules, ruleCost)
  OBVIOUS
<1>1. ruleCost = [i \in DOMAIN rules.names |-> Unreachable]
  BY DEF Init
<1>2. ~(Unreachable < Unreachable)
  BY GrammarAssumption
<1> QED BY <1>1, <1>2 DEF Afforded

\* Only a relaxation changes a price.
LEMMA OnlyRelax ==
  ASSUME [Next]_vars
  PROVE  Relax \/ UNCHANGED <<rules, ruleCost>>
BY DEF Next, ComputeCost, Walk, Reduce, NextSweep, Costed, ExpandWord, ExpandProse, ExpandLeaf,
   ExpandRef, ExpandSeq, ExpandOpt, ExpandRepeat, ExpandAlt, Expanding, Generated, SkipEmpty, Ask,
   Reduced, Begin, Reducing, Grow, Write, Descend, Fail, vars, cut, costs

\* A price a relaxation brings down is still afforded.
LEMMA NextAffords ==
  WalkInv /\ Afforded(rules, ruleCost) /\ [Next]_vars => Afforded(rules, ruleCost)'
<1> SUFFICES ASSUME WalkInv, Afforded(rules, ruleCost), [Next]_vars
             PROVE  Afforded(rules', ruleCost')
  OBVIOUS
<1>1. CASE Relax
  <2> DEFINE cost == CostOf(rules, ruleCost)
             c == cost[<<sweep>>]
  <2>1. /\ sweep \in DOMAIN rules.names /\ WellFormed(rules) /\ rules' = rules
        /\ Priced(rules, ruleCost)
        /\ ruleCost' = [ruleCost EXCEPT ![sweep] = c] \/ ruleCost' = ruleCost
    BY <1>1, RelaxIs
  <2>2. <<sweep>> \in Places(rules)
    BY <2>1, VisitedRoot
  <2>3. c < Unreachable => \E d : WritesWithin(rules, d, <<sweep>>, c)
    BY <2>1, <2>2, PlacesAfforded
  <2>4. DOMAIN ruleCost = DOMAIN rules.names
    BY <2>1 DEF Priced
  <2> HIDE DEF c
  <2> SUFFICES ASSUME NEW i \in DOMAIN rules.names, ruleCost'[i] < Unreachable
               PROVE  \E d : WritesWithin(rules, d, <<i>>, ruleCost'[i])
    BY <2>1 DEF Afforded
  <2>5. (i = sweep /\ ruleCost'[i] = c) \/ ruleCost'[i] = ruleCost[i]
    BY <2>1, <2>4
  <2> QED BY <2>3, <2>5 DEF Afforded
<1>2. CASE UNCHANGED <<rules, ruleCost>>
  BY <1>2 DEF Afforded
<1>3. Relax \/ UNCHANGED <<rules, ruleCost>>
  BY OnlyRelax
<1> QED BY <1>1, <1>2, <1>3

\* A production that costs what its body does does not cost more.
LEMMA SettledIsPaid ==
  ASSUME NEW g, WellFormed(g), NEW prices, Priced(g, prices), NEW table, Settled(g, prices, table)
  PROVE  Paid(g, prices)
<1>1. \A j \in DOMAIN g.names : prices[j] = CostOf(g, prices)[<<j>>]
  BY DEF Settled
<1>2. \A j \in DOMAIN g.names : prices[j] <= prices[j]
  BY GrammarAssumption DEF Priced
<1> QED BY <1>1, <1>2 DEF Paid

\* The cost of a production is what its shortest derivation writes: there is
\* none that writes less, and one that writes as much unless nothing can.
ShortestIs(g, i, n) ==
  /\ \A d : Stands(g, d, <<i>>) => n <= Cardinality(Tokens(d))
  /\ n < Unreachable => \E d : Stands(g, d, <<i>>) /\ Cardinality(Tokens(d)) = n

\* Where the productions cost what their bodies do, and can be written within
\* it, that is what the shortest derivations write.
LEMMA SettledIsShortest ==
  ASSUME NEW g, WellFormed(g), NEW prices, Priced(g, prices), NEW table,
         Settled(g, prices, table), Afforded(g, prices), NEW i \in DOMAIN g.names
  PROVE  ShortestIs(g, i, prices[i])
<1>0. Unreachable \in Nat
  BY GrammarAssumption
<1>1. \A j \in DOMAIN g.names : <<j>> \in Places(g) /\ CostOf(g, prices)[<<j>>] \in 0..Unreachable
  BY VisitedRoot, CostIs
<1>2. \A j \in DOMAIN g.names : prices[j] = CostOf(g, prices)[<<j>>]
  BY DEF Settled
<1>3. \A j \in DOMAIN g.names : prices[j] \in 0..Unreachable
  BY <1>1, <1>2
<1>4. Paid(g, prices)
  BY SettledIsPaid
<1>5. ASSUME NEW d, Stands(g, d, <<i>>)
      PROVE  prices[i] <= Cardinality(Tokens(d)) /\ Cardinality(Tokens(d)) \in Nat
  <2>1. Derives(g, d) /\ IsTree(d) /\ <<>> \in DOMAIN d /\ d[<<>>].at = <<i>>
    BY <1>5 DEF Stands, Derives, IsTree
  <2>2. <<i>> # <<>>
    OBVIOUS
  <2>3. CostOf(g, prices)[d[<<>>].at] <= Cardinality(Written(d, <<>>))
    BY <1>4, <2>1, <2>2, NothingIsShorter
  <2>4. Written(d, <<>>) = Tokens(d) /\ Cardinality(Tokens(d)) \in Nat
    BY <2>1, WrittenIs
  <2> QED BY <1>2, <2>1, <2>3, <2>4
<1>6. ASSUME prices[i] < Unreachable
      PROVE  \E d : Stands(g, d, <<i>>) /\ Cardinality(Tokens(d)) = prices[i]
  <2>1. PICK d : WritesWithin(g, d, <<i>>, prices[i])
    BY <1>6 DEF Afforded
  <2>2. Stands(g, d, <<i>>) /\ Cardinality(Tokens(d)) <= prices[i]
    BY <2>1 DEF WritesWithin
  <2>3. prices[i] <= Cardinality(Tokens(d)) /\ Cardinality(Tokens(d)) \in Nat
    BY <1>5, <2>2
  <2>4. Cardinality(Tokens(d)) = prices[i]
    BY <1>0, <1>3, <2>2, <2>3
  <2> QED BY <2>2, <2>4
<1> QED BY <1>5, <1>6 DEF ShortestIs

CostsAreShortest ==
  phase # "cost" => \A i \in DOMAIN rules.names : ShortestIs(rules, i, ruleCost[i])

\* Once they are come by, the costs are those of the shortest derivations of
\* all, however long, deep or often repeated, in every grammar.
THEOREM ShortestOfAll == Spec => []CostsAreShortest
<1>1. WalkInv /\ CostInv /\ Afforded(rules, ruleCost) => CostsAreShortest
  BY WalkAssumption, SettledIsShortest DEF WalkInv, CostInv, CostsAreShortest
<1> QED BY InitWalk, InitCost, InitAffords, NextKeepsWalk, NextSettles, NextAffords, <1>1, PTL DEF Spec

(***************************************************************************)
(* The lengths within productions                                          *)
(***************************************************************************)

\* The lengths of one thing and another.
Together(these, those) == {a + b : a \in these, b \in those}

\* The lengths of what is written in parts, one part after the other.
LEMMA SumsAre ==
  ASSUME NEW n \in Nat, NEW parts, Len(parts) = n, \A k \in 1..n : parts[k] \subseteq Nat
  PROVE  /\ Sums(parts)[0] = {0}
         /\ \A k \in 1..n : Sums(parts)[k] = Together(Sums(parts)[k - 1], parts[k])
         /\ \A k \in 0..n : Sums(parts)[k] \subseteq Nat
<1> DEFINE D == 0..n
           V == SUBSET Nat
           Sum(f, k) == IF k = 0 THEN {0} ELSE Together(f[k - 1], parts[k])
           height == [k \in D |-> k]
           step == [f \in [D -> V] |-> [k \in D |-> Sum(f, k)]]
           start == [k \in D |-> {}]
<1>1. height \in [D -> 0..n] /\ start \in [D -> V]
  OBVIOUS
<1>2. ASSUME NEW f, NEW k \in D, \A j \in D : j < k => f[j] \in V
      PROVE  Sum(f, k) \in V
  <2>1. CASE k = 0
    BY <2>1
  <2>2. CASE k # 0
    <3>1. k - 1 \in D /\ k - 1 < k /\ k \in 1..n
      BY <2>2
    <3>2. f[k - 1] \subseteq Nat /\ parts[k] \subseteq Nat
      BY <1>2, <3>1
    <3>3. \A a \in f[k - 1] : \A b \in parts[k] : a + b \in Nat
      BY <3>2
    <3>4. Together(f[k - 1], parts[k]) \subseteq Nat
      BY <3>3 DEF Together
    <3> QED BY <2>2, <3>4
  <2> QED BY <2>1, <2>2
<1>3. step \in [[D -> V] -> [D -> V]]
  <2> SUFFICES ASSUME NEW f \in [D -> V] PROVE [k \in D |-> Sum(f, k)] \in [D -> V]
    OBVIOUS
  <2> HIDE DEF Sum
  <2> QED BY <1>2
<1>4. ASSUME NEW f \in [D -> V], NEW h \in [D -> V], NEW k \in D,
             \A j \in D : height[j] < height[k] => f[j] = h[j]
      PROVE  step[f][k] = step[h][k]
  <2>1. k # 0 => k - 1 \in D /\ height[k - 1] < height[k]
    OBVIOUS
  <2>2. Sum(f, k) = Sum(h, k)
    BY <1>4, <2>1
  <2>3. step[f][k] = Sum(f, k) /\ step[h][k] = Sum(h, k)
    OBVIOUS
  <2> HIDE DEF step, Sum
  <2> QED BY <2>2, <2>3
<1>5. PICK f \in [D -> V] : f = step[f]
  <2>1. \A f, h \in [D -> V] : \A k \in D :
          (\A j \in D : height[j] < height[k] => f[j] = h[j]) => step[f][k] = step[h][k]
    <3> HIDE DEF D, V, height, step
    <3> QED BY <1>4
  <2>2. [D -> V] # {}
    BY <1>1
  <2> HIDE DEF D, V, height, step, start
  <2>3. LooksLower(D, V, n, height, step)
    BY <1>1, <1>3, <2>1, <2>2 DEF LooksLower
  <2> QED BY <2>3, Recursion
<1>6. f = [k \in D |-> Sum(f, k)]
  BY <1>5
<1> DEFINE s == Sums(parts)
<1>7. s = CHOOSE t : t = [k \in D |-> Sum(t, k)]
  BY DEF Sums, Together
<1>8. s = [k \in D |-> Sum(s, k)]
  <2> HIDE DEF Sum, D, s
  <2> QED BY <1>6, <1>7
<1> HIDE DEF s
<1>9. \A k \in D : s[k] = Sum(s, k)
  <2> HIDE DEF Sum, D
  <2> QED BY <1>8
<1>10. \A k \in D : s[k] \in V
  <2> DEFINE bad == {k \in 0..n : s[k] \notin V}
  <2>1. 0 \notin bad /\ bad \subseteq 0..n
    <3>1. s[0] = {0}
      BY <1>9
    <3> QED BY <3>1
  <2>2. ASSUME NEW k \in 1..n, k \in bad PROVE k - 1 \in bad
    <3> SUFFICES ASSUME s[k - 1] \in V PROVE s[k] \in V
      BY <2>2
    <3>1. s[k] = Together(s[k - 1], parts[k])
      BY <1>9
    <3>2. \A a \in s[k - 1] : \A b \in parts[k] : a + b \in Nat
      OBVIOUS
    <3> QED BY <3>1, <3>2 DEF Together
  <2>3. bad = {}
    <3> HIDE DEF bad
    <3> QED BY <2>1, <2>2, NoneBefore
  <2> QED BY <2>3
<1>11. s[0] = {0} /\ \A k \in 1..n : s[k] = Together(s[k - 1], parts[k])
  <2>1. 0 \in D /\ \A k \in 1..n : k \in D /\ k # 0
    OBVIOUS
  <2> HIDE DEF D
  <2> QED BY <1>9, <2>1
<1> QED BY <1>10, <1>11 DEF s

\* A sequence costs no less than any of its parts.
LEMMA SpentCovers ==
  ASSUME NEW n \in Nat, NEW parts, Len(parts) = n, \A k \in 1..n : parts[k] \in 0..Unreachable,
         NEW j \in 1..n
  PROVE  parts[j] <= Spent(parts)[n]
<1> DEFINE s == Spent(parts)
           p == parts[j]
           bad == {k \in 0..n : k >= j /\ ~(p <= s[k])}
<1>0. Unreachable \in Nat /\ p \in 0..Unreachable /\ \A k \in 1..n : parts[k] \in Nat
  BY GrammarAssumption
<1>1. /\ \A k \in 1..n : s[k] = Capped(s[k - 1] + parts[k])
      /\ \A k \in 0..n : s[k] \in 0..Unreachable
  BY <1>0, SpentAt
<1> HIDE DEF s
<1>2. ASSUME NEW k \in 1..n, p <= parts[k] \/ p <= s[k - 1] PROVE p <= s[k]
  <2>1. k - 1 \in 0..n
    OBVIOUS
  <2> DEFINE a == s[k - 1]
             b == parts[k]
  <2>2. a \in 0..Unreachable /\ b \in 0..Unreachable /\ s[k] = Capped(a + b) /\ (p <= b \/ p <= a)
    BY <1>1, <1>2, <2>1
  <2> HIDE DEF a, b, p
  <2> QED BY <1>0, <2>2 DEF Capped
<1>3. p <= s[j]
  <2>1. p <= parts[j]
    BY <1>0
  <2> QED BY <1>2, <2>1
<1> HIDE DEF p
<1>4. 0 \notin bad /\ bad \subseteq 0..n
  OBVIOUS
<1>5. ASSUME NEW k \in 1..n, k \in bad PROVE k - 1 \in bad
  <2>1. k >= j /\ ~(p <= s[k]) /\ k # j
    BY <1>3, <1>5
  <2>2. ~(p <= s[k - 1])
    BY <1>2, <2>1
  <2>3. k - 1 \in 0..n /\ k - 1 >= j
    BY <2>1
  <2> QED BY <2>2, <2>3
<1>6. bad = {}
  <2> HIDE DEF bad
  <2> QED BY <1>4, <1>5, NoneBefore
<1>7. p <= s[n]
  BY <1>6
<1> QED BY <1>7 DEF p, s

\* What can be written in parts is not shorter than what the parts cost.
LEMMA SumsCover ==
  ASSUME NEW n \in Nat, NEW parts, Len(parts) = n, \A k \in 1..n : parts[k] \subseteq Nat,
         NEW prices, Len(prices) = n, \A k \in 1..n : prices[k] \in Nat,
         \A k \in 1..n : \A b \in parts[k] : prices[k] <= b,
         NEW x \in Sums(parts)[n]
  PROVE  Spent(prices)[n] <= x
<1> DEFINE s == Spent(prices)
           t == Sums(parts)
           bad == {k \in 0..n : ~\A y \in t[k] : s[k] <= y}
<1>0. Unreachable \in Nat
  BY GrammarAssumption
<1>1. /\ s[0] = 0 /\ \A k \in 1..n : s[k] = Capped(s[k - 1] + prices[k])
      /\ \A k \in 0..n : s[k] \in 0..Unreachable
  BY SpentAt
<1>2. /\ t[0] = {0} /\ \A k \in 1..n : t[k] = Together(t[k - 1], parts[k])
      /\ \A k \in 0..n : t[k] \subseteq Nat
  BY SumsAre
<1> HIDE DEF s, t
<1>3. 0 \notin bad /\ bad \subseteq 0..n
  BY <1>1, <1>2
<1>4. ASSUME NEW k \in 1..n, k \in bad PROVE k - 1 \in bad
  <2> SUFFICES ASSUME \A y \in t[k - 1] : s[k - 1] <= y, NEW y \in t[k] PROVE s[k] <= y
    BY <1>4
  <2>1. k - 1 \in 0..n /\ k \in 0..n
    OBVIOUS
  <2>2. PICK a \in t[k - 1] : \E b \in parts[k] : y = a + b
    BY <1>2 DEF Together
  <2>3. PICK b \in parts[k] : y = a + b
    BY <2>2
  <2> DEFINE u == s[k - 1]
             v == prices[k]
  <2>4. a \in Nat /\ b \in Nat /\ u \in Nat /\ v \in Nat /\ u <= a /\ v <= b /\ s[k] = Capped(u + v)
    BY <1>0, <1>1, <1>2, <2>1
  <2> HIDE DEF u, v
  <2> QED BY <1>0, <2>3, <2>4 DEF Capped
<1>5. bad = {}
  <2> HIDE DEF bad
  <2> QED BY <1>3, <1>4, NoneBefore
<1>6. s[n] <= x
  BY <1>5 DEF t
<1> QED BY <1>6 DEF s

\* What the parts cost is a length they can be written in together, if each of
\* them can be written in what it costs.
LEMMA SumsReach ==
  ASSUME NEW n \in Nat, NEW parts, Len(parts) = n, \A k \in 1..n : parts[k] \subseteq Nat,
         NEW prices, Len(prices) = n, \A k \in 1..n : prices[k] \in 0..Unreachable,
         \A k \in 1..n : prices[k] \in parts[k],
         Spent(prices)[n] < Unreachable
  PROVE  Spent(prices)[n] \in Sums(parts)[n]
<1> DEFINE s == Spent(prices)
           t == Sums(parts)
           bad == {k \in 0..n : s[k] < Unreachable /\ s[k] \notin t[k]}
<1>0. Unreachable \in Nat /\ \A k \in 1..n : prices[k] \in Nat
  BY GrammarAssumption
<1>1. /\ s[0] = 0 /\ \A k \in 1..n : s[k] = Capped(s[k - 1] + prices[k])
      /\ \A k \in 0..n : s[k] \in 0..Unreachable
  BY <1>0, SpentAt
<1>2. /\ t[0] = {0} /\ \A k \in 1..n : t[k] = Together(t[k - 1], parts[k])
  BY SumsAre
<1> HIDE DEF s, t
<1>3. 0 \notin bad /\ bad \subseteq 0..n
  BY <1>1, <1>2
<1>4. ASSUME NEW k \in 1..n, k \in bad PROVE k - 1 \in bad
  <2>1. k - 1 \in 0..n /\ k \in 0..n /\ s[k] < Unreachable /\ s[k] \notin t[k]
    BY <1>4
  <2> DEFINE u == s[k - 1]
             v == prices[k]
  <2>2. u \in Nat /\ v \in Nat /\ s[k] = Capped(u + v) /\ v \in parts[k]
    BY <1>0, <1>1, <2>1
  <2>3. s[k] = u + v /\ u < Unreachable
    <3> HIDE DEF u, v
    <3> QED BY <1>0, <2>1, <2>2 DEF Capped
  <2>4. u \notin t[k - 1]
    <3> SUFFICES ASSUME u \in t[k - 1] PROVE FALSE
      OBVIOUS
    <3>1. u + v \in Together(t[k - 1], parts[k])
      <4> HIDE DEF u, v
      <4> QED BY <2>2 DEF Together
    <3>2. t[k] = Together(t[k - 1], parts[k])
      BY <1>2
    <3> QED BY <2>1, <2>3, <3>1, <3>2
  <2> QED BY <2>1, <2>3, <2>4
<1>5. bad = {}
  <2> HIDE DEF bad
  <2> QED BY <1>3, <1>4, NoneBefore
<1>6. n \in 0..n
  OBVIOUS
<1>7. s[n] \in t[n]
  BY <1>5, <1>6 DEF s
<1> QED BY <1>7 DEF s, t

KidLengths(g, of, at) == [k \in 1..NodeAt(g, at).kids |-> of[Append(at, k)]]

\* The lengths of a node, by the kind of the node.
LEMMA LengthsAtIs ==
  ASSUME NEW g, NEW lengths, NEW inside, NEW of, NEW at
  PROVE  LET n == NodeAt(g, at)
             kids == KidLengths(g, of, at)
             l == LengthsAt(g, lengths, inside, of, at)
         IN  /\ n.kind = "word" => l = {1}
             /\ n.kind = "prose" => l = {}
             /\ n.kind = "ref" => l = RefLengths(g, lengths, inside, n.name)
             /\ n.kind = "opt" => l = {0} \cup kids[1]
             /\ n.kind = "alt" => l = UNION Range(kids)
             /\ n.kind = "repeat" => l = kids[1]
             /\ n.kind = "seq" => l = Sums(kids)[n.kids]
<1> DEFINE n == NodeAt(g, at)
           kids == KidLengths(g, of, at)
<1>1. LengthsAt(g, lengths, inside, of, at) =
        CASE n.kind = "word" -> {1}
          [] n.kind = "prose" -> {}
          [] n.kind = "ref" -> RefLengths(g, lengths, inside, n.name)
          [] n.kind = "opt" -> {0} \cup kids[1]
          [] n.kind = "alt" -> UNION Range(kids)
          [] n.kind = "repeat" -> kids[1]
          [] n.kind = "seq" -> Sums(kids)[n.kids]
  BY DEF LengthsAt, KidLengths
<1> HIDE DEF n, kids
<1> QED BY <1>1 DEF n, kids

\* The children's lengths, in a row.
LEMMA KidLengthsAre ==
  ASSUME NEW g, WellFormed(g), NEW of, NEW at \in Places(g),
         \A k \in 1..NodeAt(g, at).kids : of[Append(at, k)] \subseteq Nat
  PROVE  LET kids == KidLengths(g, of, at)
             n == NodeAt(g, at).kids
         IN  /\ n \in Nat /\ Len(kids) = n
             /\ \A k \in 1..n : kids[k] = of[Append(at, k)] /\ kids[k] \subseteq Nat
             /\ \A x : x \in UNION Range(kids) <=> \E k \in 1..n : x \in kids[k]
<1> DEFINE kids == KidLengths(g, of, at)
           n == NodeAt(g, at).kids
<1>1. n \in Nat
  BY PlaceIs
<1>2. kids = [k \in 1..n |-> of[Append(at, k)]]
  BY DEF KidLengths
<1> HIDE DEF kids, n
<1>3. DOMAIN kids = 1..n /\ \A k \in 1..n : kids[k] = of[Append(at, k)]
  BY <1>2
<1>4. Len(kids) = n
  BY <1>1, <1>2
<1>5. \A k \in 1..n : kids[k] \subseteq Nat
  BY <1>3 DEF n
<1>6. \A x : x \in UNION Range(kids) <=> \E k \in 1..n : x \in kids[k]
  BY <1>3 DEF Range
<1> QED BY <1>1, <1>3, <1>4, <1>5, <1>6 DEF kids, n

\* What is known of the lengths within more productions.
KnownFrom(g, lengths, inside) ==
  \A name \in Range(g.names) \ inside :
    lengths[inside \cup {name}] \in [Places(g) -> SUBSET Nat]

\* A node has lengths when its children do.
LEMMA LengthsAtTyped ==
  ASSUME NEW g, WellFormed(g), NEW lengths, NEW inside, KnownFrom(g, lengths, inside),
         NEW at \in Places(g),
         NEW of, \A k \in 1..NodeAt(g, at).kids : of[Append(at, k)] \subseteq Nat
  PROVE  LengthsAt(g, lengths, inside, of, at) \subseteq Nat
<1> DEFINE n == NodeAt(g, at)
           kids == KidLengths(g, of, at)
           m == n.kids
           l == LengthsAt(g, lengths, inside, of, at)
<1>1. /\ n.kind \in {"word", "prose", "ref", "opt", "repeat", "alt", "seq"}
      /\ n.kind \in {"opt", "repeat"} => m = 1
  BY PlaceIs
<1>2. /\ m \in Nat /\ Len(kids) = m /\ \A k \in 1..m : kids[k] \subseteq Nat
      /\ \A x : x \in UNION Range(kids) <=> \E k \in 1..m : x \in kids[k]
  BY KidLengthsAre
<1>3. /\ n.kind = "word" => l = {1}
      /\ n.kind = "prose" => l = {}
      /\ n.kind = "ref" => l = RefLengths(g, lengths, inside, n.name)
      /\ n.kind = "opt" => l = {0} \cup kids[1]
      /\ n.kind = "alt" => l = UNION Range(kids)
      /\ n.kind = "repeat" => l = kids[1]
      /\ n.kind = "seq" => l = Sums(kids)[m]
  BY LengthsAtIs
<1>4. RefLengths(g, lengths, inside, n.name) \subseteq Nat
  <2> DEFINE i == RuleNo(g, n.name)
  <2>1. CASE n.name \notin DOMAIN Cut /\ Defined(g, n.name) /\ n.name \notin inside
    <3>1. i \in DOMAIN g.names /\ n.name \in Range(g.names)
      BY <2>1, RuleNoIs DEF Defined
    <3>2. <<i>> \in Places(g)
      BY <3>1, VisitedRoot
    <3>3. lengths[inside \cup {n.name}] \in [Places(g) -> SUBSET Nat]
      BY <2>1, <3>1 DEF KnownFrom
    <3> HIDE DEF n
    <3>4. lengths[inside \cup {n.name}][<<i>>] \subseteq Nat
      BY <3>2, <3>3
    <3> QED BY <2>1, <3>4 DEF RefLengths
  <2>2. CASE n.name \in DOMAIN Cut
    <3> DEFINE a == IF Cut[n.name] = <<>> THEN 0 ELSE 1
    <3>1. a \in Nat
      OBVIOUS
    <3>2. RefLengths(g, lengths, inside, n.name) = {a}
      BY <2>2 DEF RefLengths
    <3> HIDE DEF a
    <3> QED BY <3>1, <3>2
  <2>3. CASE n.name \notin DOMAIN Cut /\ ~(Defined(g, n.name) /\ n.name \notin inside)
    <3>1. RefLengths(g, lengths, inside, n.name) = {}
      BY <2>3 DEF RefLengths
    <3> QED BY <3>1
  <2> QED BY <2>1, <2>2, <2>3
<1> HIDE DEF n, kids, m, l
<1>5. UNION Range(kids) \subseteq Nat
  BY <1>2
<1>6. Sums(kids)[m] \subseteq Nat
  <2>1. m \in 0..m
    BY <1>2
  <2> QED BY <1>2, <2>1, SumsAre
<1>7. m = 1 => kids[1] \subseteq Nat
  BY <1>2
<1>8. l \subseteq Nat
  BY <1>1, <1>3, <1>4, <1>5, <1>6, <1>7
<1> QED BY <1>8 DEF l

\* Within some productions everything has lengths.
LEMMA LengthsWithinAre ==
  ASSUME NEW g, WellFormed(g), NEW lengths, NEW inside, KnownFrom(g, lengths, inside)
  PROVE  LET of == LengthsWithin(g, lengths, inside)
         IN  /\ of \in [Places(g) -> SUBSET Nat]
             /\ \A at \in Places(g) : of[at] = LengthsAt(g, lengths, inside, of, at)
<1> DEFINE D == Places(g)
           V == SUBSET Nat
           N == Cardinality(D)
           height == [at \in D |-> N - Len(at)]
           Node(f, at) == LengthsAt(g, lengths, inside, f, at)
           step == [f \in [D -> V] |-> [at \in D |-> Node(f, at)]]
           start == [at \in D |-> {}]
<1>0. N \in Nat
  BY FS_CardinalityType DEF WellFormed
<1> HIDE DEF N
<1>1. height \in [D -> 0..N] /\ start \in [D -> V]
  <2>1. ASSUME NEW at \in D PROVE N - Len(at) \in 0..N
    <3>1. Len(at) \in Nat /\ Len(at) <= N
      BY PlaceIs DEF N
    <3> QED BY <1>0, <3>1
  <2> HIDE DEF D
  <2> QED BY <2>1
<1>2. ASSUME NEW at \in D, NEW k \in 1..NodeAt(g, at).kids
      PROVE  Append(at, k) \in D /\ height[Append(at, k)] < height[at]
  <2>1. /\ Append(at, k) \in D /\ Len(Append(at, k)) = Len(at) + 1 /\ Len(at) \in Nat
    BY PlaceIs
  <2>2. height[Append(at, k)] = N - Len(Append(at, k)) /\ height[at] = N - Len(at)
    BY <2>1
  <2> HIDE DEF height
  <2> QED BY <1>0, <2>1, <2>2
<1>3. ASSUME NEW f, NEW at \in D, \A y \in D : height[y] < height[at] => f[y] \in V
      PROVE  Node(f, at) \in V
  <2>1. \A k \in 1..NodeAt(g, at).kids : f[Append(at, k)] \in V
    BY <1>2, <1>3
  <2> QED BY <2>1, LengthsAtTyped
<1>4. step \in [[D -> V] -> [D -> V]]
  <2> SUFFICES ASSUME NEW f \in [D -> V] PROVE [at \in D |-> Node(f, at)] \in [D -> V]
    OBVIOUS
  <2> HIDE DEF Node, D, V, height
  <2> QED BY <1>3
<1>5. ASSUME NEW f \in [D -> V], NEW h \in [D -> V], NEW at \in D,
             \A y \in D : height[y] < height[at] => f[y] = h[y]
      PROVE  step[f][at] = step[h][at]
  <2>1. KidLengths(g, f, at) = KidLengths(g, h, at)
    BY <1>2, <1>5 DEF KidLengths
  <2>2. Node(f, at) = Node(h, at)
    BY <2>1 DEF LengthsAt, KidLengths
  <2>3. step[f][at] = Node(f, at) /\ step[h][at] = Node(h, at)
    OBVIOUS
  <2> HIDE DEF step, Node
  <2> QED BY <2>2, <2>3
<1>6. PICK f \in [D -> V] : f = step[f]
  <2>1. \A f, h \in [D -> V] : \A at \in D :
          (\A y \in D : height[y] < height[at] => f[y] = h[y]) => step[f][at] = step[h][at]
    BY <1>5
  <2>2. [D -> V] # {}
    BY <1>1
  <2> HIDE DEF D, V, height, step, start
  <2>3. LooksLower(D, V, N, height, step)
    BY <1>0, <1>1, <1>4, <2>1, <2>2 DEF LooksLower
  <2> QED BY <2>3, Recursion
<1>7. f = [at \in D |-> Node(f, at)]
  BY <1>6
<1> DEFINE of == LengthsWithin(g, lengths, inside)
<1>8. of = CHOOSE t : t = [at \in D |-> Node(t, at)]
  BY DEF LengthsWithin
<1>9. of = [at \in D |-> Node(of, at)]
  <2> HIDE DEF Node, D, of
  <2> QED BY <1>7, <1>8
<1> HIDE DEF of
<1>10. DOMAIN of = D /\ \A at \in D : of[at] = Node(of, at)
  <2> HIDE DEF Node, D
  <2> QED BY <1>9
<1>11. \A at \in D : of[at] \in V
  <2> DEFINE bad == {at \in Places(g) : of[at] \notin V}
  <2>1. ASSUME NEW at \in bad PROVE \E k \in 1..NodeAt(g, at).kids : Append(at, k) \in bad
    <3> SUFFICES ASSUME \A k \in 1..NodeAt(g, at).kids : Append(at, k) \notin bad PROVE FALSE
      OBVIOUS
    <3>1. \A k \in 1..NodeAt(g, at).kids : of[Append(at, k)] \subseteq Nat
      BY <1>2
    <3>2. LengthsAt(g, lengths, inside, of, at) \subseteq Nat
      BY <3>1, LengthsAtTyped
    <3> QED BY <1>10, <3>2
  <2>2. bad = {}
    <3>1. bad \subseteq Places(g)
      OBVIOUS
    <3> HIDE DEF bad
    <3> QED BY <2>1, <3>1, NoneAbove
  <2> QED BY <2>2
<1>12. of \in [D -> V]
  <2> HIDE DEF D, V, Node
  <2> QED BY <1>9, <1>11
<1> QED BY <1>10, <1>12 DEF of

\* How many productions are not among these.
Outside(g, inside) == Cardinality(Range(g.names) \ inside)

\* There are so many, and one fewer when one joins them.
LEMMA OutsideIs ==
  ASSUME NEW g, WellFormed(g), NEW inside
  PROVE  /\ IsFiniteSet(Range(g.names)) /\ Cardinality(Range(g.names)) \in Nat
         /\ Outside(g, inside) \in 0..Cardinality(Range(g.names))
         /\ \A name \in Range(g.names) \ inside : Outside(g, inside \cup {name}) < Outside(g, inside)
<1> DEFINE S == Range(g.names)
           N == Cardinality(S)
           T == S \ inside
<1>1. IsFiniteSet(S)
  <2> DEFINE D == DOMAIN g.names
             f == g.names
  <2>1. IsFiniteSet(D)
    <3>1. Len(g.names) \in Nat /\ D = 1..Len(g.names)
      BY NamesAre
    <3> QED BY <3>1, UpTo
  <2>2. \A x, y \in D : f[x] = f[y] => x = y
    BY DEF WellFormed
  <2>3. S = {f[x] : x \in D}
    BY DEF Range
  <2> HIDE DEF D, f, S
  <2> QED BY <2>1, <2>2, <2>3, OneToOne
<1>2. N \in Nat
  BY <1>1, FS_CardinalityType
<1> HIDE DEF S
<1>3. IsFiniteSet(T) /\ Cardinality(T) <= N /\ Cardinality(T) \in Nat
  <2>1. IsFiniteSet(T) /\ Cardinality(T) <= N
    BY <1>1, FS_Subset
  <2> QED BY <2>1, FS_CardinalityType
<1>4. ASSUME NEW name \in T
      PROVE  Cardinality(S \ (inside \cup {name})) < Cardinality(T)
  <2>1. S \ (inside \cup {name}) = T \ {name}
    OBVIOUS
  <2>2. Cardinality(T \ {name}) = Cardinality(T) - 1
    <3> HIDE DEF T
    <3> QED BY <1>3, <1>4, FS_RemoveElement
  <2> HIDE DEF T
  <2> QED BY <1>3, <2>1, <2>2
<1>5. Cardinality(T) \in 0..N
  <2> HIDE DEF T, N
  <2> QED BY <1>2, <1>3
<1> QED BY <1>1, <1>2, <1>4, <1>5 DEF Outside, S

\* One more is among these.
Another(g, these, inside) == \E name \in Range(g.names) \ inside : inside \cup {name} \in these

\* Sets of productions that each go on being one with one production more are none.
LEMMA NoneWithin ==
  ASSUME NEW g, WellFormed(g), NEW bad, bad \subseteq SUBSET Range(g.names),
         \A inside \in bad : Another(g, bad, inside)
  PROVE  bad = {}
<1> SUFFICES ASSUME bad # {} PROVE FALSE
  OBVIOUS
<1> DEFINE T == {Outside(g, inside) : inside \in bad}
<1>1. \A inside : Outside(g, inside) \in Nat
  <2>1. ASSUME NEW inside PROVE Outside(g, inside) \in Nat
    <3>1. Outside(g, inside) \in 0..Cardinality(Range(g.names)) /\ Cardinality(Range(g.names)) \in Nat
      BY OutsideIs
    <3> QED BY <3>1
  <2> QED BY <2>1
<1>2. T \subseteq Nat /\ T # {}
  BY <1>1
<1>3. PICK n \in T : \A m \in T : n <= m
  <2> HIDE DEF T
  <2> QED BY <1>2, LeastNatural
<1>4. PICK inside \in bad : n = Outside(g, inside)
  OBVIOUS
<1>5. PICK name \in Range(g.names) \ inside : inside \cup {name} \in bad
  BY <1>4 DEF Another
<1>6. Outside(g, inside \cup {name}) < Outside(g, inside)
  BY <1>5, OutsideIs
<1>7. Outside(g, inside) <= Outside(g, inside \cup {name})
  BY <1>3, <1>4, <1>5
<1> QED BY <1>1, <1>6, <1>7

\* All the lengths, which go by what they are within more productions.
Known(g, lengths) ==
  \A inside \in SUBSET Range(g.names) :
    /\ lengths[inside] \in [Places(g) -> SUBSET Nat]
    /\ \A at \in Places(g) : lengths[inside][at] = LengthsAt(g, lengths, inside, lengths[inside], at)

\* They go by no more than that.
LEMMA SameWithin ==
  ASSUME NEW g, NEW f, NEW h, NEW inside,
         \A name \in Range(g.names) \ inside : f[inside \cup {name}] = h[inside \cup {name}]
  PROVE  LengthsWithin(g, f, inside) = LengthsWithin(g, h, inside)
<1> DEFINE D == Places(g)
           P(of, at) == LengthsAt(g, f, inside, of, at)
           Q(of, at) == LengthsAt(g, h, inside, of, at)
<1>1. \A name : RefLengths(g, f, inside, name) = RefLengths(g, h, inside, name)
  BY DEF RefLengths, Defined
<1>2. \A of : \A at \in D : P(of, at) = Q(of, at)
  BY <1>1 DEF LengthsAt
<1>3. /\ LengthsWithin(g, f, inside) = CHOOSE of : of = [at \in D |-> P(of, at)]
      /\ LengthsWithin(g, h, inside) = CHOOSE of : of = [at \in D |-> Q(of, at)]
  BY DEF LengthsWithin
<1> HIDE DEF D, P, Q
<1>4. \A of : [at \in D |-> P(of, at)] = [at \in D |-> Q(of, at)]
  BY <1>2
<1>5. \A of : (of = [at \in D |-> P(of, at)]) <=> (of = [at \in D |-> Q(of, at)])
  BY <1>4
<1>6. (CHOOSE of : of = [at \in D |-> P(of, at)]) = CHOOSE of : of = [at \in D |-> Q(of, at)]
  BY Zenon, <1>5
<1> QED BY <1>3, <1>6

\* The lengths there are.
LEMMA LengthsAre ==
  ASSUME NEW g, WellFormed(g)
  PROVE  Known(g, Lengths(g))
<1> DEFINE D == SUBSET Range(g.names)
           V == [Places(g) -> SUBSET Nat]
           N == Cardinality(Range(g.names))
           height == [inside \in D |-> Outside(g, inside)]
           step == [f \in [D -> V] |-> [inside \in D |-> LengthsWithin(g, f, inside)]]
           nowhere == [at \in Places(g) |-> {}]
           start == [inside \in D |-> nowhere]
<1>0. N \in Nat
  BY OutsideIs
<1>1. height \in [D -> 0..N] /\ start \in [D -> V]
  <2>1. \A inside \in D : Outside(g, inside) \in 0..N
    BY OutsideIs
  <2>2. nowhere \in V
    OBVIOUS
  <2> HIDE DEF D, V, N, nowhere
  <2> QED BY <2>1, <2>2
<1>2. ASSUME NEW inside \in D, NEW name \in Range(g.names) \ inside
      PROVE  inside \cup {name} \in D /\ height[inside \cup {name}] < height[inside]
  <2>1. inside \cup {name} \in D
    OBVIOUS
  <2> HIDE DEF D
  <2> QED BY <2>1, OutsideIs
<1>3. step \in [[D -> V] -> [D -> V]]
  <2> SUFFICES ASSUME NEW f \in [D -> V], NEW inside \in D PROVE LengthsWithin(g, f, inside) \in V
    OBVIOUS
  <2>1. KnownFrom(g, f, inside)
    BY <1>2 DEF KnownFrom
  <2> QED BY <2>1, LengthsWithinAre
<1>4. ASSUME NEW f \in [D -> V], NEW h \in [D -> V], NEW inside \in D,
             \A y \in D : height[y] < height[inside] => f[y] = h[y]
      PROVE  step[f][inside] = step[h][inside]
  <2>1. \A name \in Range(g.names) \ inside : f[inside \cup {name}] = h[inside \cup {name}]
    BY <1>2, <1>4
  <2>2. LengthsWithin(g, f, inside) = LengthsWithin(g, h, inside)
    BY <2>1, SameWithin
  <2>3. step[f][inside] = LengthsWithin(g, f, inside) /\ step[h][inside] = LengthsWithin(g, h, inside)
    OBVIOUS
  <2> HIDE DEF step
  <2> QED BY <2>2, <2>3
<1>5. PICK f \in [D -> V] : f = step[f]
  <2>1. \A f, h \in [D -> V] : \A x \in D :
          (\A y \in D : height[y] < height[x] => f[y] = h[y]) => step[f][x] = step[h][x]
    <3> HIDE DEF D, V, height, step
    <3> QED BY <1>4
  <2>2. [D -> V] # {}
    BY <1>1
  <2> HIDE DEF D, V, N, height, step, start
  <2>3. LooksLower(D, V, N, height, step)
    BY <1>0, <1>1, <1>3, <2>1, <2>2 DEF LooksLower
  <2> QED BY <2>3, Recursion
<1>6. f = [inside \in D |-> LengthsWithin(g, f, inside)]
  BY <1>5
<1> DEFINE l == Lengths(g)
<1>7. l = CHOOSE t : t = [inside \in D |-> LengthsWithin(g, t, inside)]
  BY DEF Lengths
<1>8. l = [inside \in D |-> LengthsWithin(g, l, inside)]
  <2> HIDE DEF D, l
  <2> QED BY <1>6, <1>7
<1> HIDE DEF l
<1>9. \A inside \in D : l[inside] = LengthsWithin(g, l, inside)
  <2> HIDE DEF D
  <2> QED BY <1>8
<1> DEFINE bad == {inside \in D : l[inside] \notin V}
<1>10. ASSUME NEW inside \in bad PROVE Another(g, bad, inside)
  <2> SUFFICES ASSUME \A name \in Range(g.names) \ inside : inside \cup {name} \notin bad PROVE FALSE
    BY DEF Another
  <2>1. inside \in D /\ l[inside] \notin V
    OBVIOUS
  <2>2. \A name \in Range(g.names) \ inside : l[inside \cup {name}] \in V
    BY <1>2, <2>1
  <2>3. KnownFrom(g, l, inside)
    BY <2>2 DEF KnownFrom
  <2>4. LengthsWithin(g, l, inside) \in V
    BY <2>3, LengthsWithinAre
  <2> QED BY <1>9, <2>1, <2>4
<1>11. bad = {}
  <2>1. bad \subseteq SUBSET Range(g.names)
    OBVIOUS
  <2> HIDE DEF bad
  <2> QED BY <1>10, <2>1, NoneWithin
<1>12. \A inside \in D : l[inside] \in V
  BY <1>11
<1>13. ASSUME NEW inside \in D
       PROVE  \A at \in Places(g) : l[inside][at] = LengthsAt(g, l, inside, l[inside], at)
  <2>1. KnownFrom(g, l, inside)
    BY <1>2, <1>12 DEF KnownFrom
  <2>2. LET of == LengthsWithin(g, l, inside)
        IN  \A at \in Places(g) : of[at] = LengthsAt(g, l, inside, of, at)
    BY <2>1, LengthsWithinAre
  <2> QED BY <1>9, <2>2
<1> QED BY <1>12, <1>13 DEF Known, l

\* Each of these lengths is at least so much.
NoneUnder(lengths, n) == \A x \in lengths : n <= x

\* What a node can be written in is not less than it costs, if that is so of
\* its children and, within more productions, of the bodies.
LEMMA LengthsAtCover ==
  ASSUME NEW g, WellFormed(g), NEW prices, Priced(g, prices), Paid(g, prices),
         NEW lengths, NEW inside, KnownFrom(g, lengths, inside),
         \A name \in Range(g.names) \ inside : \A i \in DOMAIN g.names :
           NoneUnder(lengths[inside \cup {name}][<<i>>], CostOf(g, prices)[<<i>>]),
         NEW at \in Places(g),
         NEW of, \A k \in 1..NodeAt(g, at).kids : of[Append(at, k)] \subseteq Nat,
         \A k \in 1..NodeAt(g, at).kids :
           NoneUnder(of[Append(at, k)], CostOf(g, prices)[Append(at, k)])
  PROVE  NoneUnder(LengthsAt(g, lengths, inside, of, at), CostOf(g, prices)[at])
<1> DEFINE c == CostOf(g, prices)
           n == NodeAt(g, at)
           m == n.kids
           fees == KidCosts(g, c, at)
           parts == KidLengths(g, of, at)
           l == LengthsAt(g, lengths, inside, of, at)
<1>0. Unreachable \in Nat
  BY GrammarAssumption
<1>1. /\ n.kind \in {"word", "prose", "ref", "opt", "repeat", "alt", "seq"}
      /\ n.kind \in {"opt", "repeat"} => m = 1
  BY PlaceIs
<1>2. /\ m \in Nat /\ Len(parts) = m
      /\ \A k \in 1..m : parts[k] = of[Append(at, k)] /\ parts[k] \subseteq Nat
      /\ \A x : x \in UNION Range(parts) <=> \E k \in 1..m : x \in parts[k]
  BY KidLengthsAre
<1>3. /\ Len(fees) = m /\ (\A k \in 1..m : fees[k] = c[Append(at, k)])
      /\ \A k \in 1..m : fees[k] \in Nat
      /\ Range(fees) = {fees[k] : k \in 1..m}
  BY KidCostsAre
<1>4. /\ n.kind = "word" => l = {1}
      /\ n.kind = "prose" => l = {}
      /\ n.kind = "ref" => l = RefLengths(g, lengths, inside, n.name)
      /\ n.kind = "opt" => l = {0} \cup parts[1]
      /\ n.kind = "alt" => l = UNION Range(parts)
      /\ n.kind = "repeat" => l = parts[1]
      /\ n.kind = "seq" => l = Sums(parts)[m]
  BY LengthsAtIs
<1>5. /\ n.kind = "word" => c[at] = 1
      /\ n.kind = "ref" => c[at] = RefCost(g, prices, n.name)
      /\ n.kind = "opt" => c[at] = 0
      /\ n.kind = "alt" => c[at] = Min({Unreachable} \cup Range(fees))
      /\ n.kind = "repeat" => c[at] = fees[1]
      /\ n.kind = "seq" => c[at] = Spent(fees)[m]
  <2>1. c[at] = NodeCost(g, prices, c, at)
    BY CostIs
  <2> QED BY <2>1, NodeCostIs
<1>6. \A k \in 1..m : \A x \in parts[k] : fees[k] <= x /\ x \in Nat
  BY <1>2, <1>3 DEF NoneUnder
<1>7. l \subseteq Nat
  BY LengthsAtTyped
<1> SUFFICES ASSUME NEW x \in l PROVE c[at] <= x
  BY DEF NoneUnder
<1>8. CASE n.kind = "ref"
  <2> DEFINE i == RuleNo(g, n.name)
             more == inside \cup {n.name}
  <2>1. CASE n.name \in DOMAIN Cut
    <3>1. l = {IF Cut[n.name] = <<>> THEN 0 ELSE 1} /\ c[at] = IF Cut[n.name] = <<>> THEN 0 ELSE 1
      BY <1>4, <1>5, <1>8, <2>1 DEF RefLengths, RefCost
    <3> HIDE DEF c, l
    <3>2. x = c[at] /\ x \in Nat
      BY <1>7, <3>1
    <3> QED BY <3>2
  <2>2. CASE n.name \notin DOMAIN Cut
    <3>1. Defined(g, n.name) /\ n.name \notin inside /\ x \in lengths[more][<<i>>]
      BY <1>4, <1>8, <2>2 DEF RefLengths
    <3>2. i \in DOMAIN g.names /\ n.name \in Range(g.names) \ inside
      BY <3>1, RuleNoIs DEF Defined
    <3>3. c[at] = prices[i]
      BY <1>5, <1>8, <2>2, <3>1 DEF RefCost
    <3>4. NoneUnder(lengths[more][<<i>>], c[<<i>>])
      BY <3>2
    <3>5. prices[i] <= c[<<i>>]
      BY <3>2 DEF Paid
    <3>6. prices[i] \in 0..Unreachable /\ c[<<i>>] \in 0..Unreachable /\ x \in Nat
      BY <1>7, <3>2, VisitedRoot, CostIs DEF Priced
    <3> DEFINE e == c[<<i>>]
               p == prices[i]
    <3>7. p <= e /\ p \in 0..Unreachable /\ e \in 0..Unreachable /\ x \in Nat
      BY <3>5, <3>6
    <3> HIDE DEF e, p
    <3>8. e <= x
      BY <3>1, <3>4 DEF NoneUnder, e
    <3>9. p <= x
      BY <1>0, <3>7, <3>8
    <3> QED BY <3>3, <3>9 DEF p
  <2> QED BY <2>1, <2>2
<1> HIDE DEF c, n, m, fees, parts, l
<1>9. CASE n.kind = "alt"
  <2> DEFINE U == {Unreachable} \cup Range(fees)
  <2>1. PICK k \in 1..m : x \in parts[k]
    BY <1>2, <1>4, <1>9
  <2>2. fees[k] <= x /\ x \in Nat /\ fees[k] \in Nat
    BY <1>3, <1>6, <2>1
  <2>3. U \subseteq Nat /\ fees[k] \in U
    BY <1>0, <1>3
  <2>4. c[at] = Min(U)
    BY <1>5, <1>9
  <2> HIDE DEF U
  <2>5. Min(U) <= fees[k] /\ Min(U) \in Nat
    BY <2>3, MinIs
  <2> QED BY <2>2, <2>4, <2>5
<1>10. CASE n.kind = "seq"
  <2>1. \A k \in 1..m : \A b \in parts[k] : fees[k] <= b
    BY <1>6
  <2>2. x \in Sums(parts)[m]
    BY <1>4, <1>10
  <2>3. \A k \in 1..m : parts[k] \subseteq Nat
    BY <1>2
  <2>4. Spent(fees)[m] <= x
    BY <1>2, <1>3, <2>1, <2>2, <2>3, SumsCover
  <2> QED BY <1>5, <1>10, <2>4
<1>11. CASE n.kind = "opt"
  BY <1>5, <1>7, <1>11
<1>12. CASE n.kind = "repeat"
  <2>1. 1 \in 1..m
    BY <1>1, <1>12
  <2> QED BY <1>4, <1>5, <1>6, <1>12, <2>1
<1>13. CASE n.kind = "word"
  BY <1>4, <1>5, <1>13
<1>14. n.kind # "prose"
  BY <1>4
<1> QED BY <1>1, <1>8, <1>9, <1>10, <1>11, <1>12, <1>13, <1>14

\* What a node costs is a length of it, if that is so of its children and,
\* within one more, of the productions that do not cost more than this.
LEMMA LengthsAtReach ==
  ASSUME NEW g, WellFormed(g), NEW prices, Priced(g, prices),
         NEW lengths, NEW inside, NEW top \in Nat, top < Unreachable,
         \A i \in DOMAIN g.names : prices[i] <= top =>
           g.names[i] \notin inside /\ prices[i] \in lengths[inside \cup {g.names[i]}][<<i>>],
         NEW at \in Places(g), CostOf(g, prices)[at] <= top,
         NEW of, \A k \in 1..NodeAt(g, at).kids : of[Append(at, k)] \subseteq Nat,
         \A k \in 1..NodeAt(g, at).kids : CostOf(g, prices)[Append(at, k)] <= top =>
           CostOf(g, prices)[Append(at, k)] \in of[Append(at, k)]
  PROVE  CostOf(g, prices)[at] \in LengthsAt(g, lengths, inside, of, at)
<1> DEFINE c == CostOf(g, prices)
           n == NodeAt(g, at)
           m == n.kids
           fees == KidCosts(g, c, at)
           parts == KidLengths(g, of, at)
           l == LengthsAt(g, lengths, inside, of, at)
<1> SUFFICES c[at] \in l
  OBVIOUS
<1>0. Unreachable \in Nat
  BY GrammarAssumption
<1>1. /\ n.kind \in {"word", "prose", "ref", "opt", "repeat", "alt", "seq"}
      /\ n.kind \in {"opt", "repeat"} => m = 1
  BY PlaceIs
<1>2. /\ m \in Nat /\ Len(parts) = m
      /\ \A k \in 1..m : parts[k] = of[Append(at, k)] /\ parts[k] \subseteq Nat
      /\ \A x : x \in UNION Range(parts) <=> \E k \in 1..m : x \in parts[k]
  BY KidLengthsAre
<1>3. /\ Len(fees) = m /\ (\A k \in 1..m : fees[k] = c[Append(at, k)])
      /\ \A k \in 1..m : fees[k] \in 0..Unreachable
      /\ \A k \in 1..m : fees[k] \in Nat
      /\ Range(fees) = {fees[k] : k \in 1..m}
  BY KidCostsAre
<1>4. /\ n.kind = "word" => l = {1}
      /\ n.kind = "ref" => l = RefLengths(g, lengths, inside, n.name)
      /\ n.kind = "opt" => l = {0} \cup parts[1]
      /\ n.kind = "alt" => l = UNION Range(parts)
      /\ n.kind = "repeat" => l = parts[1]
      /\ n.kind = "seq" => l = Sums(parts)[m]
  BY LengthsAtIs
<1>5. /\ n.kind = "word" => c[at] = 1
      /\ n.kind = "prose" => c[at] = Unreachable
      /\ n.kind = "ref" => c[at] = RefCost(g, prices, n.name)
      /\ n.kind = "opt" => c[at] = 0
      /\ n.kind = "alt" => c[at] = Min({Unreachable} \cup Range(fees))
      /\ n.kind = "repeat" => c[at] = fees[1]
      /\ n.kind = "seq" => c[at] = Spent(fees)[m]
  <2>1. c[at] = NodeCost(g, prices, c, at)
    BY CostIs
  <2> QED BY <2>1, NodeCostIs
<1>6. \A k \in 1..m : fees[k] <= top => fees[k] \in parts[k]
  BY <1>2, <1>3
<1>7. c[at] \in 0..Unreachable /\ c[at] <= top
  BY CostIs
<1>8. CASE n.kind = "ref"
  <2> DEFINE i == RuleNo(g, n.name)
             more == inside \cup {n.name}
  <2>1. CASE n.name \in DOMAIN Cut
    <3>1. l = {IF Cut[n.name] = <<>> THEN 0 ELSE 1} /\ c[at] = IF Cut[n.name] = <<>> THEN 0 ELSE 1
      BY <1>4, <1>5, <1>8, <2>1 DEF RefLengths, RefCost
    <3> HIDE DEF c, l
    <3> QED BY <3>1
  <2>2. CASE n.name \notin DOMAIN Cut
    <3>1. c[at] = IF Defined(g, n.name) THEN prices[i] ELSE Unreachable
      BY <1>5, <1>8, <2>2 DEF RefCost
    <3> HIDE DEF c, l
    <3>2. c[at] # Unreachable
      BY <1>0, <1>7
    <3>3. Defined(g, n.name) /\ prices[i] <= top /\ c[at] = prices[i]
      BY <1>7, <3>1, <3>2
    <3>4. i \in DOMAIN g.names /\ g.names[i] = n.name
      BY <3>3, RuleNoIs
    <3>5. n.name \notin inside /\ prices[i] \in lengths[more][<<i>>]
      BY <3>3, <3>4
    <3>6. l = lengths[more][<<i>>]
      BY <1>4, <1>8, <2>2, <3>3, <3>5 DEF RefLengths
    <3> QED BY <3>3, <3>5, <3>6
  <2> QED BY <2>1, <2>2
<1> HIDE DEF c, n, m, fees, parts, l
<1>9. CASE n.kind = "alt"
  <2> DEFINE U == {Unreachable} \cup Range(fees)
  <2>1. U \subseteq Nat /\ U # {}
    BY <1>0, <1>3
  <2>2. c[at] = Min(U)
    BY <1>5, <1>9
  <2>3. Min(U) \in U
    <3> HIDE DEF U
    <3> QED BY <2>1, MinIs
  <2>4. c[at] # Unreachable
    BY <1>0, <1>7
  <2>5. PICK k \in 1..m : c[at] = fees[k]
    BY <1>3, <2>2, <2>3, <2>4
  <2>6. c[at] \in parts[k]
    BY <1>6, <1>7, <2>5
  <2> QED BY <1>2, <1>4, <1>9, <2>6
<1>10. CASE n.kind = "seq"
  <2>1. c[at] = Spent(fees)[m]
    BY <1>5, <1>10
  <2>2. \A k \in 1..m : fees[k] <= Spent(fees)[m]
    BY <1>2, <1>3, SpentCovers
  <2> DEFINE e == Spent(fees)[m]
  <2>3. e \in 0..Unreachable /\ e <= top /\ \A k \in 1..m : fees[k] <= e
    BY <1>7, <2>1, <2>2
  <2> HIDE DEF e
  <2>4. \A k \in 1..m : fees[k] <= top
    BY <1>0, <1>3, <2>3
  <2>5. \A k \in 1..m : fees[k] \in parts[k] /\ parts[k] \subseteq Nat
    BY <1>2, <1>6, <2>4
  <2>6. e < Unreachable
    BY <1>0, <2>3
  <2>7. Spent(fees)[m] \in Sums(parts)[m]
    BY <1>2, <1>3, <2>5, <2>6, SumsReach DEF e
  <2> QED BY <1>4, <1>10, <2>1, <2>7
<1>11. CASE n.kind = "opt"
  BY <1>4, <1>5, <1>11
<1>12. CASE n.kind = "repeat"
  <2>1. 1 \in 1..m
    BY <1>1, <1>12
  <2> QED BY <1>4, <1>5, <1>6, <1>7, <1>12, <2>1
<1>13. CASE n.kind = "word"
  BY <1>4, <1>5, <1>13
<1>14. n.kind # "prose"
  BY <1>0, <1>5, <1>7
<1> QED BY <1>1, <1>8, <1>9, <1>10, <1>11, <1>12, <1>13, <1>14

\* Nothing has a length that is less than it costs.
LEMMA LengthsCover ==
  ASSUME NEW g, WellFormed(g), NEW prices, Priced(g, prices), Paid(g, prices),
         NEW inside \in SUBSET Range(g.names), NEW at \in Places(g)
  PROVE  NoneUnder(Lengths(g)[inside][at], CostOf(g, prices)[at])
<1> DEFINE S == SUBSET Range(g.names)
           c == CostOf(g, prices)
           l == Lengths(g)
           Fine(in, p) == NoneUnder(l[in][p], c[p])
           bad == {in \in S : ~\A p \in Places(g) : Fine(in, p)}
<1>1. \A in \in S : /\ l[in] \in [Places(g) -> SUBSET Nat]
                    /\ \A p \in Places(g) : l[in][p] = LengthsAt(g, l, in, l[in], p)
  BY LengthsAre DEF Known
<1> HIDE DEF l
<1>2. ASSUME NEW in \in S,
             \A name \in Range(g.names) \ in : \A p \in Places(g) : Fine(in \cup {name}, p),
             NEW p \in Places(g),
             \A k \in 1..NodeAt(g, p).kids : Fine(in, Append(p, k))
      PROVE  Fine(in, p)
  <2>1. \A name \in Range(g.names) \ in : in \cup {name} \in S
    OBVIOUS
  <2>2. KnownFrom(g, l, in)
    BY <1>1, <2>1 DEF KnownFrom
  <2>3. \A k \in 1..NodeAt(g, p).kids : Append(p, k) \in Places(g)
    BY PlaceIs
  <2> DEFINE of == l[in]
  <2>4. \A k \in 1..NodeAt(g, p).kids : of[Append(p, k)] \subseteq Nat
    BY <1>1, <2>3
  <2>5. \A name \in Range(g.names) \ in : \A i \in DOMAIN g.names :
          NoneUnder(l[in \cup {name}][<<i>>], CostOf(g, prices)[<<i>>])
    <3>1. \A i \in DOMAIN g.names : <<i>> \in Places(g)
      BY VisitedRoot
    <3> QED BY <1>2, <3>1
  <2>6. \A k \in 1..NodeAt(g, p).kids :
          NoneUnder(of[Append(p, k)], CostOf(g, prices)[Append(p, k)])
    BY <1>2
  <2>7. of[p] = LengthsAt(g, l, in, of, p)
    BY <1>1
  <2> HIDE DEF of
  <2>8. NoneUnder(LengthsAt(g, l, in, of, p), CostOf(g, prices)[p])
    BY <2>2, <2>4, <2>5, <2>6, LengthsAtCover
  <2> QED BY <2>7, <2>8 DEF of
<1> HIDE DEF Fine
<1>3. ASSUME NEW in \in bad PROVE Another(g, bad, in)
  <2> SUFFICES ASSUME \A name \in Range(g.names) \ in : in \cup {name} \notin bad PROVE FALSE
    BY DEF Another
  <2>1. in \in S /\ ~\A p \in Places(g) : Fine(in, p)
    OBVIOUS
  <2>2. \A name \in Range(g.names) \ in : in \cup {name} \in S
    BY <2>1
  <2>3. \A name \in Range(g.names) \ in : \A p \in Places(g) : Fine(in \cup {name}, p)
    BY <2>2
  <2> DEFINE low == {p \in Places(g) : ~Fine(in, p)}
  <2>4. \A p \in low : \E k \in 1..NodeAt(g, p).kids : Append(p, k) \in low
    <3> SUFFICES ASSUME NEW p \in low, \A k \in 1..NodeAt(g, p).kids : Append(p, k) \notin low
                 PROVE  FALSE
      OBVIOUS
    <3>1. p \in Places(g) /\ ~Fine(in, p)
      OBVIOUS
    <3>2. \A k \in 1..NodeAt(g, p).kids : Append(p, k) \in Places(g)
      BY <3>1, PlaceIs
    <3>3. \A k \in 1..NodeAt(g, p).kids : Fine(in, Append(p, k))
      BY <3>2
    <3> QED BY <1>2, <2>1, <2>3, <3>1, <3>3
  <2>5. low = {}
    <3>1. low \subseteq Places(g)
      OBVIOUS
    <3> HIDE DEF low
    <3> QED BY <2>4, <3>1, NoneAbove
  <2> QED BY <2>1, <2>5
<1>4. bad = {}
  <2>1. bad \subseteq SUBSET Range(g.names)
    OBVIOUS
  <2> HIDE DEF bad
  <2> QED BY <1>3, <2>1, NoneWithin
<1>5. Fine(inside, at)
  BY <1>4
<1> QED BY <1>5 DEF Fine, l, c

\* Among these productions the others cost more, and a production's price is a
\* length it can be written in within such.
Dearer(g, prices, i, inside) ==
  /\ g.names[i] \in inside
  /\ \A k \in DOMAIN g.names : k # i /\ g.names[k] \in inside => prices[i] < prices[k]
Listed(g, prices) ==
  \A i \in DOMAIN g.names : \A inside \in SUBSET Range(g.names) :
    prices[i] < Unreachable /\ Dearer(g, prices, i, inside) =>
      prices[i] \in Lengths(g)[inside][<<i>>]

\* What a body costs is a length it can be written in, if that is so of the
\* productions that do not cost more.
LEMMA LengthsReach ==
  ASSUME NEW g, WellFormed(g), NEW prices, Priced(g, prices),
         NEW inside \in SUBSET Range(g.names), NEW top \in Nat, top < Unreachable,
         \A i \in DOMAIN g.names : prices[i] <= top =>
           /\ g.names[i] \notin inside
           /\ prices[i] \in Lengths(g)[inside \cup {g.names[i]}][<<i>>],
         NEW at \in Places(g), CostOf(g, prices)[at] <= top
  PROVE  CostOf(g, prices)[at] \in Lengths(g)[inside][at]
<1> DEFINE S == SUBSET Range(g.names)
           l == Lengths(g)
           of == l[inside]
           Fine(p) == CostOf(g, prices)[p] <= top => CostOf(g, prices)[p] \in of[p]
           bad == {p \in Places(g) : ~Fine(p)}
<1>1. \A in \in S : /\ l[in] \in [Places(g) -> SUBSET Nat]
                    /\ \A p \in Places(g) : l[in][p] = LengthsAt(g, l, in, l[in], p)
  BY LengthsAre DEF Known
<1>2. \A i \in DOMAIN g.names : prices[i] <= top =>
        g.names[i] \notin inside /\ prices[i] \in l[inside \cup {g.names[i]}][<<i>>]
  OBVIOUS
<1> HIDE DEF l
<1>3. of \in [Places(g) -> SUBSET Nat] /\ \A p \in Places(g) : of[p] = LengthsAt(g, l, inside, of, p)
  BY <1>1
<1> HIDE DEF of
<1>4. ASSUME NEW p \in bad PROVE \E k \in 1..NodeAt(g, p).kids : Append(p, k) \in bad
  <2> SUFFICES ASSUME \A k \in 1..NodeAt(g, p).kids : Append(p, k) \notin bad PROVE FALSE
    OBVIOUS
  <2>1. p \in Places(g) /\ CostOf(g, prices)[p] <= top /\ CostOf(g, prices)[p] \notin of[p]
    OBVIOUS
  <2>2. \A k \in 1..NodeAt(g, p).kids : Append(p, k) \in Places(g)
    BY <2>1, PlaceIs
  <2>3. \A k \in 1..NodeAt(g, p).kids : CostOf(g, prices)[Append(p, k)] <= top =>
          CostOf(g, prices)[Append(p, k)] \in of[Append(p, k)]
    BY <2>2
  <2>4. \A k \in 1..NodeAt(g, p).kids : of[Append(p, k)] \subseteq Nat
    BY <1>3, <2>2
  <2>5. CostOf(g, prices)[p] \in LengthsAt(g, l, inside, of, p)
    BY <1>2, <2>1, <2>3, <2>4, LengthsAtReach
  <2> QED BY <1>3, <2>1, <2>5
<1>5. bad = {}
  <2>1. bad \subseteq Places(g)
    OBVIOUS
  <2> HIDE DEF bad
  <2> QED BY <1>4, <2>1, NoneAbove
<1>6. CostOf(g, prices)[at] \in of[at]
  BY <1>5
<1> QED BY <1>6 DEF of, l

\* At first no production has a price to list.
LEMMA InitLists == Init => Listed(rules, ruleCost)
<1> SUFFICES ASSUME Init PROVE Listed(rules, ruleCost)
  OBVIOUS
<1>1. ruleCost = [i \in DOMAIN rules.names |-> Unreachable]
  BY DEF Init
<1>2. ~(Unreachable < Unreachable)
  BY GrammarAssumption
<1> QED BY <1>1, <1>2 DEF Listed

\* A price that comes down is a length, within what still costs more.
LEMMA LowerIsListed ==
  ASSUME NEW g, WellFormed(g), NEW prices, Priced(g, prices), Listed(g, prices),
         NEW j \in DOMAIN g.names, NEW c, c = CostOf(g, prices)[<<j>>], c < prices[j]
  PROVE  Listed(g, [prices EXCEPT ![j] = c])
<1> DEFINE names == g.names
           lower == [prices EXCEPT ![j] = c]
           l == Lengths(g)
<1>0. Unreachable \in Nat
  BY GrammarAssumption
<1>1. \A i \in DOMAIN names : <<i>> \in Places(g) /\ prices[i] \in 0..Unreachable
  BY VisitedRoot DEF Priced
<1>2. c \in 0..Unreachable
  BY <1>1, CostIs
<1>3. c \in Nat /\ c < Unreachable
  BY <1>0, <1>1, <1>2
<1>10. c < prices[j] /\ \A i \in DOMAIN names : prices[i] \in Nat
  <2>1. \A i \in DOMAIN names : prices[i] \in 0..Unreachable
    BY <1>1
  <2>2. \A i \in DOMAIN names : prices[i] \in Nat
    <3> SUFFICES ASSUME NEW i \in DOMAIN names PROVE prices[i] \in Nat
      OBVIOUS
    <3> DEFINE p == prices[i]
    <3>1. p \in 0..Unreachable
      BY <2>1
    <3> HIDE DEF p
    <3>2. p \in Nat
      BY <1>0, <3>1
    <3> QED BY <3>2 DEF p
  <2> QED BY <2>2
<1>4. lower[j] = c /\ \A i \in DOMAIN names : i # j => lower[i] = prices[i]
  BY DEF Priced
<1>11. j \in DOMAIN names
  OBVIOUS
<1>5. \A i, k \in DOMAIN names : names[i] = names[k] => i = k
  BY DEF WellFormed
<1>6. \A i \in DOMAIN names : names[i] \in Range(names)
  BY DEF Range
<1> HIDE DEF lower, l, names
<1> SUFFICES ASSUME NEW i \in DOMAIN names, NEW inside \in SUBSET Range(names),
                    lower[i] < Unreachable, Dearer(g, lower, i, inside)
             PROVE  lower[i] \in l[inside][<<i>>]
  BY DEF Listed, lower, l, names
<1>7. names[i] \in inside /\ \A k \in DOMAIN names : k # i /\ names[k] \in inside => lower[i] < lower[k]
  BY DEF Dearer, names
<1>8. CASE i # j
  <2>1. \A k \in DOMAIN names : k # i /\ names[k] \in inside => prices[i] < prices[k]
    <3> SUFFICES ASSUME NEW k \in DOMAIN names, k # i, names[k] \in inside
                 PROVE  prices[i] < prices[k]
      OBVIOUS
    <3>1. lower[i] < lower[k] /\ lower[i] = prices[i]
      BY <1>4, <1>7, <1>8
    <3>2. CASE k = j
      <4>1. prices[i] < c /\ prices[k] = prices[j]
        BY <1>4, <3>1, <3>2
      <4> QED BY <1>3, <1>10, <4>1
    <3>3. CASE k # j
      BY <1>4, <3>1, <3>3
    <3> QED BY <3>2, <3>3
  <2>2. Dearer(g, prices, i, inside) /\ prices[i] < Unreachable
    BY <1>4, <1>7, <1>8, <2>1 DEF Dearer, names
  <2>3. prices[i] \in l[inside][<<i>>]
    BY <2>2 DEF Listed, l, names
  <2> QED BY <1>4, <1>8, <2>3
<1>9. CASE i = j
  <2>1. ASSUME NEW m \in DOMAIN names, prices[m] <= c
        PROVE  names[m] \notin inside /\ prices[m] \in l[inside \cup {names[m]}][<<m>>]
    <3>1. m # j
      BY <1>0, <1>1, <1>2, <2>1
    <3>2. names[m] \notin inside
      <4> SUFFICES ASSUME names[m] \in inside PROVE FALSE
        OBVIOUS
      <4>1. c < prices[m]
        BY <1>4, <1>7, <1>9, <3>1
      <4> QED BY <1>3, <1>10, <2>1, <4>1
    <3> DEFINE more == inside \cup {names[m]}
    <3>3. more \in SUBSET Range(names) /\ names[m] \in more
      BY <1>6
    <3>4. ASSUME NEW k \in DOMAIN names, k # m, names[k] \in more PROVE prices[m] < prices[k]
      <4>1. names[k] \in inside
        BY <1>5, <3>4
      <4>2. CASE k = j
        BY <1>3, <1>10, <2>1, <4>2
      <4>3. CASE k # j
        <5>1. c < prices[k]
          BY <1>4, <1>7, <1>9, <4>1, <4>3
        <5> QED BY <1>3, <1>10, <2>1, <5>1
      <4> QED BY <4>2, <4>3
    <3> HIDE DEF more
    <3>5. Dearer(g, prices, m, more)
      BY <3>3, <3>4 DEF Dearer, names
    <3>6. prices[m] < Unreachable
      BY <1>0, <1>3, <1>10, <2>1
    <3>7. prices[m] \in l[more][<<m>>]
      BY <3>3, <3>5, <3>6 DEF Listed, l, names
    <3> QED BY <3>2, <3>7 DEF more
  <2>2. CostOf(g, prices)[<<j>>] <= c /\ <<j>> \in Places(g)
    BY <1>1, <1>3 DEF names
  <2>3. \A m \in DOMAIN g.names : prices[m] <= c =>
          g.names[m] \notin inside /\ prices[m] \in Lengths(g)[inside \cup {g.names[m]}][<<m>>]
    BY <2>1 DEF l, names
  <2>4. inside \in SUBSET Range(g.names)
    BY DEF names
  <2>5. CostOf(g, prices)[<<j>>] \in Lengths(g)[inside][<<j>>]
    BY <1>3, <2>2, <2>3, <2>4, LengthsReach
  <2> QED BY <1>4, <1>9, <2>5 DEF l
<1> QED BY <1>8, <1>9

\* The steps keep to it.
LEMMA NextLists ==
  WalkInv /\ Listed(rules, ruleCost) /\ [Next]_vars => Listed(rules, ruleCost)'
<1> SUFFICES ASSUME WalkInv, Listed(rules, ruleCost), [Next]_vars
             PROVE  Listed(rules', ruleCost')
  BY DEF Listed
<1>1. CASE Relax
  <2> DEFINE c == CostOf(rules, ruleCost)[<<sweep>>]
  <2>1. /\ sweep \in DOMAIN rules.names /\ WellFormed(rules) /\ rules' = rules
        /\ Priced(rules, ruleCost)
        /\ \/ c < ruleCost[sweep] /\ ruleCost' = [ruleCost EXCEPT ![sweep] = c]
           \/ ruleCost' = ruleCost
    BY <1>1, RelaxIs
  <2>2. CASE c < ruleCost[sweep] /\ ruleCost' = [ruleCost EXCEPT ![sweep] = c]
    BY <2>1, <2>2, LowerIsListed
  <2>3. CASE ruleCost' = ruleCost
    BY <2>1, <2>3
  <2> QED BY <2>1, <2>2, <2>3
<1>2. CASE UNCHANGED <<rules, ruleCost>>
  BY <1>2
<1>3. Relax \/ UNCHANGED <<rules, ruleCost>>
  BY OnlyRelax
<1> QED BY <1>1, <1>2, <1>3

\* Once they are come by, the costs are the least lengths.
THEOREM CostsListed == Spec => []CostIsShortest
<1>1. WalkInv /\ CostInv /\ Listed(rules, ruleCost) => CostIsShortest
  <2> SUFFICES ASSUME WalkInv, CostInv, Listed(rules, ruleCost), phase # "cost",
                      NEW i \in DOMAIN rules.names
               PROVE  ruleCost[i] = Min({Unreachable} \cup Lengths(rules)[{rules.names[i]}][<<i>>])
    BY DEF CostIsShortest
  <2> DEFINE c == ruleCost[i]
             inside == {rules.names[i]}
             l == Lengths(rules)[inside][<<i>>]
             U == {Unreachable} \cup l
  <2>1. /\ WellFormed(rules) /\ Priced(rules, ruleCost)
        /\ Settled(rules, ruleCost, nodeCost)
    BY WalkAssumption DEF WalkInv, CostInv
  <2>2. /\ \A j \in DOMAIN rules.names : ruleCost[j] = CostOf(rules, ruleCost)[<<j>>]
        /\ \A j \in DOMAIN rules.names : ruleCost[j] \in 0..Unreachable
        /\ Paid(rules, ruleCost)
    BY <2>1, SettledIsPaid DEF Settled, Priced
  <2>3. inside \in SUBSET Range(rules.names) /\ <<i>> \in Places(rules) /\ Unreachable \in Nat
    BY <2>1, VisitedRoot, GrammarAssumption DEF Range
  <2>4. NoneUnder(Lengths(rules)[inside][<<i>>], CostOf(rules, ruleCost)[<<i>>])
    BY <2>1, <2>2, <2>3, LengthsCover
  <2>5. \A x \in l : c <= x
    BY <2>2, <2>4 DEF NoneUnder
  <2>6. l \subseteq Nat
    BY <2>1, <2>3, LengthsAre DEF Known
  <2>7. Dearer(rules, ruleCost, i, inside)
    BY <2>1 DEF Dearer, WellFormed
  <2>8. c < Unreachable => c \in l
    BY <2>3, <2>7 DEF Listed
  <2>9. c \in 0..Unreachable
    BY <2>2
  <2>10. U \subseteq Nat /\ c \in U /\ \A x \in U : c <= x
    <3> HIDE DEF c, l
    <3>1. c = Unreachable \/ c < Unreachable
      BY <2>3, <2>9
    <3>2. c <= Unreachable /\ c \in Nat
      BY <2>3, <2>9
    <3> QED BY <2>3, <2>5, <2>6, <2>8, <3>1, <3>2
  <2> HIDE DEF U, c
  <2>11. Min(U) \in U /\ \A x \in U : Min(U) <= x
    BY <2>10, MinIs
  <2>12. Min(U) = c
    <3>1. Min(U) <= c /\ c <= Min(U) /\ c \in Nat /\ Min(U) \in Nat
      BY <2>10, <2>11
    <3> QED BY <3>1
  <2> QED BY <2>12 DEF U, c
<1> QED BY InitWalk, InitCost, InitLists, NextKeepsWalk, NextSettles, NextLists, <1>1, PTL DEF Spec

(***************************************************************************)
(* Past the budget                                                         *)
(***************************************************************************)

\* A beginning of a beginning.
LEMMA BeginsOn ==
  ASSUME NEW u \in Ways, NEW v \in Ways, NEW w \in Ways, IsPrefix(u, v), IsPrefix(v, w)
  PROVE  IsPrefix(u, w) /\ (u # v => u # w)
<1>1. Len(u) <= Len(v) /\ \A i \in 1..Len(u) : v[i] = u[i]
  BY BeginsIf
<1>2. Len(v) <= Len(w) /\ \A i \in 1..Len(v) : w[i] = v[i]
  BY BeginsIf
<1>3. Len(u) \in Nat /\ Len(v) \in Nat /\ Len(w) \in Nat
  BY RootWay
<1>4. Len(u) <= Len(w)
  BY <1>1, <1>2, <1>3
<1>5. \A i \in 1..Len(u) : w[i] = u[i]
  BY <1>1, <1>2, <1>3
<1>6. IsPrefix(u, w)
  BY <1>4, <1>5, BeginsIf
<1>7. ASSUME u = w PROVE u = v
  <2>1. Len(u) = Len(v)
    BY <1>1, <1>2, <1>3, <1>7
  <2>2. \A i \in 1..Len(u) : v[i] = u[i]
    BY <1>1
  <2>3. u \in Seq(Nat \ {0}) /\ v \in Seq(Nat \ {0})
    BY DEF Ways
  <2> QED BY <2>1, <2>2, <2>3, SeqEqual
<1> QED BY <1>6, <1>7

\* From a node on the way to another there is a step to its child on that way.
LEMMA WayOn ==
  ASSUME NEW d, IsTree(d), NEW u \in DOMAIN d, NEW w \in DOMAIN d, IsStrictPrefix(u, w)
  PROVE  \E k \in 1..d[u].kids : Append(u, k) \in DOMAIN d /\ IsPrefix(Append(u, k), w)
<1> DEFINE X == {x \in DOMAIN d : IsPrefix(x, w) /\ IsStrictPrefix(u, x)}
           T == {Len(x) : x \in X}
<1>1. DOMAIN d \subseteq Ways
  BY DEF IsTree
<1>2. w \in X
  BY <1>1, RootWay
<1>3. T \subseteq Nat /\ T # {}
  <2>1. \A x \in X : Len(x) \in Nat
    BY <1>1, RootWay
  <2>2. Len(w) \in T
    BY <1>2
  <2> QED BY <2>1, <2>2
<1>4. PICK n \in T : \A m \in T : n <= m
  <2> HIDE DEF T
  <2> QED BY <1>3, LeastNatural
<1>5. PICK x \in X : n = Len(x)
  BY <1>4
<1>6. x \in Ways /\ u \in Ways /\ w \in Ways /\ x # <<>> /\ x # u /\ IsPrefix(u, x) /\ IsPrefix(x, w)
  <2>1. x \in Ways /\ u \in Ways /\ w \in Ways /\ x # u /\ IsPrefix(u, x) /\ IsPrefix(x, w)
    BY <1>1, <1>5 DEF IsStrictPrefix
  <2> QED BY <2>1, RootWay
<1> DEFINE f == Front(x)
           k == Last(x)
<1>7. f \in DOMAIN d /\ k \in 1..d[f].kids
  BY <1>5, <1>6 DEF IsTree
<1>8. f \in Ways /\ k \in Nat \ {0} /\ x = Append(f, k) /\ Len(x) = Len(f) + 1
  BY <1>6, LastStep
<1> HIDE DEF f, k
<1>9. IsPrefix(u, f)
  BY <1>6, <1>8, OneMoreBegins
<1>10. IsPrefix(f, w)
  <2>1. IsPrefix(f, f)
    BY <1>8, RootWay
  <2>2. IsPrefix(f, x)
    BY <1>8, <2>1, OneMoreBegins
  <2> QED BY <1>6, <1>8, <2>2, BeginsOn
<1>11. f = u
  <2> SUFFICES ASSUME f # u PROVE FALSE
    OBVIOUS
  <2>1. f \in X
    BY <1>7, <1>9, <1>10 DEF IsStrictPrefix
  <2>2. Len(f) \in T /\ Len(f) \in Nat
    BY <1>8, <2>1, RootWay
  <2> QED BY <1>4, <1>5, <1>8, <2>2
<1> QED BY <1>5, <1>6, <1>7, <1>8, <1>11

\* Where the walk goes on from a place past the budget: no optional part is
\* taken, and of the alternatives the cheapest.
TailOf(g, table, at) ==
  LET n == NodeAt(g, at)
  IN  CASE n.kind \in {"seq", "repeat"} -> Range(KidsAt(g, at))
        [] n.kind = "alt" /\ Writable(g, table, at) # {} -> {Append(at, Cheapest(g, table, at))}
        [] n.kind = "ref" /\ n.name \notin DOMAIN Cut /\ Defined(g, n.name) ->
             {<<RuleNo(g, n.name)>>}
        [] OTHER -> {}

\* No round of places leads from each to the next: the cheapest choices never
\* lead back to where they were made.
NeverBack(g, table) ==
  \A S \in SUBSET Places(g) : S # {} => \E at \in S : TailOf(g, table, at) \cap S = {}

\* The levels above a node, and whether they exceed the budget.
Turns(g, d, way) ==
  {w \in DOMAIN d : IsStrictPrefix(w, way) /\ KindOf(g, d[w]) \notin {"seq", "ref"}}
InTail(g, d, way) == Cardinality(Turns(g, d, way)) >= MaxDepth

\* The place a node stands for, or the body it was entered for.
Onward(g, x) == IF x.at = <<>> THEN <<RuleNo(g, x.rule)>> ELSE x.at

\* Past the budget a derivation goes where the cheapest choices lead.
Tailed(g, table, d) ==
  \A way \in DOMAIN d : d[way].at # <<>> /\ InTail(g, d, way) =>
    \A k \in 1..d[way].kids : Onward(g, d[Append(way, k)]) \in TailOf(g, table, d[way].at)

\* What is below a node past the budget is past it too.
LEMMA TailGoesOn ==
  ASSUME NEW g, NEW d, IsTree(d), NEW v \in DOMAIN d, NEW w \in DOMAIN d, IsPrefix(v, w),
         InTail(g, d, v)
  PROVE  InTail(g, d, w)
<1>1. DOMAIN d \subseteq Ways /\ IsFiniteSet(DOMAIN d)
  BY DEF IsTree
<1>2. Turns(g, d, v) \subseteq Turns(g, d, w)
  <2> SUFFICES ASSUME NEW u \in DOMAIN d, IsPrefix(u, v), u # v
               PROVE  IsPrefix(u, w) /\ u # w
    BY DEF Turns, IsStrictPrefix
  <2> QED BY <1>1, BeginsOn
<1>3. IsFiniteSet(Turns(g, d, w)) /\ IsFiniteSet(Turns(g, d, v))
  <2>1. Turns(g, d, w) \subseteq DOMAIN d /\ Turns(g, d, v) \subseteq DOMAIN d
    BY DEF Turns
  <2> QED BY <1>1, <2>1, FS_Subset
<1>4. Cardinality(Turns(g, d, v)) <= Cardinality(Turns(g, d, w))
  BY <1>2, <1>3, FS_Subset
<1>5. Cardinality(Turns(g, d, v)) \in Nat /\ Cardinality(Turns(g, d, w)) \in Nat
  BY <1>3, FS_CardinalityType
<1>6. MaxDepth \in Nat
  BY WalkAssumption
<1> QED BY <1>4, <1>5, <1>6 DEF InTail

\* Where a production was entered there is its body and nothing else, and
\* elsewhere there is a place.
LEMMA EnteredIs ==
  ASSUME NEW g, WellFormed(g), NEW d, NEW todo, Growing(g, d, todo), NEW way \in DOMAIN d
  PROVE  /\ d[way].at # <<>> => d[way].at \in Places(g)
         /\ d[way].at = <<>> =>
              /\ d[way].kids = 1 /\ Append(way, 1) \in DOMAIN d
              /\ d[Append(way, 1)].at = <<RuleNo(g, d[way].rule)>>
<1>1. IsTree(d)
  BY DEF Growing
<1>2. ASSUME d[way].at # <<>> PROVE d[way].at \in Places(g)
  <2>1. CASE way \in todo
    BY <2>1 DEF Growing
  <2>2. CASE way \notin todo
    <3>1. Admitted(g, d, way)
      BY <2>2 DEF Growing
    <3> QED BY <1>2, <3>1 DEF Admitted
  <2> QED BY <2>1, <2>2
<1>3. ASSUME d[way].at = <<>>
      PROVE  d[way].kids = 1 /\ d[Append(way, 1)].at = <<RuleNo(g, d[way].rule)>>
  <2>1. <<>> \notin Places(g)
    BY DEF WellFormed
  <2>2. Admitted(g, d, way)
    BY <1>3, <2>1 DEF Growing
  <2>3. BodyOf(d, way, RuleNo(g, d[way].rule))
    BY <1>3, <2>2, AdmittedEntry
  <2> DEFINE i == RuleNo(g, d[way].rule)
  <2> HIDE DEF i
  <2>4. BodyOf(d, way, i)
    BY <2>3 DEF i
  <2>5. d[way].kids = 1 /\ \A k \in 1..d[way].kids : d[Append(way, k)].at = << <<i>> >>[k]
    BY <2>4 DEF BodyOf, EachStands
  <2> QED BY <2>5 DEF i
<1>4. d[way].kids = 1 => Append(way, 1) \in DOMAIN d
  BY <1>1 DEF IsTree
<1> QED BY <1>2, <1>3, <1>4

\* Where the cheapest choices never lead back, no production is entered within
\* itself past the budget.
LEMMA TailComes ==
  ASSUME NEW g, WellFormed(g), NEW table, NeverBack(g, table), NEW d, NEW todo,
         Growing(g, d, todo), Tailed(g, table, d), NEW v \in DOMAIN d, NEW w \in DOMAIN d,
         d[v].at = <<>>, d[w].at = <<>>, InTail(g, d, v), IsStrictPrefix(v, w)
  PROVE  d[v].rule # d[w].rule
<1> SUFFICES ASSUME d[v].rule = d[w].rule PROVE FALSE
  OBVIOUS
<1> DEFINE U == {u \in DOMAIN d : d[u].at # <<>> /\ IsPrefix(v, u) /\ IsStrictPrefix(u, w)}
           S == {d[u].at : u \in U}
           body == <<RuleNo(g, d[v].rule)>>
<1>1. IsTree(d) /\ DOMAIN d \subseteq Ways
  BY DEF Growing, IsTree
<1>2. S \subseteq Places(g)
  BY EnteredIs
<1>3. <<>> \notin Places(g)
  BY DEF WellFormed
\* The next production after v on the way to w has its body on it as well.
<1>4. ASSUME NEW x \in DOMAIN d, d[x].at = <<>>, IsPrefix(v, x), IsStrictPrefix(x, w)
      PROVE  Append(x, 1) \in U /\ d[Append(x, 1)].at = <<RuleNo(g, d[x].rule)>>
  <2> DEFINE y == Append(x, 1)
  <2>1. d[x].kids = 1 /\ y \in DOMAIN d /\ d[y].at = <<RuleNo(g, d[x].rule)>>
    BY <1>4, EnteredIs
  <2>2. IsPrefix(y, w)
    <3>1. PICK k \in 1..d[x].kids : Append(x, k) \in DOMAIN d /\ IsPrefix(Append(x, k), w)
      BY <1>1, <1>4, WayOn
    <3> QED BY <2>1, <3>1
  <2>3. d[y].at # <<>>
    BY <2>1
  <2>4. IsPrefix(v, y)
    BY <1>1, <1>4, OneMoreBegins
  <2>5. y # w
    BY <2>3
  <2> QED BY <2>1, <2>2, <2>3, <2>4, <2>5 DEF IsStrictPrefix
<1>5. body \in S
  <2>1. IsPrefix(v, v)
    BY <1>1, RootWay
  <2>2. Append(v, 1) \in U /\ d[Append(v, 1)].at = body
    BY <1>4, <2>1
  <2> QED BY <2>2
<1>6. ASSUME NEW u \in U PROVE TailOf(g, table, d[u].at) \cap S # {}
  <2>1. PICK k \in 1..d[u].kids : Append(u, k) \in DOMAIN d /\ IsPrefix(Append(u, k), w)
    BY <1>1, WayOn
  <2> DEFINE y == Append(u, k)
  <2>2. InTail(g, d, u)
    BY <1>1, TailGoesOn
  <2>3. Onward(g, d[y]) \in TailOf(g, table, d[u].at)
    BY <2>2 DEF Tailed
  <2>4. IsPrefix(v, y)
    <3>1. k \in Nat \ {0}
      BY <1>1 DEF IsTree
    <3> QED BY <1>1, <3>1, OneMoreBegins
  <2>5. Onward(g, d[y]) \in S
    <3>1. CASE d[y].at # <<>>
      <4>1. y # w
        BY <3>1
      <4>2. y \in U
        BY <2>1, <2>4, <3>1, <4>1 DEF IsStrictPrefix
      <4> QED BY <3>1, <4>2 DEF Onward
    <3>2. CASE y = w
      BY <1>5, <3>2 DEF Onward
    <3>3. CASE d[y].at = <<>> /\ y # w
      <4>1. Append(y, 1) \in U /\ d[Append(y, 1)].at = <<RuleNo(g, d[y].rule)>>
        BY <1>4, <2>1, <2>4, <3>3 DEF IsStrictPrefix
      <4> QED BY <3>3, <4>1 DEF Onward
    <3> QED BY <3>1, <3>2, <3>3
  <2> QED BY <2>3, <2>5
<1>7. \A at \in S : TailOf(g, table, at) \cap S # {}
  BY <1>6
<1> QED BY <1>2, <1>5, <1>7 DEF NeverBack

\* The levels above a node that is not below another are the same whatever is
\* grafted in there.
LEMMA TurnsStay ==
  ASSUME NEW g, NEW d, IsTree(d), NEW at \in DOMAIN d, NEW r, IsTree(r),
         NEW way \in Ways, ~IsPrefix(at, way) \/ way = at
  PROVE  Turns(g, Graft(d, at, r), way) = Turns(g, d, way)
<1> DEFINE h == Graft(d, at, r)
<1>1. DOMAIN d \subseteq Ways /\ at \in Ways /\ DOMAIN h \subseteq Ways
  BY GraftAt DEF IsTree
<1>2. ASSUME NEW u \in Ways, IsStrictPrefix(u, way)
      PROVE  (u \in DOMAIN h <=> u \in DOMAIN d) /\ (u \in DOMAIN h => h[u] = d[u])
  <2>1. IsPrefix(u, way) /\ u # way
    BY <1>2 DEF IsStrictPrefix
  <2>2. ~IsPrefix(at, u)
    <3> SUFFICES ASSUME IsPrefix(at, u) PROVE FALSE
      OBVIOUS
    <3>1. IsPrefix(at, way) /\ (at # u => at # way)
      BY <1>1, <2>1, BeginsOn
    <3> QED BY <2>1, <3>1
  <2> QED BY <2>2, GraftAt
<1> HIDE DEF h
<1>3. ASSUME NEW u PROVE u \in Turns(g, h, way) <=> u \in Turns(g, d, way)
  BY <1>1, <1>2 DEF Turns
<1> QED BY <1>3 DEF Turns, h

\* A derivation goes on where the cheapest choices lead when what is grafted
\* in does.
LEMMA GraftTailed ==
  ASSUME NEW g, NEW table, NEW d, IsTree(d), NEW at \in DOMAIN d, NEW r, IsTree(r),
         r[<<>>].at = d[at].at, r[<<>>].rule = d[at].rule, Tailed(g, table, d),
         InTail(g, d, at) =>
           \A k \in 1..r[<<>>].kids : Onward(g, r[Append(<<>>, k)]) \in TailOf(g, table, d[at].at),
         \A x \in DOMAIN r : x # <<>> => r[x].kids = 0 \/ r[x].at = <<>>
  PROVE  Tailed(g, table, Graft(d, at, r))
<1> DEFINE h == Graft(d, at, r)
<1>1. DOMAIN d \subseteq Ways /\ at \in Ways /\ DOMAIN h \subseteq Ways /\ IsTree(h) /\ <<>> \in Ways
  BY GraftAt, GraftTree, RootWay DEF IsTree
<1> SUFFICES ASSUME NEW way \in DOMAIN h, h[way].at # <<>>, InTail(g, h, way),
                    NEW k \in 1..h[way].kids
             PROVE  Onward(g, h[Append(way, k)]) \in TailOf(g, table, h[way].at)
  BY DEF Tailed
<1> DEFINE y == Append(way, k)
<1>2. way \in Ways /\ k \in Nat \ {0} /\ y \in DOMAIN h /\ y \in Ways
  BY <1>1 DEF IsTree
<1>3. h[at] = r[<<>>]
  <2>1. at \o <<>> = at
    BY <1>1, RootWay
  <2>2. <<>> \in DOMAIN r
    BY DEF IsTree
  <2>3. \A w \in Ways : w \in DOMAIN r => h[at \o w] = r[w]
    BY GraftAt
  <2> HIDE DEF h
  <2>4. h[at \o <<>>] = r[<<>>]
    BY <1>1, <2>2, <2>3
  <2> QED BY <2>1, <2>4
<1>4. CASE ~IsPrefix(at, way)
  <2>1. way \in DOMAIN d /\ h[way] = d[way]
    BY <1>2, <1>4, GraftAt
  <2>2. InTail(g, d, way)
    BY <1>2, <1>4, TurnsStay DEF InTail
  <2>3. Onward(g, d[y]) \in TailOf(g, table, d[way].at)
    BY <2>1, <2>2 DEF Tailed
  <2>4. Onward(g, h[y]) = Onward(g, d[y])
    <3>1. CASE y = at
      BY <1>3, <3>1 DEF Onward
    <3>2. CASE y # at
      <4>1. ~IsPrefix(at, y)
        BY <1>1, <1>2, <1>4, <3>2, OneMoreBegins
      <4>2. h[y] = d[y]
        BY <1>2, <4>1, GraftAt
      <4> QED BY <4>2
    <3> QED BY <3>1, <3>2
  <2> QED BY <2>1, <2>3, <2>4
<1>5. CASE IsPrefix(at, way)
  <2> DEFINE x == After(way, Len(at))
  <2>1. x \in Ways /\ way = at \o x
    BY <1>1, <1>2, <1>5, Beginning
  <2> HIDE DEF x
  <2>2. x \in DOMAIN r /\ h[way] = r[x]
    BY <2>1, GraftAt
  <2>3. x = <<>>
    <3> SUFFICES ASSUME x # <<>> PROVE FALSE
      OBVIOUS
    <3>1. r[x].kids = 0 \/ r[x].at = <<>>
      BY <2>2
    <3>2. r[x].at # <<>> /\ k \in 1..r[x].kids
      BY <2>2
    <3> QED BY <3>1, <3>2
  <2>4. way = at
    BY <1>1, <2>1, <2>3, RootWay
  <2>5. InTail(g, d, at)
    BY <1>1, <2>4, TurnsStay DEF InTail
  <2>6. k \in 1..r[<<>>].kids
    BY <2>2, <2>3
  <2>7. h[y] = r[Append(<<>>, k)]
    <3>1. Append(<<>>, k) \in Ways /\ y = at \o Append(<<>>, k)
      <4>1. Append(<<>>, k) \in Ways
        BY <1>1, <1>2, OneMore
      <4>2. Append(at \o <<>>, k) = at \o Append(<<>>, k)
        BY <1>1, <1>2, AlongOneMore
      <4>3. at \o <<>> = at
        BY <1>1, RootWay
      <4> QED BY <2>4, <4>1, <4>2, <4>3
    <3>2. Append(<<>>, k) \in DOMAIN r
      BY <2>6 DEF IsTree
    <3> QED BY <3>1, <3>2, GraftAt
  <2> QED BY <1>3, <2>4, <2>5, <2>6, <2>7
<1> QED BY <1>4, <1>5

\* A node and leaves is one level deep.
LEMMA FlatIs ==
  ASSUME NEW d, IsTree(d), \A k \in 1..d[<<>>].kids : d[Append(<<>>, k)].kids = 0,
         NEW x \in DOMAIN d, x # <<>>
  PROVE  d[x].kids = 0
<1>1. <<>> \in DOMAIN d /\ DOMAIN d \subseteq Ways
  BY DEF IsTree
<1>2. IsStrictPrefix(<<>>, x)
  BY <1>1, RootWay DEF IsStrictPrefix
<1>3. PICK k \in 1..d[<<>>].kids : Append(<<>>, k) \in DOMAIN d /\ IsPrefix(Append(<<>>, k), x)
  BY <1>1, <1>2, WayOn
<1> DEFINE a == Append(<<>>, k)
<1> HIDE DEF a
<1>4. a \in DOMAIN d /\ IsPrefix(a, x) /\ d[a].kids = 0
  BY <1>3 DEF a
<1> QED BY <1>4, LeafEnds

\* The leaves are what the places say.
LEMMA LeavesAre ==
  ASSUME NEW P, NEW places \in Seq(P), NEW x, With(x, Len(places)).kids = Len(places)
  PROVE  LET b == Leaves(x, places)
         IN  /\ IsTree(b) /\ b[<<>>] = With(x, Len(places))
             /\ \A k \in 1..Len(places) : b[Append(<<>>, k)] = Plain(places[k])
<1> DEFINE L(p) == Leaf(Plain(p))
           kids == [k \in DOMAIN places |-> L(places[k])]
           S == {L(p) : p \in P}
           n == Len(places)
           b == Branch(x, kids)
<1>1. n \in Nat /\ DOMAIN places = 1..n /\ \A k \in 1..n : places[k] \in P
  BY LenProperties
<1>2. \A p \in P : IsTree(L(p)) /\ L(p)[<<>>] = Plain(p)
  <2> SUFFICES ASSUME NEW p \in P PROVE IsTree(L(p)) /\ L(p)[<<>>] = Plain(p)
    OBVIOUS
  <2>1. Plain(p).kids = 0
    BY DEF Plain, Deriv
  <2> QED BY <2>1, LeafTree
<1> HIDE DEF L
<1>3. kids \in Seq(S) /\ Len(kids) = n /\ \A k \in 1..n : kids[k] = L(places[k])
  <2>1. kids = [k \in 1..n |-> L(places[k])] /\ \A k \in 1..n : L(places[k]) \in S
    BY <1>1
  <2> HIDE DEF kids, S, n
  <2> QED BY <1>1, <2>1
<1>4. \A t \in S : IsTree(t)
  BY <1>2
<1>5. With(x, Len(kids)).kids = Len(kids)
  <2> HIDE DEF kids
  <2> QED BY <1>3
<1> HIDE DEF kids, S
<1> DEFINE Down(k, w) == <<k>> \o w
<1>6. /\ IsTree(b) /\ b[<<>>] = With(x, Len(kids))
      /\ \A k \in 1..Len(kids) : b[Append(<<>>, k)] = kids[k][<<>>]
  <2>1. IsTree(b)
    BY <1>3, <1>4, <1>5, BranchTree
  <2>2. \A t \in S : DOMAIN t \subseteq Ways
    BY <1>4 DEF IsTree
  <2>3. /\ b[<<>>] = With(x, Len(kids))
        /\ \A k \in Nat \ {0} : \A w \in Ways :
             k \in 1..Len(kids) /\ w \in DOMAIN kids[k] => b[Down(k, w)] = kids[k][w]
    BY <1>3, <2>2, BranchAt
  <2> HIDE DEF b
  <2>4. \A k \in Nat \ {0} : Down(k, <<>>) = Append(<<>>, k)
    <3> SUFFICES ASSUME NEW k \in Nat \ {0} PROVE Down(k, <<>>) = Append(<<>>, k)
      OBVIOUS
    <3>1. <<k>> \in Ways /\ <<k>> = Append(<<>>, k)
      BY RootWay, StepAnd
    <3> QED BY <3>1, RootWay
  <2> HIDE DEF Down
  <2>5. \A k \in 1..Len(kids) : k \in Nat \ {0} /\ <<>> \in DOMAIN kids[k] /\ <<>> \in Ways
    BY <1>1, <1>2, <1>3, RootWay DEF IsTree
  <2>6. \A k \in 1..Len(kids) : b[Down(k, <<>>)] = kids[k][<<>>]
    BY <2>3, <2>5
  <2> QED BY <2>1, <2>3, <2>4, <2>5, <2>6
<1> HIDE DEF b
<1>7. \A k \in 1..n : b[Append(<<>>, k)] = Plain(places[k])
  BY <1>1, <1>2, <1>3, <1>6
<1>8. IsTree(b) /\ b[<<>>] = With(x, n)
  BY <1>3, <1>6
<1> QED BY <1>7, <1>8 DEF b, kids, L, n, Leaves

\* While it is walked, what is grown goes on past the budget where the cheapest
\* choices lead; but then nothing is grown.
TailInv ==
  /\ phase \in {"walk", "failed"} => Growing(rules, built, open) /\ Tailed(rules, nodeCost, built)
  /\ phase \notin {"walk", "failed"} => built = Nothing

\* The walk grows by a twig that goes on where they lead.
LEMMA GrowTails ==
  ASSUME WalkInv, WalkInv', TailInv, phase = "walk", open # {}, NEW twig, NEW rest,
         Grow(twig, rest), IsTree(twig), twig[<<>>].at = Here, twig[<<>>].rule = Blank,
         Tight(Top) => \A k \in 1..twig[<<>>].kids :
                         Onward(rules, twig[Append(<<>>, k)]) \in TailOf(rules, nodeCost, Here),
         \A x \in DOMAIN twig : x # <<>> => twig[x].kids = 0 \/ twig[x].at = <<>>
  PROVE  TailInv'
<1>1. Top \in open /\ built[Top].at = Here /\ built[Top].rule = Blank
  BY TopIs
<1>2. IsTree(built) /\ Top \in DOMAIN built /\ Tailed(rules, nodeCost, built)
  BY <1>1 DEF TailInv, Growing
<1>3. Tight(Top) <=> InTail(rules, built, Top)
  BY DEF Tight, Depth, InTail, Turns
<1>4. Tailed(rules, nodeCost, Graft(built, Top, twig))
  BY <1>1, <1>2, <1>3, GraftTailed
<1>5. phase' = "walk" /\ built' = Graft(built, Top, twig) /\ rules' = rules /\ nodeCost' = nodeCost
  BY DEF Grow, costs
<1>6. Tailed(rules, nodeCost, built)'
  BY <1>4, <1>5 DEF Tailed, InTail, Turns
<1>7. Growing(rules, built, open)'
  BY <1>5 DEF WalkInv, Walked
<1> QED BY <1>5, <1>6, <1>7 DEF TailInv

\* A node with a child for each of some places.
LEMMA DescendTails ==
  ASSUME WalkInv, WalkInv', TailInv, phase = "walk", open # {}, NEW x,
         NEW places \in Seq(Places(rules)), Descend(x, places),
         With(x, Len(places)).kids = Len(places), With(x, Len(places)).at = Here,
         With(x, Len(places)).rule = Blank,
         Tight(Top) => \A k \in 1..Len(places) : places[k] \in TailOf(rules, nodeCost, Here)
  PROVE  TailInv'
<1> DEFINE b == Leaves(x, places)
           o == {<<k>> : k \in DOMAIN places}
<1>1. Grow(b, o)
  BY DEF Descend, Leaves
<1>2. /\ IsTree(b) /\ b[<<>>] = With(x, Len(places))
      /\ \A k \in 1..Len(places) : b[Append(<<>>, k)] = Plain(places[k])
  BY LeavesAre
<1> HIDE DEF b, o
<1>3. \A k \in 1..Len(places) : /\ b[Append(<<>>, k)].kids = 0
                                /\ Onward(rules, b[Append(<<>>, k)]) = places[k]
  <2> SUFFICES ASSUME NEW k \in 1..Len(places)
               PROVE  b[Append(<<>>, k)].kids = 0 /\ Onward(rules, b[Append(<<>>, k)]) = places[k]
    OBVIOUS
  <2>1. places[k] \in Places(rules) /\ places[k] # <<>>
    <3>1. places[k] \in Places(rules)
      BY ElementOfSeq, LenProperties
    <3>2. WellFormed(rules)
      BY TopIs
    <3> QED BY <3>1, <3>2, PlaceIs
  <2>2. Plain(places[k]).kids = 0 /\ Plain(places[k]).at = places[k]
    BY DEF Plain, Deriv
  <2> QED BY <1>2, <2>1, <2>2 DEF Onward
<1>4. \A v \in DOMAIN b : v # <<>> => b[v].kids = 0
  BY <1>2, <1>3, FlatIs
<1>5. Tight(Top) => \A k \in 1..b[<<>>].kids :
                      Onward(rules, b[Append(<<>>, k)]) \in TailOf(rules, nodeCost, Here)
  BY <1>2, <1>3
<1>6. b[<<>>].at = Here /\ b[<<>>].rule = Blank
  BY <1>2
<1> QED BY <1>1, <1>2, <1>4, <1>5, <1>6, GrowTails

\* Where the walk goes on, for each kind of node.
LEMMA TailOfIs ==
  ASSUME NEW g, WellFormed(g), NEW table, NEW at \in Places(g)
  PROVE  LET n == NodeAt(g, at)
         IN  /\ n.kind \in {"seq", "repeat"} =>
                  \A k \in 1..n.kids : Append(at, k) \in TailOf(g, table, at)
             /\ n.kind = "alt" /\ Writable(g, table, at) # {} =>
                  Append(at, Cheapest(g, table, at)) \in TailOf(g, table, at)
             /\ n.kind = "ref" /\ n.name \notin DOMAIN Cut /\ Defined(g, n.name) =>
                  <<RuleNo(g, n.name)>> \in TailOf(g, table, at)
<1> DEFINE n == NodeAt(g, at)
<1>1. ASSUME n.kind \in {"seq", "repeat"}, NEW k \in 1..n.kids
      PROVE  Append(at, k) \in TailOf(g, table, at)
  <2>1. TailOf(g, table, at) = Range(KidsAt(g, at))
    BY <1>1 DEF TailOf
  <2>2. k \in DOMAIN KidsAt(g, at) /\ KidsAt(g, at)[k] = Append(at, k)
    BY DEF KidsAt
  <2> QED BY <2>1, <2>2 DEF Range
<1>2. ASSUME n.kind = "alt", Writable(g, table, at) # {}
      PROVE  Append(at, Cheapest(g, table, at)) \in TailOf(g, table, at)
  BY <1>2 DEF TailOf
<1>3. ASSUME n.kind = "ref", n.name \notin DOMAIN Cut, Defined(g, n.name)
      PROVE  <<RuleNo(g, n.name)>> \in TailOf(g, table, at)
  BY <1>3 DEF TailOf
<1> QED BY <1>1, <1>2, <1>3

\* What belongs below a reference.
LEMMA AdmittedRef ==
  ASSUME NEW g, NEW d, NEW way, d[way].at # <<>>, Admitted(g, d, way),
         NodeAt(g, d[way].at).kind = "ref", NodeAt(g, d[way].at).name \notin DOMAIN Cut
  PROVE  /\ d[way].kids = 1 /\ d[Append(way, 1)].at = <<>>
         /\ d[Append(way, 1)].rule = NodeAt(g, d[way].at).name
BY AdmittedAt

\* A reference, the production it enters and its body.
LEMMA RefIs ==
  ASSUME NEW g, WellFormed(g), NEW d, NEW at \in Places(g), NodeAt(g, at).kind = "ref",
         NodeAt(g, at).name \notin DOMAIN Cut, Growing(g, d, {<<1, 1>>}), d[<<>>].at = at
  PROVE  /\ d[<<>>].kids = 1 /\ d[Append(<<>>, 1)].at = <<>>
         /\ d[Append(<<>>, 1)].rule = NodeAt(g, at).name
         /\ \A x \in DOMAIN d : x # <<>> => d[x].kids = 0 \/ d[x].at = <<>>
<1> DEFINE a == Append(<<>>, 1)
           b == Append(a, 1)
<1>1. IsTree(d) /\ DOMAIN d \subseteq Ways /\ <<>> \in DOMAIN d
  BY DEF Growing, IsTree
<1>2. d[<<>>].kids = 1 /\ d[a].at = <<>> /\ d[a].rule = NodeAt(g, at).name
  <2>1. <<>> # <<1, 1>>
    OBVIOUS
  <2>2. Admitted(g, d, <<>>)
    BY <1>1, <2>1 DEF Growing
  <2>3. d[<<>>].at # <<>>
    BY PlaceIs
  <2>4. NodeAt(g, d[<<>>].at) = NodeAt(g, at)
    OBVIOUS
  <2> DEFINE way == <<>>
  <2>5. d[way].at # <<>> /\ Admitted(g, d, way) /\ NodeAt(g, d[way].at) = NodeAt(g, at)
    BY <2>2, <2>3, <2>4
  <2> HIDE DEF way
  <2>6. d[way].kids = 1 /\ d[Append(way, 1)].at = <<>> /\ d[Append(way, 1)].rule = NodeAt(g, at).name
    BY <2>5, AdmittedRef
  <2> QED BY Zenon, <2>6 DEF way
<1>3. b = <<1, 1>>
  <2>1. <<1>> = a
    BY StepAnd, RootWay
  <2> DEFINE u == Append(<<1>>, 1)
             c == <<1, 1>>
  <2>2. c \in Seq(Nat) /\ Len(c) = 2 /\ c[1] = 1 /\ c[2] = 1
    OBVIOUS
  <2>3. u \in Seq(Nat) /\ Len(u) = 2 /\ u[1] = 1 /\ u[2] = 1
    OBVIOUS
  <2> HIDE DEF u, c
  <2>4. Len(u) = Len(c) /\ \A k \in 1..Len(u) : u[k] = c[k]
    BY <2>2, <2>3
  <2>5. u = c
    BY <2>2, <2>3, <2>4, SeqEqual
  <2> HIDE DEF a
  <2> QED BY Zenon, <2>1, <2>5 DEF u, c
<1> HIDE DEF a
<1>4. a \in DOMAIN d
  <2>1. 1 \in 1..d[<<>>].kids
    BY <1>2
  <2> QED BY <1>1, <2>1 DEF IsTree, a
<1>5. d[a].kids = 1 /\ b \in DOMAIN d
  BY <1>2, <1>4, EnteredIs
<1>6. d[b].kids = 0
  <2> HIDE DEF b
  <2> QED BY <1>3 DEF Growing
<1>7. ASSUME NEW x \in DOMAIN d, x # <<>>, x # a PROVE d[x].kids = 0
  <2>1. IsStrictPrefix(<<>>, x)
    BY <1>1, <1>7, RootWay DEF IsStrictPrefix
  <2>2. IsPrefix(a, x)
    <3>1. PICK k \in 1..d[<<>>].kids : Append(<<>>, k) \in DOMAIN d /\ IsPrefix(Append(<<>>, k), x)
      BY <1>1, <2>1, WayOn
    <3>2. k = 1
      BY <1>2, <3>1
    <3> QED BY <3>1, <3>2 DEF a
  <2>3. PICK k \in 1..d[a].kids : Append(a, k) \in DOMAIN d /\ IsPrefix(Append(a, k), x)
    <3>1. IsStrictPrefix(a, x)
      BY <1>7, <2>2 DEF IsStrictPrefix
    <3> QED BY <1>1, <1>4, <3>1, WayOn
  <2>4. k = 1
    BY <1>5, <2>3
  <2>5. IsPrefix(b, x)
    BY <2>3, <2>4
  <2> HIDE DEF b
  <2>6. x = b
    BY <1>1, <1>5, <1>6, <2>5, LeafEnds
  <2> QED BY <1>6, <2>6
<1>8. \A x \in DOMAIN d : x # <<>> => d[x].kids = 0 \/ d[x].at = <<>>
  BY <1>2, <1>7
<1> QED BY <1>2, <1>8 DEF a

\* A walk that begins.
LEMMA BeginTails ==
  ASSUME WalkInv, WalkInv', Begin, rules' = rules, nodeCost' = nodeCost
  PROVE  TailInv'
<1>1. WellFormed(rules) /\ Defined(rules, Start)
  BY WalkAssumption DEF WalkInv
<1> DEFINE p == <<RuleNo(rules, Start)>>
           x == Entered(Start)
           places == One(p)
           d == Leaves(x, places)
           e == Branch(x, <<Leaf(Plain(p))>>)
<1>2. built' = e /\ phase' = "walk"
  BY Zenon DEF Begin, Enter, Entry
<1> HIDE DEF p
<1>3. places \in Seq({p}) /\ Len(places) = 1 /\ places[1] = p /\ DOMAIN places = {1}
  BY OneIs
<1>4. d = e
  <2> DEFINE L(q) == Leaf(Plain(q))
             kids == [k \in DOMAIN places |-> L(places[k])]
  <2> HIDE DEF L, places
  <2>1. kids = <<L(p)>>
    BY <1>3
  <2> HIDE DEF kids
  <2>2. Branch(x, kids) = Branch(x, <<L(p)>>)
    BY <2>1
  <2> QED BY <2>2 DEF kids, L, Leaves
<1>5. With(x, Len(places)).kids = Len(places) /\ With(x, Len(places)).at = <<>>
  BY WithEntered
<1> HIDE DEF places, x, d, e
<1>6. /\ IsTree(d) /\ d[<<>>] = With(x, Len(places))
      /\ \A k \in 1..Len(places) : d[Append(<<>>, k)] = Plain(places[k])
  BY <1>3, <1>5, LeavesAre DEF d
<1>7. \A k \in 1..d[<<>>].kids : d[Append(<<>>, k)].kids = 0
  <2>1. \A q : Plain(q).kids = 0
    BY DEF Plain, Deriv
  <2> QED BY <1>5, <1>6, <2>1
<1>8. \A v \in DOMAIN d : d[v].at # <<>> => d[v].kids = 0
  BY <1>5, <1>6, <1>7, FlatIs
<1>9. Tailed(rules, nodeCost, d)
  BY <1>8 DEF Tailed
<1>10. Tailed(rules, nodeCost, built)'
  BY <1>2, <1>4, <1>9 DEF Tailed, InTail, Turns
<1> QED BY <1>2, <1>10 DEF TailInv, WalkInv, Walked

\* A node that is written has nothing below it.
LEMMA WriteTails ==
  ASSUME WalkInv, WalkInv', TailInv, phase = "walk", open # {}, NEW token, Write(token)
  PROVE  TailInv'
<1> DEFINE x == [Plain(Here) EXCEPT !.token = token]
           d == Leaf(x)
<1>1. Grow(d, {})
  BY DEF Write
<1>2. x.kids = 0 /\ x.at = Here /\ x.rule = Blank
  BY DEF Plain, Deriv
<1> HIDE DEF x
<1>3. IsTree(d) /\ DOMAIN d = {<<>>} /\ d[<<>>] = x
  BY <1>2, LeafTree
<1> HIDE DEF d
<1>4. d[<<>>].kids = 0 /\ d[<<>>].at = Here /\ d[<<>>].rule = Blank
  BY <1>2, <1>3
<1>5. \A k \in 1..d[<<>>].kids : FALSE
  BY <1>4
<1>6. \A v \in DOMAIN d : v = <<>>
  BY <1>3
<1> QED BY <1>1, <1>3, <1>4, <1>5, <1>6, GrowTails

\* A step of the walk past the budget takes the cheapest choice.
LEMMA ExpandTails ==
  ASSUME WalkInv, WalkInv', TailInv,
         \/ ExpandWord \/ ExpandProse \/ ExpandLeaf \/ ExpandRef \/ ExpandSeq
         \/ ExpandOpt \/ ExpandRepeat \/ ExpandAlt
  PROVE  TailInv'
<1> DEFINE n == NodeAt(rules, Here)
           T == TailOf(rules, nodeCost, Here)
<1>1. phase = "walk" /\ open # {}
  BY DEF ExpandWord, ExpandProse, ExpandLeaf, ExpandRef, ExpandSeq, ExpandOpt, ExpandRepeat,
         ExpandAlt, Expanding
<1>2. WellFormed(rules) /\ Here \in Places(rules)
  BY <1>1, TopIs
<1>3. \A token : Write(token) => TailInv'
  BY <1>1, WriteTails
<1>4. ASSUME Fail PROVE TailInv'
  <2>1. phase' = "failed" /\ UNCHANGED <<rules, nodeCost, built, open>>
    BY <1>4 DEF Fail, costs, walk
  <2>2. Growing(rules, built, open) /\ Tailed(rules, nodeCost, built)
    BY <1>1 DEF TailInv
  <2>3. Tailed(rules, nodeCost, built)'
    BY <2>1, <2>2 DEF Tailed, InTail, Turns
  <2> QED BY <2>1, <2>2, <2>3 DEF TailInv
<1>5. /\ n.kind \in {"seq", "repeat"} => \A k \in 1..n.kids : Append(Here, k) \in T
      /\ n.kind = "alt" /\ Writable(rules, nodeCost, Here) # {} =>
           Append(Here, Cheapest(rules, nodeCost, Here)) \in T
      /\ n.kind = "ref" /\ n.name \notin DOMAIN Cut /\ Defined(rules, n.name) =>
           <<RuleNo(rules, n.name)>> \in T
  BY <1>2, TailOfIs
<1>6. ASSUME NEW x, NEW places \in Seq(Places(rules)), Descend(x, places),
             With(x, Len(places)).kids = Len(places), With(x, Len(places)).at = Here,
             With(x, Len(places)).rule = Blank,
             Tight(Top) => \A k \in 1..Len(places) : places[k] \in T
      PROVE  TailInv'
  BY <1>1, <1>6, DescendTails
<1>7. CASE ExpandWord
  BY <1>3, <1>7 DEF ExpandWord
<1>8. CASE ExpandProse
  BY <1>4, <1>8 DEF ExpandProse
<1>9. CASE ExpandLeaf
  <2> DEFINE s == Cut[n.name]
  <2>1. IF s = <<>> THEN Write(Blank) ELSE \E k \in DOMAIN s : Write(s[k])
    BY <1>9 DEF ExpandLeaf, Blank
  <2> HIDE DEF s
  <2> QED BY <1>3, <2>1
<1>10. CASE ExpandRef
  <2>1. n.kind = "ref" /\ n.name \notin DOMAIN Cut
    BY <1>10 DEF ExpandRef, Expanding
  <2>2. CASE ~Defined(rules, n.name)
    BY <1>4, <1>10, <2>2 DEF ExpandRef
  <2>3. CASE Defined(rules, n.name)
    <3> DEFINE name == n.name
               d == Branch(Plain(Here), <<Enter(name)>>)
    <3>1. Grow(d, {<<1, 1>>})
      BY <1>10, <2>3 DEF ExpandRef
    <3>2. Growing(rules, d, {<<1, 1>>}) /\ d[<<>>].at = Here /\ d[<<>>].rule = Blank
      <4> DEFINE e == Branch(Plain(Here), <<Branch(Entered(name), <<Leaf(Plain(<<RuleNo(rules, name)>>))>>)>>)
      <4>1. Growing(rules, e, {<<1, 1>>}) /\ e[<<>>].at = Here /\ e[<<>>].rule = Blank
        BY Zenon, <1>2, <2>1, <2>3, RefGrows
      <4>2. d = e
        BY Zenon DEF Enter, Entry
      <4> HIDE DEF d, e
      <4> QED BY <4>1, <4>2
    <3> HIDE DEF d
    <3>3. /\ d[<<>>].kids = 1 /\ d[Append(<<>>, 1)].at = <<>> /\ d[Append(<<>>, 1)].rule = n.name
          /\ \A v \in DOMAIN d : v # <<>> => d[v].kids = 0 \/ d[v].at = <<>>
      BY <1>2, <2>1, <3>2, RefIs
    <3>4. Onward(rules, d[Append(<<>>, 1)]) \in T
      <4>1. Onward(rules, d[Append(<<>>, 1)]) = <<RuleNo(rules, n.name)>>
        BY <3>3 DEF Onward
      <4> QED BY <1>5, <2>1, <2>3, <4>1
    <3>5. \A k \in 1..d[<<>>].kids : Onward(rules, d[Append(<<>>, k)]) \in T
      <4>1. \A k \in 1..d[<<>>].kids : k = 1
        BY <3>3
      <4> HIDE DEF T
      <4> QED BY <3>4, <4>1
    <3>6. IsTree(d)
      BY <3>2 DEF Growing
    <3> QED BY <1>1, <3>1, <3>2, <3>3, <3>5, <3>6, GrowTails
  <2> QED BY <2>2, <2>3
<1>11. CASE ExpandSeq
  <2> DEFINE x == Plain(Here)
             places == KidsAt(rules, Here)
  <2>1. n.kind = "seq" /\ Descend(x, places)
    BY <1>11 DEF ExpandSeq, Expanding
  <2>2. /\ With(x, Len(places)).kids = Len(places) /\ With(x, Len(places)).at = Here
        /\ With(x, Len(places)).rule = Blank
    BY WithPlain
  <2>3. places \in Seq(Places(rules)) /\ Len(places) = n.kids
    BY <1>2, KidsAtIs
  <2>4. \A k \in 1..n.kids : places[k] = Append(Here, k)
    BY DEF KidsAt
  <2>5. \A k \in 1..Len(places) : places[k] \in T
    <3> HIDE DEF places, T
    <3> QED BY <1>5, <2>1, <2>3, <2>4
  <2> HIDE DEF x, places, T
  <2> QED BY <1>6, <2>1, <2>2, <2>3, <2>5
<1>12. CASE ExpandOpt
  <2> DEFINE x == [Plain(Here) EXCEPT !.taken = TRUE]
             p == Append(Here, 1)
             places == One(p)
  <2>1. n.kind = "opt"
    BY <1>12 DEF ExpandOpt, Expanding
  <2>2. CASE Write(Blank)
    BY <1>3, <2>2
  <2>3. CASE ~Tight(Top) /\ Descend(x, places)
    <3>1. \A m : With(x, m).kids = m /\ With(x, m).at = Here /\ With(x, m).rule = Blank
      BY DEF With, Plain, Deriv
    <3>2. n.kids = 1
      BY <1>2, <2>1, PlaceIs
    <3>3. p \in Places(rules)
      <4>1. 1 \in 1..n.kids
        BY <3>2
      <4> QED BY <1>2, <4>1, PlaceIs
    <3> HIDE DEF p
    <3>4. places \in Seq(Places(rules))
      BY <3>3, OneIs
    <3> HIDE DEF x, places, T
    <3> QED BY <1>6, <2>3, <3>1, <3>4
  <2>4. Write(Blank) \/ (~Tight(Top) /\ Descend(x, places))
    BY Zenon, <1>12 DEF ExpandOpt, Blank, One
  <2> QED BY <2>2, <2>3, <2>4
<1>13. CASE ExpandRepeat
  <2> DEFINE p == Append(Here, 1)
             x == Plain(Here)
  <2>1. n.kind = "repeat"
    BY <1>13 DEF ExpandRepeat, Expanding
  <2>2. PICK reps \in {1, 2} : Descend(x, [k \in 1..reps |-> p])
    BY <1>13 DEF ExpandRepeat
  <2> DEFINE places == [k \in 1..reps |-> p]
  <2>3. p \in Places(rules) /\ p \in T
    <3>1. n.kids = 1
      BY <1>2, <2>1, PlaceIs
    <3>2. 1 \in 1..n.kids
      BY <3>1
    <3> HIDE DEF T
    <3> QED BY <1>2, <1>5, <2>1, <3>2, PlaceIs
  <2> HIDE DEF p, T
  <2>4. places \in Seq(Places(rules)) /\ Len(places) = reps /\ \A k \in 1..Len(places) : places[k] = p
    BY <2>3
  <2>5. \A m : With(x, m).kids = m /\ With(x, m).at = Here /\ With(x, m).rule = Blank
    BY WithPlain
  <2> HIDE DEF x, places
  <2>6. \A k \in 1..Len(places) : places[k] \in T
    BY <2>3, <2>4
  <2>7. Descend(x, places)
    BY <2>2 DEF places
  <2> QED BY <1>6, <2>4, <2>5, <2>6, <2>7
<1>14. CASE ExpandAlt
  <2> DEFINE w == Writable(rules, nodeCost, Here)
             c == Cheapest(rules, nodeCost, Here)
             x == Plain(Here)
  <2>1. n.kind = "alt"
    BY <1>14 DEF ExpandAlt, Expanding
  <2>2. CASE w = {}
    BY <1>4, <1>14, <2>2 DEF ExpandAlt
  <2>3. CASE w # {}
    <3>1. n.kids \in Nat
      BY <1>2, PlaceIs
    <3>2. c \in w
      BY <1>2, <2>3, <3>1, CheapestIs DEF WalkInv
    <3>3. PICK k \in w : Descend(x, <<Append(Here, k)>>) /\ (Tight(Top) => k = c)
      <4>1. PICK k \in IF Tight(Top) THEN {c} ELSE w : Descend(x, <<Append(Here, k)>>)
        BY <1>14, <2>3 DEF ExpandAlt
      <4> HIDE DEF c, w, x
      <4> QED BY <3>2, <4>1
    <3> DEFINE p == Append(Here, k)
               places == One(p)
    <3>4. k \in 1..n.kids
      BY DEF Writable
    <3>5. p \in Places(rules)
      BY <1>2, <3>4, PlaceIs
    <3>6. Tight(Top) => p \in T
      <4>1. Append(Here, c) \in T
        BY <1>5, <2>1, <2>3
      <4> HIDE DEF T, c
      <4> QED BY <3>3, <4>1
    <3>7. Descend(x, places)
      BY <3>3 DEF One
    <3>8. \A m : With(x, m).kids = m /\ With(x, m).at = Here /\ With(x, m).rule = Blank
      BY WithPlain
    <3> HIDE DEF p, x, T
    <3>9. places \in Seq(Places(rules)) /\ Len(places) = 1 /\ places[1] = p
      BY <3>5, OneIs
    <3> HIDE DEF places
    <3>10. Tight(Top) => \A j \in 1..Len(places) : places[j] \in T
      BY <3>6, <3>9
    <3> QED BY <1>6, <3>7, <3>8, <3>9, <3>10
  <2> QED BY <2>2, <2>3
<1> QED BY <1>7, <1>8, <1>9, <1>10, <1>11, <1>12, <1>13, <1>14

\* Nothing is grown at first.
LEMMA InitTails == Init => TailInv
BY DEF Init, TailInv

\* Every step of the generator keeps the tail on that way.
LEMMA NextTails == WalkInv /\ WalkInv' /\ TailInv /\ [Next]_vars => TailInv'
<1> SUFFICES ASSUME WalkInv, WalkInv', TailInv, [Next]_vars PROVE TailInv'
  OBVIOUS
<1>1. CASE Relax \/ NextSweep
  <2>1. phase = "cost" /\ UNCHANGED <<phase, built>>
    BY <1>1 DEF Relax, NextSweep, walk
  <2> QED BY <2>1 DEF TailInv
<1>2. CASE Costed
  <2>1. phase = "cost" /\ UNCHANGED <<rules, nodeCost>>
    BY <1>2 DEF Costed, costs
  <2>2. CASE phase' = "refused" /\ UNCHANGED walk
    BY <2>1, <2>2 DEF TailInv, walk
  <2>3. CASE Begin
    BY <2>1, <2>3, BeginTails
  <2> QED BY <1>2, <2>2, <2>3 DEF Costed
<1>3. CASE \/ ExpandWord \/ ExpandProse \/ ExpandLeaf \/ ExpandRef \/ ExpandSeq
           \/ ExpandOpt \/ ExpandRepeat \/ ExpandAlt
  BY <1>3, ExpandTails
<1>4. CASE Generated
  <2>1. UNCHANGED <<rules, nodeCost>>
    BY <1>4 DEF Generated, costs
  <2>2. CASE phase' = "reduce" /\ built' = Nothing
    BY <2>2 DEF TailInv
  <2>3. CASE Begin
    BY <2>1, <2>3, BeginTails
  <2> QED BY <1>4, <2>2, <2>3 DEF Generated
<1>5. CASE SkipEmpty \/ Ask \/ Reduced
  <2>1. phase = "reduce" /\ phase' \in {"reduce", "done"} /\ built' = built
    BY <1>5 DEF SkipEmpty, Ask, Reduced, Reducing, walk
  <2> QED BY <2>1 DEF TailInv
<1>6. CASE UNCHANGED vars
  <2>1. UNCHANGED <<rules, phase, nodeCost, built, open>>
    BY <1>6 DEF vars, costs, walk
  <2>2. Tailed(rules, nodeCost, built)' <=> Tailed(rules, nodeCost, built)
    BY <2>1 DEF Tailed, InTail, Turns
  <2> QED BY <2>1, <2>2 DEF TailInv
<1> QED BY <1>1, <1>2, <1>3, <1>4, <1>5, <1>6 DEF Next, ComputeCost, Walk, Reduce

\* Where the cheapest choices never lead back to where they were made, the walk
\* comes back up past its budget, whatever the budget and whatever it has chosen
\* before.
THEOREM ComesBack == Spec => [](NeverBack(rules, nodeCost) => TailComesBack)
<1>1. WalkInv /\ TailInv => (NeverBack(rules, nodeCost) => TailComesBack)
  <2> SUFFICES ASSUME WalkInv, TailInv, NeverBack(rules, nodeCost), NEW v, NEW w,
                      v \in DOMAIN built, built[v].at = <<>>, Tight(v),
                      w \in DOMAIN built, built[w].at = <<>>, Tight(w), IsStrictPrefix(v, w)
               PROVE  built[v].rule # built[w].rule
    BY DEF TailComesBack
  <2>1. built # Nothing
    BY DEF Nothing
  <2>2. Growing(rules, built, open) /\ Tailed(rules, nodeCost, built)
    BY <2>1 DEF TailInv
  <2>3. InTail(rules, built, v)
    BY DEF Tight, Depth, InTail, Turns
  <2>4. WellFormed(rules)
    BY WalkAssumption DEF WalkInv
  <2> QED BY <2>2, <2>3, <2>4, TailComes
<1> QED BY InitWalk, InitTails, NextKeepsWalk, NextTails, <1>1, PTL DEF Spec
=============================================================================
