---------------------------- MODULE Cursors_proofs ----------------------------
(***************************************************************************)
(* What the methods of Cursors compute, for cursors of any shape, any      *)
(* depth and any bytes.                                                    *)
(*                                                                         *)
(* Every method is a function that is recursive over the tree.  For each   *)
(* there is first a lemma XDef, that a function with this recursive        *)
(* equation exists and that the equation may be used, and then its type    *)
(* and its law, by induction over the tree (BufInduction, MutInduction).   *)
(* Induction is over a set: of the elements that have a property, one      *)
(* shows that it contains every tree whose parts it contains.              *)
(***************************************************************************)
EXTENDS Cursors, TLAPS, NaturalsInduction, WellFoundedInduction

Below == {ss \in Nat \X Nat : ss[1] < ss[2]}

\* A set of numbers that is not empty has a least element.
LEMMA LeastIn ==
    ASSUME NEW N \in SUBSET Nat, N # {}
    PROVE  \E n \in N : \A m \in N : n <= m
<1>1. IsWellFoundedOn(Below, Nat)
  BY NatLessThanWellFounded, Zenon DEF Below, OpToRel
<1>2. PICK n \in N : \A m \in N : <<m, n>> \notin Below
  BY <1>1, WFMin
<1>3. ASSUME NEW m \in N PROVE n <= m
  <2>1. n \in Nat /\ m \in Nat /\ <<m, n>> \notin Below
    BY <1>2
  <2> QED BY <2>1 DEF Below
<1> QED BY <1>3

\* Induction over the numbers up to a bound.
LEMMA UpToInduction ==
    ASSUME NEW bound \in Nat, NEW N, 0 \in N, \A d \in 1..bound : d - 1 \in N => d \in N
    PROVE  \A d \in 0..bound : d \in N
<1> SUFFICES ASSUME NEW bad \in 0..bound, bad \notin N PROVE FALSE
  OBVIOUS
<1> DEFINE Out == {d \in 0..bound : d \notin N}
<1>1. Out \in SUBSET Nat /\ Out # {}
  OBVIOUS
<1>2. PICK n \in Out : \A m \in Out : n <= m
  BY <1>1, LeastIn
<1>3. n # 0 /\ n - 1 \in 0..bound /\ n \in 1..bound
  BY <1>2
<1>4. n - 1 \in N
  BY <1>2, <1>3
<1> QED BY <1>2, <1>3, <1>4

\* Induction over all numbers.
LEMMA NumberInduction ==
    ASSUME NEW N, 0 \in N, \A d \in Nat : d \in N => d + 1 \in N
    PROVE  \A d \in Nat : d \in N
<1> TAKE d \in Nat
<1>1. \A e \in 1..d : e - 1 \in N => e \in N
  <2> TAKE e \in 1..d
  <2>1. e - 1 \in Nat /\ (e - 1) + 1 = e
    OBVIOUS
  <2> QED BY <2>1
<1>2. \A e \in 0..d : e \in N
  BY <1>1, UpToInduction
<1> QED BY <1>2

-----------------------------------------------------------------------------
(* Sequences, and what is before and behind a place in them.              *)

\* Two sequences with the same elements are the same.
LEMMA SameSeq ==
    ASSUME NEW S, NEW s \in Seq(S), NEW t \in Seq(S), Len(s) = Len(t), \A i \in 1..Len(s) : s[i] = t[i]
    PROVE  s = t
OBVIOUS

LEMMA Lens ==
    \A m, n \in Nat : /\ Least(m, n) \in Nat /\ Beyond(m, n) \in Nat
                      /\ Least(m, n) <= m /\ Least(m, n) <= n
                      /\ Least(m, n) + Beyond(n, m) = n
                      /\ m <= n => Least(m, n) = m /\ Beyond(m, n) = 0 /\ Beyond(n, m) = n - m
                      /\ n <= m => Least(m, n) = n /\ Beyond(n, m) = 0 /\ Beyond(m, n) = m - n
BY DEF Least, Beyond

\* The front of a sequence and what is behind it.
LEMMA FirstType ==
    ASSUME NEW S, NEW s \in Seq(S), NEW n \in Nat
    PROVE  First(s, n) \in Seq(S) /\ Len(First(s, n)) = Least(n, Len(s))
BY DEF First, Least

LEMMA FirstAt ==
    ASSUME NEW S, NEW s \in Seq(S), NEW n \in Nat
    PROVE  \A i \in 1..Least(n, Len(s)) : First(s, n)[i] = s[i]
BY DEF First, Least

LEMMA SkipType ==
    ASSUME NEW S, NEW s \in Seq(S), NEW n \in Nat
    PROVE  Skip(s, n) \in Seq(S) /\ Len(Skip(s, n)) = Beyond(Len(s), n)
BY DEF Skip, Beyond

LEMMA SkipAt ==
    ASSUME NEW S, NEW s \in Seq(S), NEW n \in Nat
    PROVE  \A i \in 1..Beyond(Len(s), n) : Skip(s, n)[i] = s[n + i]
BY DEF Skip, Beyond

LEMMA CutEnds ==
    ASSUME NEW S, NEW s \in Seq(S)
    PROVE  /\ First(s, 0) = <<>> /\ Skip(s, 0) = s
           /\ \A n \in Nat : n >= Len(s) => First(s, n) = s /\ Skip(s, n) = <<>>
<1>0. 0 \in Nat /\ Len(s) \in Nat /\ Least(0, Len(s)) = 0 /\ Beyond(Len(s), 0) = Len(s)
  BY DEF Least, Beyond
<1>1. First(s, 0) \in Seq(S) /\ Len(First(s, 0)) = 0
  BY <1>0, FirstType
<1>2. Skip(s, 0) = s
  <2>1. Skip(s, 0) \in Seq(S) /\ Len(Skip(s, 0)) = Len(s)
    BY <1>0, SkipType
  <2>2. \A i \in 1..Beyond(Len(s), 0) : Skip(s, 0)[i] = s[0 + i]
    BY <1>0, SkipAt
  <2>3. \A i \in 1..Len(s) : Skip(s, 0)[i] = s[i]
    BY <1>0, <2>2
  <2> QED BY <2>1, <2>3, SameSeq
<1>3. ASSUME NEW n \in Nat, n >= Len(s) PROVE First(s, n) = s /\ Skip(s, n) = <<>>
  <2>1. Least(n, Len(s)) = Len(s) /\ Beyond(Len(s), n) = 0
    BY <1>0, <1>3 DEF Least, Beyond
  <2>2. First(s, n) \in Seq(S) /\ Len(First(s, n)) = Len(s)
    BY <2>1, FirstType
  <2>3. \A i \in 1..Len(s) : First(s, n)[i] = s[i]
    BY <2>1, FirstAt
  <2>4. Skip(s, n) \in Seq(S) /\ Len(Skip(s, n)) = 0
    BY <2>1, SkipType
  <2>5. First(s, n) = s
    BY <2>2, <2>3, SameSeq
  <2> QED BY <2>4, <2>5
<1> QED BY <1>1, <1>2, <1>3

LEMMA JoinElements ==
    ASSUME NEW S, NEW s \in Seq(S), NEW t \in Seq(S)
    PROVE  /\ s \o t \in Seq(S) /\ Len(s \o t) = Len(s) + Len(t)
           /\ \A i \in 1..Len(s) : (s \o t)[i] = s[i]
           /\ \A i \in 1..Len(t) : (s \o t)[Len(s) + i] = t[i]
OBVIOUS

LEMMA JoinBehind ==
    ASSUME NEW S, NEW s \in Seq(S), NEW t \in Seq(S), NEW i \in (Len(s) + 1)..(Len(s) + Len(t))
    PROVE  (s \o t)[i] = t[i - Len(s)] /\ i - Len(s) \in 1..Len(t)
OBVIOUS

LEMMA JoinCuts ==
    ASSUME NEW S, NEW s \in Seq(S), NEW n \in Nat
    PROVE  First(s, n) \o Skip(s, n) = s
<1> DEFINE f == First(s, n)
           k == Skip(s, n)
<1>1. f \in Seq(S) /\ Len(f) = Least(n, Len(s))
  BY FirstType
<1>2. k \in Seq(S) /\ Len(k) = Beyond(Len(s), n)
  BY SkipType
<1>3. \A i \in 1..Least(n, Len(s)) : f[i] = s[i]
  BY FirstAt
<1>4. \A i \in 1..Beyond(Len(s), n) : k[i] = s[n + i]
  BY SkipAt
<1>5. Len(s) \in Nat /\ Least(n, Len(s)) + Beyond(Len(s), n) = Len(s)
      /\ (Beyond(Len(s), n) # 0 => Least(n, Len(s)) = n)
      /\ Least(n, Len(s)) \in Nat /\ Beyond(Len(s), n) \in Nat
  BY DEF Least, Beyond
<1> HIDE DEF f, k
<1>6. f \o k \in Seq(S) /\ Len(f \o k) = Len(s)
  BY <1>1, <1>2, <1>5
<1>7. ASSUME NEW i \in 1..Len(s) PROVE (f \o k)[i] = s[i]
  <2>1. CASE i <= Len(f)
    <3>1. i \in 1..Len(f)
      BY <2>1, <1>1, <1>5
    <3>2. (f \o k)[i] = f[i]
      BY <3>1, <1>1, <1>2, JoinElements
    <3> QED BY <3>1, <3>2, <1>1, <1>3
  <2>2. CASE i > Len(f)
    <3>1. i \in (Len(f) + 1)..(Len(f) + Len(k))
      BY <2>2, <1>1, <1>2, <1>5
    <3>2. (f \o k)[i] = k[i - Len(f)] /\ i - Len(f) \in 1..Len(k)
      BY <3>1, <1>1, <1>2, JoinBehind
    <3>3. n + (i - Len(f)) = i
      BY <3>2, <1>1, <1>2, <1>5
    <3>4. k[i - Len(f)] = s[n + (i - Len(f))]
      BY <3>2, <1>2, <1>4
    <3> QED BY <3>2, <3>3, <3>4
  <2>3. i <= Len(f) \/ i > Len(f)
    BY <1>1, <1>5
  <2> QED BY <2>1, <2>2, <2>3
<1>8. f \o k = s
  BY <1>6, <1>7, SameSeq
<1> QED BY <1>8 DEF f, k

LEMMA SkipFirst ==
    ASSUME NEW S, NEW s \in Seq(S), NEW m \in Nat, NEW n \in 0..m
    PROVE  Skip(First(s, m), n) = First(Skip(s, n), m - n)
<1>0. n \in Nat /\ m - n \in Nat /\ Len(s) \in Nat
      /\ Least(m - n, Beyond(Len(s), n)) = Beyond(Least(m, Len(s)), n)
  BY DEF Least, Beyond
<1>1. First(s, m) \in Seq(S) /\ Len(First(s, m)) = Least(m, Len(s))
  BY FirstType
<1>2. Skip(s, n) \in Seq(S) /\ Len(Skip(s, n)) = Beyond(Len(s), n)
  BY <1>0, SkipType
<1>3. Skip(First(s, m), n) \in Seq(S) /\ Len(Skip(First(s, m), n)) = Beyond(Least(m, Len(s)), n)
  BY <1>0, <1>1, SkipType
<1>4. First(Skip(s, n), m - n) \in Seq(S) /\ Len(First(Skip(s, n), m - n)) = Beyond(Least(m, Len(s)), n)
  BY <1>0, <1>2, FirstType
<1>5. ASSUME NEW i \in 1..Beyond(Least(m, Len(s)), n)
      PROVE  Skip(First(s, m), n)[i] = First(Skip(s, n), m - n)[i]
  <2>1. n + i \in 1..Least(m, Len(s)) /\ i \in 1..Beyond(Len(s), n) /\ i \in 1..Least(m - n, Beyond(Len(s), n))
    BY <1>0 DEF Beyond, Least
  <2>2. Skip(First(s, m), n)[i] = First(s, m)[n + i]
    BY <1>0, <1>1, <2>1, SkipAt
  <2>3. First(s, m)[n + i] = s[n + i]
    BY <2>1, FirstAt
  <2>4. First(Skip(s, n), m - n)[i] = Skip(s, n)[i]
    BY <1>0, <1>2, <2>1, FirstAt
  <2>5. Skip(s, n)[i] = s[n + i]
    BY <1>0, <2>1, SkipAt
  <2> QED BY <2>2, <2>3, <2>4, <2>5
<1> QED BY <1>3, <1>4, <1>5, SameSeq

\* Cutting what was cut.
LEMMA FirstFirst ==
    ASSUME NEW S, NEW s \in Seq(S), NEW m \in Nat, NEW n \in Nat
    PROVE  First(First(s, m), n) = First(s, Least(m, n))
<1>9. Least(m, n) \in Nat
  BY Lens
<1>0. Least(n, Least(m, Len(s))) = Least(Least(m, n), Len(s))
      /\ \A i \in 1..Least(Least(m, n), Len(s)) : i \in 1..Least(m, Len(s))
  BY DEF Least
<1>1. First(s, m) \in Seq(S) /\ Len(First(s, m)) = Least(m, Len(s))
  BY FirstType
<1>2. First(First(s, m), n) \in Seq(S) /\ Len(First(First(s, m), n)) = Least(Least(m, n), Len(s))
  BY <1>0, <1>1, FirstType
<1>3. First(s, Least(m, n)) \in Seq(S) /\ Len(First(s, Least(m, n))) = Least(Least(m, n), Len(s))
  BY <1>9, FirstType
<1>4. ASSUME NEW i \in 1..Least(Least(m, n), Len(s)) PROVE First(First(s, m), n)[i] = First(s, Least(m, n))[i]
  <2>1. First(First(s, m), n)[i] = First(s, m)[i]
    BY <1>0, <1>1, FirstAt
  <2>2. First(s, m)[i] = s[i]
    BY <1>0, FirstAt
  <2>3. First(s, Least(m, n))[i] = s[i]
    BY <1>9, FirstAt
  <2> QED BY <2>1, <2>2, <2>3
<1> QED BY <1>2, <1>3, <1>4, SameSeq

LEMMA SkipSkip ==
    ASSUME NEW S, NEW s \in Seq(S), NEW m \in Nat, NEW n \in Nat
    PROVE  Skip(Skip(s, m), n) = Skip(s, m + n)
<1>0. m + n \in Nat /\ Beyond(Beyond(Len(s), m), n) = Beyond(Len(s), m + n)
  BY DEF Beyond
<1>1. Skip(s, m) \in Seq(S) /\ Len(Skip(s, m)) = Beyond(Len(s), m)
  BY SkipType
<1>a. Skip(s, m + n) \in Seq(S) /\ Len(Skip(s, m + n)) = Beyond(Len(s), m + n)
  BY <1>0, SkipType
<1>2. Skip(Skip(s, m), n) \in Seq(S) /\ Len(Skip(Skip(s, m), n)) = Beyond(Len(s), m + n)
  BY <1>0, <1>1, SkipType
<1>3. ASSUME NEW i \in 1..Beyond(Len(s), m + n)
      PROVE  Skip(Skip(s, m), n)[i] = Skip(s, m + n)[i]
  <2>1. n + i \in 1..Beyond(Len(s), m) /\ i \in 1..Beyond(Beyond(Len(s), m), n)
    BY DEF Beyond
  <2>2. Skip(Skip(s, m), n)[i] = Skip(s, m)[n + i]
    BY <1>1, <2>1, SkipAt
  <2>3. Skip(s, m)[n + i] = s[m + (n + i)]
    BY <2>1, SkipAt
  <2>4. Skip(s, m + n)[i] = s[(m + n) + i]
    BY <1>0, SkipAt
  <2> QED BY <2>2, <2>3, <2>4
<1> QED BY <1>a, <1>2, <1>3, SameSeq

LEMMA FirstTwice ==
    ASSUME NEW S, NEW s \in Seq(S), NEW m \in Nat, NEW n \in Nat
    PROVE  First(s, m) \o First(Skip(s, m), n) = First(s, m + n)
<1>0. m + n \in Nat
  OBVIOUS
<1>1. First(s, m) \in Seq(S) /\ Len(First(s, m)) = Least(m, Len(s))
  BY FirstType
<1>2. First(s, m + n) \in Seq(S) /\ Len(First(s, m + n)) = Least(m + n, Len(s))
  BY <1>0, FirstType
<1>3. Skip(First(s, m + n), m) = First(Skip(s, m), n)
  <2>1. m \in 0..(m + n) /\ (m + n) - m = n /\ m + n \in Nat
    OBVIOUS
  <2> QED BY <2>1, SkipFirst
<1>4. First(First(s, m + n), m) = First(s, m)
  <2>1. Least(m, Least(m + n, Len(s))) = Least(m, Len(s)) /\ Least(m, Len(s)) <= Least(m + n, Len(s))
    BY DEF Least
  <2>2. First(First(s, m + n), m) \in Seq(S) /\ Len(First(First(s, m + n), m)) = Least(m, Len(s))
    BY <1>2, <2>1, FirstType
  <2>3. ASSUME NEW i \in 1..Least(m, Len(s)) PROVE First(First(s, m + n), m)[i] = First(s, m)[i]
    <3>1. First(First(s, m + n), m)[i] = First(s, m + n)[i]
      BY <1>2, <2>1, FirstAt
    <3>2. i \in 1..Least(m + n, Len(s))
      BY <1>0, <2>1 DEF Least
    <3>3. First(s, m + n)[i] = s[i]
      BY <1>0, <3>2, FirstAt
    <3>4. First(s, m)[i] = s[i]
      BY FirstAt
    <3> QED BY <3>1, <3>3, <3>4
  <2> QED BY <1>1, <2>2, <2>3, SameSeq
<1>5. First(First(s, m + n), m) \o Skip(First(s, m + n), m) = First(s, m + n)
  BY <1>2, JoinCuts
<1> QED BY <1>3, <1>4, <1>5

\* Cutting two sequences in a row.
LEMMA CutInside ==
    ASSUME NEW S, NEW s \in Seq(S), NEW t \in Seq(S), NEW n \in Nat, n <= Len(s)
    PROVE  /\ First(s \o t, n) = First(s, n)
           /\ Skip(s \o t, n) = Skip(s, n) \o t
<1> DEFINE st == s \o t
           ks == Skip(s, n)
<1>1. st \in Seq(S) /\ Len(st) = Len(s) + Len(t) /\ (\A i \in 1..Len(s) : st[i] = s[i])
  BY JoinElements
<1>2. \A i \in 1..Len(t) : st[Len(s) + i] = t[i]
  BY JoinElements
<1>0. Len(s) \in Nat /\ Len(t) \in Nat /\ n <= Len(s)
  OBVIOUS
<1>3. ks \in Seq(S) /\ Len(ks) = Len(s) - n
  <2>1. Beyond(Len(s), n) = Len(s) - n
    BY <1>0 DEF Beyond
  <2> QED BY <2>1, SkipType
<1>a. \A i \in 1..(Len(s) - n) : ks[i] = s[n + i]
  <2>1. Beyond(Len(s), n) = Len(s) - n
    BY <1>0 DEF Beyond
  <2> QED BY <2>1, SkipAt
<1> HIDE DEF st, ks
<1>4. First(st, n) = First(s, n)
  <2>1. Least(n, Len(st)) = n /\ Least(n, Len(s)) = n
    BY <1>0, <1>1 DEF Least
  <2>2. First(st, n) \in Seq(S) /\ Len(First(st, n)) = n /\ \A i \in 1..n : First(st, n)[i] = st[i]
    BY <1>1, <2>1, FirstAt, FirstType
  <2>3. First(s, n) \in Seq(S) /\ Len(First(s, n)) = n /\ \A i \in 1..n : First(s, n)[i] = s[i]
    BY <2>1, FirstAt, FirstType
  <2> QED BY <1>1, <2>2, <2>3, SameSeq
<1>5. Skip(st, n) = ks \o t
  <2>1. Beyond(Len(st), n) = (Len(s) - n) + Len(t)
    BY <1>0, <1>1 DEF Beyond
  <2>2. Skip(st, n) \in Seq(S) /\ Len(Skip(st, n)) = (Len(s) - n) + Len(t)
        /\ \A i \in 1..((Len(s) - n) + Len(t)) : Skip(st, n)[i] = st[n + i]
    <3>1. Skip(st, n) \in Seq(S) /\ Len(Skip(st, n)) = Beyond(Len(st), n)
       BY <1>1, SkipType
    <3>2. \A i \in 1..Beyond(Len(st), n) : Skip(st, n)[i] = st[n + i]
       BY <1>1, SkipAt
    <3> QED BY <3>1, <3>2, <2>1
  <2>3. ks \o t \in Seq(S) /\ Len(ks \o t) = (Len(s) - n) + Len(t)
    BY <1>3
  <2>4. ASSUME NEW i \in 1..((Len(s) - n) + Len(t)) PROVE st[n + i] = (ks \o t)[i]
    <3>1. CASE i <= Len(s) - n
      <4>1. i \in 1..(Len(s) - n) /\ n + i \in 1..Len(s) /\ i \in 1..Len(ks)
        BY <3>1, <1>0, <1>3
      <4>2. (ks \o t)[i] = ks[i]
        BY <4>1, <1>3, JoinElements
      <4> QED BY <4>1, <4>2, <1>1, <1>a
    <3>2. CASE i > Len(s) - n
      <4>1. i \in (Len(ks) + 1)..(Len(ks) + Len(t))
        BY <3>2, <1>0, <1>3
      <4>2. (ks \o t)[i] = t[i - Len(ks)] /\ i - Len(ks) \in 1..Len(t)
        BY <4>1, <1>3, JoinBehind
      <4>3. Len(s) + (i - Len(ks)) = n + i
        BY <1>0, <1>3
      <4>4. st[Len(s) + (i - Len(ks))] = t[i - Len(ks)]
        BY <4>2, <1>2
      <4> QED BY <4>2, <4>3, <4>4
    <3>3. i <= Len(s) - n \/ i > Len(s) - n
      BY <1>0
    <3> QED BY <3>1, <3>2, <3>3
  <2> QED BY <2>2, <2>3, <2>4, SameSeq
<1> QED BY <1>4, <1>5 DEF st, ks

LEMMA CutAcross ==
    ASSUME NEW S, NEW s \in Seq(S), NEW t \in Seq(S), NEW n \in Nat
    PROVE  /\ First(s \o t, Len(s) + n) = s \o First(t, n)
           /\ Skip(s \o t, Len(s) + n) = Skip(t, n)
<1> DEFINE st == s \o t
           ft == First(t, n)
           m == Len(s) + n
<1>1. st \in Seq(S) /\ Len(st) = Len(s) + Len(t) /\ (\A i \in 1..Len(s) : st[i] = s[i])
  BY JoinElements
<1>2. \A i \in 1..Len(t) : st[Len(s) + i] = t[i]
  BY JoinElements
<1>3. ft \in Seq(S) /\ Len(ft) = Least(n, Len(t))
  BY FirstType
<1>a. \A i \in 1..Least(n, Len(t)) : ft[i] = t[i]
  BY FirstAt
<1>4. m \in Nat
  OBVIOUS
<1>5. Least(m, Len(st)) = Len(s) + Least(n, Len(t)) /\ Beyond(Len(st), m) = Beyond(Len(t), n)
      /\ Least(n, Len(t)) \in 0..Len(t)
  BY <1>1 DEF Least, Beyond
<1> HIDE DEF st, ft
<1>6. First(st, m) = s \o ft
  <2>1. First(st, m) \in Seq(S) /\ Len(First(st, m)) = Len(s) + Least(n, Len(t))
        /\ \A i \in 1..(Len(s) + Least(n, Len(t))) : First(st, m)[i] = st[i]
    BY <1>1, <1>4, <1>5, FirstAt, FirstType
  <2>2. s \o ft \in Seq(S) /\ Len(s \o ft) = Len(s) + Least(n, Len(t))
    BY <1>3
  <2>3. ASSUME NEW i \in 1..(Len(s) + Least(n, Len(t))) PROVE st[i] = (s \o ft)[i]
    <3>1. CASE i <= Len(s)
      <4>1. i \in 1..Len(s)
        BY <3>1
      <4>2. (s \o ft)[i] = s[i]
        BY <4>1, <1>3, JoinElements
      <4> QED BY <4>1, <4>2, <1>1
    <3>2. CASE i > Len(s)
      <4>1. i \in (Len(s) + 1)..(Len(s) + Len(ft))
        BY <3>2, <1>3, <1>5
      <4>2. (s \o ft)[i] = ft[i - Len(s)] /\ i - Len(s) \in 1..Len(ft)
        BY <4>1, <1>3, JoinBehind
      <4>3. Len(s) + (i - Len(s)) = i /\ i - Len(s) \in 1..Len(t) /\ i - Len(s) \in 1..Least(n, Len(t))
        BY <4>2, <1>3, <1>5
      <4>4. st[Len(s) + (i - Len(s))] = t[i - Len(s)]
        BY <4>3, <1>2
      <4>5. ft[i - Len(s)] = t[i - Len(s)]
        BY <4>3, <1>a
      <4> QED BY <4>2, <4>3, <4>4, <4>5
    <3>3. i <= Len(s) \/ i > Len(s)
      BY <1>5
    <3> QED BY <3>1, <3>2, <3>3
  <2> QED BY <2>1, <2>2, <2>3, <1>5, SameSeq
<1>7. Skip(st, m) = Skip(t, n)
  <2>1. Skip(st, m) \in Seq(S) /\ Len(Skip(st, m)) = Beyond(Len(t), n)
        /\ \A i \in 1..Beyond(Len(t), n) : Skip(st, m)[i] = st[m + i]
    <3> HIDE DEF m
    <3>1. Skip(st, m) \in Seq(S) /\ Len(Skip(st, m)) = Beyond(Len(st), m)
      BY <1>1, <1>4, SkipType
    <3>2. \A i \in 1..Beyond(Len(st), m) : Skip(st, m)[i] = st[m + i]
      BY <1>1, <1>4, SkipAt
    <3> QED BY <3>1, <3>2, <1>5
  <2>2. Skip(t, n) \in Seq(S) /\ Len(Skip(t, n)) = Beyond(Len(t), n)
        /\ \A i \in 1..Beyond(Len(t), n) : Skip(t, n)[i] = t[n + i]
    BY SkipAt, SkipType
  <2>3. ASSUME NEW i \in 1..Beyond(Len(t), n) PROVE st[m + i] = t[n + i]
    <3>1. n + i \in 1..Len(t) /\ m + i = Len(s) + (n + i)
      BY DEF Beyond
    <3> QED BY <3>1, <1>2
  <2> HIDE DEF m
  <2> QED BY <2>1, <2>2, <2>3, SameSeq
<1> QED BY <1>6, <1>7 DEF st, ft

LEMMA CutJoined ==
    ASSUME NEW S, NEW s \in Seq(S), NEW t \in Seq(S), NEW n \in Nat
    PROVE  /\ First(s \o t, n) = First(s, Least(Len(s), n)) \o First(t, Beyond(n, Len(s)))
           /\ Skip(s \o t, n) = Skip(s, Least(Len(s), n)) \o Skip(t, Beyond(n, Len(s)))
<1>1. CASE n <= Len(s)
  <2>1. Least(Len(s), n) = n /\ Beyond(n, Len(s)) = 0 
    BY <1>1, Lens
  <2>2. First(t, 0) = <<>> /\ Skip(t, 0) = t
    BY CutEnds
  <2>3. First(s, n) \in Seq(S)
    BY FirstType
  <2>4. First(s, n) \o <<>> = First(s, n)
    BY <2>3
  <2>5. First(s \o t, n) = First(s, n) /\ Skip(s \o t, n) = Skip(s, n) \o t
    BY <1>1, CutInside
  <2> QED BY <2>1, <2>2, <2>4, <2>5
<1>2. CASE n > Len(s)
  <2>1. Least(Len(s), n) = Len(s) /\ Beyond(n, Len(s)) = n - Len(s) /\ n - Len(s) \in Nat
        /\ Len(s) + (n - Len(s)) = n
    BY <1>2, Lens
  <2>2. First(s, Len(s)) = s /\ Skip(s, Len(s)) = <<>>
    BY CutEnds
  <2>3. Skip(t, n - Len(s)) \in Seq(S)
    BY <2>1, SkipType
  <2>4. <<>> \o Skip(t, n - Len(s)) = Skip(t, n - Len(s))
    BY <2>3
  <2>5. First(s \o t, Len(s) + (n - Len(s))) = s \o First(t, n - Len(s)) /\ Skip(s \o t, Len(s) + (n - Len(s))) = Skip(t, n - Len(s))
    BY <2>1, CutAcross
  <2> QED BY <2>1, <2>2, <2>4, <2>5
<1> QED BY <1>1, <1>2

-----------------------------------------------------------------------------
(* The trees that a Buf can be.                                            *)

Slices == [kind : {"slice"}, bytes : Seq(Byte)]
Chains(L) == [kind : {"chain"}, a : L, b : L]
Takes(L) == [kind : {"take"}, inner : L, limit : Nat]
\* f is a function with domain S
Fcn(f, S) == f = [x \in S |-> f[x]]

LEMMA BufUpToDef ==
    \A d \in 0..Depth :
        BufUpTo[d] = Slices \cup IF d = 0 THEN {} ELSE Chains(BufUpTo[d - 1]) \cup Takes(BufUpTo[d - 1])
<1> DEFINE body(f, d) == Slices \cup IF d = 0 THEN {} ELSE Chains(f[d - 1]) \cup Takes(f[d - 1])
           Good(f, d) == Fcn(f, 0..d) /\ \A e \in 0..d : f[e] = body(f, e)
           N == {d \in 0..Depth : \E f : Good(f, d)}
<1>0. Depth \in Nat BY CursorsAssumption
<1>1. 0 \in N
  <2> DEFINE g == [x \in 0..0 |-> Slices]
  <2>1. Good(g, 0)
    BY DEF Fcn
  <2> HIDE DEF g
  <2> QED BY <2>1, <1>0
<1>2. ASSUME NEW d \in 1..Depth, d - 1 \in N PROVE d \in N
  <2>1. PICK f : Good(f, d - 1) BY <1>2
  <2> DEFINE g == [e \in 0..d |-> body(f, e)]
  <2>2. \A e \in 0..d : g[e] = body(f, e) BY Zenon
  <2>3. Fcn(g, 0..d) BY DEF Fcn
  <2> HIDE DEF g
  <2>4. \A e \in 0..(d-1) : e \in 0..d /\ f[e] = g[e]
    <3> TAKE e \in 0..(d-1)
    <3>1. e \in 0..d OBVIOUS
    <3>2. f[e] = body(f, e) BY <2>1
    <3>3. g[e] = body(f, e) BY <3>1, <2>2
    <3> QED BY <3>1, <3>2, <3>3
  <2>5. ASSUME NEW e \in 0..d PROVE g[e] = body(g, e)
     <3>1. e = 0 \/ e - 1 \in 0..(d-1) OBVIOUS
     <3>2. e = 0 \/ f[e - 1] = g[e - 1] BY <2>4, <3>1
     <3> QED BY <3>2, <2>2
  <2>6. Good(g, d) BY <2>5, <2>3
  <2> QED BY <2>6, <1>0
<1>3. Depth \in N
  <2> HIDE DEF N
  <2> QED BY <1>0, <1>1, <1>2, UpToInduction
<1>4. \E f : f = [d \in 0..Depth |-> body(f, d)]
  <2>1. PICK f : Good(f, Depth) BY <1>3
  <2>2. [d \in 0..Depth |-> f[d]] = [d \in 0..Depth |-> body(f, d)] BY <2>1
  <2>3. f = [d \in 0..Depth |-> f[d]] BY <2>1 DEF Fcn
  <2> HIDE DEF Good, body
  <2> QED BY <2>2, <2>3
<1>5. BufUpTo = CHOOSE f : f = [d \in 0..Depth |-> body(f, d)]
  BY Zenon DEF BufUpTo, Slices, Chains, Takes
<1>6. BufUpTo = [d \in 0..Depth |-> body(BufUpTo, d)]
  <2> HIDE DEF body
  <2> QED BY <1>4, <1>5, Zenon
<1> QED BY <1>6, Zenon

\* a cursor is a slice, or its parts are one level deeper
LEMMA BufCases ==
    ASSUME NEW d \in 0..Depth, NEW c \in BufUpTo[d]
    PROVE  \/ c.kind = "slice" /\ c.bytes \in Seq(Byte) /\ c = Slice(c.bytes)
           \/ d # 0 /\ c.kind = "chain" /\ c.a \in BufUpTo[d - 1] /\ c.b \in BufUpTo[d - 1] /\ c = Chained(c.a, c.b)
           \/ d # 0 /\ c.kind = "take" /\ c.inner \in BufUpTo[d - 1] /\ c.limit \in Nat /\ c = TakeOf(c.inner, c.limit)
<1>1. c \in Slices \/ (d # 0 /\ (c \in Chains(BufUpTo[d - 1]) \/ c \in Takes(BufUpTo[d - 1])))
  BY BufUpToDef
<1> QED BY <1>1 DEF Slices, Chains, Takes, Slice, Chained, TakeOf

LEMMA BufBuilt ==
    ASSUME NEW d \in 0..Depth
    PROVE  /\ \A bytes \in Seq(Byte) : Slice(bytes) \in BufUpTo[d]
           /\ d # 0 => \A a, b \in BufUpTo[d - 1] : Chained(a, b) \in BufUpTo[d]
           /\ d # 0 => \A c \in BufUpTo[d - 1], n \in Nat : TakeOf(c, n) \in BufUpTo[d]
<1>1. BufUpTo[d] = Slices \cup IF d = 0 THEN {} ELSE Chains(BufUpTo[d - 1]) \cup Takes(BufUpTo[d - 1])
  BY BufUpToDef
<1>2. \A bytes \in Seq(Byte) : Slice(bytes) \in Slices
  BY DEF Slice, Slices
<1>3. d # 0 => \A a, b \in BufUpTo[d - 1] : Chained(a, b) \in Chains(BufUpTo[d - 1])
  BY DEF Chained, Chains
<1>4. d # 0 => \A c \in BufUpTo[d - 1], n \in Nat : TakeOf(c, n) \in Takes(BufUpTo[d - 1])
  BY DEF TakeOf, Takes
<1> QED BY <1>1, <1>2, <1>3, <1>4

LEMMA BufGrows ==
    ASSUME NEW d \in 0..Depth
    PROVE  BufUpTo[d] \subseteq Buf /\ (d # 0 => BufUpTo[d - 1] \subseteq BufUpTo[d])
<1>0. Depth \in Nat BY CursorsAssumption
<1>1. \A e \in 1..Depth : BufUpTo[e - 1] \subseteq BufUpTo[e]
  <2> DEFINE N == {e \in 0..Depth : e = 0 \/ BufUpTo[e - 1] \subseteq BufUpTo[e]}
  <2>1. 0 \in N
    BY <1>0
  <2>2. ASSUME NEW e \in 1..Depth, e - 1 \in N PROVE e \in N
    <3>1. e \in 0..Depth /\ e - 1 \in 0..Depth /\ e # 0
      BY <1>0
    <3>2. ASSUME NEW c \in BufUpTo[e - 1] PROVE c \in BufUpTo[e]
      <4>1. e - 1 # 0 => BufUpTo[(e - 1) - 1] \subseteq BufUpTo[e - 1]
        BY <2>2, <3>1
      <4>2. CASE c.kind = "slice"
        BY <4>2, <3>1, BufCases, BufBuilt
      <4>3. CASE e - 1 # 0 /\ c = Chained(c.a, c.b) /\ c.a \in BufUpTo[e - 1] /\ c.b \in BufUpTo[e - 1]
        BY <4>3, <3>1, BufBuilt
      <4>4. CASE e - 1 # 0 /\ c = TakeOf(c.inner, c.limit) /\ c.inner \in BufUpTo[e - 1] /\ c.limit \in Nat
        BY <4>4, <3>1, BufBuilt
      <4> QED BY <4>1, <4>2, <4>3, <4>4, <3>1, BufCases
    <3> QED BY <3>1, <3>2
  <2>3. \A e \in 0..Depth : e \in N
    <3> HIDE DEF N
    <3> QED BY <1>0, <2>1, <2>2, UpToInduction
  <2> QED BY <2>3
<1>2. \A k \in 0..Depth : BufUpTo[Depth - k] \subseteq Buf
  <2> DEFINE N == {k \in 0..Depth : BufUpTo[Depth - k] \subseteq Buf}
  <2>1. 0 \in N
    BY <1>0 DEF Buf
  <2>2. ASSUME NEW k \in 1..Depth, k - 1 \in N PROVE k \in N
    <3>1. k \in 0..Depth /\ Depth - (k - 1) \in 1..Depth /\ (Depth - (k - 1)) - 1 = Depth - k
      BY <1>0
    <3> QED BY <1>1, <3>1, <2>2
  <2>3. \A k \in 0..Depth : k \in N
    <3> HIDE DEF N
    <3> QED BY <1>0, <2>1, <2>2, UpToInduction
  <2> QED BY <2>3
<1>3. Depth - d \in 0..Depth /\ Depth - (Depth - d) = d /\ (d # 0 => d \in 1..Depth)
  BY <1>0
<1> QED BY <1>1, <1>2, <1>3

\* the same, of a cursor at any depth
LEMMA BufShape ==
    ASSUME NEW c \in Buf
    PROVE  \/ c.kind = "slice" /\ c.bytes \in Seq(Byte) /\ c = Slice(c.bytes)
           \/ c.kind = "chain" /\ c.a \in Buf /\ c.b \in Buf /\ c = Chained(c.a, c.b)
           \/ c.kind = "take" /\ c.inner \in Buf /\ c.limit \in Nat /\ c = TakeOf(c.inner, c.limit)
<1>1. Depth \in 0..Depth /\ (Depth # 0 => Depth - 1 \in 0..Depth)
  BY CursorsAssumption
<1>2. Depth # 0 => BufUpTo[Depth - 1] \subseteq Buf
  BY <1>1, BufGrows
<1> QED BY <1>1, <1>2, BufCases DEF Buf

\* Induction over the trees.
LEMMA BufInduction ==
    ASSUME NEW P,
           \A bytes \in Seq(Byte) : Slice(bytes) \in P,
           \A a, b \in Buf : a \in P /\ b \in P /\ Chained(a, b) \in Buf => Chained(a, b) \in P,
           \A c \in Buf, n \in Nat : c \in P /\ TakeOf(c, n) \in Buf => TakeOf(c, n) \in P
    PROVE  \A c \in Buf : c \in P
<1> DEFINE N == {d \in 0..Depth : BufUpTo[d] \subseteq P}
<1>0. Depth \in Nat BY CursorsAssumption
<1>1. ASSUME NEW d \in 0..Depth, d = 0 \/ BufUpTo[d - 1] \subseteq P PROVE d \in N
  <2>1. ASSUME NEW c \in BufUpTo[d] PROVE c \in P
    <3>1. c \in Buf
      BY BufGrows
    <3>2. CASE c = Slice(c.bytes) /\ c.bytes \in Seq(Byte)
      BY <3>2
    <3>3. CASE d # 0 /\ c.a \in BufUpTo[d - 1] /\ c.b \in BufUpTo[d - 1] /\ c = Chained(c.a, c.b)
      <4>1. c.a \in P /\ c.b \in P /\ c.a \in Buf /\ c.b \in Buf
        BY <1>1, <3>3, BufGrows
      <4> QED BY <4>1, <3>3, <3>1
    <3>4. CASE d # 0 /\ c.inner \in BufUpTo[d - 1] /\ c.limit \in Nat /\ c = TakeOf(c.inner, c.limit)
      <4>1. c.inner \in P /\ c.inner \in Buf
        BY <1>1, <3>4, BufGrows
      <4> QED BY <4>1, <3>4, <3>1
    <3> QED BY <3>2, <3>3, <3>4, BufCases
  <2> QED BY <2>1
<1>2. 0 \in N
  BY <1>0, <1>1
<1>3. ASSUME NEW d \in 1..Depth, d - 1 \in N PROVE d \in N
  BY <1>1, <1>3
<1>4. Depth \in N
  <2> HIDE DEF N
  <2> QED BY <1>0, <1>2, <1>3, UpToInduction
<1> QED BY <1>4 DEF Buf

-----------------------------------------------------------------------------
(* The methods of Buf, and their equations.                                *)

LEMMA RemainingDef ==
    \A c \in Buf : Remaining[c] =
        IF c.kind = "slice" THEN Len(c.bytes)
        ELSE IF c.kind = "chain" THEN Remaining[c.a] + Remaining[c.b]
        ELSE Least(Remaining[c.inner], c.limit)
<1> DEFINE body(f, c) ==
        IF c.kind = "slice" THEN Len(c.bytes)
        ELSE IF c.kind = "chain" THEN f[c.a] + f[c.b]
        ELSE Least(f[c.inner], c.limit)
      Good(f, d) == Fcn(f, BufUpTo[d]) /\ \A c \in BufUpTo[d] : f[c] = body(f, c)
      N == {d \in 0..Depth : \E f : Good(f, d)}
<1>0. Depth \in Nat BY CursorsAssumption
<1>1. ASSUME NEW d \in 0..Depth, NEW c \in BufUpTo[d], NEW f, NEW g,
             d = 0 \/ \A e \in BufUpTo[d - 1] : f[e] = g[e]
      PROVE  body(f, c) = body(g, c)
  BY <1>1, BufCases
<1> HIDE DEF body
<1>2. ASSUME NEW d \in 0..Depth, NEW f, d = 0 \/ Good(f, d - 1)
      PROVE  d \in N
  <2> DEFINE g == [c \in BufUpTo[d] |-> body(f, c)]
  <2>1. \A c \in BufUpTo[d] : g[c] = body(f, c)
    BY Zenon
  <2>2. Fcn(g, BufUpTo[d])
    BY DEF Fcn
  <2> HIDE DEF g
  <2>3. d = 0 \/ \A e \in BufUpTo[d - 1] : f[e] = g[e]
    BY <1>2, <2>1, BufGrows
  <2>4. \A c \in BufUpTo[d] : g[c] = body(g, c)
    BY <2>1, <2>3, <1>1
  <2>5. Good(g, d)
    BY <2>2, <2>4
  <2> QED BY <2>5
<1>3. 0 \in N
  BY <1>0, <1>2
<1>4. ASSUME NEW d \in 1..Depth, d - 1 \in N PROVE d \in N
  <2>1. PICK f : Good(f, d - 1)
    BY <1>4
  <2>2. d \in 0..Depth
    OBVIOUS
  <2> QED BY <2>1, <2>2, <1>2
<1>5. Depth \in N
  <2> HIDE DEF N
  <2> QED BY <1>0, <1>3, <1>4, UpToInduction
<1>6. \E f : f = [c \in Buf |-> body(f, c)]
  <2>1. PICK f : Good(f, Depth)
    BY <1>5
  <2>2. [c \in Buf |-> f[c]] = [c \in Buf |-> body(f, c)]
    BY <2>1 DEF Buf
  <2>3. f = [c \in Buf |-> f[c]]
    BY <2>1 DEF Fcn, Buf
  <2> HIDE DEF Good
  <2> QED BY <2>2, <2>3
<1>7. Remaining = CHOOSE f : f = [c \in Buf |-> body(f, c)]
  BY DEF Remaining, body
<1>8. Remaining = [c \in Buf |-> body(Remaining, c)]
  BY <1>6, <1>7, Zenon
<1>9. \A c \in Buf : Remaining[c] = body(Remaining, c)
  BY <1>8, Zenon
<1> QED BY <1>9, Zenon DEF body

LEMMA ChunkDef ==
    \A c \in Buf : Chunk[c] =
        IF c.kind = "slice" THEN c.bytes
        ELSE IF c.kind = "chain" THEN ChainChunk(c, Chunk)
        ELSE TakeChunk(c, Chunk)
<1> DEFINE body(f, c) ==
        IF c.kind = "slice" THEN c.bytes
        ELSE IF c.kind = "chain" THEN ChainChunk(c, f)
        ELSE TakeChunk(c, f)
      Good(f, d) == Fcn(f, BufUpTo[d]) /\ \A c \in BufUpTo[d] : f[c] = body(f, c)
      N == {d \in 0..Depth : \E f : Good(f, d)}
<1>0. Depth \in Nat BY CursorsAssumption
<1>1. ASSUME NEW d \in 0..Depth, NEW c \in BufUpTo[d], NEW f, NEW g,
             d = 0 \/ \A e \in BufUpTo[d - 1] : f[e] = g[e]
      PROVE  body(f, c) = body(g, c)
  BY <1>1, BufCases DEF ChainChunk, TakeChunk
<1> HIDE DEF body
<1>2. ASSUME NEW d \in 0..Depth, NEW f, d = 0 \/ Good(f, d - 1)
      PROVE  d \in N
  <2> DEFINE g == [c \in BufUpTo[d] |-> body(f, c)]
  <2>1. \A c \in BufUpTo[d] : g[c] = body(f, c)
    BY Zenon
  <2>2. Fcn(g, BufUpTo[d])
    BY DEF Fcn
  <2> HIDE DEF g
  <2>3. d = 0 \/ \A e \in BufUpTo[d - 1] : f[e] = g[e]
    BY <1>2, <2>1, BufGrows
  <2>4. \A c \in BufUpTo[d] : g[c] = body(g, c)
    BY <2>1, <2>3, <1>1
  <2> QED BY <2>2, <2>4
<1>3. 0 \in N
  BY <1>0, <1>2
<1>4. ASSUME NEW d \in 1..Depth, d - 1 \in N PROVE d \in N
  <2>1. PICK f : Good(f, d - 1)
    BY <1>4
  <2>2. d \in 0..Depth
    OBVIOUS
  <2> QED BY <2>1, <2>2, <1>2
<1>5. Depth \in N
  <2> HIDE DEF N
  <2> QED BY <1>0, <1>3, <1>4, UpToInduction
<1>6. \E f : f = [c \in Buf |-> body(f, c)]
  <2>1. PICK f : Good(f, Depth)
    BY <1>5
  <2>2. [c \in Buf |-> f[c]] = [c \in Buf |-> body(f, c)]
    BY <2>1 DEF Buf
  <2>3. f = [c \in Buf |-> f[c]]
    BY <2>1 DEF Fcn, Buf
  <2> HIDE DEF Good
  <2> QED BY <2>2, <2>3
<1>7. Chunk = CHOOSE f : f = [c \in Buf |-> body(f, c)]
  BY DEF Chunk, body
<1>8. Chunk = [c \in Buf |-> body(Chunk, c)]
  BY <1>6, <1>7, Zenon
<1>9. \A c \in Buf : Chunk[c] = body(Chunk, c)
  BY <1>8, Zenon
<1> QED BY <1>9, Zenon DEF body

LEMMA ContentDef ==
    \A c \in Buf : Content[c] =
        IF c.kind = "slice" THEN c.bytes
        ELSE IF c.kind = "chain" THEN Content[c.a] \o Content[c.b]
        ELSE First(Content[c.inner], c.limit)
<1> DEFINE body(f, c) ==
        IF c.kind = "slice" THEN c.bytes
        ELSE IF c.kind = "chain" THEN f[c.a] \o f[c.b]
        ELSE First(f[c.inner], c.limit)
      Good(f, d) == Fcn(f, BufUpTo[d]) /\ \A c \in BufUpTo[d] : f[c] = body(f, c)
      N == {d \in 0..Depth : \E f : Good(f, d)}
<1>0. Depth \in Nat BY CursorsAssumption
<1>1. ASSUME NEW d \in 0..Depth, NEW c \in BufUpTo[d], NEW f, NEW g,
             d = 0 \/ \A e \in BufUpTo[d - 1] : f[e] = g[e]
      PROVE  body(f, c) = body(g, c)
  BY <1>1, BufCases
<1> HIDE DEF body
<1>2. ASSUME NEW d \in 0..Depth, NEW f, d = 0 \/ Good(f, d - 1)
      PROVE  d \in N
  <2> DEFINE g == [c \in BufUpTo[d] |-> body(f, c)]
  <2>1. \A c \in BufUpTo[d] : g[c] = body(f, c)
    BY Zenon
  <2>2. Fcn(g, BufUpTo[d])
    BY DEF Fcn
  <2> HIDE DEF g
  <2>3. d = 0 \/ \A e \in BufUpTo[d - 1] : f[e] = g[e]
    BY <1>2, <2>1, BufGrows
  <2>4. \A c \in BufUpTo[d] : g[c] = body(g, c)
    BY <2>1, <2>3, <1>1
  <2> QED BY <2>2, <2>4
<1>3. 0 \in N
  BY <1>0, <1>2
<1>4. ASSUME NEW d \in 1..Depth, d - 1 \in N PROVE d \in N
  <2>1. PICK f : Good(f, d - 1)
    BY <1>4
  <2>2. d \in 0..Depth
    OBVIOUS
  <2> QED BY <2>1, <2>2, <1>2
<1>5. Depth \in N
  <2> HIDE DEF N
  <2> QED BY <1>0, <1>3, <1>4, UpToInduction
<1>6. \E f : f = [c \in Buf |-> body(f, c)]
  <2>1. PICK f : Good(f, Depth)
    BY <1>5
  <2>2. [c \in Buf |-> f[c]] = [c \in Buf |-> body(f, c)]
    BY <2>1 DEF Buf
  <2>3. f = [c \in Buf |-> f[c]]
    BY <2>1 DEF Fcn, Buf
  <2> HIDE DEF Good
  <2> QED BY <2>2, <2>3
<1>7. Content = CHOOSE f : f = [c \in Buf |-> body(f, c)]
  BY DEF Content, body
<1>8. Content = [c \in Buf |-> body(Content, c)]
  BY <1>6, <1>7, Zenon
<1>9. \A c \in Buf : Content[c] = body(Content, c)
  BY <1>8, Zenon
<1> QED BY <1>9, Zenon DEF body

LEMMA PartsDef ==
    \A c \in Buf : Parts[c] =
        IF c.kind = "slice" THEN 1
        ELSE IF c.kind = "chain" THEN Parts[c.a] + Parts[c.b]
        ELSE Parts[c.inner]
<1> DEFINE body(f, c) ==
        IF c.kind = "slice" THEN 1
        ELSE IF c.kind = "chain" THEN f[c.a] + f[c.b]
        ELSE f[c.inner]
      Good(f, d) == Fcn(f, BufUpTo[d]) /\ \A c \in BufUpTo[d] : f[c] = body(f, c)
      N == {d \in 0..Depth : \E f : Good(f, d)}
<1>0. Depth \in Nat BY CursorsAssumption
<1>1. ASSUME NEW d \in 0..Depth, NEW c \in BufUpTo[d], NEW f, NEW g,
             d = 0 \/ \A e \in BufUpTo[d - 1] : f[e] = g[e]
      PROVE  body(f, c) = body(g, c)
  BY <1>1, BufCases
<1> HIDE DEF body
<1>2. ASSUME NEW d \in 0..Depth, NEW f, d = 0 \/ Good(f, d - 1)
      PROVE  d \in N
  <2> DEFINE g == [c \in BufUpTo[d] |-> body(f, c)]
  <2>1. \A c \in BufUpTo[d] : g[c] = body(f, c)
    BY Zenon
  <2>2. Fcn(g, BufUpTo[d])
    BY DEF Fcn
  <2> HIDE DEF g
  <2>3. d = 0 \/ \A e \in BufUpTo[d - 1] : f[e] = g[e]
    BY <1>2, <2>1, BufGrows
  <2>4. \A c \in BufUpTo[d] : g[c] = body(g, c)
    BY <2>1, <2>3, <1>1
  <2> QED BY <2>2, <2>4
<1>3. 0 \in N
  BY <1>0, <1>2
<1>4. ASSUME NEW d \in 1..Depth, d - 1 \in N PROVE d \in N
  <2>1. PICK f : Good(f, d - 1)
    BY <1>4
  <2>2. d \in 0..Depth
    OBVIOUS
  <2> QED BY <2>1, <2>2, <1>2
<1>5. Depth \in N
  <2> HIDE DEF N
  <2> QED BY <1>0, <1>3, <1>4, UpToInduction
<1>6. \E f : f = [c \in Buf |-> body(f, c)]
  <2>1. PICK f : Good(f, Depth)
    BY <1>5
  <2>2. [c \in Buf |-> f[c]] = [c \in Buf |-> body(f, c)]
    BY <2>1 DEF Buf
  <2>3. f = [c \in Buf |-> f[c]]
    BY <2>1 DEF Fcn, Buf
  <2> HIDE DEF Good
  <2> QED BY <2>2, <2>3
<1>7. Parts = CHOOSE f : f = [c \in Buf |-> body(f, c)]
  BY DEF Parts, body
<1>8. Parts = [c \in Buf |-> body(Parts, c)]
  BY <1>6, <1>7, Zenon
<1>9. \A c \in Buf : Parts[c] = body(Parts, c)
  BY <1>8, Zenon
<1> QED BY <1>9, Zenon DEF body

LEMMA NarrowDef ==
    \A c \in Buf : Narrow[c] =
        IF c.kind = "slice" THEN TRUE
        ELSE IF c.kind = "chain" THEN Narrow[c.a] /\ Narrow[c.b]
        ELSE Narrow[c.inner] /\ Parts[c.inner] <= TakeSlices
<1> DEFINE body(f, c) ==
        IF c.kind = "slice" THEN TRUE
        ELSE IF c.kind = "chain" THEN f[c.a] /\ f[c.b]
        ELSE f[c.inner] /\ Parts[c.inner] <= TakeSlices
      Good(f, d) == Fcn(f, BufUpTo[d]) /\ \A c \in BufUpTo[d] : f[c] = body(f, c)
      N == {d \in 0..Depth : \E f : Good(f, d)}
<1>0. Depth \in Nat BY CursorsAssumption
<1>1. ASSUME NEW d \in 0..Depth, NEW c \in BufUpTo[d], NEW f, NEW g,
             d = 0 \/ \A e \in BufUpTo[d - 1] : f[e] = g[e]
      PROVE  body(f, c) = body(g, c)
  BY <1>1, BufCases
<1> HIDE DEF body
<1>2. ASSUME NEW d \in 0..Depth, NEW f, d = 0 \/ Good(f, d - 1)
      PROVE  d \in N
  <2> DEFINE g == [c \in BufUpTo[d] |-> body(f, c)]
  <2>1. \A c \in BufUpTo[d] : g[c] = body(f, c)
    BY Zenon
  <2>2. Fcn(g, BufUpTo[d])
    BY DEF Fcn
  <2> HIDE DEF g
  <2>3. d = 0 \/ \A e \in BufUpTo[d - 1] : f[e] = g[e]
    BY <1>2, <2>1, BufGrows
  <2>4. \A c \in BufUpTo[d] : g[c] = body(g, c)
    BY <2>1, <2>3, <1>1
  <2> QED BY <2>2, <2>4
<1>3. 0 \in N
  BY <1>0, <1>2
<1>4. ASSUME NEW d \in 1..Depth, d - 1 \in N PROVE d \in N
  <2>1. PICK f : Good(f, d - 1)
    BY <1>4
  <2>2. d \in 0..Depth
    OBVIOUS
  <2> QED BY <2>1, <2>2, <1>2
<1>5. Depth \in N
  <2> HIDE DEF N
  <2> QED BY <1>0, <1>3, <1>4, UpToInduction
<1>6. \E f : f = [c \in Buf |-> body(f, c)]
  <2>1. PICK f : Good(f, Depth)
    BY <1>5
  <2>2. [c \in Buf |-> f[c]] = [c \in Buf |-> body(f, c)]
    BY <2>1 DEF Buf
  <2>3. f = [c \in Buf |-> f[c]]
    BY <2>1 DEF Fcn, Buf
  <2> HIDE DEF Good
  <2> QED BY <2>2, <2>3
<1>7. Narrow = CHOOSE f : f = [c \in Buf |-> body(f, c)]
  BY DEF Narrow, body
<1>8. Narrow = [c \in Buf |-> body(Narrow, c)]
  BY <1>6, <1>7, Zenon
<1>9. \A c \in Buf : Narrow[c] = body(Narrow, c)
  BY <1>8, Zenon
<1> QED BY <1>9, Zenon DEF body

LEMMA RemainingType == \A c \in Buf : Remaining[c] \in Nat
<1> DEFINE P == {c \in Buf : Remaining[c] \in Nat}
<1>1. \A bytes \in Seq(Byte) : Slice(bytes) \in P
  <2> TAKE bytes \in Seq(Byte)
  <2>1. Slice(bytes) \in Buf
    BY BufBuilt, CursorsAssumption DEF Buf
  <2> QED BY <2>1, RemainingDef DEF Slice
<1>2. \A a, b \in Buf : a \in P /\ b \in P /\ Chained(a, b) \in Buf => Chained(a, b) \in P
  BY RemainingDef DEF Chained
<1>3. \A c \in Buf, n \in Nat : c \in P /\ TakeOf(c, n) \in Buf => TakeOf(c, n) \in P
  BY RemainingDef DEF TakeOf, Least
<1>4. \A c \in Buf : c \in P
  <2> HIDE DEF P
  <2> QED BY <1>1, <1>2, <1>3, BufInduction
<1> QED BY <1>4

LEMMA AdvanceByDef ==
    \A c \in Buf : AdvanceBy[c] =
        [n \in Nat |->
            IF c.kind = "slice" THEN Slice(Skip(c.bytes, n))
            ELSE IF c.kind = "chain" THEN ChainAdvance(c, n, AdvanceBy)
            ELSE TakeAdvance(c, n, AdvanceBy)]
<1> DEFINE body(f, c) ==
        [n \in Nat |->
            IF c.kind = "slice" THEN Slice(Skip(c.bytes, n))
            ELSE IF c.kind = "chain" THEN ChainAdvance(c, n, f)
            ELSE TakeAdvance(c, n, f)]
      Good(f, d) == Fcn(f, BufUpTo[d]) /\ \A c \in BufUpTo[d] : f[c] = body(f, c)
      N == {d \in 0..Depth : \E f : Good(f, d)}
<1>0. Depth \in Nat BY CursorsAssumption
<1>1. ASSUME NEW d \in 0..Depth, NEW c \in BufUpTo[d], NEW f, NEW g,
             d = 0 \/ \A e \in BufUpTo[d - 1] : f[e] = g[e]
      PROVE  body(f, c) = body(g, c)
  <2>1. CASE c.kind = "chain"
    <3>1. d # 0 /\ c.a \in BufUpTo[d - 1] /\ c.b \in BufUpTo[d - 1]
      BY <2>1, BufCases
    <3> QED BY <1>1, <2>1, <3>1 DEF ChainAdvance
  <2>2. CASE c.kind = "take"
    <3>1. d # 0 /\ c.inner \in BufUpTo[d - 1]
      BY <2>2, BufCases
    <3> QED BY <1>1, <2>2, <3>1 DEF TakeAdvance
  <2>3. CASE c.kind = "slice"
    BY <2>3
  <2> QED BY <2>1, <2>2, <2>3, BufCases
<1> HIDE DEF body
<1>2. ASSUME NEW d \in 0..Depth, NEW f, d = 0 \/ Good(f, d - 1)
      PROVE  d \in N
  <2> DEFINE g == [c \in BufUpTo[d] |-> body(f, c)]
  <2>1. \A c \in BufUpTo[d] : g[c] = body(f, c)
    BY Zenon
  <2>2. Fcn(g, BufUpTo[d])
    BY DEF Fcn
  <2> HIDE DEF g
  <2>3. d = 0 \/ \A e \in BufUpTo[d - 1] : f[e] = g[e]
    BY <1>2, <2>1, BufGrows
  <2>4. \A c \in BufUpTo[d] : g[c] = body(g, c)
    BY <2>1, <2>3, <1>1
  <2> QED BY <2>2, <2>4
<1>3. 0 \in N
  BY <1>0, <1>2
<1>4. ASSUME NEW d \in 1..Depth, d - 1 \in N PROVE d \in N
  <2>1. PICK f : Good(f, d - 1)
    BY <1>4
  <2>2. d \in 0..Depth
    OBVIOUS
  <2> QED BY <2>1, <2>2, <1>2
<1>5. Depth \in N
  <2> HIDE DEF N
  <2> QED BY <1>0, <1>3, <1>4, UpToInduction
<1>6. \E f : f = [c \in Buf |-> body(f, c)]
  <2>1. PICK f : Good(f, Depth)
    BY <1>5
  <2>2. [c \in Buf |-> f[c]] = [c \in Buf |-> body(f, c)]
    BY <2>1 DEF Buf
  <2>3. f = [c \in Buf |-> f[c]]
    BY <2>1 DEF Fcn, Buf
  <2> HIDE DEF Good
  <2> QED BY <2>2, <2>3
<1>7. AdvanceBy = CHOOSE f : f = [c \in Buf |-> body(f, c)]
  BY DEF AdvanceBy, body
<1>8. AdvanceBy = [c \in Buf |-> body(AdvanceBy, c)]
  BY <1>6, <1>7, Zenon
<1>9. \A c \in Buf : AdvanceBy[c] = body(AdvanceBy, c)
  BY <1>8, Zenon
<1> QED BY <1>9, Zenon DEF body

LEMMA ChunksVectoredDef ==
    \A c \in Buf : ChunksVectored[c] =
        [slots \in Nat |->
            IF c.kind = "slice" THEN SliceVectored(c, slots)
            ELSE IF c.kind = "chain" THEN ChainVectored(c, slots, ChunksVectored)
            ELSE TakeVectored(c, slots, ChunksVectored)]
<1> DEFINE body(f, c) ==
        [slots \in Nat |->
            IF c.kind = "slice" THEN SliceVectored(c, slots)
            ELSE IF c.kind = "chain" THEN ChainVectored(c, slots, f)
            ELSE TakeVectored(c, slots, f)]
      Good(f, d) == Fcn(f, BufUpTo[d]) /\ \A c \in BufUpTo[d] : f[c] = body(f, c)
      N == {d \in 0..Depth : \E f : Good(f, d)}
<1>0. Depth \in Nat BY CursorsAssumption
<1>1. ASSUME NEW d \in 0..Depth, NEW c \in BufUpTo[d], NEW f, NEW g,
             d = 0 \/ \A e \in BufUpTo[d - 1] : f[e] = g[e]
      PROVE  body(f, c) = body(g, c)
  <2>1. CASE c.kind = "slice"
    BY <2>1
  <2>2. CASE c.kind # "slice"
    <3>1. d # 0 /\ (c.kind = "chain" => c.a \in BufUpTo[d - 1] /\ c.b \in BufUpTo[d - 1])
      BY <2>2, BufCases
    <3>2. c.kind # "chain" => c.inner \in BufUpTo[d - 1]
      BY <2>2, BufCases
    <3>3. c.kind = "slice" \/ c.kind = "chain" \/ c.kind = "take"
      BY BufCases
    <3> QED BY <1>1, <2>2, <3>1, <3>2, <3>3 DEF ChainVectored, TakeVectored
  <2> QED BY <2>1, <2>2
<1> HIDE DEF body
<1>2. ASSUME NEW d \in 0..Depth, NEW f, d = 0 \/ Good(f, d - 1)
      PROVE  d \in N
  <2> DEFINE g == [c \in BufUpTo[d] |-> body(f, c)]
  <2>1. \A c \in BufUpTo[d] : g[c] = body(f, c)
    BY Zenon
  <2>2. Fcn(g, BufUpTo[d])
    BY DEF Fcn
  <2> HIDE DEF g
  <2>3. d = 0 \/ \A e \in BufUpTo[d - 1] : f[e] = g[e]
    BY <1>2, <2>1, BufGrows
  <2>4. \A c \in BufUpTo[d] : g[c] = body(g, c)
    BY <2>1, <2>3, <1>1
  <2> QED BY <2>2, <2>4
<1>3. 0 \in N
  BY <1>0, <1>2
<1>4. ASSUME NEW d \in 1..Depth, d - 1 \in N PROVE d \in N
  <2>1. PICK f : Good(f, d - 1)
    BY <1>4
  <2>2. d \in 0..Depth
    OBVIOUS
  <2> QED BY <2>1, <2>2, <1>2
<1>5. Depth \in N
  <2> HIDE DEF N
  <2> QED BY <1>0, <1>3, <1>4, UpToInduction
<1>6. \E f : f = [c \in Buf |-> body(f, c)]
  <2>1. PICK f : Good(f, Depth)
    BY <1>5
  <2>2. [c \in Buf |-> f[c]] = [c \in Buf |-> body(f, c)]
    BY <2>1 DEF Buf
  <2>3. f = [c \in Buf |-> f[c]]
    BY <2>1 DEF Fcn, Buf
  <2> HIDE DEF Good
  <2> QED BY <2>2, <2>3
<1>7. ChunksVectored = CHOOSE f : f = [c \in Buf |-> body(f, c)]
  BY DEF ChunksVectored, body
<1>8. ChunksVectored = [c \in Buf |-> body(ChunksVectored, c)]
  BY <1>6, <1>7, Zenon
<1>9. \A c \in Buf : ChunksVectored[c] = body(ChunksVectored, c)
  BY <1>8, Zenon
<1> QED BY <1>9, Zenon DEF body


LEMMA CopyToBytesDef ==
    \A c \in Buf : CopyToBytes[c] =
        [n \in Nat |->
            IF c.kind = "slice" THEN Copied(First(c.bytes, n), Slice(Skip(c.bytes, n)))
            ELSE IF c.kind = "take" THEN
                LET r == CopyToBytes[c.inner][n] IN Copied(r.bytes, TakeOf(r.rest, c.limit - n))
            ELSE IF Remaining[c.a] >= n THEN
                LET r == CopyToBytes[c.a][n] IN Copied(r.bytes, Chained(r.rest, c.b))
            ELSE IF Remaining[c.a] = 0 THEN
                LET r == CopyToBytes[c.b][n] IN Copied(r.bytes, Chained(c.a, r.rest))
            ELSE ChainCopy(c, n)]
<1> DEFINE body(f, c) ==
        [n \in Nat |->
            IF c.kind = "slice" THEN Copied(First(c.bytes, n), Slice(Skip(c.bytes, n)))
            ELSE IF c.kind = "take" THEN
                LET r == f[c.inner][n] IN Copied(r.bytes, TakeOf(r.rest, c.limit - n))
            ELSE IF Remaining[c.a] >= n THEN
                LET r == f[c.a][n] IN Copied(r.bytes, Chained(r.rest, c.b))
            ELSE IF Remaining[c.a] = 0 THEN
                LET r == f[c.b][n] IN Copied(r.bytes, Chained(c.a, r.rest))
            ELSE ChainCopy(c, n)]
      Good(f, d) == Fcn(f, BufUpTo[d]) /\ \A c \in BufUpTo[d] : f[c] = body(f, c)
      N == {d \in 0..Depth : \E f : Good(f, d)}
<1>0. Depth \in Nat BY CursorsAssumption
<1>1. ASSUME NEW d \in 0..Depth, NEW c \in BufUpTo[d], NEW f, NEW g,
             d = 0 \/ \A e \in BufUpTo[d - 1] : f[e] = g[e]
      PROVE  body(f, c) = body(g, c)
  <2>1. CASE c.kind = "slice"
    BY <2>1
  <2>2. CASE c.kind # "slice"
    <3>1. d # 0 /\ (c.kind = "chain" => c.a \in BufUpTo[d - 1] /\ c.b \in BufUpTo[d - 1])
      BY <2>2, BufCases
    <3>2. c.kind # "chain" => c.inner \in BufUpTo[d - 1]
      BY <2>2, BufCases
    <3>3. c.kind = "slice" \/ c.kind = "chain" \/ c.kind = "take"
      BY BufCases
    <3> QED BY <1>1, <2>2, <3>1, <3>2, <3>3
  <2> QED BY <2>1, <2>2
<1> HIDE DEF body
<1>2. ASSUME NEW d \in 0..Depth, NEW f, d = 0 \/ Good(f, d - 1)
      PROVE  d \in N
  <2> DEFINE g == [c \in BufUpTo[d] |-> body(f, c)]
  <2>1. \A c \in BufUpTo[d] : g[c] = body(f, c)
    BY Zenon
  <2>2. Fcn(g, BufUpTo[d])
    BY DEF Fcn
  <2> HIDE DEF g
  <2>3. d = 0 \/ \A e \in BufUpTo[d - 1] : f[e] = g[e]
    BY <1>2, <2>1, BufGrows
  <2>4. \A c \in BufUpTo[d] : g[c] = body(g, c)
    BY <2>1, <2>3, <1>1
  <2> QED BY <2>2, <2>4
<1>3. 0 \in N
  BY <1>0, <1>2
<1>4. ASSUME NEW d \in 1..Depth, d - 1 \in N PROVE d \in N
  <2>1. PICK f : Good(f, d - 1)
    BY <1>4
  <2>2. d \in 0..Depth
    OBVIOUS
  <2> QED BY <2>1, <2>2, <1>2
<1>5. Depth \in N
  <2> HIDE DEF N
  <2> QED BY <1>0, <1>3, <1>4, UpToInduction
<1>6. \E f : f = [c \in Buf |-> body(f, c)]
  <2>1. PICK f : Good(f, Depth)
    BY <1>5
  <2>2. [c \in Buf |-> f[c]] = [c \in Buf |-> body(f, c)]
    BY <2>1 DEF Buf
  <2>3. f = [c \in Buf |-> f[c]]
    BY <2>1 DEF Fcn, Buf
  <2> HIDE DEF Good
  <2> QED BY <2>2, <2>3
<1>7. CopyToBytes = CHOOSE f : f = [c \in Buf |-> body(f, c)]
  BY DEF CopyToBytes, body
<1>8. CopyToBytes = [c \in Buf |-> body(CopyToBytes, c)]
  BY <1>6, <1>7, Zenon
<1>9. \A c \in Buf : CopyToBytes[c] = body(CopyToBytes, c)
  BY <1>8, Zenon
<1> QED BY <1>9, Zenon DEF body

-----------------------------------------------------------------------------
(* What the methods of Buf compute.                                        *)

\* p is the front of t
Leads(p, t) == p = First(t, Len(p))

LEMMA LeadsIsPrefix ==
    ASSUME NEW S, NEW p \in Seq(S), NEW t \in Seq(S), Leads(p, t)
    PROVE  IsPrefix(p, t) /\ Len(p) <= Len(t)
<1>1. Len(p) \in Nat /\ Len(t) \in Nat /\ First(p, Len(p)) = p
  BY CutEnds
<1>2. Len(First(t, Len(p))) = Least(Len(p), Len(t))
  BY <1>1, FirstType
<1>3. Len(p) = Least(Len(p), Len(t))
  BY <1>2 DEF Leads
<1>4. Len(p) <= Len(t) /\ Least(Len(p), Len(t)) = Len(p) /\ Least(Len(p), Len(p)) = Len(p)
  BY <1>1, <1>3 DEF Least
<1>5. SubSeq(p, 1, Len(p)) = p /\ SubSeq(t, 1, Len(p)) = First(t, Len(p))
  BY <1>1, <1>4 DEF First
<1>6. p = First(t, Len(p))
  BY DEF Leads
<1> QED BY <1>4, <1>5, <1>6 DEF IsPrefix

LEMMA FirstLeads ==
    ASSUME NEW S, NEW t \in Seq(S), NEW n \in Nat
    PROVE  Leads(First(t, n), t)
<1>0. Len(t) \in Nat
  OBVIOUS
<1>1. Len(First(t, n)) = Least(n, Len(t)) /\ First(t, n) \in Seq(S)
  BY FirstType
<1>2. CASE n <= Len(t)
  <2>1. Least(n, Len(t)) = n
    BY <1>0, <1>2, Lens
  <2>2. Len(First(t, n)) = n
    BY <1>1, <2>1
  <2> QED BY <2>2 DEF Leads
<1>3. CASE n > Len(t)
  <2>1. Least(n, Len(t)) = Len(t)
    BY <1>0, <1>3, Lens
  <2>2. First(t, n) = t /\ First(t, Len(t)) = t
    BY <1>0, <1>3, CutEnds
  <2> QED BY <1>1, <2>1, <2>2 DEF Leads
<1> QED BY <1>0, <1>2, <1>3

\* remaining counts the content
LEMMA ContentLaw == \A c \in Buf : Content[c] \in Seq(Byte) /\ Len(Content[c]) = Remaining[c]
<1> DEFINE P == {c \in Buf : Content[c] \in Seq(Byte) /\ Len(Content[c]) = Remaining[c]}
<1>1. \A bytes \in Seq(Byte) : Slice(bytes) \in P
  <2> TAKE bytes \in Seq(Byte)
  <2>1. Slice(bytes) \in Buf
    BY BufBuilt, CursorsAssumption DEF Buf
  <2> QED BY <2>1, RemainingDef, ContentDef DEF Slice
<1>2. \A a, b \in Buf : a \in P /\ b \in P /\ Chained(a, b) \in Buf => Chained(a, b) \in P
  <2> SUFFICES ASSUME NEW a \in P, NEW b \in P, Chained(a, b) \in Buf PROVE Chained(a, b) \in P
    OBVIOUS
  <2>1. Content[Chained(a, b)] = Content[a] \o Content[b] /\ Remaining[Chained(a, b)] = Remaining[a] + Remaining[b]
    BY RemainingDef, ContentDef DEF Chained
  <2>2. Content[a] \in Seq(Byte) /\ Len(Content[a]) = Remaining[a] /\ Content[b] \in Seq(Byte) /\ Len(Content[b]) = Remaining[b]
    OBVIOUS
  <2>3. Content[a] \in Seq(Byte) /\ Content[b] \in Seq(Byte)
    BY <2>2
  <2>4. Content[a] \o Content[b] \in Seq(Byte) /\ Len(Content[a] \o Content[b]) = Len(Content[a]) + Len(Content[b])
    BY <2>3, JoinElements
  <2> QED BY <2>1, <2>2, <2>4
<1>3. \A c \in Buf, n \in Nat : c \in P /\ TakeOf(c, n) \in Buf => TakeOf(c, n) \in P
  <2> SUFFICES ASSUME NEW c \in P, NEW n \in Nat, TakeOf(c, n) \in Buf PROVE TakeOf(c, n) \in P
    OBVIOUS
  <2>1. Content[TakeOf(c, n)] = First(Content[c], n) /\ Remaining[TakeOf(c, n)] = Least(Remaining[c], n)
    BY RemainingDef, ContentDef DEF TakeOf
  <2>2. Content[c] \in Seq(Byte) /\ Len(Content[c]) = Remaining[c]
    OBVIOUS
  <2>3. First(Content[c], n) \in Seq(Byte) /\ Len(First(Content[c], n)) = Least(n, Len(Content[c]))
    BY <2>2, FirstType
  <2>4. Least(n, Remaining[c]) = Least(Remaining[c], n)
    BY RemainingType DEF Least
  <2> QED BY <2>1, <2>2, <2>3, <2>4
<1>4. \A c \in Buf : c \in P
  <2> HIDE DEF P
  <2> QED BY <1>1, <1>2, <1>3, BufInduction
<1> QED BY <1>4

\* the chunk is a front of the content, and empty only when nothing remains
LEMMA ChunkLaw ==
    \A c \in Buf : Chunk[c] \in Seq(Byte) /\ Leads(Chunk[c], Content[c]) /\ (Chunk[c] = <<>> => Remaining[c] = 0)
<1> DEFINE P == {c \in Buf : Chunk[c] \in Seq(Byte) /\ Leads(Chunk[c], Content[c]) /\ (Chunk[c] = <<>> => Remaining[c] = 0)}
<1>1. \A bytes \in Seq(Byte) : Slice(bytes) \in P
  <2> TAKE bytes \in Seq(Byte)
  <2>1. Slice(bytes) \in Buf
    BY BufBuilt, CursorsAssumption DEF Buf
  <2>2. Chunk[Slice(bytes)] = bytes /\ Content[Slice(bytes)] = bytes /\ Remaining[Slice(bytes)] = Len(bytes)
    BY <2>1, ChunkDef, RemainingDef, ContentDef DEF Slice
  <2>3. First(bytes, Len(bytes)) = bytes
    BY CutEnds
  <2> QED BY <2>1, <2>2, <2>3 DEF Leads
<1>2. \A a, b \in Buf : a \in P /\ b \in P /\ Chained(a, b) \in Buf => Chained(a, b) \in P
  <2> SUFFICES ASSUME NEW a \in Buf, NEW b \in Buf, a \in P, b \in P, Chained(a, b) \in Buf PROVE Chained(a, b) \in P
    OBVIOUS
  <2>1. Content[Chained(a, b)] = Content[a] \o Content[b] /\ Remaining[Chained(a, b)] = Remaining[a] + Remaining[b]
    BY RemainingDef, ContentDef DEF Chained
  <2>2. Chunk[Chained(a, b)] = IF Remaining[a] > 0 THEN Chunk[a] ELSE Chunk[b]
    BY ChunkDef DEF Chained, ChainChunk
  <2>3. Content[a] \in Seq(Byte) /\ Content[b] \in Seq(Byte) /\ Len(Content[a]) = Remaining[a] /\ Remaining[a] \in Nat /\ Remaining[b] \in Nat
    BY ContentLaw, RemainingType
  <2>4. CASE Remaining[a] > 0
    <3>1. Chunk[a] \in Seq(Byte) /\ Leads(Chunk[a], Content[a]) /\ Chunk[a] # <<>>
      BY <2>4
    <3>2. Len(Chunk[a]) <= Len(Content[a]) /\ Len(Chunk[a]) \in Nat
      BY <2>3, <3>1, LeadsIsPrefix
    <3>3. First(Content[a] \o Content[b], Len(Chunk[a])) = First(Content[a], Len(Chunk[a]))
      BY <2>3, <3>2, CutInside
    <3> QED BY <2>1, <2>2, <2>4, <3>1, <3>3 DEF Leads
  <2>5. CASE Remaining[a] = 0
    <3>1. Content[a] = <<>>
      BY <2>3, <2>5
    <3>2. Content[a] \o Content[b] = Content[b]
      BY <2>3, <3>1
    <3> QED BY <2>1, <2>2, <2>3, <2>5, <3>2
  <2> QED BY <2>3, <2>4, <2>5
<1>3. \A c \in Buf, n \in Nat : c \in P /\ TakeOf(c, n) \in Buf => TakeOf(c, n) \in P
  <2> SUFFICES ASSUME NEW c \in Buf, c \in P, NEW n \in Nat, TakeOf(c, n) \in Buf PROVE TakeOf(c, n) \in P
    OBVIOUS
  <2>1. Content[TakeOf(c, n)] = First(Content[c], n) /\ Remaining[TakeOf(c, n)] = Least(Remaining[c], n)
    BY RemainingDef, ContentDef DEF TakeOf
  <2>2. Chunk[TakeOf(c, n)] = First(Chunk[c], n)
    BY ChunkDef DEF TakeOf, TakeChunk
  <2>3. Chunk[c] \in Seq(Byte) /\ Content[c] \in Seq(Byte) /\ Leads(Chunk[c], Content[c]) /\ Remaining[c] \in Nat
    BY ContentLaw, RemainingType
  <2>a. Len(Chunk[c]) \in Nat
    BY <2>3
  <2>4. First(Chunk[c], n) \in Seq(Byte) /\ Len(First(Chunk[c], n)) = Least(n, Len(Chunk[c]))
    BY <2>3, FirstType
  <2>5. Least(n, Len(Chunk[c])) \in Nat /\ Least(n, Least(n, Len(Chunk[c]))) = Least(n, Len(Chunk[c]))
        /\ Least(Len(Chunk[c]), n) = Least(n, Len(Chunk[c]))
    BY <2>a DEF Least
  <2>6. First(First(Content[c], Len(Chunk[c])), n) = First(Content[c], Least(Len(Chunk[c]), n))
    BY <2>3, <2>a, FirstFirst
  <2>7. First(First(Content[c], n), Least(n, Len(Chunk[c]))) = First(Content[c], Least(n, Least(n, Len(Chunk[c]))))
    BY <2>3, <2>5, FirstFirst
  <2>8. Chunk[c] = First(Content[c], Len(Chunk[c]))
    BY <2>3 DEF Leads
  <2>9. First(Chunk[c], n) = First(First(Content[c], n), Least(n, Len(Chunk[c])))
    BY <2>5, <2>6, <2>7, <2>8
  <2>10. ASSUME First(Chunk[c], n) = <<>> PROVE Least(Remaining[c], n) = 0
    <3>0. Len(First(Chunk[c], n)) = 0
      BY <2>10
    <3>1. Least(n, Len(Chunk[c])) = 0
      BY <2>4, <3>0
    <3>2. n = 0 \/ Chunk[c] = <<>>
      BY <2>3, <2>a, <3>1 DEF Least
    <3> QED BY <2>3, <3>2 DEF Least
  <2> QED BY <2>1, <2>2, <2>4, <2>9, <2>10 DEF Leads
<1>4. \A c \in Buf : c \in P
  <2> HIDE DEF P
  <2> QED BY <1>1, <1>2, <1>3, BufInduction
<1> QED BY <1>4

\* e is a cursor put together as c is
Alike(c, e) ==
    /\ \A d \in 0..Depth : c \in BufUpTo[d] => e \in BufUpTo[d]
    /\ e.kind = c.kind
    /\ Parts[e] = Parts[c]
    /\ Narrow[e] = Narrow[c]
\* e is c after n bytes
Moved(c, e, n) == Alike(c, e) /\ Content[e] = Skip(Content[c], n)

LEMMA AlikeBuf ==
    ASSUME NEW c \in Buf, NEW e, Alike(c, e)
    PROVE  e \in Buf
<1>1. Depth \in 0..Depth
  BY CursorsAssumption
<1> QED BY <1>1 DEF Alike, Buf

LEMMA AlikeTrans ==
    ASSUME NEW c, NEW e, NEW g, Alike(c, e), Alike(e, g)
    PROVE  Alike(c, g)
BY DEF Alike

LEMMA AlikeSlice ==
    ASSUME NEW s \in Seq(Byte), NEW t \in Seq(Byte)
    PROVE  Alike(Slice(s), Slice(t)) /\ Slice(s) \in Buf
<1>1. \A d \in 0..Depth : Slice(s) \in BufUpTo[d] /\ Slice(t) \in BufUpTo[d]
  BY BufBuilt
<1>2. Depth \in 0..Depth
  BY CursorsAssumption
<1>3. Slice(s) \in Buf /\ Slice(t) \in Buf
  BY <1>1, <1>2 DEF Buf
<1>4. Slice(s).kind = "slice" /\ Slice(t).kind = "slice"
  BY DEF Slice
<1>5. Parts[Slice(s)] = 1 /\ Parts[Slice(t)] = 1 /\ Narrow[Slice(s)] = TRUE /\ Narrow[Slice(t)] = TRUE
  BY <1>3, <1>4, PartsDef, NarrowDef
<1> QED BY <1>1, <1>3, <1>4, <1>5 DEF Alike

LEMMA AlikeChain ==
    ASSUME NEW a \in Buf, NEW b \in Buf, NEW a2, NEW b2, Alike(a, a2), Alike(b, b2), Chained(a, b) \in Buf
    PROVE  Alike(Chained(a, b), Chained(a2, b2)) /\ Chained(a2, b2) \in Buf
<1> DEFINE c == Chained(a, b)
           e == Chained(a2, b2)
<1>1. c.kind = "chain" /\ c.a = a /\ c.b = b /\ e.kind = "chain" /\ e.a = a2 /\ e.b = b2
  BY DEF Chained
<1>2. ASSUME NEW d \in 0..Depth, c \in BufUpTo[d] PROVE e \in BufUpTo[d]
  <2>1. d # 0 /\ a \in BufUpTo[d - 1] /\ b \in BufUpTo[d - 1]
    BY <1>1, <1>2, BufCases
  <2>2. d - 1 \in 0..Depth
    BY <2>1, CursorsAssumption
  <2>3. a2 \in BufUpTo[d - 1] /\ b2 \in BufUpTo[d - 1]
    BY <2>1, <2>2 DEF Alike
  <2> QED BY <2>1, <2>3, BufBuilt
<1>3. e \in Buf
  <2>1. Depth \in 0..Depth
    BY CursorsAssumption
  <2> QED BY <1>2, <2>1 DEF Buf
<1>4. a2 \in Buf /\ b2 \in Buf
  BY AlikeBuf
<1>5. c \in Buf
  OBVIOUS
<1> HIDE DEF c, e
<1>6. Parts[c] = Parts[a] + Parts[b] /\ Parts[e] = Parts[a2] + Parts[b2]
  BY <1>1, <1>3, <1>5, PartsDef
<1>7. Narrow[c] = (Narrow[a] /\ Narrow[b]) /\ Narrow[e] = (Narrow[a2] /\ Narrow[b2])
  BY <1>1, <1>3, <1>5, NarrowDef
<1>8. Parts[a2] = Parts[a] /\ Parts[b2] = Parts[b] /\ Narrow[a2] = Narrow[a] /\ Narrow[b2] = Narrow[b]
  BY DEF Alike
<1>9. Parts[e] = Parts[c] /\ Narrow[e] = Narrow[c] /\ e.kind = c.kind
  BY <1>1, <1>6, <1>7, <1>8
<1>10. Alike(c, e)
  BY <1>2, <1>9 DEF Alike
<1> QED BY <1>3, <1>10 DEF c, e

LEMMA AlikeTake ==
    ASSUME NEW c \in Buf, NEW e, Alike(c, e), NEW m \in Nat, NEW n \in Nat, TakeOf(c, m) \in Buf
    PROVE  Alike(TakeOf(c, m), TakeOf(e, n)) /\ TakeOf(e, n) \in Buf
<1> DEFINE t == TakeOf(c, m)
           u == TakeOf(e, n)
<1>1. t.kind = "take" /\ t.inner = c /\ u.kind = "take" /\ u.inner = e
  BY DEF TakeOf
<1>2. ASSUME NEW d \in 0..Depth, t \in BufUpTo[d] PROVE u \in BufUpTo[d]
  <2>1. d # 0 /\ c \in BufUpTo[d - 1]
    BY <1>1, <1>2, BufCases
  <2>2. d - 1 \in 0..Depth
    BY <2>1, CursorsAssumption
  <2>3. e \in BufUpTo[d - 1]
    BY <2>1, <2>2 DEF Alike
  <2> QED BY <2>1, <2>3, BufBuilt
<1>3. u \in Buf
  <2>1. Depth \in 0..Depth
    BY CursorsAssumption
  <2> QED BY <1>2, <2>1 DEF Buf
<1>5. t \in Buf
  OBVIOUS
<1> HIDE DEF t, u
<1>6. Parts[t] = Parts[c] /\ Parts[u] = Parts[e]
  BY <1>1, <1>3, <1>5, PartsDef
<1>7. Narrow[t] = (Narrow[c] /\ Parts[c] <= TakeSlices) /\ Narrow[u] = (Narrow[e] /\ Parts[e] <= TakeSlices)
  BY <1>1, <1>3, <1>5, NarrowDef
<1>8. Parts[e] = Parts[c] /\ Narrow[e] = Narrow[c]
  BY DEF Alike
<1>9. Parts[u] = Parts[t] /\ Narrow[u] = Narrow[t] /\ u.kind = t.kind
  BY <1>1, <1>6, <1>7, <1>8
<1>10. Alike(t, u)
  BY <1>2, <1>9 DEF Alike
<1> QED BY <1>3, <1>10 DEF t, u

\* the content of a cursor, by its kind
LEMMA SliceFields ==
    ASSUME NEW s \in Seq(Byte)
    PROVE  Slice(s) \in Buf /\ Content[Slice(s)] = s /\ Remaining[Slice(s)] = Len(s)
<1>1. Slice(s) \in Buf
  BY AlikeSlice
<1> QED BY <1>1, ContentDef, RemainingDef DEF Slice

LEMMA ChainFields ==
    ASSUME NEW a \in Buf, NEW b \in Buf, Chained(a, b) \in Buf
    PROVE  /\ Content[Chained(a, b)] = Content[a] \o Content[b]
           /\ Remaining[Chained(a, b)] = Remaining[a] + Remaining[b]
BY ContentDef, RemainingDef DEF Chained

LEMMA TakeFields ==
    ASSUME NEW c \in Buf, NEW n \in Nat, TakeOf(c, n) \in Buf
    PROVE  /\ Content[TakeOf(c, n)] = First(Content[c], n)
           /\ Remaining[TakeOf(c, n)] = Least(Remaining[c], n)
BY ContentDef, RemainingDef DEF TakeOf

LEMMA MovedChain ==
    ASSUME NEW a \in Buf, NEW b \in Buf, NEW a2, NEW b2, NEW n \in Nat, Chained(a, b) \in Buf,
           Moved(a, a2, Least(Remaining[a], n)), Moved(b, b2, Beyond(n, Remaining[a]))
    PROVE  Moved(Chained(a, b), Chained(a2, b2), n)
<1>1. Alike(a, a2) /\ Alike(b, b2)
  BY DEF Moved
<1>2. Alike(Chained(a, b), Chained(a2, b2)) /\ Chained(a2, b2) \in Buf
  BY <1>1, AlikeChain
<1>3. a2 \in Buf /\ b2 \in Buf
  BY <1>1, AlikeBuf
<1>4. Content[a] \in Seq(Byte) /\ Content[b] \in Seq(Byte)
  BY ContentLaw
<1>5. Len(Content[a]) = Remaining[a]
  BY ContentLaw
<1>6. Content[a2] = Skip(Content[a], Least(Remaining[a], n)) /\ Content[b2] = Skip(Content[b], Beyond(n, Remaining[a]))
  BY DEF Moved
<1>7. Content[Chained(a, b)] = Content[a] \o Content[b] /\ Content[Chained(a2, b2)] = Content[a2] \o Content[b2]
  BY <1>2, <1>3, ChainFields
<1>8. Skip(Content[a] \o Content[b], n) = Skip(Content[a], Least(Len(Content[a]), n)) \o Skip(Content[b], Beyond(n, Len(Content[a])))
  BY <1>4, CutJoined
<1> QED BY <1>2, <1>5, <1>6, <1>7, <1>8 DEF Moved

LEMMA MovedTake ==
    ASSUME NEW c \in Buf, NEW e, NEW m \in Nat, NEW n \in 0..m, TakeOf(c, m) \in Buf, Moved(c, e, n)
    PROVE  Moved(TakeOf(c, m), TakeOf(e, m - n), n)
<1>1. Alike(c, e) /\ m - n \in Nat
  BY DEF Moved
<1>2. Alike(TakeOf(c, m), TakeOf(e, m - n)) /\ TakeOf(e, m - n) \in Buf
  BY <1>1, AlikeTake
<1>3. e \in Buf
  BY <1>1, AlikeBuf
<1>4. Content[c] \in Seq(Byte)
  BY ContentLaw
<1>6. Content[e] = Skip(Content[c], n)
  BY DEF Moved
<1>7. Content[TakeOf(c, m)] = First(Content[c], m) /\ Content[TakeOf(e, m - n)] = First(Content[e], m - n)
  BY <1>1, <1>2, <1>3, TakeFields
<1>8. Skip(First(Content[c], m), n) = First(Skip(Content[c], n), m - n)
  BY <1>4, SkipFirst
<1> QED BY <1>2, <1>6, <1>7, <1>8 DEF Moved

\* advance by no more than remains
LEMMA AdvanceLaw == \A c \in Buf : \A n \in 0..Remaining[c] : Moved(c, AdvanceBy[c][n], n)
<1> DEFINE P == {c \in Buf : \A n \in 0..Remaining[c] : Moved(c, AdvanceBy[c][n], n)}
<1>1. \A bytes \in Seq(Byte) : Slice(bytes) \in P
  <2> TAKE bytes \in Seq(Byte)
  <2>1. Slice(bytes) \in Buf /\ Content[Slice(bytes)] = bytes
    BY SliceFields
  <2>2. ASSUME NEW n \in Nat PROVE Moved(Slice(bytes), AdvanceBy[Slice(bytes)][n], n)
    <3>1. AdvanceBy[Slice(bytes)][n] = Slice(Skip(bytes, n))
      BY <2>1, AdvanceByDef DEF Slice
    <3>2. Skip(bytes, n) \in Seq(Byte)
      BY SkipType
    <3>3. Alike(Slice(bytes), Slice(Skip(bytes, n))) /\ Content[Slice(Skip(bytes, n))] = Skip(bytes, n)
      BY <3>2, AlikeSlice, SliceFields
    <3> QED BY <2>1, <3>1, <3>3 DEF Moved
  <2>3. \A n \in 0..Remaining[Slice(bytes)] : n \in Nat
    BY <2>1, RemainingType
  <2> QED BY <2>1, <2>2, <2>3
<1>2. \A a, b \in Buf : a \in P /\ b \in P /\ Chained(a, b) \in Buf => Chained(a, b) \in P
  <2> SUFFICES ASSUME NEW a \in Buf, NEW b \in Buf, a \in P, b \in P, Chained(a, b) \in Buf PROVE Chained(a, b) \in P
    OBVIOUS
  <2>1. Remaining[Chained(a, b)] = Remaining[a] + Remaining[b] /\ Remaining[a] \in Nat /\ Remaining[b] \in Nat
    BY ChainFields, RemainingType
  <2>2. ASSUME NEW n \in 0..Remaining[Chained(a, b)] PROVE Moved(Chained(a, b), AdvanceBy[Chained(a, b)][n], n)
    <3>1. n \in Nat /\ Least(Remaining[a], n) \in 0..Remaining[a] /\ Beyond(n, Remaining[a]) \in 0..Remaining[b]
      BY <2>1 DEF Least, Beyond
    <3>2. AdvanceBy[Chained(a, b)][n] =
          Chained(AdvanceBy[a][Least(Remaining[a], n)], AdvanceBy[b][Beyond(n, Remaining[a])])
      BY <3>1, AdvanceByDef DEF Chained, ChainAdvance
    <3>3. Moved(a, AdvanceBy[a][Least(Remaining[a], n)], Least(Remaining[a], n))
          /\ Moved(b, AdvanceBy[b][Beyond(n, Remaining[a])], Beyond(n, Remaining[a]))
      BY <3>1
    <3> QED BY <3>1, <3>2, <3>3, MovedChain
  <2> QED BY <2>2
<1>3. \A c \in Buf, n \in Nat : c \in P /\ TakeOf(c, n) \in Buf => TakeOf(c, n) \in P
  <2> SUFFICES ASSUME NEW c \in Buf, c \in P, NEW m \in Nat, TakeOf(c, m) \in Buf PROVE TakeOf(c, m) \in P
    OBVIOUS
  <2>1. Remaining[TakeOf(c, m)] = Least(Remaining[c], m) /\ Remaining[c] \in Nat
    BY TakeFields, RemainingType
  <2>2. ASSUME NEW n \in 0..Remaining[TakeOf(c, m)] PROVE Moved(TakeOf(c, m), AdvanceBy[TakeOf(c, m)][n], n)
    <3>1. n \in Nat /\ n \in 0..Remaining[c] /\ n \in 0..m
      BY <2>1 DEF Least
    <3>2. AdvanceBy[TakeOf(c, m)][n] = TakeOf(AdvanceBy[c][n], m - n)
      BY <3>1, AdvanceByDef DEF TakeOf, TakeAdvance
    <3>3. Moved(c, AdvanceBy[c][n], n)
      BY <3>1
    <3> QED BY <3>1, <3>2, <3>3, MovedTake
  <2> QED BY <2>2
<1>4. \A c \in Buf : c \in P
  <2> HIDE DEF P
  <2> QED BY <1>1, <1>2, <1>3, BufInduction
<1> QED BY <1>4

-----------------------------------------------------------------------------
(* FlattenSeq of SequencesExt, for lists of pieces of a stream.            *)

Pieces == Seq(Seq(Byte))

\* the function that is local to FlattenSeq
Flatten(f, s) == f = [i \in 1..Len(s) |-> IF i = 1 THEN s[i] ELSE f[i - 1] \o s[i]]

LEMMA FlattenExists ==
    ASSUME NEW s \in Pieces
    PROVE  \E f : Flatten(f, s)
<1> DEFINE body(f, i) == IF i = 1 THEN s[i] ELSE f[i - 1] \o s[i]
           Good(f, d) == Fcn(f, 1..d) /\ \A i \in 1..d : f[i] = body(f, i)
           N == {d \in 0..Len(s) : \E f : Good(f, d)}
<1>0. Len(s) \in Nat
  BY DEF Pieces
<1>1. 0 \in N
  <2> DEFINE g == [i \in 1..0 |-> 0]
  <2>1. Good(g, 0)
    BY DEF Fcn
  <2> HIDE DEF Good
  <2> QED BY <2>1, <1>0
<1>2. ASSUME NEW d \in 1..Len(s), d - 1 \in N PROVE d \in N
  <2>1. PICK f : Good(f, d - 1)
    BY <1>2
  <2> DEFINE g == [i \in 1..d |-> body(f, i)]
  <2>2. \A i \in 1..d : g[i] = body(f, i)
    BY Zenon
  <2>3. Fcn(g, 1..d)
    BY DEF Fcn
  <2> HIDE DEF g
  <2>4. \A i \in 1..(d - 1) : i \in 1..d /\ f[i] = g[i]
    <3> TAKE i \in 1..(d - 1)
    <3>1. i \in 1..d
      BY <1>0
    <3> QED BY <3>1, <2>1, <2>2
  <2>5. ASSUME NEW i \in 1..d PROVE g[i] = body(g, i)
    <3>1. i = 1 \/ i - 1 \in 1..(d - 1)
      BY <1>0
    <3> QED BY <3>1, <2>4, <2>2
  <2>6. Good(g, d)
    BY <2>5, <2>3
  <2> QED BY <2>6, <1>0
<1>3. Len(s) \in N
  <2> HIDE DEF N
  <2>1. \A d \in 0..Len(s) : d \in N
    BY <1>0, <1>1, <1>2, UpToInduction
  <2> QED BY <2>1, <1>0
<1>4. PICK f : Good(f, Len(s))
  BY <1>3
<1>5. [i \in 1..Len(s) |-> f[i]] = [i \in 1..Len(s) |-> body(f, i)]
  BY <1>4
<1>6. f = [i \in 1..Len(s) |-> f[i]]
  BY <1>4 DEF Fcn
<1>7. f = [i \in 1..Len(s) |-> body(f, i)]
  <2> HIDE DEF Good, body
  <2> QED BY <1>5, <1>6
<1> QED BY <1>7 DEF Flatten

LEMMA FlattenIs ==
    ASSUME NEW s \in Pieces, Len(s) # 0
    PROVE  \E f : Flatten(f, s) /\ FlattenSeq(s) = f[Len(s)]
<1> DEFINE g == CHOOSE f : f = [i \in 1..Len(s) |-> IF i = 1 THEN s[i] ELSE f[i - 1] \o s[i]]
<1>1. FlattenSeq(s) = g[Len(s)]
  BY Zenon DEF FlattenSeq
<1>2. Flatten(g, s)
  BY FlattenExists, Zenon DEF Flatten
<1> QED BY <1>1, <1>2, Zenon

LEMMA FlattenEmpty == FlattenSeq(<<>>) = <<>>
BY DEF FlattenSeq

LEMMA FlattenAppend ==
    ASSUME NEW s \in Pieces, NEW x \in Seq(Byte), FlattenSeq(s) \in Seq(Byte)
    PROVE  FlattenSeq(Append(s, x)) = FlattenSeq(s) \o x
<1> DEFINE t == Append(s, x)
<1>1. t \in Pieces /\ Len(t) = Len(s) + 1 /\ t[Len(s) + 1] = x /\ \A i \in 1..Len(s) : t[i] = s[i]
  BY DEF Pieces
<1>0. Len(s) \in Nat
  BY DEF Pieces
<1> HIDE DEF t
<1>2. PICK g : Flatten(g, t) /\ FlattenSeq(t) = g[Len(t)]
  BY <1>0, <1>1, FlattenIs
<1>3. \A i \in 1..Len(t) : g[i] = IF i = 1 THEN t[i] ELSE g[i - 1] \o t[i]
  BY <1>2, Zenon DEF Flatten
<1>4. CASE Len(s) = 0
  <2>1. s = <<>> /\ FlattenSeq(s) = <<>> /\ <<>> \o x = x
    BY <1>4, FlattenEmpty DEF Pieces
  <2>2. g[1] = t[1] /\ t[1] = x /\ Len(t) = 1
    BY <1>1, <1>3, <1>4
  <2> QED BY <1>2, <2>1, <2>2 DEF t
<1>5. CASE Len(s) # 0
  <2>1. PICK f : Flatten(f, s) /\ FlattenSeq(s) = f[Len(s)]
    BY <1>5, FlattenIs
  <2>2. \A i \in 1..Len(s) : f[i] = IF i = 1 THEN s[i] ELSE f[i - 1] \o s[i]
    BY <2>1, Zenon DEF Flatten
  <2> DEFINE N == {i \in 0..Len(s) : i = 0 \/ f[i] = g[i]}
  <2>3. 0 \in N
    BY <1>0
  <2>4. ASSUME NEW i \in 1..Len(s), i - 1 \in N PROVE i \in N
    <3>1. i \in 0..Len(s) /\ i \in 1..Len(t) /\ (i = 1 \/ f[i - 1] = g[i - 1]) /\ t[i] = s[i]
      BY <1>0, <1>1, <2>4
    <3>2. f[i] = IF i = 1 THEN s[i] ELSE f[i - 1] \o s[i]
      BY <2>2
    <3>3. g[i] = IF i = 1 THEN t[i] ELSE g[i - 1] \o t[i]
      BY <3>1, <1>3
    <3> QED BY <3>1, <3>2, <3>3
  <2>5. \A i \in 0..Len(s) : i \in N
    <3> HIDE DEF N
    <3> QED BY <1>0, <2>3, <2>4, UpToInduction
  <2>6. f[Len(s)] = g[Len(s)]
    BY <1>0, <1>5, <2>5
  <2>7. Len(s) + 1 \in 1..Len(t) /\ Len(s) + 1 # 1 /\ (Len(s) + 1) - 1 = Len(s)
    BY <1>0, <1>1, <1>5
  <2>8. g[Len(s) + 1] = g[Len(s)] \o t[Len(s) + 1]
    BY <2>7, <1>3
  <2> QED BY <1>1, <1>2, <2>1, <2>6, <2>8 DEF t
<1> QED BY <1>4, <1>5

\* a list that is not empty is one that was appended to
LEMMA LastPiece ==
    ASSUME NEW s \in Pieces, NEW n \in Nat, Len(s) = n + 1
    PROVE  \E r \in Pieces, x \in Seq(Byte) : Len(r) = n /\ s = Append(r, x)
<1> DEFINE r == SubSeq(s, 1, n)
           x == s[n + 1]
<1>1. x \in Seq(Byte)
  BY DEF Pieces
<1>2. r \in Pieces /\ Len(r) = n /\ \A i \in 1..n : r[i] = s[i]
  BY DEF Pieces
<1> HIDE DEF r, x
<1>3. Append(r, x) \in Pieces /\ Len(Append(r, x)) = n + 1 /\ Append(r, x)[n + 1] = x
      /\ \A i \in 1..n : Append(r, x)[i] = r[i]
  BY <1>1, <1>2 DEF Pieces
<1>4. \A i \in 1..(n + 1) : Append(r, x)[i] = s[i]
  <2> TAKE i \in 1..(n + 1)
  <2>1. i \in 1..n \/ i = n + 1
    OBVIOUS
  <2> QED BY <1>2, <1>3, <2>1 DEF x
<1>5. Append(r, x) = s
  BY <1>3, <1>4, SameSeq DEF Pieces
<1> QED BY <1>1, <1>2, <1>5

LEMMA FlattenType == \A s \in Pieces : FlattenSeq(s) \in Seq(Byte)
<1> DEFINE N == {n \in Nat : \A s \in Pieces : Len(s) = n => FlattenSeq(s) \in Seq(Byte)}
<1>1. 0 \in N
  <2>1. \A s \in Pieces : Len(s) = 0 => s = <<>>
    BY DEF Pieces
  <2>2. <<>> \in Seq(Byte)
    OBVIOUS
  <2>3. \A s \in Pieces : Len(s) = 0 => FlattenSeq(s) = <<>>
    BY <2>1, FlattenEmpty, Zenon
  <2> QED BY <2>2, <2>3
<1>2. ASSUME NEW n \in Nat, n \in N PROVE n + 1 \in N
  <2>1. ASSUME NEW s \in Pieces, Len(s) = n + 1 PROVE FlattenSeq(s) \in Seq(Byte)
    <3>1. PICK r \in Pieces, x \in Seq(Byte) : Len(r) = n /\ s = Append(r, x)
      BY <2>1, LastPiece
    <3>2. FlattenSeq(r) \in Seq(Byte)
      BY <1>2, <3>1
    <3>3. FlattenSeq(s) = FlattenSeq(r) \o x
      BY <3>1, <3>2, FlattenAppend
    <3> QED BY <3>2, <3>3
  <2> QED BY <2>1
<1>3. \A n \in Nat : n \in N
  <2> HIDE DEF N
  <2> QED BY <1>1, <1>2, NumberInduction
<1>4. \A s \in Pieces : Len(s) \in Nat
  BY DEF Pieces
<1> QED BY <1>3, <1>4

LEMMA FlattenJoin == \A s, t \in Pieces : FlattenSeq(s \o t) = FlattenSeq(s) \o FlattenSeq(t)
<1> SUFFICES ASSUME NEW s \in Pieces PROVE \A t \in Pieces : FlattenSeq(s \o t) = FlattenSeq(s) \o FlattenSeq(t)
  OBVIOUS
<1> DEFINE N == {n \in Nat : \A t \in Pieces : Len(t) = n => FlattenSeq(s \o t) = FlattenSeq(s) \o FlattenSeq(t)}
<1>0. FlattenSeq(s) \in Seq(Byte)
  BY FlattenType
<1>1. 0 \in N
  <2>1. ASSUME NEW t \in Pieces, Len(t) = 0 PROVE FlattenSeq(s \o t) = FlattenSeq(s) \o FlattenSeq(t)
    <3>1. t = <<>> /\ s \o <<>> = s
      BY <2>1 DEF Pieces
    <3>2. FlattenSeq(s) \o <<>> = FlattenSeq(s)
      BY <1>0
    <3> QED BY <3>1, <3>2, FlattenEmpty
  <2> QED BY <2>1
<1>2. ASSUME NEW n \in Nat, n \in N PROVE n + 1 \in N
  <2>1. ASSUME NEW t \in Pieces, Len(t) = n + 1 PROVE FlattenSeq(s \o t) = FlattenSeq(s) \o FlattenSeq(t)
    <3>1. PICK r \in Pieces, x \in Seq(Byte) : Len(r) = n /\ t = Append(r, x)
      BY <2>1, LastPiece
    <3>2. FlattenSeq(r) \in Seq(Byte)
      BY FlattenType
    <3>3. FlattenSeq(s \o r) = FlattenSeq(s) \o FlattenSeq(r)
      BY <1>2, <3>1
    <3>4. s \o Append(r, x) = Append(s \o r, x) /\ s \o r \in Pieces
      BY DEF Pieces
    <3>5. FlattenSeq(s \o r) \in Seq(Byte)
      BY <3>4, FlattenType
    <3>6. FlattenSeq(Append(s \o r, x)) = FlattenSeq(s \o r) \o x
      BY <3>4, <3>5, FlattenAppend
    <3>7. FlattenSeq(Append(r, x)) = FlattenSeq(r) \o x
      BY <3>2, FlattenAppend
    <3>8. (FlattenSeq(s) \o FlattenSeq(r)) \o x = FlattenSeq(s) \o (FlattenSeq(r) \o x)
      BY <1>0, <3>2
    <3> QED BY <3>1, <3>3, <3>4, <3>6, <3>7, <3>8
  <2> QED BY <2>1
<1>3. \A n \in Nat : n \in N
  <2> HIDE DEF N
  <2> QED BY <1>1, <1>2, NumberInduction
<1>4. \A t \in Pieces : Len(t) \in Nat
  BY DEF Pieces
<1> QED BY <1>3, <1>4

LEMMA FlattenOne == \A x \in Seq(Byte) : <<x>> \in Pieces /\ FlattenSeq(<<x>>) = x
<1> TAKE x \in Seq(Byte)
<1>1. <<>> \in Pieces /\ Append(<<>>, x) = <<x>> /\ <<>> \o x = x /\ <<>> \in Seq(Byte) /\ <<x>> \in Pieces
  BY DEF Pieces
<1>2. FlattenSeq(Append(<<>>, x)) = FlattenSeq(<<>>) \o x
  BY <1>1, FlattenEmpty, FlattenAppend
<1> QED BY <1>1, <1>2, FlattenEmpty

-----------------------------------------------------------------------------
(* Loops: a function that is recursive over a rank that decreases.         *)

\* f is what the loop computes at s
Loop(f, s, Stop, base, nxt, step) == f[s] = IF s \in Stop THEN base[s] ELSE step[s][f[nxt[s]]]

LEMMA LoopRecursion ==
    ASSUME NEW S, NEW T, NEW rank \in [S -> Nat], NEW Stop \in SUBSET S, NEW base \in [S -> T],
           NEW nxt \in [S -> S], NEW step \in [S -> [T -> T]],
           \A s \in S : s \notin Stop => rank[nxt[s]] < rank[s]
    PROVE  \E f \in [S -> T] : \A s \in S : Loop(f, s, Stop, base, nxt, step)
<1> DEFINE L(f, s) == Loop(f, s, Stop, base, nxt, step)
           Upto(f, n) == f \in [S -> T] /\ \A s \in S : rank[s] < n => L(f, s)
           N == {n \in Nat : \E f : Upto(f, n)}
<1>1. 0 \in N
  BY DEF L
<1>2. ASSUME NEW n \in Nat, n \in N PROVE n + 1 \in N
  <2>1. PICK f : Upto(f, n)
    BY <1>2
  <2> DEFINE g == [s \in S |-> IF s \in Stop THEN base[s] ELSE step[s][f[nxt[s]]]]
  <2>2. g \in [S -> T]
    BY <2>1
  <2>3. \A s \in S : g[s] = IF s \in Stop THEN base[s] ELSE step[s][f[nxt[s]]]
    BY Zenon
  <2> HIDE DEF g
  <2>4. ASSUME NEW s \in S, rank[s] < n PROVE g[s] = f[s]
    BY <2>1, <2>3, <2>4 DEF L, Loop
  <2>5. ASSUME NEW s \in S, rank[s] < n + 1 PROVE L(g, s)
    <3>1. CASE s \in Stop
      BY <2>3, <3>1 DEF L, Loop
    <3>2. CASE s \notin Stop
      <4>1. nxt[s] \in S /\ rank[nxt[s]] < n
        BY <2>5, <3>2
      <4>2. g[nxt[s]] = f[nxt[s]]
        BY <2>4, <4>1
      <4> QED BY <2>3, <3>2, <4>2 DEF L, Loop
    <3> QED BY <3>1, <3>2
  <2>6. Upto(g, n + 1)
    BY <2>2, <2>5
  <2> QED BY <2>6
<1>3. \A n \in Nat : n \in N
  <2> HIDE DEF N
  <2> QED BY <1>1, <1>2, NumberInduction
<1> DEFINE approx(n) == CHOOSE f : Upto(f, n)
<1>4. \A n \in Nat : Upto(approx(n), n)
  <2> HIDE DEF Upto
  <2> QED BY <1>3
<1>5. \A k \in Nat : \A m, n \in Nat : \A s \in S : rank[s] < k /\ k <= m /\ k <= n => approx(m)[s] = approx(n)[s]
  <2> DEFINE A == {k \in Nat : \A m, n \in Nat : \A s \in S : rank[s] < k /\ k <= m /\ k <= n => approx(m)[s] = approx(n)[s]}
  <2> HIDE DEF approx
  <2>1. 0 \in A
    OBVIOUS
  <2>2. ASSUME NEW k \in Nat, k \in A PROVE k + 1 \in A
    <3>1. ASSUME NEW m \in Nat, NEW n \in Nat, NEW s \in S, rank[s] < k + 1, k + 1 <= m, k + 1 <= n
          PROVE  approx(m)[s] = approx(n)[s]
      <4>1. L(approx(m), s) /\ L(approx(n), s)
        BY <3>1, <1>4
      <4>2. CASE s \in Stop
        BY <4>1, <4>2 DEF L, Loop
      <4>3. CASE s \notin Stop
        <5>1. nxt[s] \in S /\ rank[nxt[s]] < k /\ k <= m /\ k <= n
          BY <3>1, <4>3
        <5>2. approx(m)[nxt[s]] = approx(n)[nxt[s]]
          BY <2>2, <5>1
        <5> QED BY <4>1, <4>3, <5>2 DEF L, Loop
      <4> QED BY <4>2, <4>3
    <3> QED BY <3>1
  <2>3. \A k \in Nat : k \in A
    <3> HIDE DEF A
    <3> QED BY <2>1, <2>2, NumberInduction
  <2> QED BY <2>3
<1> DEFINE h == [s \in S |-> approx(rank[s] + 1)[s]]
<1> HIDE DEF approx
<1>6. h \in [S -> T]
  BY <1>4
<1>7. \A s \in S : h[s] = approx(rank[s] + 1)[s]
  BY Zenon
<1> HIDE DEF h
<1>8. ASSUME NEW s \in S PROVE L(h, s)
  <2>1. rank[s] + 1 \in Nat /\ rank[s] < rank[s] + 1
    OBVIOUS
  <2>2. L(approx(rank[s] + 1), s)
    BY <1>4, <2>1
  <2>3. CASE s \in Stop
    BY <1>7, <2>2, <2>3 DEF L, Loop
  <2>4. CASE s \notin Stop
    <3>1. nxt[s] \in S /\ rank[nxt[s]] < rank[s]
      BY <2>4
    <3>2. rank[nxt[s]] + 1 \in Nat /\ rank[nxt[s]] < rank[nxt[s]] + 1 /\ rank[nxt[s]] + 1 <= rank[s] + 1
      BY <3>1
    <3>3. approx(rank[nxt[s]] + 1)[nxt[s]] = approx(rank[s] + 1)[nxt[s]]
      BY <1>5, <2>1, <3>1, <3>2
    <3>4. h[nxt[s]] = approx(rank[s] + 1)[nxt[s]]
      BY <1>7, <3>1, <3>3
    <3> QED BY <1>7, <2>2, <2>4, <3>4 DEF L, Loop
  <2> QED BY <2>3, <2>4
<1> QED BY <1>6, <1>8 DEF L

\* Take::chunks_vectored
LEMMA CutAtDef ==
    \A s \in Pieces : CutAt[s] = [limit \in Nat |->
        IF s = <<>> \/ limit = 0 THEN <<>>
        ELSE <<First(Head(s), limit)>> \o CutAt[Tail(s)][Beyond(limit, Len(Head(s)))]]
<1> DEFINE body(f, s) == [limit \in Nat |->
        IF s = <<>> \/ limit = 0 THEN <<>>
        ELSE <<First(Head(s), limit)>> \o f[Tail(s)][Beyond(limit, Len(Head(s)))]]
           T == [Nat -> Pieces]
           rank == [s \in Pieces |-> Len(s)]
           base == [s \in Pieces |-> [limit \in Nat |-> <<>>]]
           nxt == [s \in Pieces |-> IF s = <<>> THEN <<>> ELSE Tail(s)]
           more(s, h) == [limit \in Nat |->
               IF limit = 0 THEN <<>> ELSE <<First(Head(s), limit)>> \o h[Beyond(limit, Len(Head(s)))]]
           step == [s \in Pieces |-> [h \in T |-> IF s = <<>> THEN h ELSE more(s, h)]]
<1>1. rank \in [Pieces -> Nat]
  BY DEF Pieces
<1>2. base \in [Pieces -> T]
  BY DEF Pieces
<1>3. nxt \in [Pieces -> Pieces]
  BY DEF Pieces
<1>4. ASSUME NEW s \in Pieces, s # <<>>, NEW h \in T PROVE more(s, h) \in T
  <2>1. ASSUME NEW limit \in Nat, limit # 0
        PROVE  <<First(Head(s), limit)>> \o h[Beyond(limit, Len(Head(s)))] \in Pieces
    <3>1. Head(s) \in Seq(Byte)
      BY <1>4 DEF Pieces
    <3>2. First(Head(s), limit) \in Seq(Byte)
      BY <3>1, FirstType
    <3>3. Beyond(limit, Len(Head(s))) \in Nat
      BY <3>1 DEF Beyond
    <3>4. h[Beyond(limit, Len(Head(s)))] \in Pieces
      BY <3>3
    <3> QED BY <3>2, <3>4 DEF Pieces
  <2>2. <<>> \in Pieces
    BY DEF Pieces
  <2> QED BY <2>1, <2>2
<1>5. step \in [Pieces -> [T -> T]]
  <2> HIDE DEF more, T
  <2> QED BY <1>4
<1>6. \A s \in Pieces : s \notin {<<>>} => rank[nxt[s]] < rank[s]
  BY DEF Pieces
<1>7. PICK f \in [Pieces -> T] : \A s \in Pieces : Loop(f, s, {<<>>}, base, nxt, step)
  <2> HIDE DEF rank, base, nxt, step, T
  <2>1. {<<>>} \in SUBSET Pieces
    BY DEF Pieces
  <2> QED BY <1>1, <1>2, <1>3, <1>5, <1>6, <2>1, LoopRecursion
<1>8. ASSUME NEW s \in Pieces PROVE f[s] = body(f, s)
  <2>1. f[s] = IF s \in {<<>>} THEN base[s] ELSE step[s][f[nxt[s]]]
    BY <1>7 DEF Loop
  <2>2. CASE s = <<>>
    BY <2>1, <2>2
  <2>3. CASE s # <<>>
    <3>1. nxt[s] = Tail(s) /\ Tail(s) \in Pieces /\ f[Tail(s)] \in T
      BY <1>3, <1>7, <2>3 DEF Pieces
    <3>2. f[s] = more(s, f[Tail(s)])
      <4> HIDE DEF more, T
      <4> QED BY <2>1, <2>3, <3>1
    <3> QED BY <2>3, <3>2
  <2> QED BY <2>2, <2>3
<1>9. f = [s \in Pieces |-> body(f, s)]
  <2> HIDE DEF body
  <2> QED BY <1>7, <1>8
<1>10. CutAt = CHOOSE g : g = [s \in Pieces |-> body(g, s)]
  BY DEF CutAt, body, Pieces
<1>11. CutAt = [s \in Pieces |-> body(CutAt, s)]
  <2> HIDE DEF body
  <2> QED BY <1>9, <1>10, Zenon
<1> HIDE DEF body
<1>12. \A s \in Pieces : CutAt[s] = body(CutAt, s)
  BY <1>11, Zenon
<1> QED BY <1>12, Zenon DEF body

-----------------------------------------------------------------------------
(* The loops over the chunks of a cursor.                                  *)

LEMMA MovedRemaining ==
    ASSUME NEW c \in Buf, NEW e, NEW n \in 0..Remaining[c], Moved(c, e, n)
    PROVE  /\ e \in Buf
           /\ Remaining[e] = Remaining[c] - n
           /\ First(Content[c], n) \o Content[e] = Content[c]
<1>1. e \in Buf
  BY AlikeBuf DEF Moved
<1>2. Content[c] \in Seq(Byte) /\ Len(Content[c]) = Remaining[c]
  BY ContentLaw
<1>3. Remaining[c] \in Nat /\ n \in Nat /\ Beyond(Remaining[c], n) = Remaining[c] - n
  BY RemainingType DEF Beyond
<1>4. Content[e] = Skip(Content[c], n)
  BY DEF Moved
<1>5. Len(Skip(Content[c], n)) = Remaining[c] - n
  BY <1>2, <1>3, SkipType
<1>6. Len(Content[e]) = Remaining[e]
  BY <1>1, ContentLaw
<1>7. First(Content[c], n) \o Skip(Content[c], n) = Content[c]
  BY <1>2, <1>3, JoinCuts
<1> QED BY <1>1, <1>4, <1>5, <1>6, <1>7

\* an iteration: the chunk is taken from a cursor that has something left
LEMMA PastChunk ==
    ASSUME NEW c \in Buf, Remaining[c] # 0
    PROVE  /\ Len(Chunk[c]) \in 1..Remaining[c]
           /\ Chunk[c] = First(Content[c], Len(Chunk[c]))
           /\ Moved(c, AdvanceBy[c][Len(Chunk[c])], Len(Chunk[c]))
           /\ AdvanceBy[c][Len(Chunk[c])] \in Buf
           /\ Remaining[AdvanceBy[c][Len(Chunk[c])]] = Remaining[c] - Len(Chunk[c])
<1>1. Chunk[c] \in Seq(Byte) /\ Leads(Chunk[c], Content[c]) /\ Chunk[c] # <<>>
  BY ChunkLaw
<1>2. Content[c] \in Seq(Byte) /\ Len(Content[c]) = Remaining[c]
  BY ContentLaw
<1>3. Len(Chunk[c]) <= Len(Content[c])
  BY <1>1, <1>2, LeadsIsPrefix
<1>4. Len(Chunk[c]) \in Nat /\ Len(Chunk[c]) # 0
  BY <1>1
<1>5. Remaining[c] \in Nat
  BY RemainingType
<1>6. Len(Chunk[c]) \in 1..Remaining[c] /\ Len(Chunk[c]) \in 0..Remaining[c]
  BY <1>2, <1>3, <1>4, <1>5
<1>7. Moved(c, AdvanceBy[c][Len(Chunk[c])], Len(Chunk[c]))
  BY <1>6, AdvanceLaw
<1> QED BY <1>1, <1>6, <1>7, MovedRemaining DEF Leads

\* BytesMut::put
LEMMA DrainedDef ==
    \A c \in Buf : Drained[c] =
        IF Remaining[c] = 0
        THEN [bytes |-> <<>>, rest |-> c]
        ELSE LET more == Drained[AdvanceBy[c][Len(Chunk[c])]]
             IN  [bytes |-> Chunk[c] \o more.bytes, rest |-> more.rest]
<1> DEFINE body(f, c) ==
        IF Remaining[c] = 0
        THEN [bytes |-> <<>>, rest |-> c]
        ELSE LET more == f[AdvanceBy[c][Len(Chunk[c])]]
             IN  [bytes |-> Chunk[c] \o more.bytes, rest |-> more.rest]
           T == [bytes : Seq(Byte), rest : Buf]
           Stop == {c \in Buf : Remaining[c] = 0}
           rank == [c \in Buf |-> Remaining[c]]
           base == [c \in Buf |-> [bytes |-> <<>>, rest |-> c]]
           nxt == [c \in Buf |-> IF Remaining[c] = 0 THEN c ELSE AdvanceBy[c][Len(Chunk[c])]]
           step == [c \in Buf |-> [h \in T |-> [bytes |-> Chunk[c] \o h.bytes, rest |-> h.rest]]]
<1>1. rank \in [Buf -> Nat]
  BY RemainingType
<1>2. base \in [Buf -> T]
  OBVIOUS
<1>3. nxt \in [Buf -> Buf]
  BY PastChunk
<1>4. step \in [Buf -> [T -> T]]
  BY ChunkLaw
<1>5. \A c \in Buf : c \notin Stop => rank[nxt[c]] < rank[c]
  <2> SUFFICES ASSUME NEW c \in Buf, Remaining[c] # 0 PROVE rank[nxt[c]] < rank[c]
    OBVIOUS
  <2>1. Remaining[AdvanceBy[c][Len(Chunk[c])]] = Remaining[c] - Len(Chunk[c])
        /\ Len(Chunk[c]) \in 1..Remaining[c] /\ AdvanceBy[c][Len(Chunk[c])] \in Buf
    BY PastChunk
  <2>2. rank[nxt[c]] = Remaining[c] - Len(Chunk[c]) /\ rank[c] = Remaining[c] /\ Remaining[c] \in Nat
    BY <2>1, RemainingType
  <2> QED BY <2>1, <2>2
<1>6. PICK f \in [Buf -> T] : \A c \in Buf : Loop(f, c, Stop, base, nxt, step)
  <2> HIDE DEF rank, base, nxt, step, T
  <2> QED BY <1>1, <1>2, <1>3, <1>4, <1>5, LoopRecursion
<1>7. ASSUME NEW c \in Buf PROVE f[c] = body(f, c)
  <2>1. f[c] = IF c \in Stop THEN base[c] ELSE step[c][f[nxt[c]]]
    <3> HIDE DEF Stop, base, step, nxt
    <3> QED BY <1>6 DEF Loop
  <2>2. CASE Remaining[c] = 0
    BY <2>1, <2>2
  <2>3. CASE Remaining[c] # 0
    <3>1. nxt[c] = AdvanceBy[c][Len(Chunk[c])] /\ AdvanceBy[c][Len(Chunk[c])] \in Buf
      BY <2>3, PastChunk
    <3>2. f[nxt[c]] \in T /\ c \notin Stop
      BY <1>6, <2>3, <3>1
    <3> DEFINE h == f[nxt[c]]
    <3>3. step[c][h] = [bytes |-> Chunk[c] \o h.bytes, rest |-> h.rest]
      BY <3>2
    <3> QED BY <2>1, <2>3, <3>1, <3>2, <3>3
  <2> QED BY <2>2, <2>3
<1>8. f = [c \in Buf |-> body(f, c)]
  <2> HIDE DEF body
  <2> QED BY <1>6, <1>7
<1>9. Drained = CHOOSE g : g = [c \in Buf |-> body(g, c)]
  BY DEF Drained, body
<1>10. Drained = [c \in Buf |-> body(Drained, c)]
  <2> HIDE DEF body
  <2> QED BY <1>8, <1>9, Zenon
<1> HIDE DEF body
<1>11. \A c \in Buf : Drained[c] = body(Drained, c)
  BY <1>10, Zenon
<1> QED BY <1>11, Zenon DEF body

LEMMA MovedNone == \A c \in Buf : Moved(c, c, 0)
<1> TAKE c \in Buf
<1>1. Content[c] \in Seq(Byte)
  BY ContentLaw
<1>2. Skip(Content[c], 0) = Content[c]
  BY <1>1, CutEnds
<1> QED BY <1>2 DEF Moved, Alike

LEMMA MovedTwice ==
    ASSUME NEW c \in Buf, NEW e, NEW g, NEW m \in Nat, NEW n \in Nat, Moved(c, e, m), Moved(e, g, n)
    PROVE  Moved(c, g, m + n)
<1>1. Content[c] \in Seq(Byte)
  BY ContentLaw
<1>2. Skip(Skip(Content[c], m), n) = Skip(Content[c], m + n)
  BY <1>1, SkipSkip
<1>3. Alike(c, g)
  BY AlikeTrans DEF Moved
<1> QED BY <1>2, <1>3 DEF Moved

\* A take drains into a take of a cursor that has moved.
TakeDrains(c) ==
    \A x \in Buf, m \in Nat : c = TakeOf(x, m) =>
        \E y : Drained[c].rest = TakeOf(y, m - Remaining[c]) /\ Moved(x, y, Remaining[c])
Drains(c) ==
    /\ Drained[c].bytes = Content[c]
    /\ Moved(c, Drained[c].rest, Remaining[c])
    /\ TakeDrains(c)

LEMMA DrainedLaw == \A c \in Buf : Drains(c)
<1> DEFINE N == {n \in Nat : \A c \in Buf : Remaining[c] <= n => Drains(c)}
<1>1. ASSUME NEW c \in Buf, Remaining[c] = 0 PROVE Drains(c)
  <2>1. Drained[c].bytes = <<>> /\ Drained[c].rest = c
    <3>1. Drained[c] = [bytes |-> <<>>, rest |-> c]
      BY <1>1, DrainedDef, Zenon
    <3> QED BY <3>1
  <2>2. Content[c] \in Seq(Byte) /\ Len(Content[c]) = 0
    BY <1>1, ContentLaw
  <2>3. Content[c] = <<>>
    BY <2>2
  <2>4. TakeDrains(c)
    <3> SUFFICES ASSUME NEW x \in Buf, NEW m \in Nat, c = TakeOf(x, m)
                 PROVE  \E y : Drained[c].rest = TakeOf(y, m - Remaining[c]) /\ Moved(x, y, Remaining[c])
      BY DEF TakeDrains
    <3>1. m - 0 = m
      OBVIOUS
    <3>2. Drained[c].rest = TakeOf(x, m - Remaining[c])
      BY <1>1, <2>1, <3>1
    <3> QED BY <1>1, <3>2, MovedNone
  <2> QED BY <1>1, <2>1, <2>3, <2>4, MovedNone DEF Drains
<1>2. ASSUME NEW n \in Nat, n \in N, NEW c \in Buf, Remaining[c] <= n + 1, Remaining[c] # 0 PROVE Drains(c)
  <2> DEFINE k == Len(Chunk[c])
             e == AdvanceBy[c][k]
  <2>1. k \in 1..Remaining[c] /\ Chunk[c] = First(Content[c], k) /\ Moved(c, e, k)
        /\ e \in Buf /\ Remaining[e] = Remaining[c] - k
    BY <1>2, PastChunk
  <2>2. Remaining[c] \in Nat /\ k \in Nat /\ Remaining[e] \in Nat /\ Remaining[e] <= n /\ k + Remaining[e] = Remaining[c]
        /\ k \in 0..Remaining[c]
    BY <1>2, <2>1, RemainingType
  <2>3. Drains(e)
    BY <1>2, <2>1, <2>2
  <2>4. Drained[c].bytes = Chunk[c] \o Drained[e].bytes /\ Drained[c].rest = Drained[e].rest
    <3>1. Drained[c] = [bytes |-> Chunk[c] \o Drained[e].bytes, rest |-> Drained[e].rest]
      BY <1>2, DrainedDef, Zenon
    <3> DEFINE bytes == Chunk[c] \o Drained[e].bytes
               rest == Drained[e].rest
    <3>2. Drained[c] = [bytes |-> bytes, rest |-> rest]
      BY <3>1
    <3> HIDE DEF bytes, rest
    <3>3. Drained[c].bytes = bytes /\ Drained[c].rest = rest
      BY <3>2
    <3> QED BY <3>3 DEF bytes, rest
  <2>5. First(Content[c], k) \o Content[e] = Content[c]
    BY <2>1, <2>2, MovedRemaining
  <2> HIDE DEF k, e
  <2>6. Drained[c].bytes = Content[c]
    BY <2>1, <2>3, <2>4, <2>5 DEF Drains
  <2>7. Moved(c, Drained[c].rest, Remaining[c])
    <3>1. Moved(e, Drained[e].rest, Remaining[e])
      BY <2>3 DEF Drains
    <3>2. Moved(c, Drained[e].rest, k + Remaining[e])
      BY <2>1, <2>2, <3>1, MovedTwice
    <3> QED BY <2>2, <2>4, <3>2
  <2>8. ASSUME NEW x \in Buf, NEW m \in Nat, c = TakeOf(x, m)
        PROVE  \E y : Drained[c].rest = TakeOf(y, m - Remaining[c]) /\ Moved(x, y, Remaining[c])
    <3> DEFINE f == AdvanceBy[x][k]
    <3>1. Remaining[c] = Least(Remaining[x], m) /\ Remaining[x] \in Nat
      BY <2>8, TakeFields, RemainingType
    <3>2. k \in 0..Remaining[x] /\ m - k \in Nat /\ (m - k) - Remaining[e] = m - Remaining[c]
      BY <2>1, <2>2, <3>1 DEF Least
    <3>3. Moved(x, f, k)
      BY <3>2, AdvanceLaw
    <3>4. f \in Buf
      BY <3>3, AlikeBuf DEF Moved
    <3>5. AdvanceBy[c][k] = TakeOf(f, m - k)
      <4>1. c.kind = "take" /\ c.inner = x /\ c.limit = m
        BY <2>8 DEF TakeOf
      <4>2. AdvanceBy[c][k] = TakeAdvance(c, k, AdvanceBy)
        BY <2>2, <4>1, AdvanceByDef
      <4> QED BY <4>1, <4>2 DEF TakeAdvance
    <3>6. e = TakeOf(f, m - k)
      BY <3>5 DEF e
    <3> HIDE DEF f
    <3>7. PICK y : Drained[e].rest = TakeOf(y, (m - k) - Remaining[e]) /\ Moved(f, y, Remaining[e])
      BY <2>3, <3>2, <3>4, <3>6 DEF Drains, TakeDrains
    <3>8. Moved(x, y, k + Remaining[e])
      BY <2>2, <3>3, <3>7, MovedTwice
    <3> QED BY <2>2, <2>4, <3>2, <3>7, <3>8
  <2> QED BY <2>6, <2>7, <2>8 DEF Drains, TakeDrains
<1>3. \A n \in Nat : n \in N
  <2>1. 0 \in N
    BY <1>1, RemainingType
  <2>2. \A n \in Nat : n \in N => n + 1 \in N
    BY <1>1, <1>2
  <2> HIDE DEF N
  <2> QED BY <2>1, <2>2, NumberInduction
<1> QED BY <1>3, RemainingType

LEMMA TakeBeside ==
    ASSUME NEW a, NEW b, Chained(a, b) \in Buf, NEW n \in Nat
    PROVE  a \in Buf /\ b \in Buf /\ TakeOf(b, n) \in Buf
<1>1. Depth \in 0..Depth /\ Chained(a, b) \in BufUpTo[Depth]
  BY CursorsAssumption DEF Buf
<1>2. Chained(a, b).kind = "chain" /\ Chained(a, b).a = a /\ Chained(a, b).b = b
  BY DEF Chained
<1>3. Depth # 0 /\ a \in BufUpTo[Depth - 1] /\ b \in BufUpTo[Depth - 1]
  BY <1>1, <1>2, BufCases
<1> QED BY <1>1, <1>3, BufBuilt, BufGrows DEF Buf

\* copy_to_bytes of no more than remains
CopiesFirst(c, n) ==
    /\ CopyToBytes[c][n].bytes = First(Content[c], n)
    /\ Moved(c, CopyToBytes[c][n].rest, n)

LEMMA CopySlice ==
    ASSUME NEW s \in Seq(Byte), NEW n \in Nat
    PROVE  CopiesFirst(Slice(s), n)
<1>1. Slice(s) \in Buf /\ Content[Slice(s)] = s
  BY SliceFields
<1>2. CopyToBytes[Slice(s)][n] = Copied(First(s, n), Slice(Skip(s, n)))
  BY <1>1, CopyToBytesDef DEF Slice
<1>3. Skip(s, n) \in Seq(Byte)
  BY SkipType
<1>4. Alike(Slice(s), Slice(Skip(s, n))) /\ Content[Slice(Skip(s, n))] = Skip(s, n)
  BY <1>3, AlikeSlice, SliceFields
<1> QED BY <1>1, <1>2, <1>4 DEF CopiesFirst, Copied, Moved

LEMMA CopyTake ==
    ASSUME NEW c \in Buf, NEW m \in Nat, TakeOf(c, m) \in Buf, NEW n \in 0..m, CopiesFirst(c, n)
    PROVE  CopiesFirst(TakeOf(c, m), n)
<1> DEFINE r == CopyToBytes[c][n]
<1>1. CopyToBytes[TakeOf(c, m)][n] = Copied(r.bytes, TakeOf(r.rest, m - n))
  <2> DEFINE t == TakeOf(c, m)
  <2>1. t.kind = "take" /\ t.inner = c /\ t.limit = m /\ n \in Nat /\ t \in Buf
    BY DEF TakeOf
  <2> HIDE DEF t, r
  <2>2. CopyToBytes[t][n] = LET q == CopyToBytes[t.inner][n] IN Copied(q.bytes, TakeOf(q.rest, t.limit - n))
    <3>1. CopyToBytes[t] = [i \in Nat |->
            IF t.kind = "slice" THEN Copied(First(t.bytes, i), Slice(Skip(t.bytes, i)))
            ELSE IF t.kind = "take" THEN
                LET z == CopyToBytes[t.inner][i] IN Copied(z.bytes, TakeOf(z.rest, t.limit - i))
            ELSE IF Remaining[t.a] >= i THEN
                LET z == CopyToBytes[t.a][i] IN Copied(z.bytes, Chained(z.rest, t.b))
            ELSE IF Remaining[t.a] = 0 THEN
                LET z == CopyToBytes[t.b][i] IN Copied(z.bytes, Chained(t.a, z.rest))
            ELSE ChainCopy(t, i)]
      BY <2>1, CopyToBytesDef, Zenon
    <3>2. t.kind = "take" /\ t.kind # "slice" /\ n \in Nat
      BY <2>1
    <3> QED BY <3>1, <3>2
  <2> QED BY <2>1, <2>2 DEF t, r
<1>2. Moved(TakeOf(c, m), TakeOf(r.rest, m - n), n)
  BY MovedTake DEF CopiesFirst
<1>3. Content[c] \in Seq(Byte) /\ Content[TakeOf(c, m)] = First(Content[c], m)
  BY ContentLaw, TakeFields
<1>4. First(First(Content[c], m), n) = First(Content[c], n)
  <2>1. n \in Nat /\ Least(m, n) = n
    BY DEF Least
  <2> QED BY <1>3, <2>1, FirstFirst
<1>5. r.bytes = First(Content[c], n)
  BY DEF CopiesFirst
<1> HIDE DEF r
<1> QED BY <1>1, <1>2, <1>3, <1>4, <1>5 DEF CopiesFirst, Copied

LEMMA CopyCases ==
    ASSUME NEW c \in Buf, c.kind = "chain", NEW n \in Nat
    PROVE  /\ Remaining[c.a] >= n =>
                CopyToBytes[c][n] = Copied(CopyToBytes[c.a][n].bytes, Chained(CopyToBytes[c.a][n].rest, c.b))
           /\ ~(Remaining[c.a] >= n) /\ Remaining[c.a] = 0 =>
                CopyToBytes[c][n] = Copied(CopyToBytes[c.b][n].bytes, Chained(c.a, CopyToBytes[c.b][n].rest))
           /\ ~(Remaining[c.a] >= n) /\ Remaining[c.a] # 0 => CopyToBytes[c][n] = ChainCopy(c, n)
<1> DEFINE slice == Copied(First(c.bytes, n), Slice(Skip(c.bytes, n)))
           take == LET r == CopyToBytes[c.inner][n] IN Copied(r.bytes, TakeOf(r.rest, c.limit - n))
           first == LET r == CopyToBytes[c.a][n] IN Copied(r.bytes, Chained(r.rest, c.b))
           second == LET r == CopyToBytes[c.b][n] IN Copied(r.bytes, Chained(c.a, r.rest))
<1>1. CopyToBytes[c][n] =
        IF c.kind = "slice" THEN slice
        ELSE IF c.kind = "take" THEN take
        ELSE IF Remaining[c.a] >= n THEN first
        ELSE IF Remaining[c.a] = 0 THEN second
        ELSE ChainCopy(c, n)
  BY CopyToBytesDef, Zenon
<1>2. first = Copied(CopyToBytes[c.a][n].bytes, Chained(CopyToBytes[c.a][n].rest, c.b))
  OBVIOUS
<1>3. second = Copied(CopyToBytes[c.b][n].bytes, Chained(c.a, CopyToBytes[c.b][n].rest))
  OBVIOUS
<1> HIDE DEF slice, take, first, second
<1>4. c.kind # "slice" /\ c.kind # "take"
  OBVIOUS
<1> QED BY <1>1, <1>2, <1>3, <1>4

LEMMA CopyChain ==
    ASSUME NEW a \in Buf, NEW b \in Buf, Chained(a, b) \in Buf, NEW n \in 0..(Remaining[a] + Remaining[b]),
           \A i \in 0..Remaining[a] : CopiesFirst(a, i), \A i \in 0..Remaining[b] : CopiesFirst(b, i)
    PROVE  CopiesFirst(Chained(a, b), n)
<1> DEFINE c == Chained(a, b)
<1>1. c.kind = "chain" /\ c.a = a /\ c.b = b /\ c \in Buf
  BY DEF Chained
<1>2. Content[a] \in Seq(Byte) /\ Content[b] \in Seq(Byte) /\ Content[c] = Content[a] \o Content[b]
  BY ContentLaw, ChainFields
<1>3. Len(Content[a]) = Remaining[a] /\ Remaining[a] \in Nat /\ Remaining[b] \in Nat /\ n \in Nat
  BY ContentLaw, RemainingType
<1>4. ASSUME NEW a2, NEW b2, Moved(a, a2, Least(Remaining[a], n)), Moved(b, b2, Beyond(n, Remaining[a]))
      PROVE  Moved(c, Chained(a2, b2), n)
  BY <1>3, <1>4, MovedChain
<1> HIDE DEF c
<1>5. CASE Remaining[a] >= n
  <2>1. n \in 0..Remaining[a] /\ Least(Remaining[a], n) = n /\ Beyond(n, Remaining[a]) = 0
    BY <1>3, <1>5 DEF Least, Beyond
  <2> DEFINE r == CopyToBytes[a][n]
  <2>2. r.bytes = First(Content[a], n) /\ Moved(a, r.rest, n)
    BY <2>1 DEF CopiesFirst
  <2>3. CopyToBytes[c][n] = Copied(r.bytes, Chained(r.rest, b))
    BY <1>1, <1>3, <1>5, CopyCases
  <2> HIDE DEF r
  <2>4. Moved(c, Chained(r.rest, b), n)
    BY <1>4, <2>1, <2>2, MovedNone
  <2>5. First(Content[a] \o Content[b], n) = First(Content[a], n)
    BY <1>2, <1>3, <1>5, CutInside
  <2>6. CopyToBytes[c][n].bytes = r.bytes /\ CopyToBytes[c][n].rest = Chained(r.rest, b)
    BY <2>3 DEF Copied
  <2> QED BY <1>2, <2>2, <2>4, <2>5, <2>6 DEF CopiesFirst, c
<1>6. CASE n > Remaining[a] /\ Remaining[a] = 0
  <2>1. n \in 0..Remaining[b] /\ Least(Remaining[a], n) = 0 /\ Beyond(n, Remaining[a]) = n
    BY <1>3, <1>6 DEF Least, Beyond
  <2> DEFINE r == CopyToBytes[b][n]
  <2>2. r.bytes = First(Content[b], n) /\ Moved(b, r.rest, n)
    BY <2>1 DEF CopiesFirst
  <2>3. CopyToBytes[c][n] = Copied(r.bytes, Chained(a, r.rest))
    <3>1. ~(Remaining[c.a] >= n) /\ Remaining[c.a] = 0
      BY <1>1, <1>3, <1>6
    <3>2. CopyToBytes[c][n] = Copied(CopyToBytes[c.b][n].bytes, Chained(c.a, CopyToBytes[c.b][n].rest))
      BY <1>1, <1>3, <3>1, CopyCases
    <3> QED BY <1>1, <3>2
  <2> HIDE DEF r
  <2>4. Moved(c, Chained(a, r.rest), n)
    BY <1>4, <2>1, <2>2, MovedNone
  <2>5. Content[a] \o Content[b] = Content[b]
    <3>1. Content[a] = <<>>
      BY <1>2, <1>3, <1>6
    <3> QED BY <1>2, <3>1
  <2>6. CopyToBytes[c][n].bytes = r.bytes /\ CopyToBytes[c][n].rest = Chained(a, r.rest)
    BY <2>3 DEF Copied
  <2> QED BY <1>2, <2>2, <2>4, <2>5, <2>6 DEF CopiesFirst, c
<1>7. CASE n > Remaining[a] /\ Remaining[a] # 0
  <2> DEFINE k == n - Remaining[a]
             t == TakeOf(b, k)
             x == Drained[a]
             y == Drained[t]
  <2>1. k \in Nat /\ k \in 0..Remaining[b] /\ Least(Remaining[a], n) = Remaining[a] /\ Beyond(n, Remaining[a]) = k
        /\ Remaining[a] + k = n
    BY <1>3, <1>7 DEF Least, Beyond
  <2>2. t \in Buf /\ Least(Remaining[b], k) = k
    BY <1>3, <2>1, TakeBeside DEF Least
  <2>3. x.bytes = Content[a] /\ Moved(a, x.rest, Remaining[a])
    BY DrainedLaw DEF Drains
  <2>4. Content[t] = First(Content[b], k) /\ Remaining[t] = k
    BY <2>1, <2>2, TakeFields
  <2>5. y.bytes = First(Content[b], k)
    BY <2>2, <2>4, DrainedLaw DEF Drains
  <2>6. Moved(b, y.rest.inner, k)
    <3>1. PICK z : y.rest = TakeOf(z, k - Remaining[t]) /\ Moved(b, z, Remaining[t])
      BY <2>1, <2>2, DrainedLaw DEF Drains, TakeDrains
    <3> QED BY <2>4, <3>1 DEF TakeOf
  <2>7. CopyToBytes[c][n] = Copied(x.bytes \o y.bytes, Chained(x.rest, y.rest.inner))
    <3>1. ~(Remaining[c.a] >= n) /\ Remaining[c.a] # 0
      BY <1>1, <1>3, <1>7
    <3>2. CopyToBytes[c][n] = ChainCopy(c, n)
      BY <1>1, <1>3, <3>1, CopyCases
    <3> QED BY <1>1, <3>2 DEF ChainCopy
  <2> HIDE DEF k, t, x, y
  <2>8. Moved(c, Chained(x.rest, y.rest.inner), n)
    BY <1>4, <2>1, <2>3, <2>6
  <2>9. First(Content[a] \o Content[b], Remaining[a] + k) = Content[a] \o First(Content[b], k)
    <3>1. First(Content[a] \o Content[b], Len(Content[a]) + k) = Content[a] \o First(Content[b], k)
      BY <1>2, <2>1, CutAcross
    <3> QED BY <1>3, <3>1
  <2>10. CopyToBytes[c][n].bytes = x.bytes \o y.bytes /\ CopyToBytes[c][n].rest = Chained(x.rest, y.rest.inner)
    <3> DEFINE bytes == x.bytes \o y.bytes
               rest == Chained(x.rest, y.rest.inner)
    <3>1. CopyToBytes[c][n] = Copied(bytes, rest)
      BY <2>7
    <3> HIDE DEF bytes, rest
    <3>2. CopyToBytes[c][n].bytes = bytes /\ CopyToBytes[c][n].rest = rest
      BY <3>1 DEF Copied
    <3> QED BY <3>2 DEF bytes, rest
  <2> QED BY <1>2, <2>1, <2>3, <2>5, <2>8, <2>9, <2>10 DEF CopiesFirst, c
<1>8. Remaining[a] >= n \/ n > Remaining[a]
  BY <1>3
<1> QED BY <1>5, <1>6, <1>7, <1>8

LEMMA CopyLaw == \A c \in Buf : \A n \in 0..Remaining[c] : CopiesFirst(c, n)
<1> DEFINE P == {c \in Buf : \A n \in 0..Remaining[c] : CopiesFirst(c, n)}
<1>1. \A s \in Seq(Byte) : Slice(s) \in P
  <2> TAKE s \in Seq(Byte)
  <2>1. Slice(s) \in Buf /\ \A n \in 0..Remaining[Slice(s)] : n \in Nat
    BY SliceFields, RemainingType
  <2> QED BY <2>1, CopySlice
<1>2. \A a, b \in Buf : a \in P /\ b \in P /\ Chained(a, b) \in Buf => Chained(a, b) \in P
  BY ChainFields, CopyChain
<1>3. \A c \in Buf, m \in Nat : c \in P /\ TakeOf(c, m) \in Buf => TakeOf(c, m) \in P
  <2> SUFFICES ASSUME NEW c \in Buf, c \in P, NEW m \in Nat, TakeOf(c, m) \in Buf PROVE TakeOf(c, m) \in P
    OBVIOUS
  <2>1. Remaining[TakeOf(c, m)] = Least(Remaining[c], m) /\ Remaining[c] \in Nat
    BY TakeFields, RemainingType
  <2>2. \A n \in 0..Remaining[TakeOf(c, m)] : n \in 0..m /\ n \in 0..Remaining[c]
    BY <2>1 DEF Least
  <2> QED BY <2>2, CopyTake
<1>4. \A c \in Buf : c \in P
  <2> HIDE DEF P
  <2> QED BY <1>1, <1>2, <1>3, BufInduction
<1> QED BY <1>4

-----------------------------------------------------------------------------
(* chunks_vectored.                                                        *)

LEMMA PiecesJoin ==
    ASSUME NEW v \in Pieces, NEW w \in Pieces
    PROVE  /\ v \o w \in Pieces /\ Len(v \o w) = Len(v) + Len(w)
           /\ (\A i \in 1..Len(v) : v[i] # <<>>) /\ (\A i \in 1..Len(w) : w[i] # <<>>)
                => \A i \in 1..Len(v \o w) : (v \o w)[i] # <<>>
<1>1. v \o w \in Pieces /\ Len(v \o w) = Len(v) + Len(w) /\ Len(v) \in Nat /\ Len(w) \in Nat
      /\ (\A i \in 1..Len(v) : (v \o w)[i] = v[i])
  BY JoinElements DEF Pieces
<1>2. ASSUME \A i \in 1..Len(v) : v[i] # <<>>, \A i \in 1..Len(w) : w[i] # <<>>, NEW i \in 1..Len(v \o w)
      PROVE  (v \o w)[i] # <<>>
  <2>1. CASE i <= Len(v)
    BY <1>1, <1>2, <2>1
  <2>2. CASE i > Len(v)
    <3>1. i \in (Len(v) + 1)..(Len(v) + Len(w))
      BY <1>1, <2>2
    <3>2. (v \o w)[i] = w[i - Len(v)] /\ i - Len(v) \in 1..Len(w)
      BY <3>1, JoinBehind DEF Pieces
    <3> QED BY <1>2, <3>2
  <2>3. i <= Len(v) \/ i > Len(v)
    BY <1>1
  <2> QED BY <2>1, <2>2, <2>3
<1> QED BY <1>1, <1>2

\* w is v cut at `limit`
CutsAt(v, limit, w) ==
    /\ w \in Pieces
    /\ Len(w) <= Len(v)
    /\ FlattenSeq(w) = First(FlattenSeq(v), limit)
    /\ (\A i \in 1..Len(v) : v[i] # <<>>) => \A i \in 1..Len(w) : w[i] # <<>>
    /\ v # <<>> /\ limit > 0 => w # <<>>
    /\ Len(w) < Len(v) => limit <= Len(FlattenSeq(v))

LEMMA CutNothing ==
    ASSUME NEW v \in Pieces, NEW limit \in Nat, v = <<>> \/ limit = 0
    PROVE  CutsAt(v, limit, CutAt[v][limit])
<1>1. CutAt[v][limit] = <<>>
  BY CutAtDef
<1>2. <<>> \in Pieces /\ Len(v) \in Nat /\ Len(<<>>) = 0
  BY DEF Pieces
<1>3. FlattenSeq(v) \in Seq(Byte)
  BY FlattenType
<1>4. First(FlattenSeq(v), limit) = <<>>
  <2>1. CASE limit = 0
    BY <1>3, <2>1, CutEnds
  <2>2. CASE v = <<>>
    <3>1. FlattenSeq(v) = <<>> /\ Len(<<>>) = 0 /\ limit >= 0
      BY <2>2, FlattenEmpty
    <3>2. First(FlattenSeq(v), limit) = FlattenSeq(v)
      BY <1>3, <3>1, CutEnds
    <3> QED BY <3>1, <3>2
  <2> QED BY <2>1, <2>2
<1>5. Len(<<>>) < Len(v) => limit <= Len(FlattenSeq(v))
  <2>1. Len(FlattenSeq(v)) \in Nat
    BY <1>3
  <2>2. v = <<>> => Len(v) = 0
    OBVIOUS
  <2> QED BY <1>2, <2>1, <2>2
<1> QED BY <1>1, <1>2, <1>4, <1>5, FlattenEmpty DEF CutsAt

LEMMA HeadTail ==
    ASSUME NEW v \in Pieces, v # <<>>
    PROVE  /\ Head(v) \in Seq(Byte) /\ Tail(v) \in Pieces
           /\ Len(v) = 1 + Len(Tail(v))
           /\ v = <<Head(v)>> \o Tail(v)
           /\ Head(v) = v[1]
           /\ \A i \in 1..Len(Tail(v)) : Tail(v)[i] = v[i + 1] /\ i + 1 \in 1..Len(v)
           /\ FlattenSeq(v) = Head(v) \o FlattenSeq(Tail(v))
<1>1. Head(v) \in Seq(Byte) /\ Tail(v) \in Pieces /\ Len(v) = 1 + Len(Tail(v)) /\ Head(v) = v[1]
      /\ \A i \in 1..Len(Tail(v)) : Tail(v)[i] = v[i + 1] /\ i + 1 \in 1..Len(v)
  BY DEF Pieces
<1>2. v = <<Head(v)>> \o Tail(v)
  <2>1. <<Head(v)>> \in Pieces /\ Len(<<Head(v)>>) = 1 /\ <<Head(v)>>[1] = v[1]
    BY <1>1 DEF Pieces
  <2> DEFINE h == <<Head(v)>>
             t == Tail(v)
  <2> HIDE DEF h, t
  <2>2. h \in Pieces /\ Len(h) = 1 /\ h[1] = v[1] /\ t \in Pieces /\ Len(v) = 1 + Len(t)
        /\ \A i \in 1..Len(t) : t[i] = v[i + 1]
    BY <1>1, <2>1 DEF h, t
  <2>a. h \in Pieces /\ t \in Pieces
    BY <2>2
  <2>b. h \o t \in Pieces /\ Len(h \o t) = Len(h) + Len(t)
    BY <2>a, PiecesJoin
  <2>3. h \o t \in Pieces /\ Len(h \o t) = Len(v)
    BY <2>2, <2>b
  <2>4. ASSUME NEW i \in 1..Len(v) PROVE (h \o t)[i] = v[i]
    <3>1. CASE i = 1
      <4>1. 1 \in 1..Len(h)
        BY <2>2
      <4>2. (h \o t)[1] = h[1]
        BY <2>a, <4>1, JoinElements DEF Pieces
      <4> QED BY <2>2, <3>1, <4>2
    <3>2. CASE i # 1
      <4>1. i \in (Len(h) + 1)..(Len(h) + Len(t)) /\ (i - 1) + 1 = i
        BY <2>2, <3>2 DEF Pieces
      <4>2. (h \o t)[i] = t[i - Len(h)] /\ i - Len(h) \in 1..Len(t)
        BY <2>a, <4>1, JoinBehind DEF Pieces
      <4>3. i - Len(h) = i - 1
        BY <2>2
      <4>4. v[(i - 1) + 1] = t[i - 1]
        BY <2>2, <4>2, <4>3
      <4> QED BY <4>1, <4>2, <4>3, <4>4
    <3> QED BY <3>1, <3>2
  <2>5. h \o t = v
    BY <2>3, <2>4, SameSeq DEF Pieces
  <2> QED BY <2>5 DEF h, t
<1>3. FlattenSeq(v) = Head(v) \o FlattenSeq(Tail(v))
  <2>1. <<Head(v)>> \in Pieces /\ FlattenSeq(<<Head(v)>>) = Head(v)
    BY <1>1, FlattenOne
  <2>2. FlattenSeq(<<Head(v)>> \o Tail(v)) = FlattenSeq(<<Head(v)>>) \o FlattenSeq(Tail(v))
    BY <1>1, <2>1, FlattenJoin
  <2> QED BY <1>2, <2>1, <2>2
<1> QED BY <1>1, <1>2, <1>3

LEMMA CutOneMore ==
    ASSUME NEW v \in Pieces, NEW limit \in Nat, v # <<>>, limit # 0,
           \A m \in Nat : CutsAt(Tail(v), m, CutAt[Tail(v)][m])
    PROVE  CutsAt(v, limit, CutAt[v][limit])
<1> DEFINE h == Head(v)
           t == Tail(v)
           m == Beyond(limit, Len(h))
           u == CutAt[t][m]
           f == First(h, limit)
<1>1. h \in Seq(Byte) /\ t \in Pieces /\ Len(v) = 1 + Len(t) /\ h = v[1]
      /\ (\A i \in 1..Len(t) : t[i] = v[i + 1] /\ i + 1 \in 1..Len(v))
      /\ FlattenSeq(v) = h \o FlattenSeq(t)
  BY HeadTail
<1>2. Len(h) \in Nat /\ m \in Nat /\ Len(t) \in Nat
  BY <1>1 DEF Beyond, Pieces
<1>3. CutsAt(t, m, u)
  BY <1>2
<1>4. CutAt[v][limit] = <<f>> \o u
  BY CutAtDef
<1>5. f \in Seq(Byte) /\ Len(f) = Least(limit, Len(h))
  BY <1>1, FirstType
<1> HIDE DEF h, t, u
<1>6. u \in Pieces /\ Len(u) <= Len(t) /\ FlattenSeq(u) = First(FlattenSeq(t), m)
  BY <1>3 DEF CutsAt
<1>7. FlattenSeq(t) \in Seq(Byte) /\ Len(FlattenSeq(t)) \in Nat
  BY <1>1, FlattenType
<1>8. First(h \o FlattenSeq(t), limit) = First(h, Least(Len(h), limit)) \o First(FlattenSeq(t), m)
  BY <1>1, <1>7, CutJoined
<1>9. First(h, Least(Len(h), limit)) = f
  <2>1. CASE limit <= Len(h)
    <3>1. Least(Len(h), limit) = limit
      BY <1>2, <2>1 DEF Least
    <3> QED BY <3>1
  <2>2. CASE limit > Len(h)
    <3>1. Least(Len(h), limit) = Len(h) /\ Len(h) >= Len(h) /\ limit >= Len(h)
      BY <1>2, <2>2 DEF Least
    <3>2. First(h, Len(h)) = h /\ First(h, limit) = h
      BY <1>1, <1>2, <3>1, CutEnds
    <3> QED BY <3>1, <3>2
  <2> QED BY <1>2, <2>1, <2>2
<1> HIDE DEF f
<1>10. <<f>> \in Pieces /\ FlattenSeq(<<f>>) = f
  BY <1>5, FlattenOne
<1> DEFINE w == <<f>> \o u
<1>11. FlattenSeq(w) = f \o FlattenSeq(u)
  BY <1>6, <1>10, FlattenJoin
<1>12. w \in Pieces /\ Len(<<f>>) = 1 /\ Len(w) = 1 + Len(u) /\ Len(u) \in Nat
  BY <1>6, <1>10, PiecesJoin DEF Pieces
<1>13. ASSUME \A i \in 1..Len(v) : v[i] # <<>> PROVE \A i \in 1..Len(w) : w[i] # <<>>
  <2>1. h # <<>>
    BY <1>1, <1>2, <1>13
  <2>2. f # <<>>
    <3>1. Len(h) # 0 /\ Len(f) # 0
      BY <1>1, <1>2, <1>5, <2>1 DEF Least
    <3> QED BY <3>1
  <2>3. \A i \in 1..Len(<<f>>) : <<f>>[i] # <<>>
    BY <2>2, <1>12
  <2>4. \A i \in 1..Len(t) : t[i] # <<>>
    BY <1>1, <1>13
  <2>5. \A i \in 1..Len(u) : u[i] # <<>>
    BY <1>3, <2>4 DEF CutsAt
  <2> QED BY <1>6, <1>10, <2>3, <2>5, PiecesJoin
<1>14. ASSUME Len(w) < Len(v) PROVE limit <= Len(FlattenSeq(v))
  <2>1. Len(u) < Len(t)
    BY <1>1, <1>2, <1>12, <1>14
  <2>2. m <= Len(FlattenSeq(t))
    BY <1>3, <2>1 DEF CutsAt
  <2>3. Len(FlattenSeq(v)) = Len(h) + Len(FlattenSeq(t))
    BY <1>1, <1>7, JoinElements
  <2>4. limit <= Len(h) + m
    BY <1>2 DEF Beyond
  <2> QED BY <1>2, <1>7, <2>2, <2>3, <2>4
<1>15. w # <<>>
  <2>1. Len(w) # 0
    BY <1>12
  <2> QED BY <2>1
<1>16. FlattenSeq(w) = First(FlattenSeq(v), limit)
  BY <1>1, <1>6, <1>8, <1>9, <1>11
<1>17. Len(w) <= Len(v)
  BY <1>1, <1>2, <1>6, <1>12
<1> HIDE DEF w
<1>18. CutsAt(v, limit, w)
  BY <1>12, <1>13, <1>14, <1>15, <1>16, <1>17 DEF CutsAt
<1> QED BY <1>4, <1>18 DEF w

LEMMA CutAtLaw == \A v \in Pieces : \A limit \in Nat : CutsAt(v, limit, CutAt[v][limit])
<1> DEFINE N == {n \in Nat : \A v \in Pieces : Len(v) = n => \A limit \in Nat : CutsAt(v, limit, CutAt[v][limit])}
<1>1. 0 \in N
  <2>1. ASSUME NEW v \in Pieces, Len(v) = 0 PROVE v = <<>>
    BY <2>1 DEF Pieces
  <2> QED BY <2>1, CutNothing
<1>2. ASSUME NEW n \in Nat, n \in N PROVE n + 1 \in N
  <2>1. ASSUME NEW v \in Pieces, Len(v) = n + 1, NEW limit \in Nat PROVE CutsAt(v, limit, CutAt[v][limit])
    <3>1. v # <<>>
      BY <2>1
    <3>2. Tail(v) \in Pieces /\ Len(Tail(v)) = n
      BY <2>1, <3>1 DEF Pieces
    <3>3. \A m \in Nat : CutsAt(Tail(v), m, CutAt[Tail(v)][m])
      BY <1>2, <3>2
    <3> QED BY <3>1, <3>3, CutNothing, CutOneMore
  <2> QED BY <2>1
<1>3. \A n \in Nat : n \in N
  <2> HIDE DEF N
  <2> QED BY <1>1, <1>2, NumberInduction
<1>4. \A v \in Pieces : Len(v) \in Nat
  BY DEF Pieces
<1> QED BY <1>3, <1>4

LEMMA PartsType == \A c \in Buf : Parts[c] \in Nat \ {0}
<1> DEFINE P == {c \in Buf : Parts[c] \in Nat \ {0}}
<1>1. \A s \in Seq(Byte) : Slice(s) \in P
  <2> TAKE s \in Seq(Byte)
  <2>1. Slice(s) \in Buf /\ Slice(s).kind = "slice"
    BY SliceFields DEF Slice
  <2> QED BY <2>1, PartsDef
<1>2. \A a, b \in Buf : a \in P /\ b \in P /\ Chained(a, b) \in Buf => Chained(a, b) \in P
  BY PartsDef DEF Chained
<1>3. \A c \in Buf, m \in Nat : c \in P /\ TakeOf(c, m) \in Buf => TakeOf(c, m) \in P
  BY PartsDef DEF TakeOf
<1>4. \A c \in Buf : c \in P
  <2> HIDE DEF P
  <2> QED BY <1>1, <1>2, <1>3, BufInduction
<1> QED BY <1>4

\* What chunks_vectored shows of c in `slots` slots: few enough slices, none of them empty ...
Tidy(c, slots, v) ==
    /\ v \in Pieces
    /\ Len(v) <= slots
    /\ Len(v) <= Parts[c]
    /\ \A i \in 1..Len(v) : v[i] # <<>>
    /\ slots > 0 /\ Remaining[c] > 0 => v # <<>>
\* ... that are the front of the content, unless a take inside did not look far enough; and all
\* of it, if the slots were enough.
Whole(c, slots) == slots <= TakeSlices \/ Narrow[c]
Shows(c, slots) ==
    LET v == ChunksVectored[c][slots]
    IN  /\ Tidy(c, slots, v)
        /\ Gapless(c, slots) => Leads(FlattenSeq(v), Content[c])
        /\ Whole(c, slots) /\ (Len(v) < slots \/ Parts[c] <= slots) => FlattenSeq(v) = Content[c]

LEMMA ShowsSlice ==
    ASSUME NEW s \in Seq(Byte), NEW slots \in Nat
    PROVE  Shows(Slice(s), slots)
<1> DEFINE c == Slice(s)
           v == ChunksVectored[c][slots]
<1>1. c.kind = "slice" /\ c.bytes = s /\ c \in Buf /\ Content[c] = s /\ Remaining[c] = Len(s)
  BY SliceFields DEF Slice
<1>2. Parts[c] = 1 /\ Len(s) \in Nat
  BY <1>1, PartsDef
<1> HIDE DEF c
<1>3. v = IF slots = 0 \/ s = <<>> THEN <<>> ELSE <<s>>
  <2>1. ChunksVectored[c][slots] = SliceVectored(c, slots)
    BY <1>1, ChunksVectoredDef
  <2> QED BY <1>1, <2>1 DEF SliceVectored
<1> HIDE DEF v
<1>4. CASE slots = 0 \/ s = <<>>
  <2>1. v = <<>> /\ v \in Pieces /\ Len(v) = 0 /\ FlattenSeq(v) = <<>>
    BY <1>3, <1>4, FlattenEmpty DEF Pieces
  <2>2. First(s, 0) = <<>> /\ Len(<<>>) = 0
    BY CutEnds
  <2>3. Tidy(c, slots, v)
    <3>1. s = <<>> => Len(s) = 0
      OBVIOUS
    <3> QED BY <1>1, <1>2, <1>4, <2>1, <3>1 DEF Tidy
  <2>4. Leads(FlattenSeq(v), Content[c])
    BY <1>1, <2>1, <2>2 DEF Leads
  <2>5. Len(v) < slots \/ Parts[c] <= slots => FlattenSeq(v) = Content[c]
    BY <1>1, <1>2, <1>4, <2>1
  <2> QED BY <2>3, <2>4, <2>5 DEF Shows, v, c
<1>5. CASE slots # 0 /\ s # <<>>
  <2>1. v = <<s>>
    BY <1>3, <1>5
  <2>2. v \in Pieces /\ Len(v) = 1 /\ FlattenSeq(v) = s /\ v[1] = s
    BY <2>1, FlattenOne
  <2>3. Tidy(c, slots, v)
    <3>1. v # <<>>
      BY <2>1
    <3> QED BY <1>1, <1>2, <1>5, <2>2, <3>1 DEF Tidy
  <2>4. Leads(FlattenSeq(v), Content[c])
    <3>1. First(s, Len(s)) = s
      BY <1>2, CutEnds
    <3> QED BY <1>1, <2>2, <3>1 DEF Leads
  <2>5. FlattenSeq(v) = Content[c]
    BY <1>1, <2>2
  <2> QED BY <2>3, <2>4, <2>5 DEF Shows, v, c
<1> QED BY <1>4, <1>5

LEMMA NarrowChain ==
    ASSUME NEW a, NEW b, Chained(a, b) \in Buf
    PROVE  Narrow[Chained(a, b)] = (Narrow[a] /\ Narrow[b])
<1>1. PICK c : c = Chained(a, b)
  OBVIOUS
<1>2. c \in Buf /\ c.kind = "chain" /\ c.a = a /\ c.b = b
  BY <1>1 DEF Chained
<1>3. Narrow[c] = (Narrow[c.a] /\ Narrow[c.b])
  <2>1. c.kind # "slice"
    BY <1>2
  <2> QED BY <1>2, <2>1, NarrowDef, Zenon
<1> QED BY <1>1, <1>2, <1>3

LEMMA ShowsChain ==
    ASSUME NEW a \in Buf, NEW b \in Buf, Chained(a, b) \in Buf, NEW slots \in Nat,
           \A n \in Nat : Shows(a, n), \A n \in Nat : Shows(b, n)
    PROVE  Shows(Chained(a, b), slots)
<1> DEFINE c == Chained(a, b)
           v == ChunksVectored[a][slots]
           left == slots - Len(v)
           w == ChunksVectored[b][left]
           vw == v \o w
<1>1. c.kind = "chain" /\ c.a = a /\ c.b = b /\ c \in Buf
  BY DEF Chained
<1>2. Content[c] = Content[a] \o Content[b] /\ Remaining[c] = Remaining[a] + Remaining[b]
  BY ChainFields
<1>a. Content[a] \in Seq(Byte) /\ Content[b] \in Seq(Byte)
  BY ContentLaw
<1>b. Remaining[a] \in Nat /\ Remaining[b] \in Nat
  BY RemainingType
<1>3. Parts[c] = Parts[a] + Parts[b] /\ Parts[a] \in Nat \ {0} /\ Parts[b] \in Nat \ {0}
  BY <1>1, PartsDef, PartsType
<1>4. Narrow[c] = (Narrow[a] /\ Narrow[b])
  BY NarrowChain
<1> HIDE DEF c
<1>5. ChunksVectored[c][slots] = vw
  BY <1>1, ChunksVectoredDef DEF ChainVectored
<1>6. Tidy(a, slots, v)
  BY DEF Shows
<1>7. v \in Pieces /\ Len(v) \in Nat /\ left \in Nat
  BY <1>6 DEF Tidy, Pieces
<1>8. Shows(a, slots) /\ Shows(b, left)
  BY <1>7
<1>9. Tidy(b, left, w)
  BY <1>8 DEF Shows
<1>10. Gapless(b, left) => Leads(FlattenSeq(w), Content[b])
  BY <1>8 DEF Shows
<1>11. Whole(b, left) /\ (Len(w) < left \/ Parts[b] <= left) => FlattenSeq(w) = Content[b]
  BY <1>8 DEF Shows
<1>12. Gapless(a, slots) => Leads(FlattenSeq(v), Content[a])
  BY <1>8 DEF Shows
<1>13. Whole(a, slots) /\ (Len(v) < slots \/ Parts[a] <= slots) => FlattenSeq(v) = Content[a]
  BY <1>8 DEF Shows
<1> HIDE DEF v, w
<1>14. w \in Pieces /\ Len(w) \in Nat
  BY <1>9 DEF Tidy, Pieces
<1>15. vw \in Pieces /\ Len(vw) = Len(v) + Len(w) /\ FlattenSeq(vw) = FlattenSeq(v) \o FlattenSeq(w)
  BY <1>7, <1>14, PiecesJoin, FlattenJoin
<1>16. FlattenSeq(v) \in Seq(Byte) /\ FlattenSeq(w) \in Seq(Byte)
  BY <1>7, <1>14, FlattenType
<1>17. Tidy(c, slots, vw)
  <2>1. \A i \in 1..Len(vw) : vw[i] # <<>>
    BY <1>6, <1>7, <1>9, <1>14, PiecesJoin DEF Tidy
  <2>2. Len(v) + Len(w) <= slots /\ Len(v) + Len(w) <= Parts[c]
    <3>1. Len(v) <= Parts[a] /\ Len(w) <= left /\ Len(w) <= Parts[b]
      BY <1>6, <1>9 DEF Tidy
    <3> QED BY <1>3, <1>7, <1>14, <3>1
  <2>3. ASSUME slots > 0, Remaining[c] > 0 PROVE vw # <<>>
    <3>1. Remaining[a] > 0 => v # <<>>
      BY <1>6, <2>3 DEF Tidy
    <3>2. v # <<>> => Len(v) # 0
      BY <1>7 DEF Pieces
    <3>3. w # <<>> => Len(w) # 0
      BY <1>14 DEF Pieces
    <3>4. Len(v) = 0 => left > 0
      BY <1>7, <2>3
    <3>5. left > 0 /\ Remaining[b] > 0 => w # <<>>
      BY <1>9 DEF Tidy
    <3>6. Remaining[a] > 0 \/ Remaining[b] > 0
      BY <1>2, <1>b, <2>3
    <3>7. Len(vw) # 0
      BY <1>7, <1>14, <1>15, <3>1, <3>2, <3>3, <3>4, <3>5, <3>6
    <3> QED BY <3>7
  <2> HIDE DEF vw
  <2> QED BY <1>15, <2>1, <2>2, <2>3 DEF Tidy
<1>18. ASSUME Gapless(c, slots) PROVE /\ Whole(a, slots) /\ Whole(b, left)
                                        /\ Gapless(a, slots) /\ Gapless(b, left)
  <2>1. slots <= TakeSlices \/ Narrow[c]
    BY <1>1, <1>18 DEF Gapless
  <2>2. left <= slots
    BY <1>7
  <2>3. TakeSlices \in Nat
    BY CursorsAssumption
  <2>4. CASE slots <= TakeSlices
    <3>1. left <= TakeSlices
      BY <1>7, <2>2, <2>3, <2>4
    <3> QED BY <2>4, <3>1 DEF Whole, Gapless
  <2>5. CASE Narrow[c]
    BY <1>4, <2>5 DEF Whole, Gapless
  <2> QED BY <2>1, <2>4, <2>5
<1>19. ASSUME Gapless(c, slots) PROVE Leads(FlattenSeq(vw), Content[c])
  <2>1. CASE Len(v) = slots
    <3>1. left = 0
      BY <1>7, <2>1
    <3>2. Len(w) = 0
      BY <1>9, <1>14, <3>1 DEF Tidy
    <3>3. w = <<>>
      BY <1>14, <3>2 DEF Pieces
    <3>4. FlattenSeq(vw) = FlattenSeq(v)
      BY <1>15, <1>16, <3>3, FlattenEmpty
    <3>5. Leads(FlattenSeq(v), Content[a])
      BY <1>12, <1>18, <1>19
    <3>6. Len(FlattenSeq(v)) <= Len(Content[a]) /\ Len(FlattenSeq(v)) \in Nat
      BY <1>a, <1>16, <3>5, LeadsIsPrefix
    <3>7. First(Content[a] \o Content[b], Len(FlattenSeq(v))) = First(Content[a], Len(FlattenSeq(v)))
      BY <1>a, <3>6, CutInside
    <3> QED BY <1>2, <3>4, <3>5, <3>7 DEF Leads
  <2>2. CASE Len(v) # slots
    <3>1. Len(v) < slots
      BY <1>6, <1>7, <2>2 DEF Tidy
    <3>2. FlattenSeq(v) = Content[a]
      BY <1>13, <1>18, <1>19, <3>1
    <3>3. Leads(FlattenSeq(w), Content[b])
      BY <1>10, <1>18, <1>19
    <3> DEFINE k == Len(FlattenSeq(w))
    <3>4. k \in Nat /\ FlattenSeq(w) = First(Content[b], k)
      BY <1>16, <3>3 DEF Leads
    <3>5. First(Content[a] \o Content[b], Len(Content[a]) + k) = Content[a] \o First(Content[b], k)
      BY <1>a, <3>4, CutAcross
    <3>6. Len(FlattenSeq(v) \o FlattenSeq(w)) = Len(Content[a]) + k
      BY <1>16, <3>2, JoinElements
    <3> QED BY <1>2, <1>15, <3>2, <3>4, <3>5, <3>6 DEF Leads
  <2> QED BY <2>1, <2>2
<1>20. ASSUME Whole(c, slots), Len(vw) < slots \/ Parts[c] <= slots PROVE FlattenSeq(vw) = Content[c]
  <2>1. Gapless(c, slots)
    BY <1>20 DEF Whole, Gapless
  <2>2. Len(v) <= Parts[a] /\ Len(v) <= slots
    BY <1>6 DEF Tidy
  <2>3. Len(v) < slots
    BY <1>3, <1>7, <1>14, <1>15, <1>20, <2>2
  <2>4. Len(w) < left \/ Parts[b] <= left
    BY <1>3, <1>7, <1>14, <1>15, <1>20, <2>2
  <2>5. FlattenSeq(v) = Content[a]
    BY <1>13, <1>18, <2>1, <2>3
  <2>6. FlattenSeq(w) = Content[b]
    BY <1>11, <1>18, <2>1, <2>4
  <2> QED BY <1>2, <1>15, <2>5, <2>6
<1> HIDE DEF vw
<1>21. Shows(c, slots)
  BY <1>5, <1>17, <1>19, <1>20 DEF Shows
<1> QED BY <1>21 DEF c

LEMMA ShowsTake ==
    ASSUME NEW e \in Buf, NEW limit \in Nat, TakeOf(e, limit) \in Buf, NEW slots \in Nat,
           \A n \in Nat : Shows(e, n)
    PROVE  Shows(TakeOf(e, limit), slots)
<1> DEFINE c == TakeOf(e, limit)
           seen == Least(slots, TakeSlices)
           v == ChunksVectored[e][seen]
           w == CutAt[v][limit]
<1>1. c.kind = "take" /\ c.inner = e /\ c.limit = limit /\ c \in Buf
  BY DEF TakeOf
<1>2. Content[c] = First(Content[e], limit) /\ Remaining[c] = Least(Remaining[e], limit)
  BY TakeFields
<1>a. Content[e] \in Seq(Byte) /\ Len(Content[e]) \in Nat
  BY ContentLaw
<1>b. Remaining[e] \in Nat /\ TakeSlices \in Nat \ {0}
  BY RemainingType, CursorsAssumption
<1>3. Parts[c] = Parts[e] /\ Parts[e] \in Nat \ {0}
  BY <1>1, PartsDef, PartsType
<1>4. Narrow[c] = (Narrow[e] /\ Parts[e] <= TakeSlices)
  BY <1>1, NarrowDef
<1> HIDE DEF c
<1>5. ChunksVectored[c][slots] = w
  BY <1>1, ChunksVectoredDef DEF TakeVectored
<1>6. seen \in Nat /\ seen <= slots /\ seen <= TakeSlices /\ (slots # 0 => seen # 0)
      /\ (slots <= TakeSlices => seen = slots) /\ (slots > TakeSlices => seen = TakeSlices)
  BY <1>b DEF Least
<1>7. Shows(e, seen)
  BY <1>6
<1>8. Tidy(e, seen, v)
  BY <1>7 DEF Shows
<1>9. Leads(FlattenSeq(v), Content[e])
  BY <1>6, <1>7 DEF Shows, Gapless
<1>10. Len(v) < seen \/ Parts[e] <= seen => FlattenSeq(v) = Content[e]
  BY <1>6, <1>7 DEF Shows, Whole
<1> HIDE DEF seen, v
<1>11. v \in Pieces /\ Len(v) \in Nat /\ Len(v) <= seen /\ Len(v) <= Parts[e]
  BY <1>8 DEF Tidy, Pieces
<1>12. CutsAt(v, limit, w)
  BY <1>11, CutAtLaw
<1> HIDE DEF w
<1>13. w \in Pieces /\ Len(w) \in Nat /\ Len(w) <= Len(v) /\ FlattenSeq(w) = First(FlattenSeq(v), limit)
  BY <1>12 DEF CutsAt, Pieces
<1>14. FlattenSeq(v) \in Seq(Byte) /\ FlattenSeq(w) \in Seq(Byte) /\ Len(FlattenSeq(v)) \in Nat
  BY <1>11, <1>13, FlattenType
<1>15. Tidy(c, slots, w)
  <2>1. \A i \in 1..Len(w) : w[i] # <<>>
    BY <1>8, <1>12 DEF Tidy, CutsAt
  <2>2. Len(w) <= slots /\ Len(w) <= Parts[c]
    BY <1>3, <1>6, <1>11, <1>13
  <2>3. ASSUME slots > 0, Remaining[c] > 0 PROVE w # <<>>
    <3>1. limit > 0 /\ Remaining[e] > 0
      BY <1>2, <1>b, <2>3 DEF Least
    <3>2. v # <<>>
      BY <1>6, <1>8, <2>3, <3>1 DEF Tidy
    <3> QED BY <1>12, <3>1, <3>2 DEF CutsAt
  <2> QED BY <1>13, <2>1, <2>2, <2>3 DEF Tidy
<1>16. FlattenSeq(v) = First(Content[e], Len(FlattenSeq(v)))
  BY <1>9 DEF Leads
<1>17. Leads(FlattenSeq(w), Content[c])
  <2> DEFINE k == Len(FlattenSeq(v))
  <2>1. First(First(Content[e], k), limit) = First(Content[e], Least(k, limit))
    BY <1>a, <1>14, FirstFirst
  <2>2. First(First(Content[e], limit), k) = First(Content[e], Least(limit, k))
    BY <1>a, <1>14, FirstFirst
  <2>3. Least(k, limit) = Least(limit, k)
    BY <1>14 DEF Least
  <2>4. FlattenSeq(w) = First(Content[c], k)
    BY <1>2, <1>13, <1>16, <2>1, <2>2, <2>3
  <2>5. Content[c] \in Seq(Byte) /\ k \in Nat
    BY <1>1, <1>14, ContentLaw
  <2> HIDE DEF k
  <2>6. Leads(First(Content[c], k), Content[c])
    BY <2>5, FirstLeads
  <2> QED BY <2>4, <2>6
<1>18. ASSUME Whole(c, slots), Len(w) < slots \/ Parts[c] <= slots PROVE FlattenSeq(w) = Content[c]
  <2>1. CASE Len(w) < Len(v)
    <3>1. limit <= Len(FlattenSeq(v))
      BY <1>12, <2>1 DEF CutsAt
    <3> DEFINE k == Len(FlattenSeq(v))
    <3>2. First(First(Content[e], k), limit) = First(Content[e], Least(k, limit))
      BY <1>a, <1>14, FirstFirst
    <3>3. Least(k, limit) = limit
      BY <1>14, <3>1 DEF Least
    <3> QED BY <1>2, <1>13, <1>16, <3>2, <3>3
  <2>2. CASE Len(w) = Len(v)
    <3>1. Len(v) < seen \/ Parts[e] <= seen
      <4>1. CASE slots <= TakeSlices
        BY <1>3, <1>6, <1>18, <2>2, <4>1
      <4>2. CASE slots > TakeSlices
        <5>1. Parts[e] <= TakeSlices
          <6>1. ~(slots <= TakeSlices)
            BY <1>b, <4>2
          <6>2. Narrow[c]
            BY <1>18, <6>1, Zenon DEF Whole
          <6> QED BY <1>4, <6>2, Zenon
        <5> QED BY <1>6, <4>2, <5>1
      <4> QED BY <1>b, <4>1, <4>2
    <3>2. FlattenSeq(v) = Content[e]
      BY <1>10, <3>1
    <3> QED BY <1>2, <1>13, <3>2
  <2> QED BY <1>11, <1>13, <2>1, <2>2
<1>19. Shows(c, slots)
  BY <1>5, <1>15, <1>17, <1>18 DEF Shows
<1> QED BY <1>19 DEF c

LEMMA VectoredLaw == \A c \in Buf : \A slots \in Nat : Shows(c, slots)
<1> DEFINE P == {c \in Buf : \A slots \in Nat : Shows(c, slots)}
<1>1. \A s \in Seq(Byte) : Slice(s) \in P
  BY ShowsSlice, SliceFields
<1>2. \A a, b \in Buf : a \in P /\ b \in P /\ Chained(a, b) \in Buf => Chained(a, b) \in P
  BY ShowsChain
<1>3. \A c \in Buf, m \in Nat : c \in P /\ TakeOf(c, m) \in Buf => TakeOf(c, m) \in P
  BY ShowsTake
<1>4. \A c \in Buf : c \in P
  <2> HIDE DEF P
  <2> QED BY <1>1, <1>2, <1>3, BufInduction
<1> QED BY <1>4

-----------------------------------------------------------------------------
(* What a program may do with bytes that lead the content of a cursor.     *)

LEMMA JoinThrice ==
    ASSUME NEW S, NEW s \in Seq(S), NEW t \in Seq(S), NEW u \in Seq(S)
    PROVE  (s \o t) \o u = s \o (t \o u)
OBVIOUS

LEMMA LeadsFirst ==
    ASSUME NEW S, NEW p \in Seq(S), NEW t \in Seq(S), Leads(p, t), NEW n \in 0..Len(p)
    PROVE  First(p, n) = First(t, n) /\ n \in 0..Len(t)
<1>1. Len(p) <= Len(t) /\ Len(p) \in Nat /\ Len(t) \in Nat /\ n \in Nat
  BY LeadsIsPrefix
<1>2. First(First(t, Len(p)), n) = First(t, Least(Len(p), n))
  BY <1>1, FirstFirst
<1>3. Least(Len(p), n) = n /\ n \in 0..Len(t)
  BY <1>1 DEF Least
<1>4. First(t, Len(p)) = p
  BY DEF Leads
<1> QED BY <1>2, <1>3, <1>4

LEMMA LeadsTwice ==
    ASSUME NEW S, NEW p \in Seq(S), NEW q \in Seq(S), NEW t \in Seq(S), Leads(p, q), Leads(q, t)
    PROVE  Leads(p, t)
<1>1. Len(p) <= Len(q) /\ Len(p) \in Nat /\ Len(q) \in Nat
  BY LeadsIsPrefix
<1>2. Len(p) \in 0..Len(q)
  BY <1>1
<1>3. First(q, Len(p)) = First(t, Len(p))
  BY <1>2, LeadsFirst
<1> QED BY <1>3 DEF Leads

\* the first slice of a list leads the list
LEMMA HeadLeads ==
    ASSUME NEW v \in Pieces, v # <<>>
    PROVE  Head(v) \in Seq(Byte) /\ Leads(Head(v), FlattenSeq(v))
<1>1. Head(v) \in Seq(Byte) /\ Tail(v) \in Pieces /\ FlattenSeq(v) = Head(v) \o FlattenSeq(Tail(v))
  BY HeadTail
<1> DEFINE h == Head(v)
           t == FlattenSeq(Tail(v))
<1>2. h \in Seq(Byte) /\ t \in Seq(Byte)
  BY <1>1, FlattenType
<1> HIDE DEF h, t
<1>3. Len(h) \in Nat /\ Len(h) <= Len(h) /\ Len(h) >= Len(h)
  BY <1>2
<1>4. First(h \o t, Len(h)) = First(h, Len(h))
  BY <1>2, <1>3, CutInside
<1>5. First(h, Len(h)) = h
  BY <1>2, <1>3, CutEnds
<1>6. Leads(h, h \o t)
  BY <1>4, <1>5 DEF Leads
<1> QED BY <1>1, <1>6 DEF h, t

-----------------------------------------------------------------------------
(* The trees that a BufMut can be, in the same way.                        *)

MutLeaves ==
    {m \in [kind : {"fixed", "vec"}, done : Seq(Cell), room : Seq(Cell)] : Len(m.done) + Len(m.room) <= IsizeMax}
Leaf(d) ==
    /\ d.kind \in {"fixed", "vec"}
    /\ d.done \in Seq(Cell) /\ d.room \in Seq(Cell)
    /\ Len(d.done) + Len(d.room) <= IsizeMax
    /\ d = [kind |-> d.kind, done |-> d.done, room |-> d.room]

LEMMA BufMutUpToDef ==
    \A d \in 0..Depth : BufMutUpTo[d] = MutLeaves \cup IF d = 0 THEN {} ELSE Chains(BufMutUpTo[d - 1])
<1> DEFINE body(f, d) == MutLeaves \cup IF d = 0 THEN {} ELSE Chains(f[d - 1])
           Good(f, d) == Fcn(f, 0..d) /\ \A e \in 0..d : f[e] = body(f, e)
           N == {d \in 0..Depth : \E f : Good(f, d)}
<1>0. Depth \in Nat
  BY CursorsAssumption
<1>1. 0 \in N
  <2> DEFINE g == [x \in 0..0 |-> MutLeaves]
  <2>1. Good(g, 0)
    BY DEF Fcn
  <2> HIDE DEF g
  <2> QED BY <2>1, <1>0
<1>2. ASSUME NEW d \in 1..Depth, d - 1 \in N PROVE d \in N
  <2>1. PICK f : Good(f, d - 1)
    BY <1>2
  <2> DEFINE g == [e \in 0..d |-> body(f, e)]
  <2>2. \A e \in 0..d : g[e] = body(f, e)
    BY Zenon
  <2>3. Fcn(g, 0..d)
    BY DEF Fcn
  <2> HIDE DEF g
  <2>4. \A e \in 0..(d-1) : e \in 0..d /\ f[e] = g[e]
    <3> TAKE e \in 0..(d-1)
    <3>1. e \in 0..d
      OBVIOUS
    <3>2. f[e] = body(f, e)
      BY <2>1
    <3>3. g[e] = body(f, e)
      BY <3>1, <2>2
    <3> QED BY <3>1, <3>2, <3>3
  <2>5. ASSUME NEW e \in 0..d PROVE g[e] = body(g, e)
     <3>1. e = 0 \/ e - 1 \in 0..(d-1)
       OBVIOUS
     <3>2. e = 0 \/ f[e - 1] = g[e - 1]
       BY <2>4, <3>1
     <3> QED BY <3>2, <2>2
  <2>6. Good(g, d)
    BY <2>5, <2>3
  <2> QED BY <2>6, <1>0
<1>3. Depth \in N
  <2> HIDE DEF N
  <2> QED BY <1>0, <1>1, <1>2, UpToInduction
<1>4. \E f : f = [d \in 0..Depth |-> body(f, d)]
  <2>1. PICK f : Good(f, Depth)
    BY <1>3
  <2>2. [d \in 0..Depth |-> f[d]] = [d \in 0..Depth |-> body(f, d)]
    BY <2>1
  <2>3. f = [d \in 0..Depth |-> f[d]]
    BY <2>1 DEF Fcn
  <2> HIDE DEF Good, body
  <2> QED BY <2>2, <2>3
<1>5. BufMutUpTo = CHOOSE f : f = [d \in 0..Depth |-> body(f, d)]
  BY Zenon DEF BufMutUpTo, MutLeaves, Chains
<1>6. BufMutUpTo = [d \in 0..Depth |-> body(BufMutUpTo, d)]
  <2> HIDE DEF body
  <2> QED BY <1>4, <1>5, Zenon
<1> QED BY <1>6, Zenon

LEMMA MutCases ==
    ASSUME NEW k \in 0..Depth, NEW d \in BufMutUpTo[k]
    PROVE  \/ Leaf(d)
           \/ k # 0 /\ d.kind = "chain" /\ d.a \in BufMutUpTo[k - 1] /\ d.b \in BufMutUpTo[k - 1] /\ d = Halves(d.a, d.b)
<1>1. d \in MutLeaves \/ (k # 0 /\ d \in Chains(BufMutUpTo[k - 1]))
  BY BufMutUpToDef
<1> QED BY <1>1 DEF MutLeaves, Leaf, Chains, Halves

LEMMA MutBuilt ==
    ASSUME NEW k \in 0..Depth
    PROVE  /\ \A d : Leaf(d) => d \in BufMutUpTo[k]
           /\ k # 0 => \A a, b \in BufMutUpTo[k - 1] : Halves(a, b) \in BufMutUpTo[k]
<1>1. BufMutUpTo[k] = MutLeaves \cup IF k = 0 THEN {} ELSE Chains(BufMutUpTo[k - 1])
  BY BufMutUpToDef
<1>2. ASSUME NEW d, Leaf(d) PROVE d \in MutLeaves
  BY <1>2 DEF Leaf, MutLeaves
<1>3. k # 0 => \A a, b \in BufMutUpTo[k - 1] : Halves(a, b) \in Chains(BufMutUpTo[k - 1])
  BY DEF Halves, Chains
<1> QED BY <1>1, <1>2, <1>3

LEMMA MutGrows ==
    ASSUME NEW k \in 0..Depth
    PROVE  BufMutUpTo[k] \subseteq BufMut /\ (k # 0 => BufMutUpTo[k - 1] \subseteq BufMutUpTo[k])
<1>0. Depth \in Nat
  BY CursorsAssumption
<1>1. \A e \in 1..Depth : BufMutUpTo[e - 1] \subseteq BufMutUpTo[e]
  <2> DEFINE N == {e \in 0..Depth : e = 0 \/ BufMutUpTo[e - 1] \subseteq BufMutUpTo[e]}
  <2>1. 0 \in N
    BY <1>0
  <2>2. ASSUME NEW e \in 1..Depth, e - 1 \in N PROVE e \in N
    <3>1. e \in 0..Depth /\ e - 1 \in 0..Depth /\ e # 0
      BY <1>0
    <3>2. ASSUME NEW d \in BufMutUpTo[e - 1] PROVE d \in BufMutUpTo[e]
      <4>1. e - 1 # 0 => BufMutUpTo[(e - 1) - 1] \subseteq BufMutUpTo[e - 1]
        BY <2>2, <3>1
      <4>2. CASE Leaf(d)
        BY <4>2, <3>1, MutBuilt
      <4>3. CASE e - 1 # 0 /\ d = Halves(d.a, d.b) /\ d.a \in BufMutUpTo[e - 1] /\ d.b \in BufMutUpTo[e - 1]
        BY <4>3, <3>1, MutBuilt
      <4> QED BY <4>1, <4>2, <4>3, <3>1, MutCases
    <3> QED BY <3>1, <3>2
  <2>3. \A e \in 0..Depth : e \in N
    <3> HIDE DEF N
    <3> QED BY <1>0, <2>1, <2>2, UpToInduction
  <2> QED BY <2>3
<1>2. \A j \in 0..Depth : BufMutUpTo[Depth - j] \subseteq BufMut
  <2> DEFINE N == {j \in 0..Depth : BufMutUpTo[Depth - j] \subseteq BufMut}
  <2>1. 0 \in N
    BY <1>0 DEF BufMut
  <2>2. ASSUME NEW j \in 1..Depth, j - 1 \in N PROVE j \in N
    <3>1. j \in 0..Depth /\ Depth - (j - 1) \in 1..Depth /\ (Depth - (j - 1)) - 1 = Depth - j
      BY <1>0
    <3> QED BY <1>1, <3>1, <2>2
  <2>3. \A j \in 0..Depth : j \in N
    <3> HIDE DEF N
    <3> QED BY <1>0, <2>1, <2>2, UpToInduction
  <2> QED BY <2>3
<1>3. Depth - k \in 0..Depth /\ Depth - (Depth - k) = k /\ (k # 0 => k \in 1..Depth)
  BY <1>0
<1> QED BY <1>1, <1>2, <1>3

LEMMA MutShape ==
    ASSUME NEW d \in BufMut
    PROVE  \/ Leaf(d)
           \/ d.kind = "chain" /\ d.a \in BufMut /\ d.b \in BufMut /\ d = Halves(d.a, d.b)
<1>1. Depth \in 0..Depth /\ (Depth # 0 => Depth - 1 \in 0..Depth)
  BY CursorsAssumption
<1>2. Depth # 0 => BufMutUpTo[Depth - 1] \subseteq BufMut
  BY <1>1, MutGrows
<1> QED BY <1>1, <1>2, MutCases DEF BufMut

LEMMA MutInduction ==
    ASSUME NEW P,
           \A d \in BufMut : Leaf(d) => d \in P,
           \A a, b \in BufMut : a \in P /\ b \in P /\ Halves(a, b) \in BufMut => Halves(a, b) \in P
    PROVE  \A d \in BufMut : d \in P
<1> DEFINE N == {k \in 0..Depth : BufMutUpTo[k] \subseteq P}
<1>0. Depth \in Nat
  BY CursorsAssumption
<1>1. ASSUME NEW k \in 0..Depth, k = 0 \/ BufMutUpTo[k - 1] \subseteq P PROVE k \in N
  <2>1. ASSUME NEW d \in BufMutUpTo[k] PROVE d \in P
    <3>1. d \in BufMut
      BY MutGrows
    <3>2. CASE Leaf(d)
      BY <3>1, <3>2
    <3>3. CASE k # 0 /\ d.a \in BufMutUpTo[k - 1] /\ d.b \in BufMutUpTo[k - 1] /\ d = Halves(d.a, d.b)
      <4>1. d.a \in P /\ d.b \in P /\ d.a \in BufMut /\ d.b \in BufMut
        BY <1>1, <3>3, MutGrows
      <4> QED BY <4>1, <3>3, <3>1
    <3> QED BY <3>2, <3>3, MutCases
  <2> QED BY <2>1
<1>2. 0 \in N
  BY <1>0, <1>1
<1>3. ASSUME NEW k \in 1..Depth, k - 1 \in N PROVE k \in N
  BY <1>1, <1>3
<1>4. Depth \in N
  <2> HIDE DEF N
  <2> QED BY <1>0, <1>2, <1>3, UpToInduction
<1> QED BY <1>4 DEF BufMut

-----------------------------------------------------------------------------
(* The methods of BufMut, and their equations.                             *)

LEMMA RemainingMutDef ==
    \A d \in BufMut : RemainingMut[d] =
        IF d.kind = "fixed" THEN Len(d.room)
        ELSE IF d.kind = "vec" THEN IsizeMax - Len(d.done)
        ELSE RemainingMut[d.a] + RemainingMut[d.b]
<1> DEFINE body(f, d) ==
        IF d.kind = "fixed" THEN Len(d.room)
        ELSE IF d.kind = "vec" THEN IsizeMax - Len(d.done)
        ELSE f[d.a] + f[d.b]
      Good(f, k) == Fcn(f, BufMutUpTo[k]) /\ \A d \in BufMutUpTo[k] : f[d] = body(f, d)
      N == {k \in 0..Depth : \E f : Good(f, k)}
<1>0. Depth \in Nat BY CursorsAssumption
<1>1. ASSUME NEW k \in 0..Depth, NEW d \in BufMutUpTo[k], NEW f, NEW g,
             k = 0 \/ \A e \in BufMutUpTo[k - 1] : f[e] = g[e]
      PROVE  body(f, d) = body(g, d)
  <2>1. CASE Leaf(d)
    BY <2>1 DEF Leaf
  <2>2. CASE k # 0 /\ d.kind = "chain" /\ d.a \in BufMutUpTo[k - 1] /\ d.b \in BufMutUpTo[k - 1]
    <3>2. f[d.a] = g[d.a] /\ f[d.b] = g[d.b]
      BY <1>1, <2>2
    <3> QED BY <2>2, <3>2
  <2> QED BY <2>1, <2>2, MutCases
<1> HIDE DEF body
<1>2. ASSUME NEW k \in 0..Depth, NEW f, k = 0 \/ Good(f, k - 1)
      PROVE  k \in N
  <2> DEFINE g == [d \in BufMutUpTo[k] |-> body(f, d)]
  <2>1. \A d \in BufMutUpTo[k] : g[d] = body(f, d)
    BY Zenon
  <2>2. Fcn(g, BufMutUpTo[k])
    BY DEF Fcn
  <2> HIDE DEF g
  <2>3. k = 0 \/ \A e \in BufMutUpTo[k - 1] : f[e] = g[e]
    BY <1>2, <2>1, MutGrows
  <2>4. \A d \in BufMutUpTo[k] : g[d] = body(g, d)
    BY <2>1, <2>3, <1>1
  <2> QED BY <2>2, <2>4
<1>3. 0 \in N
  BY <1>0, <1>2
<1>4. ASSUME NEW k \in 1..Depth, k - 1 \in N PROVE k \in N
  <2>1. PICK f : Good(f, k - 1)
    BY <1>4
  <2>2. k \in 0..Depth
    OBVIOUS
  <2> QED BY <2>1, <2>2, <1>2
<1>5. Depth \in N
  <2> HIDE DEF N
  <2> QED BY <1>0, <1>3, <1>4, UpToInduction
<1>6. \E f : f = [d \in BufMut |-> body(f, d)]
  <2>1. PICK f : Good(f, Depth)
    BY <1>5
  <2>2. [d \in BufMut |-> f[d]] = [d \in BufMut |-> body(f, d)]
    BY <2>1 DEF BufMut
  <2>3. f = [d \in BufMut |-> f[d]]
    BY <2>1 DEF Fcn, BufMut
  <2> HIDE DEF Good
  <2> QED BY <2>2, <2>3
<1>7. RemainingMut = CHOOSE f : f = [d \in BufMut |-> body(f, d)]
  BY DEF RemainingMut, body
<1>8. RemainingMut = [d \in BufMut |-> body(RemainingMut, d)]
  BY <1>6, <1>7, Zenon
<1>9. \A d \in BufMut : RemainingMut[d] = body(RemainingMut, d)
  BY <1>8, Zenon
<1> QED BY <1>9, Zenon DEF body


LEMMA OpenedDef ==
    \A d \in BufMut : Opened[d] =
        IF d.kind = "fixed" THEN d
        ELSE IF d.kind = "vec" THEN VecOpened(d)
        ELSE OnSide(d, Opened)
<1> DEFINE body(f, d) ==
        IF d.kind = "fixed" THEN d
        ELSE IF d.kind = "vec" THEN VecOpened(d)
        ELSE OnSide(d, f)
      Good(f, k) == Fcn(f, BufMutUpTo[k]) /\ \A d \in BufMutUpTo[k] : f[d] = body(f, d)
      N == {k \in 0..Depth : \E f : Good(f, k)}
<1>0. Depth \in Nat BY CursorsAssumption
<1>1. ASSUME NEW k \in 0..Depth, NEW d \in BufMutUpTo[k], NEW f, NEW g,
             k = 0 \/ \A e \in BufMutUpTo[k - 1] : f[e] = g[e]
      PROVE  body(f, d) = body(g, d)
  <2>1. CASE Leaf(d)
    BY <2>1 DEF Leaf
  <2>2. CASE k # 0 /\ d.kind = "chain" /\ d.a \in BufMutUpTo[k - 1] /\ d.b \in BufMutUpTo[k - 1]
    <3>2. f[d.a] = g[d.a] /\ f[d.b] = g[d.b]
      BY <1>1, <2>2
    <3> QED BY <2>2, <3>2 DEF OnSide
  <2> QED BY <2>1, <2>2, MutCases
<1> HIDE DEF body
<1>2. ASSUME NEW k \in 0..Depth, NEW f, k = 0 \/ Good(f, k - 1)
      PROVE  k \in N
  <2> DEFINE g == [d \in BufMutUpTo[k] |-> body(f, d)]
  <2>1. \A d \in BufMutUpTo[k] : g[d] = body(f, d)
    BY Zenon
  <2>2. Fcn(g, BufMutUpTo[k])
    BY DEF Fcn
  <2> HIDE DEF g
  <2>3. k = 0 \/ \A e \in BufMutUpTo[k - 1] : f[e] = g[e]
    BY <1>2, <2>1, MutGrows
  <2>4. \A d \in BufMutUpTo[k] : g[d] = body(g, d)
    BY <2>1, <2>3, <1>1
  <2> QED BY <2>2, <2>4
<1>3. 0 \in N
  BY <1>0, <1>2
<1>4. ASSUME NEW k \in 1..Depth, k - 1 \in N PROVE k \in N
  <2>1. PICK f : Good(f, k - 1)
    BY <1>4
  <2>2. k \in 0..Depth
    OBVIOUS
  <2> QED BY <2>1, <2>2, <1>2
<1>5. Depth \in N
  <2> HIDE DEF N
  <2> QED BY <1>0, <1>3, <1>4, UpToInduction
<1>6. \E f : f = [d \in BufMut |-> body(f, d)]
  <2>1. PICK f : Good(f, Depth)
    BY <1>5
  <2>2. [d \in BufMut |-> f[d]] = [d \in BufMut |-> body(f, d)]
    BY <2>1 DEF BufMut
  <2>3. f = [d \in BufMut |-> f[d]]
    BY <2>1 DEF Fcn, BufMut
  <2> HIDE DEF Good
  <2> QED BY <2>2, <2>3
<1>7. Opened = CHOOSE f : f = [d \in BufMut |-> body(f, d)]
  BY DEF Opened, body
<1>8. Opened = [d \in BufMut |-> body(Opened, d)]
  BY <1>6, <1>7, Zenon
<1>9. \A d \in BufMut : Opened[d] = body(Opened, d)
  BY <1>8, Zenon
<1> QED BY <1>9, Zenon DEF body


LEMMA ChunkRoomDef ==
    \A d \in BufMut : ChunkRoom[d] =
        IF d.kind = "fixed" THEN Len(d.room)
        ELSE IF d.kind = "vec" THEN Len(VecOpened(d).room)
        ELSE IF Side(d) = "a" THEN ChunkRoom[d.a] ELSE ChunkRoom[d.b]
<1> DEFINE body(f, d) ==
        IF d.kind = "fixed" THEN Len(d.room)
        ELSE IF d.kind = "vec" THEN Len(VecOpened(d).room)
        ELSE IF Side(d) = "a" THEN f[d.a] ELSE f[d.b]
      Good(f, k) == Fcn(f, BufMutUpTo[k]) /\ \A d \in BufMutUpTo[k] : f[d] = body(f, d)
      N == {k \in 0..Depth : \E f : Good(f, k)}
<1>0. Depth \in Nat BY CursorsAssumption
<1>1. ASSUME NEW k \in 0..Depth, NEW d \in BufMutUpTo[k], NEW f, NEW g,
             k = 0 \/ \A e \in BufMutUpTo[k - 1] : f[e] = g[e]
      PROVE  body(f, d) = body(g, d)
  <2>1. CASE Leaf(d)
    BY <2>1 DEF Leaf
  <2>2. CASE k # 0 /\ d.kind = "chain" /\ d.a \in BufMutUpTo[k - 1] /\ d.b \in BufMutUpTo[k - 1]
    <3>2. f[d.a] = g[d.a] /\ f[d.b] = g[d.b]
      BY <1>1, <2>2
    <3> QED BY <2>2, <3>2
  <2> QED BY <2>1, <2>2, MutCases
<1> HIDE DEF body
<1>2. ASSUME NEW k \in 0..Depth, NEW f, k = 0 \/ Good(f, k - 1)
      PROVE  k \in N
  <2> DEFINE g == [d \in BufMutUpTo[k] |-> body(f, d)]
  <2>1. \A d \in BufMutUpTo[k] : g[d] = body(f, d)
    BY Zenon
  <2>2. Fcn(g, BufMutUpTo[k])
    BY DEF Fcn
  <2> HIDE DEF g
  <2>3. k = 0 \/ \A e \in BufMutUpTo[k - 1] : f[e] = g[e]
    BY <1>2, <2>1, MutGrows
  <2>4. \A d \in BufMutUpTo[k] : g[d] = body(g, d)
    BY <2>1, <2>3, <1>1
  <2> QED BY <2>2, <2>4
<1>3. 0 \in N
  BY <1>0, <1>2
<1>4. ASSUME NEW k \in 1..Depth, k - 1 \in N PROVE k \in N
  <2>1. PICK f : Good(f, k - 1)
    BY <1>4
  <2>2. k \in 0..Depth
    OBVIOUS
  <2> QED BY <2>1, <2>2, <1>2
<1>5. Depth \in N
  <2> HIDE DEF N
  <2> QED BY <1>0, <1>3, <1>4, UpToInduction
<1>6. \E f : f = [d \in BufMut |-> body(f, d)]
  <2>1. PICK f : Good(f, Depth)
    BY <1>5
  <2>2. [d \in BufMut |-> f[d]] = [d \in BufMut |-> body(f, d)]
    BY <2>1 DEF BufMut
  <2>3. f = [d \in BufMut |-> f[d]]
    BY <2>1 DEF Fcn, BufMut
  <2> HIDE DEF Good
  <2> QED BY <2>2, <2>3
<1>7. ChunkRoom = CHOOSE f : f = [d \in BufMut |-> body(f, d)]
  BY DEF ChunkRoom, body
<1>8. ChunkRoom = [d \in BufMut |-> body(ChunkRoom, d)]
  BY <1>6, <1>7, Zenon
<1>9. \A d \in BufMut : ChunkRoom[d] = body(ChunkRoom, d)
  BY <1>8, Zenon
<1> QED BY <1>9, Zenon DEF body


LEMMA PokedDef ==
    \A d \in BufMut : Poked[d] =
        [bytes \in Seq(Byte) |->
            IF d.kind # "chain"
            THEN [d EXCEPT !.room = bytes \o Skip(@, Len(bytes))]
            ELSE IF Side(d) = "a" THEN Halves(Poked[d.a][bytes], d.b) ELSE Halves(d.a, Poked[d.b][bytes])]
<1> DEFINE body(f, d) ==
        [bytes \in Seq(Byte) |->
            IF d.kind # "chain"
            THEN [d EXCEPT !.room = bytes \o Skip(@, Len(bytes))]
            ELSE IF Side(d) = "a" THEN Halves(f[d.a][bytes], d.b) ELSE Halves(d.a, f[d.b][bytes])]
      Good(f, k) == Fcn(f, BufMutUpTo[k]) /\ \A d \in BufMutUpTo[k] : f[d] = body(f, d)
      N == {k \in 0..Depth : \E f : Good(f, k)}
<1>0. Depth \in Nat BY CursorsAssumption
<1>1. ASSUME NEW k \in 0..Depth, NEW d \in BufMutUpTo[k], NEW f, NEW g,
             k = 0 \/ \A e \in BufMutUpTo[k - 1] : f[e] = g[e]
      PROVE  body(f, d) = body(g, d)
  <2>1. CASE Leaf(d)
    BY <2>1 DEF Leaf
  <2>2. CASE k # 0 /\ d.kind = "chain" /\ d.a \in BufMutUpTo[k - 1] /\ d.b \in BufMutUpTo[k - 1]
    <3>2. f[d.a] = g[d.a] /\ f[d.b] = g[d.b]
      BY <1>1, <2>2
    <3> QED BY <2>2, <3>2
  <2> QED BY <2>1, <2>2, MutCases
<1> HIDE DEF body
<1>2. ASSUME NEW k \in 0..Depth, NEW f, k = 0 \/ Good(f, k - 1)
      PROVE  k \in N
  <2> DEFINE g == [d \in BufMutUpTo[k] |-> body(f, d)]
  <2>1. \A d \in BufMutUpTo[k] : g[d] = body(f, d)
    BY Zenon
  <2>2. Fcn(g, BufMutUpTo[k])
    BY DEF Fcn
  <2> HIDE DEF g
  <2>3. k = 0 \/ \A e \in BufMutUpTo[k - 1] : f[e] = g[e]
    BY <1>2, <2>1, MutGrows
  <2>4. \A d \in BufMutUpTo[k] : g[d] = body(g, d)
    BY <2>1, <2>3, <1>1
  <2> QED BY <2>2, <2>4
<1>3. 0 \in N
  BY <1>0, <1>2
<1>4. ASSUME NEW k \in 1..Depth, k - 1 \in N PROVE k \in N
  <2>1. PICK f : Good(f, k - 1)
    BY <1>4
  <2>2. k \in 0..Depth
    OBVIOUS
  <2> QED BY <2>1, <2>2, <1>2
<1>5. Depth \in N
  <2> HIDE DEF N
  <2> QED BY <1>0, <1>3, <1>4, UpToInduction
<1>6. \E f : f = [d \in BufMut |-> body(f, d)]
  <2>1. PICK f : Good(f, Depth)
    BY <1>5
  <2>2. [d \in BufMut |-> f[d]] = [d \in BufMut |-> body(f, d)]
    BY <2>1 DEF BufMut
  <2>3. f = [d \in BufMut |-> f[d]]
    BY <2>1 DEF Fcn, BufMut
  <2> HIDE DEF Good
  <2> QED BY <2>2, <2>3
<1>7. Poked = CHOOSE f : f = [d \in BufMut |-> body(f, d)]
  BY DEF Poked, body
<1>8. Poked = [d \in BufMut |-> body(Poked, d)]
  BY <1>6, <1>7, Zenon
<1>9. \A d \in BufMut : Poked[d] = body(Poked, d)
  BY <1>8, Zenon
<1> QED BY <1>9, Zenon DEF body


LEMMA AdvanceMutDef ==
    \A d \in BufMut : AdvanceMut[d] =
        [n \in Nat |->
            IF d.kind = "chain"
            THEN Halves(AdvanceMut[d.a][Least(RemainingMut[d.a], n)],
                        AdvanceMut[d.b][Beyond(n, RemainingMut[d.a])])
            ELSE [kind |-> d.kind, done |-> d.done \o First(d.room, n), room |-> Skip(d.room, n)]]
<1> DEFINE body(f, d) ==
        [n \in Nat |->
            IF d.kind = "chain"
            THEN Halves(f[d.a][Least(RemainingMut[d.a], n)],
                        f[d.b][Beyond(n, RemainingMut[d.a])])
            ELSE [kind |-> d.kind, done |-> d.done \o First(d.room, n), room |-> Skip(d.room, n)]]
      Good(f, k) == Fcn(f, BufMutUpTo[k]) /\ \A d \in BufMutUpTo[k] : f[d] = body(f, d)
      N == {k \in 0..Depth : \E f : Good(f, k)}
<1>0. Depth \in Nat BY CursorsAssumption
<1>1. ASSUME NEW k \in 0..Depth, NEW d \in BufMutUpTo[k], NEW f, NEW g,
             k = 0 \/ \A e \in BufMutUpTo[k - 1] : f[e] = g[e]
      PROVE  body(f, d) = body(g, d)
  <2>1. CASE Leaf(d)
    BY <2>1 DEF Leaf
  <2>2. CASE k # 0 /\ d.kind = "chain" /\ d.a \in BufMutUpTo[k - 1] /\ d.b \in BufMutUpTo[k - 1]
    <3>2. f[d.a] = g[d.a] /\ f[d.b] = g[d.b]
      BY <1>1, <2>2
    <3> QED BY <2>2, <3>2
  <2> QED BY <2>1, <2>2, MutCases
<1> HIDE DEF body
<1>2. ASSUME NEW k \in 0..Depth, NEW f, k = 0 \/ Good(f, k - 1)
      PROVE  k \in N
  <2> DEFINE g == [d \in BufMutUpTo[k] |-> body(f, d)]
  <2>1. \A d \in BufMutUpTo[k] : g[d] = body(f, d)
    BY Zenon
  <2>2. Fcn(g, BufMutUpTo[k])
    BY DEF Fcn
  <2> HIDE DEF g
  <2>3. k = 0 \/ \A e \in BufMutUpTo[k - 1] : f[e] = g[e]
    BY <1>2, <2>1, MutGrows
  <2>4. \A d \in BufMutUpTo[k] : g[d] = body(g, d)
    BY <2>1, <2>3, <1>1
  <2> QED BY <2>2, <2>4
<1>3. 0 \in N
  BY <1>0, <1>2
<1>4. ASSUME NEW k \in 1..Depth, k - 1 \in N PROVE k \in N
  <2>1. PICK f : Good(f, k - 1)
    BY <1>4
  <2>2. k \in 0..Depth
    OBVIOUS
  <2> QED BY <2>1, <2>2, <1>2
<1>5. Depth \in N
  <2> HIDE DEF N
  <2> QED BY <1>0, <1>3, <1>4, UpToInduction
<1>6. \E f : f = [d \in BufMut |-> body(f, d)]
  <2>1. PICK f : Good(f, Depth)
    BY <1>5
  <2>2. [d \in BufMut |-> f[d]] = [d \in BufMut |-> body(f, d)]
    BY <2>1 DEF BufMut
  <2>3. f = [d \in BufMut |-> f[d]]
    BY <2>1 DEF Fcn, BufMut
  <2> HIDE DEF Good
  <2> QED BY <2>2, <2>3
<1>7. AdvanceMut = CHOOSE f : f = [d \in BufMut |-> body(f, d)]
  BY DEF AdvanceMut, body
<1>8. AdvanceMut = [d \in BufMut |-> body(AdvanceMut, d)]
  BY <1>6, <1>7, Zenon
<1>9. \A d \in BufMut : AdvanceMut[d] = body(AdvanceMut, d)
  BY <1>8, Zenon
<1> QED BY <1>9, Zenon DEF body


LEMMA WrittenDef ==
    \A d \in BufMut : Written[d] =
        IF d.kind = "chain" THEN Written[d.a] \o Written[d.b] ELSE d.done
<1> DEFINE body(f, d) ==
        IF d.kind = "chain" THEN f[d.a] \o f[d.b] ELSE d.done
      Good(f, k) == Fcn(f, BufMutUpTo[k]) /\ \A d \in BufMutUpTo[k] : f[d] = body(f, d)
      N == {k \in 0..Depth : \E f : Good(f, k)}
<1>0. Depth \in Nat BY CursorsAssumption
<1>1. ASSUME NEW k \in 0..Depth, NEW d \in BufMutUpTo[k], NEW f, NEW g,
             k = 0 \/ \A e \in BufMutUpTo[k - 1] : f[e] = g[e]
      PROVE  body(f, d) = body(g, d)
  <2>1. CASE Leaf(d)
    BY <2>1 DEF Leaf
  <2>2. CASE k # 0 /\ d.kind = "chain" /\ d.a \in BufMutUpTo[k - 1] /\ d.b \in BufMutUpTo[k - 1]
    <3>2. f[d.a] = g[d.a] /\ f[d.b] = g[d.b]
      BY <1>1, <2>2
    <3> QED BY <2>2, <3>2
  <2> QED BY <2>1, <2>2, MutCases
<1> HIDE DEF body
<1>2. ASSUME NEW k \in 0..Depth, NEW f, k = 0 \/ Good(f, k - 1)
      PROVE  k \in N
  <2> DEFINE g == [d \in BufMutUpTo[k] |-> body(f, d)]
  <2>1. \A d \in BufMutUpTo[k] : g[d] = body(f, d)
    BY Zenon
  <2>2. Fcn(g, BufMutUpTo[k])
    BY DEF Fcn
  <2> HIDE DEF g
  <2>3. k = 0 \/ \A e \in BufMutUpTo[k - 1] : f[e] = g[e]
    BY <1>2, <2>1, MutGrows
  <2>4. \A d \in BufMutUpTo[k] : g[d] = body(g, d)
    BY <2>1, <2>3, <1>1
  <2> QED BY <2>2, <2>4
<1>3. 0 \in N
  BY <1>0, <1>2
<1>4. ASSUME NEW k \in 1..Depth, k - 1 \in N PROVE k \in N
  <2>1. PICK f : Good(f, k - 1)
    BY <1>4
  <2>2. k \in 0..Depth
    OBVIOUS
  <2> QED BY <2>1, <2>2, <1>2
<1>5. Depth \in N
  <2> HIDE DEF N
  <2> QED BY <1>0, <1>3, <1>4, UpToInduction
<1>6. \E f : f = [d \in BufMut |-> body(f, d)]
  <2>1. PICK f : Good(f, Depth)
    BY <1>5
  <2>2. [d \in BufMut |-> f[d]] = [d \in BufMut |-> body(f, d)]
    BY <2>1 DEF BufMut
  <2>3. f = [d \in BufMut |-> f[d]]
    BY <2>1 DEF Fcn, BufMut
  <2> HIDE DEF Good
  <2> QED BY <2>2, <2>3
<1>7. Written = CHOOSE f : f = [d \in BufMut |-> body(f, d)]
  BY DEF Written, body
<1>8. Written = [d \in BufMut |-> body(Written, d)]
  BY <1>6, <1>7, Zenon
<1>9. \A d \in BufMut : Written[d] = body(Written, d)
  BY <1>8, Zenon
<1> QED BY <1>9, Zenon DEF body

\* Nothing is written behind room that is free.
InOrder[d \in BufMut] ==
    IF d.kind = "chain"
    THEN InOrder[d.a] /\ InOrder[d.b] /\ (RemainingMut[d.a] > 0 => Written[d.b] = <<>>)
    ELSE TRUE

LEMMA InOrderDef ==
    \A d \in BufMut : InOrder[d] =
        IF d.kind = "chain"
        THEN InOrder[d.a] /\ InOrder[d.b] /\ (RemainingMut[d.a] > 0 => Written[d.b] = <<>>)
        ELSE TRUE
<1> DEFINE body(f, d) ==
        IF d.kind = "chain"
        THEN f[d.a] /\ f[d.b] /\ (RemainingMut[d.a] > 0 => Written[d.b] = <<>>)
        ELSE TRUE
      Good(f, k) == Fcn(f, BufMutUpTo[k]) /\ \A d \in BufMutUpTo[k] : f[d] = body(f, d)
      N == {k \in 0..Depth : \E f : Good(f, k)}
<1>0. Depth \in Nat BY CursorsAssumption
<1>1. ASSUME NEW k \in 0..Depth, NEW d \in BufMutUpTo[k], NEW f, NEW g,
             k = 0 \/ \A e \in BufMutUpTo[k - 1] : f[e] = g[e]
      PROVE  body(f, d) = body(g, d)
  <2>1. CASE Leaf(d)
    BY <2>1 DEF Leaf
  <2>2. CASE k # 0 /\ d.kind = "chain" /\ d.a \in BufMutUpTo[k - 1] /\ d.b \in BufMutUpTo[k - 1]
    <3>2. f[d.a] = g[d.a] /\ f[d.b] = g[d.b]
      BY <1>1, <2>2
    <3> QED BY <2>2, <3>2
  <2> QED BY <2>1, <2>2, MutCases
<1> HIDE DEF body
<1>2. ASSUME NEW k \in 0..Depth, NEW f, k = 0 \/ Good(f, k - 1)
      PROVE  k \in N
  <2> DEFINE g == [d \in BufMutUpTo[k] |-> body(f, d)]
  <2>1. \A d \in BufMutUpTo[k] : g[d] = body(f, d)
    BY Zenon
  <2>2. Fcn(g, BufMutUpTo[k])
    BY DEF Fcn
  <2> HIDE DEF g
  <2>3. k = 0 \/ \A e \in BufMutUpTo[k - 1] : f[e] = g[e]
    BY <1>2, <2>1, MutGrows
  <2>4. \A d \in BufMutUpTo[k] : g[d] = body(g, d)
    BY <2>1, <2>3, <1>1
  <2> QED BY <2>2, <2>4
<1>3. 0 \in N
  BY <1>0, <1>2
<1>4. ASSUME NEW k \in 1..Depth, k - 1 \in N PROVE k \in N
  <2>1. PICK f : Good(f, k - 1)
    BY <1>4
  <2>2. k \in 0..Depth
    OBVIOUS
  <2> QED BY <2>1, <2>2, <1>2
<1>5. Depth \in N
  <2> HIDE DEF N
  <2> QED BY <1>0, <1>3, <1>4, UpToInduction
<1>6. \E f : f = [d \in BufMut |-> body(f, d)]
  <2>1. PICK f : Good(f, Depth)
    BY <1>5
  <2>2. [d \in BufMut |-> f[d]] = [d \in BufMut |-> body(f, d)]
    BY <2>1 DEF BufMut
  <2>3. f = [d \in BufMut |-> f[d]]
    BY <2>1 DEF Fcn, BufMut
  <2> HIDE DEF Good
  <2> QED BY <2>2, <2>3
<1>7. InOrder = CHOOSE f : f = [d \in BufMut |-> body(f, d)]
  BY DEF InOrder, body
<1>8. InOrder = [d \in BufMut |-> body(InOrder, d)]
  BY <1>6, <1>7, Zenon
<1>9. \A d \in BufMut : InOrder[d] = body(InOrder, d)
  BY <1>8, Zenon
<1> QED BY <1>9, Zenon DEF body


LEMMA LeafFields ==
    ASSUME NEW d, Leaf(d)
    PROVE  /\ d \in BufMut /\ d.kind # "chain"
           /\ Written[d] = d.done /\ InOrder[d]
           /\ RemainingMut[d] = IF d.kind = "fixed" THEN Len(d.room) ELSE IsizeMax - Len(d.done)
           /\ RemainingMut[d] \in Nat
<1>1. Depth \in 0..Depth
  BY CursorsAssumption
<1>2. d \in BufMut
  BY <1>1, MutBuilt DEF BufMut
<1>3. d.kind # "chain" /\ (d.kind = "fixed" \/ d.kind = "vec")
  BY DEF Leaf
<1>4. Written[d] = d.done
  BY <1>2, <1>3, WrittenDef
<1>5. InOrder[d]
  BY <1>2, <1>3, InOrderDef
<1>6. RemainingMut[d] = IF d.kind = "fixed" THEN Len(d.room) ELSE IsizeMax - Len(d.done)
  BY <1>2, <1>3, RemainingMutDef
<1>7. Len(d.room) \in Nat /\ Len(d.done) \in Nat /\ Len(d.done) + Len(d.room) <= IsizeMax /\ IsizeMax \in Nat
  BY CursorsAssumption DEF Leaf
<1>8. RemainingMut[d] \in Nat
  <2> DEFINE r == Len(d.room)
             w == Len(d.done)
  <2>0. r \in Nat /\ w \in Nat /\ w + r <= IsizeMax /\ IsizeMax \in Nat
    BY <1>7
  <2> HIDE DEF r, w
  <2>a. r \in Nat /\ IsizeMax - w \in Nat
    BY <2>0
  <2>1. Len(d.room) \in Nat /\ IsizeMax - Len(d.done) \in Nat
    BY <2>a DEF r, w
  <2>2. RemainingMut[d] = Len(d.room) \/ RemainingMut[d] = IsizeMax - Len(d.done)
    BY <1>6
  <2> QED BY <2>1, <2>2
<1> QED BY <1>2, <1>3, <1>4, <1>5, <1>6, <1>8

LEMMA HalvesShape ==
    \A a, b : Halves(a, b).kind = "chain" /\ Halves(a, b).a = a /\ Halves(a, b).b = b
BY DEF Halves

LEMMA HalvesWritten ==
    ASSUME NEW a, NEW b, Halves(a, b) \in BufMut
    PROVE  Written[Halves(a, b)] = Written[a] \o Written[b]
<1> DEFINE d == Halves(a, b)
<1>1. d.kind = "chain" /\ d.a = a /\ d.b = b /\ d \in BufMut
  BY HalvesShape
<1> HIDE DEF d
<1>2. Written[d] = Written[a] \o Written[b]
  BY <1>1, WrittenDef
<1> QED BY <1>2 DEF d

LEMMA HalvesRemaining ==
    ASSUME NEW a, NEW b, Halves(a, b) \in BufMut
    PROVE  RemainingMut[Halves(a, b)] = RemainingMut[a] + RemainingMut[b]
<1> DEFINE d == Halves(a, b)
<1>1. d.kind = "chain" /\ d.a = a /\ d.b = b /\ d \in BufMut
  BY HalvesShape
<1> HIDE DEF d
<1>2. RemainingMut[d] = RemainingMut[a] + RemainingMut[b]
  BY <1>1, RemainingMutDef
<1> QED BY <1>2 DEF d

LEMMA HalvesInOrder ==
    ASSUME NEW a, NEW b, Halves(a, b) \in BufMut
    PROVE  InOrder[Halves(a, b)] <=> InOrder[a] /\ InOrder[b] /\ (RemainingMut[a] > 0 => Written[b] = <<>>)
<1> DEFINE d == Halves(a, b)
<1>1. d.kind = "chain" /\ d.a = a /\ d.b = b /\ d \in BufMut
  BY HalvesShape
<1> HIDE DEF d
<1>2. InOrder[d] <=> InOrder[a] /\ InOrder[b] /\ (RemainingMut[a] > 0 => Written[b] = <<>>)
  BY <1>1, InOrderDef
<1> QED BY <1>2 DEF d

LEMMA RemainingMutType == \A d \in BufMut : RemainingMut[d] \in Nat /\ Written[d] \in Seq(Cell)
<1> DEFINE P == {d \in BufMut : RemainingMut[d] \in Nat /\ Written[d] \in Seq(Cell)}
<1>1. \A d \in BufMut : Leaf(d) => d \in P
  BY LeafFields DEF Leaf
<1>2. \A a, b \in BufMut : a \in P /\ b \in P /\ Halves(a, b) \in BufMut => Halves(a, b) \in P
  <2> SUFFICES ASSUME NEW a \in BufMut, NEW b \in BufMut, a \in P, b \in P, Halves(a, b) \in BufMut
               PROVE  Halves(a, b) \in P
    OBVIOUS
  <2>1. Written[a] \o Written[b] \in Seq(Cell)
    BY JoinElements
  <2>2. RemainingMut[a] + RemainingMut[b] \in Nat
    OBVIOUS
  <2>3. Written[Halves(a, b)] \in Seq(Cell)
    BY <2>1, HalvesWritten
  <2>4. RemainingMut[Halves(a, b)] \in Nat
    BY <2>2, HalvesRemaining
  <2> QED BY <2>3, <2>4
<1>3. \A d \in BufMut : d \in P
  <2> HIDE DEF P
  <2> QED BY <1>1, <1>2, MutInduction
<1> QED BY <1>3

\* Of a cursor with nothing written, nothing is written anywhere.
LEMMA NothingInOrder == \A d \in BufMut : Written[d] = <<>> => InOrder[d]
<1> DEFINE P == {d \in BufMut : Written[d] = <<>> => InOrder[d]}
<1>1. \A d \in BufMut : Leaf(d) => d \in P
  BY LeafFields
<1>2. \A a, b \in BufMut : a \in P /\ b \in P /\ Halves(a, b) \in BufMut => Halves(a, b) \in P
  <2> SUFFICES ASSUME NEW a \in BufMut, NEW b \in BufMut, a \in P, b \in P, Halves(a, b) \in BufMut,
                      Written[Halves(a, b)] = <<>>
               PROVE  InOrder[Halves(a, b)]
    OBVIOUS
  <2>1. Written[a] \in Seq(Cell) /\ Written[b] \in Seq(Cell) /\ Written[a] \o Written[b] = <<>>
    BY RemainingMutType, HalvesWritten
  <2>2. Len(Written[a] \o Written[b]) = Len(Written[a]) + Len(Written[b]) /\ Len(Written[a]) \in Nat
        /\ Len(Written[b]) \in Nat
    <3>1. Written[a] \in Seq(Cell) /\ Written[b] \in Seq(Cell)
      BY <2>1
    <3> QED BY <3>1, JoinElements
  <2>3. Len(Written[a]) = 0 /\ Len(Written[b]) = 0
    <3> DEFINE m == Len(Written[a])
               n == Len(Written[b])
    <3>0. Len(<<>>) = 0
      OBVIOUS
    <3>1. Len(Written[a] \o Written[b]) = Len(<<>>)
      BY <2>1, Zenon
    <3>2. m + n = 0 /\ m \in Nat /\ n \in Nat
      BY <2>2, <3>0, <3>1, Zenon
    <3> HIDE DEF m, n
    <3>3. m = 0 /\ n = 0
      BY <3>2
    <3> QED BY <3>3 DEF m, n
  <2>4. Written[a] = <<>> /\ Written[b] = <<>>
    BY <2>1, <2>3
  <2>5. InOrder[a] /\ InOrder[b]
    BY <2>4
  <2> QED BY <2>4, <2>5, HalvesInOrder
<1>3. \A d \in BufMut : d \in P
  <2> HIDE DEF P
  <2> QED BY <1>1, <1>2, MutInduction
<1> QED BY <1>3

\* advance_mut(0)
LEMMA AdvanceMutNone == \A d \in BufMut : AdvanceMut[d][0] = d
<1> DEFINE P == {d \in BufMut : AdvanceMut[d][0] = d}
<1>1. ASSUME NEW d \in BufMut, Leaf(d) PROVE d \in P
  <2>1. AdvanceMut[d][0] = [kind |-> d.kind, done |-> d.done \o First(d.room, 0), room |-> Skip(d.room, 0)]
    <3>1. d \in BufMut /\ d.kind # "chain" /\ 0 \in Nat
      BY <1>1, LeafFields
    <3> QED BY <3>1, AdvanceMutDef
  <2>2. First(d.room, 0) = <<>> /\ Skip(d.room, 0) = d.room
    BY <1>1, CutEnds DEF Leaf
  <2>3. d.done \o <<>> = d.done
    BY <1>1 DEF Leaf
  <2> QED BY <1>1, <2>1, <2>2, <2>3 DEF Leaf
<1>2. ASSUME NEW a \in BufMut, NEW b \in BufMut, a \in P, b \in P, Halves(a, b) \in BufMut PROVE Halves(a, b) \in P
  <2> DEFINE d == Halves(a, b)
  <2>1. d.kind = "chain" /\ d.a = a /\ d.b = b /\ d \in BufMut /\ RemainingMut[a] \in Nat
    <3>1. RemainingMut[a] \in Nat
      BY RemainingMutType
    <3> QED BY <1>2, <3>1, HalvesShape
  <2> HIDE DEF d
  <2>2. AdvanceMut[d][0] =
        Halves(AdvanceMut[a][Least(RemainingMut[a], 0)], AdvanceMut[b][Beyond(0, RemainingMut[a])])
    <3>1. 0 \in Nat
      OBVIOUS
    <3>2. AdvanceMut[d] = [n \in Nat |->
            IF d.kind = "chain"
            THEN Halves(AdvanceMut[d.a][Least(RemainingMut[d.a], n)],
                        AdvanceMut[d.b][Beyond(n, RemainingMut[d.a])])
            ELSE [kind |-> d.kind, done |-> d.done \o First(d.room, n), room |-> Skip(d.room, n)]]
      BY <2>1, AdvanceMutDef, Zenon
    <3> QED BY <2>1, <3>1, <3>2
  <2>3. Least(RemainingMut[a], 0) = 0 /\ Beyond(0, RemainingMut[a]) = 0
    BY <2>1 DEF Least, Beyond
  <2>4. AdvanceMut[d][0] = Halves(a, b)
    BY <1>2, <2>2, <2>3
  <2> QED BY <1>2, <2>4 DEF d
<1>3. \A d \in BufMut : d \in P
  <2> HIDE DEF P
  <2> QED BY <1>1, <1>2, MutInduction
<1> QED BY <1>3

\* e is a cursor put together as d is
Levels(d, e) == \A k \in 0..Depth : d \in BufMutUpTo[k] => e \in BufMutUpTo[k]
SameRoom(d, e) == Levels(d, e) /\ e.kind = d.kind /\ RemainingMut[e] = RemainingMut[d]
\* e is d after `bytes` were written into it
FilledWith(d, e, bytes) ==
    /\ Levels(d, e)
    /\ e.kind = d.kind
    /\ RemainingMut[e] = RemainingMut[d] - Len(bytes)
    /\ InOrder[d] => InOrder[e] /\ Written[e] = Written[d] \o bytes
    /\ d.kind = "vec" => Len(e.room) >= Len(d.room) - Len(bytes)
RoomOf(d) ==
    /\ ChunkRoom[d] \in Nat
    /\ ChunkRoom[d] <= RemainingMut[d]
    /\ RemainingMut[d] > 0 => ChunkRoom[d] > 0
Fills(d) ==
    Opens(d) =>
        /\ RoomOf(d)
        /\ SameRoom(d, Opened[d])
        /\ \A bytes \in Seq(Byte) : Len(bytes) <= ChunkRoom[d] =>
              SameRoom(d, Poked[Opened[d]][bytes]) /\ FilledWith(d, Filled(d, bytes), bytes)

LEMMA BytesAreCells == \A bytes \in Seq(Byte) : bytes \in Seq(Cell)
<1>1. Byte \subseteq Cell
  BY DEF Cell
<1> QED BY <1>1

LEMMA LevelsBufMut ==
    ASSUME NEW d \in BufMut, NEW e, Levels(d, e)
    PROVE  e \in BufMut
<1>1. Depth \in 0..Depth
  BY CursorsAssumption
<1> QED BY <1>1 DEF Levels, BufMut

LEMMA LevelsLeaf ==
    ASSUME NEW d, NEW e, Leaf(e)
    PROVE  Levels(d, e)
BY MutBuilt DEF Levels

LEMMA HalvesLevels ==
    ASSUME NEW a, NEW b, NEW a2, NEW b2, Levels(a, a2), Levels(b, b2)
    PROVE  Levels(Halves(a, b), Halves(a2, b2))
<1> SUFFICES ASSUME NEW k \in 0..Depth, Halves(a, b) \in BufMutUpTo[k] PROVE Halves(a2, b2) \in BufMutUpTo[k]
  BY DEF Levels
<1>1. ~Leaf(Halves(a, b))
  BY HalvesShape DEF Leaf
<1>2. k # 0 /\ a \in BufMutUpTo[k - 1] /\ b \in BufMutUpTo[k - 1]
  BY <1>1, MutCases, HalvesShape
<1>3. k - 1 \in 0..Depth
  BY <1>2, CursorsAssumption
<1>4. a2 \in BufMutUpTo[k - 1] /\ b2 \in BufMutUpTo[k - 1]
  BY <1>2, <1>3 DEF Levels
<1> QED BY <1>2, <1>4, MutBuilt

LEMMA HalvesParts ==
    ASSUME NEW a, NEW b, Halves(a, b) \in BufMut
    PROVE  a \in BufMut /\ b \in BufMut
<1>1. ~Leaf(Halves(a, b))
  BY HalvesShape DEF Leaf
<1> QED BY <1>1, MutShape, HalvesShape

\* what the methods do to a chain, in the half that is its turn
LEMMA HalvesFirst ==
    ASSUME NEW a, NEW b, Halves(a, b) \in BufMut, RemainingMut[a] > 0
    PROVE  /\ Opened[Halves(a, b)] = Halves(Opened[a], b)
           /\ ChunkRoom[Halves(a, b)] = ChunkRoom[a]
           /\ \A bytes \in Seq(Byte) : Poked[Halves(a, b)][bytes] = Halves(Poked[a][bytes], b)
<1> DEFINE d == Halves(a, b)
<1>1. d.kind = "chain" /\ d.a = a /\ d.b = b /\ d \in BufMut
  BY HalvesShape
<1> HIDE DEF d
<1>2. Side(d) = "a"
  BY <1>1 DEF Side
<1>3. Opened[d] = Halves(Opened[a], b)
  BY <1>1, <1>2, OpenedDef DEF OnSide
<1>4. ChunkRoom[d] = ChunkRoom[a]
  BY <1>1, <1>2, ChunkRoomDef
<1>5. ASSUME NEW bytes \in Seq(Byte) PROVE Poked[d][bytes] = Halves(Poked[a][bytes], b)
  BY <1>1, <1>2, PokedDef
<1> QED BY <1>3, <1>4, <1>5 DEF d

LEMMA HalvesSecond ==
    ASSUME NEW a, NEW b, Halves(a, b) \in BufMut, ~(RemainingMut[a] > 0)
    PROVE  /\ Opened[Halves(a, b)] = Halves(a, Opened[b])
           /\ ChunkRoom[Halves(a, b)] = ChunkRoom[b]
           /\ \A bytes \in Seq(Byte) : Poked[Halves(a, b)][bytes] = Halves(a, Poked[b][bytes])
<1> DEFINE d == Halves(a, b)
<1>1. d.kind = "chain" /\ d.a = a /\ d.b = b /\ d \in BufMut
  BY HalvesShape
<1> HIDE DEF d
<1>2. Side(d) = "b"
  BY <1>1 DEF Side
<1>3. Opened[d] = Halves(a, Opened[b])
  BY <1>1, <1>2, OpenedDef DEF OnSide
<1>4. ChunkRoom[d] = ChunkRoom[b]
  BY <1>1, <1>2, ChunkRoomDef
<1>5. ASSUME NEW bytes \in Seq(Byte) PROVE Poked[d][bytes] = Halves(a, Poked[b][bytes])
  BY <1>1, <1>2, PokedDef
<1> QED BY <1>3, <1>4, <1>5 DEF d

LEMMA HalvesAdvance ==
    ASSUME NEW a, NEW b, Halves(a, b) \in BufMut, NEW n \in Nat
    PROVE  /\ n <= RemainingMut[a] => AdvanceMut[Halves(a, b)][n] = Halves(AdvanceMut[a][n], b)
           /\ RemainingMut[a] = 0 => AdvanceMut[Halves(a, b)][n] = Halves(a, AdvanceMut[b][n])
<1> DEFINE d == Halves(a, b)
<1>1. d.kind = "chain" /\ d.a = a /\ d.b = b /\ d \in BufMut
  BY HalvesShape
<1>2. a \in BufMut /\ b \in BufMut
  BY HalvesParts
<1>3. AdvanceMut[a][0] = a /\ AdvanceMut[b][0] = b /\ RemainingMut[a] \in Nat
  BY <1>2, AdvanceMutNone, RemainingMutType
<1> HIDE DEF d
<1>4. AdvanceMut[d][n] =
      Halves(AdvanceMut[a][Least(RemainingMut[a], n)], AdvanceMut[b][Beyond(n, RemainingMut[a])])
  <2>1. AdvanceMut[d] = [m \in Nat |->
          IF d.kind = "chain"
          THEN Halves(AdvanceMut[d.a][Least(RemainingMut[d.a], m)],
                      AdvanceMut[d.b][Beyond(m, RemainingMut[d.a])])
          ELSE [kind |-> d.kind, done |-> d.done \o First(d.room, m), room |-> Skip(d.room, m)]]
    BY <1>1, AdvanceMutDef, Zenon
  <2> QED BY <1>1, <2>1
<1>5. n <= RemainingMut[a] => Least(RemainingMut[a], n) = n /\ Beyond(n, RemainingMut[a]) = 0
  BY <1>3 DEF Least, Beyond
<1>6. RemainingMut[a] = 0 => Least(RemainingMut[a], n) = 0 /\ Beyond(n, RemainingMut[a]) = n
  BY <1>3 DEF Least, Beyond
<1>7. n <= RemainingMut[a] => AdvanceMut[d][n] = Halves(AdvanceMut[a][n], b)
  BY <1>3, <1>4, <1>5
<1>8. RemainingMut[a] = 0 => AdvanceMut[d][n] = Halves(a, AdvanceMut[b][n])
  BY <1>3, <1>4, <1>6
<1> QED BY <1>7, <1>8 DEF d

LEMMA FillsFirst ==
    ASSUME NEW a \in BufMut, NEW b \in BufMut, Halves(a, b) \in BufMut, Fills(a), RemainingMut[a] > 0
    PROVE  Fills(Halves(a, b))
<1> DEFINE d == Halves(a, b)
<1> SUFFICES ASSUME Opens(d) PROVE /\ RoomOf(d)
                                   /\ SameRoom(d, Opened[d])
                                   /\ \A bytes \in Seq(Byte) : Len(bytes) <= ChunkRoom[d] =>
                                         /\ SameRoom(d, Poked[Opened[d]][bytes])
                                         /\ FilledWith(d, Filled(d, bytes), bytes)
  BY DEF Fills
<1>1. Opened[d] = Halves(Opened[a], b) /\ ChunkRoom[d] = ChunkRoom[a]
  BY HalvesFirst
<1>2. Halves(Opened[a], b) \in BufMut
  BY <1>1 DEF Opens
<1>3. Opens(a)
  BY <1>2, HalvesParts DEF Opens
<1>4. RoomOf(a) /\ SameRoom(a, Opened[a])
  BY <1>3 DEF Fills
<1>5. RemainingMut[a] \in Nat /\ RemainingMut[b] \in Nat
  BY RemainingMutType
<1>6. RemainingMut[d] = RemainingMut[a] + RemainingMut[b]
  BY HalvesRemaining
<1>7. RoomOf(d)
  BY <1>1, <1>4, <1>5, <1>6 DEF RoomOf
<1>8. ASSUME NEW x, Levels(a, x), x \in BufMut
      PROVE  Halves(x, b) \in BufMut /\ Levels(d, Halves(x, b)) /\ Halves(x, b).kind = d.kind
             /\ RemainingMut[Halves(x, b)] = RemainingMut[x] + RemainingMut[b]
  <2>1. Levels(b, b)
    BY DEF Levels
  <2>2. Levels(d, Halves(x, b))
    BY <1>8, <2>1, HalvesLevels
  <2>3. Halves(x, b) \in BufMut
    BY <2>2, LevelsBufMut
  <2> QED BY <2>2, <2>3, HalvesShape, HalvesRemaining
<1>9. SameRoom(d, Halves(Opened[a], b))
  <2>1. Levels(a, Opened[a]) /\ RemainingMut[Opened[a]] = RemainingMut[a] /\ Opened[a] \in BufMut
    BY <1>3, <1>4 DEF SameRoom, Opens
  <2> QED BY <1>6, <1>8, <2>1 DEF SameRoom
<1>10. ASSUME NEW bytes \in Seq(Byte), Len(bytes) <= ChunkRoom[d]
       PROVE  SameRoom(d, Poked[Opened[d]][bytes]) /\ FilledWith(d, Filled(d, bytes), bytes)
  <2> DEFINE p == Poked[Opened[a]][bytes]
             f == Filled(a, bytes)
             n == Len(bytes)
  <2>0. n \in Nat /\ n <= RemainingMut[a]
    BY <1>1, <1>4, <1>5, <1>10 DEF RoomOf
  <2>1. SameRoom(a, p) /\ FilledWith(a, f, bytes)
    BY <1>1, <1>3, <1>10 DEF Fills
  <2>2. Poked[Opened[d]][bytes] = Halves(p, b)
    <3>1. RemainingMut[Opened[a]] = RemainingMut[a]
      BY <1>4 DEF SameRoom
    <3>2. RemainingMut[Opened[a]] > 0
      BY <3>1
    <3> QED BY <1>1, <1>2, <3>2, HalvesFirst
  <2>3. f = AdvanceMut[p][n]
    BY DEF Filled
  <2>4. Filled(d, bytes) = AdvanceMut[Halves(p, b)][n]
    BY <2>2 DEF Filled
  <2> HIDE DEF p, f, n, d
  <2>5. Levels(a, p) /\ RemainingMut[p] = RemainingMut[a] /\ p \in BufMut
    BY <2>1, LevelsBufMut DEF SameRoom
  <2>6. Halves(p, b) \in BufMut /\ SameRoom(d, Halves(p, b))
    BY <1>6, <1>8, <2>5 DEF SameRoom
  <2>7. AdvanceMut[Halves(p, b)][n] = Halves(f, b)
    <3>1. n <= RemainingMut[p]
      BY <2>0, <2>5
    <3> QED BY <2>0, <2>3, <2>6, <3>1, HalvesAdvance
  <2>8. Levels(a, f) /\ RemainingMut[f] = RemainingMut[a] - n /\ f \in BufMut
    BY <2>1, LevelsBufMut DEF FilledWith, n
  <2>9. Halves(f, b) \in BufMut /\ Levels(d, Halves(f, b)) /\ Halves(f, b).kind = d.kind
        /\ RemainingMut[Halves(f, b)] = RemainingMut[d] - n
    <3>1. Halves(f, b) \in BufMut /\ Levels(d, Halves(f, b)) /\ Halves(f, b).kind = d.kind
          /\ RemainingMut[Halves(f, b)] = RemainingMut[f] + RemainingMut[b]
      BY <1>8, <2>8
    <3>2. (RemainingMut[a] - n) + RemainingMut[b] = (RemainingMut[a] + RemainingMut[b]) - n
      BY <1>5, <2>0
    <3> QED BY <1>6, <2>8, <3>1, <3>2
  <2>10. ASSUME InOrder[d] PROVE InOrder[Halves(f, b)] /\ Written[Halves(f, b)] = Written[d] \o bytes
    <3>1. InOrder[a] /\ InOrder[b] /\ Written[b] = <<>>
      BY <2>10, HalvesInOrder DEF d
    <3>2. InOrder[f] /\ Written[f] = Written[a] \o bytes
      BY <2>1, <3>1 DEF FilledWith
    <3>3. InOrder[Halves(f, b)]
      BY <2>9, <3>1, <3>2, HalvesInOrder
    <3>4. Written[Halves(f, b)] = Written[f] \o <<>> /\ Written[d] = Written[a] \o <<>>
      <4>1. Halves(f, b) \in BufMut
        BY <2>9
      <4>2. Written[Halves(f, b)] = Written[f] \o Written[b]
        BY <4>1, HalvesWritten, Zenon
      <4>3. Written[Halves(a, b)] = Written[a] \o Written[b]
        BY HalvesWritten, Zenon
      <4>4. Written[d] = Written[a] \o Written[b]
        BY <4>3, Zenon DEF d
      <4> QED BY <3>1, <4>2, <4>4, Zenon
    <3>5. Written[f] \in Seq(Cell) /\ Written[a] \in Seq(Cell)
      BY <2>8, RemainingMutType
    <3>6. \A s \in Seq(Cell) : s \o <<>> = s
      OBVIOUS
    <3>7. Written[Halves(f, b)] = Written[f] /\ Written[d] = Written[a]
      BY <3>4, <3>5, <3>6
    <3> QED BY <3>2, <3>3, <3>7
  <2>11. d.kind # "vec"
    BY HalvesShape DEF d
  <2>12. FilledWith(d, Halves(f, b), bytes)
    BY <2>9, <2>10, <2>11 DEF FilledWith, n
  <2> QED BY <2>2, <2>4, <2>6, <2>7, <2>12
<1> QED BY <1>1, <1>7, <1>9, <1>10

LEMMA FillsSecond ==
    ASSUME NEW a \in BufMut, NEW b \in BufMut, Halves(a, b) \in BufMut, Fills(b), ~(RemainingMut[a] > 0)
    PROVE  Fills(Halves(a, b))
<1> DEFINE d == Halves(a, b)
<1> SUFFICES ASSUME Opens(d) PROVE /\ RoomOf(d)
                                   /\ SameRoom(d, Opened[d])
                                   /\ \A bytes \in Seq(Byte) : Len(bytes) <= ChunkRoom[d] =>
                                         /\ SameRoom(d, Poked[Opened[d]][bytes])
                                         /\ FilledWith(d, Filled(d, bytes), bytes)
  BY DEF Fills
<1>1. Opened[d] = Halves(a, Opened[b]) /\ ChunkRoom[d] = ChunkRoom[b]
  BY HalvesSecond
<1>2. Halves(a, Opened[b]) \in BufMut
  BY <1>1 DEF Opens
<1>3. Opens(b)
  BY <1>2, HalvesParts DEF Opens
<1>4. RoomOf(b) /\ SameRoom(b, Opened[b])
  BY <1>3 DEF Fills
<1>5. RemainingMut[a] \in Nat /\ RemainingMut[b] \in Nat
  BY RemainingMutType
<1>a. RemainingMut[a] = 0
  BY <1>5
<1>6. RemainingMut[d] = RemainingMut[b]
  <2>1. RemainingMut[d] = RemainingMut[a] + RemainingMut[b]
    BY HalvesRemaining
  <2> QED BY <1>5, <1>a, <2>1
<1>7. RoomOf(d)
  BY <1>1, <1>4, <1>6 DEF RoomOf
<1>8. ASSUME NEW x, Levels(b, x), x \in BufMut
      PROVE  Halves(a, x) \in BufMut /\ Levels(d, Halves(a, x)) /\ Halves(a, x).kind = d.kind
             /\ RemainingMut[Halves(a, x)] = RemainingMut[x]
  <2>1. Levels(a, a)
    BY DEF Levels
  <2>2. Levels(d, Halves(a, x))
    BY <1>8, <2>1, HalvesLevels
  <2>3. Halves(a, x) \in BufMut
    BY <2>2, LevelsBufMut
  <2>4. RemainingMut[Halves(a, x)] = RemainingMut[a] + RemainingMut[x] /\ RemainingMut[x] \in Nat
    BY <1>8, <2>3, HalvesRemaining, RemainingMutType
  <2>5. RemainingMut[Halves(a, x)] = RemainingMut[x]
    BY <1>a, <2>4
  <2> QED BY <2>2, <2>3, <2>5, HalvesShape
<1>9. SameRoom(d, Halves(a, Opened[b]))
  <2>1. Levels(b, Opened[b]) /\ RemainingMut[Opened[b]] = RemainingMut[b] /\ Opened[b] \in BufMut
    BY <1>3, <1>4 DEF SameRoom, Opens
  <2> QED BY <1>6, <1>8, <2>1 DEF SameRoom
<1>10. ASSUME NEW bytes \in Seq(Byte), Len(bytes) <= ChunkRoom[d]
       PROVE  SameRoom(d, Poked[Opened[d]][bytes]) /\ FilledWith(d, Filled(d, bytes), bytes)
  <2> DEFINE p == Poked[Opened[b]][bytes]
             f == Filled(b, bytes)
             n == Len(bytes)
  <2>0. n \in Nat
    BY <1>10
  <2>1. SameRoom(b, p) /\ FilledWith(b, f, bytes)
    BY <1>1, <1>3, <1>10 DEF Fills
  <2>2. Poked[Opened[d]][bytes] = Halves(a, p)
    BY <1>1, <1>2, HalvesSecond
  <2>3. f = AdvanceMut[p][n]
    BY DEF Filled
  <2>4. Filled(d, bytes) = AdvanceMut[Halves(a, p)][n]
    BY <2>2 DEF Filled
  <2> HIDE DEF p, f, n, d
  <2>5. Levels(b, p) /\ RemainingMut[p] = RemainingMut[b] /\ p \in BufMut
    BY <2>1, LevelsBufMut DEF SameRoom
  <2>6. Halves(a, p) \in BufMut /\ SameRoom(d, Halves(a, p))
    BY <1>6, <1>8, <2>5 DEF SameRoom
  <2>7. AdvanceMut[Halves(a, p)][n] = Halves(a, f)
    BY <1>a, <2>0, <2>3, <2>6, HalvesAdvance
  <2>8. Levels(b, f) /\ RemainingMut[f] = RemainingMut[b] - n /\ f \in BufMut
    BY <2>1, LevelsBufMut DEF FilledWith, n
  <2>9. Halves(a, f) \in BufMut /\ Levels(d, Halves(a, f)) /\ Halves(a, f).kind = d.kind
        /\ RemainingMut[Halves(a, f)] = RemainingMut[d] - n
    BY <1>6, <1>8, <2>8
  <2>10. ASSUME InOrder[d] PROVE InOrder[Halves(a, f)] /\ Written[Halves(a, f)] = Written[d] \o bytes
    <3>1. InOrder[a] /\ InOrder[b]
      BY <2>10, HalvesInOrder DEF d
    <3>2. InOrder[f] /\ Written[f] = Written[b] \o bytes
      BY <2>1, <3>1 DEF FilledWith
    <3>3. InOrder[Halves(a, f)]
      BY <2>9, <3>1, <3>2, HalvesInOrder
    <3>4. Written[Halves(a, f)] = Written[a] \o (Written[b] \o bytes) /\ Written[d] = Written[a] \o Written[b]
      <4>1. Halves(a, f) \in BufMut
        BY <2>9
      <4>2. Written[Halves(a, f)] = Written[a] \o Written[f]
        BY <4>1, HalvesWritten, Zenon
      <4>3. Written[Halves(a, b)] = Written[a] \o Written[b]
        BY HalvesWritten, Zenon
      <4>4. Written[d] = Written[a] \o Written[b]
        BY <4>3, Zenon DEF d
      <4> QED BY <3>2, <4>2, <4>4, Zenon
    <3>5. Written[b] \in Seq(Cell) /\ Written[a] \in Seq(Cell)
      BY RemainingMutType
    <3>7. bytes \in Seq(Cell)
      BY BytesAreCells
    <3>6. (Written[a] \o Written[b]) \o bytes = Written[a] \o (Written[b] \o bytes)
      <4>1. \A s, t, u \in Seq(Cell) : (s \o t) \o u = s \o (t \o u)
        BY JoinThrice
      <4> QED BY <3>5, <3>7, <4>1, Zenon
    <3> QED BY <3>3, <3>4, <3>6
  <2>11. d.kind # "vec"
    BY HalvesShape DEF d
  <2>12. FilledWith(d, Halves(a, f), bytes)
    BY <2>9, <2>10, <2>11 DEF FilledWith, n
  <2> QED BY <2>2, <2>4, <2>6, <2>7, <2>12
<1> QED BY <1>1, <1>7, <1>9, <1>10

LEMMA MemoryCells == \A n \in Nat : Memory(n) \in Seq(Cell) /\ Len(Memory(n)) = n
BY DEF Memory, Cell

LEMMA LeafOpened ==
    ASSUME NEW d, Leaf(d), Opens(d)
    PROVE  /\ Leaf(Opened[d])
           /\ Opened[d].kind = d.kind /\ Opened[d].done = d.done
           /\ Len(Opened[d].room) = ChunkRoom[d] /\ Len(Opened[d].room) >= Len(d.room)
           /\ Len(d.room) > 0 \/ d.kind = "vec" => Len(Opened[d].room) > 0
<1> DEFINE o == Opened[d]
<1>1. d \in BufMut /\ d.kind # "chain" /\ (d.kind = "fixed" \/ d.kind = "vec") /\ o \in BufMut
  BY LeafFields DEF Leaf, Opens
<1>2. CASE d.kind = "fixed"
  <2>1. o = d /\ ChunkRoom[d] = Len(d.room) /\ d.kind # "vec"
    BY <1>1, <1>2, OpenedDef, ChunkRoomDef
  <2>2. Len(d.room) \in Nat
    BY DEF Leaf
  <2> QED BY <2>1, <2>2
<1>3. CASE d.kind = "vec"
  <2>1. o = VecOpened(d) /\ ChunkRoom[d] = Len(VecOpened(d).room)
    BY <1>1, <1>3, OpenedDef, ChunkRoomDef
  <2>2. d = [kind |-> d.kind, done |-> d.done, room |-> d.room] /\ d.room \in Seq(Cell)
    BY DEF Leaf
  <2>3. CASE d.room = <<>>
    <3>1. o = [d EXCEPT !.room = d.room \o Memory(Growth)]
      BY <2>1, <2>3 DEF VecOpened, Enlarged
    <3>2. o.kind = d.kind /\ o.done = d.done /\ o.room = d.room \o Memory(Growth)
      BY <2>2, <3>1
    <3>3. Memory(Growth) \in Seq(Cell) /\ Len(Memory(Growth)) = Growth /\ Growth > 0 /\ Len(d.room) = 0
      BY <2>3, MemoryCells, CursorsAssumption
    <3>4. Len(o.room) = Len(d.room) + Growth
      BY <2>2, <3>2, <3>3, JoinElements
    <3>5. Len(o.room) > 0 /\ Len(o.room) >= Len(d.room)
      BY <3>3, <3>4, CursorsAssumption
    <3>6. Leaf(o)
      BY <1>1, <1>3, <3>2, MutShape
    <3> QED BY <2>1, <3>2, <3>5, <3>6
  <2>4. CASE d.room # <<>>
    <3>1. o = d
      BY <2>1, <2>4 DEF VecOpened
    <3>2. Len(d.room) > 0
      BY <2>2, <2>4
    <3> QED BY <2>1, <3>1, <3>2
  <2> QED BY <2>3, <2>4
<1> QED BY <1>1, <1>2, <1>3

LEMMA LeafPoked ==
    ASSUME NEW d, Leaf(d), NEW bytes \in Seq(Byte), Len(bytes) <= Len(d.room)
    PROVE  /\ Leaf(Poked[d][bytes])
           /\ Poked[d][bytes].kind = d.kind /\ Poked[d][bytes].done = d.done
           /\ Poked[d][bytes].room = bytes \o Skip(d.room, Len(bytes))
           /\ Len(Poked[d][bytes].room) = Len(d.room)
<1> DEFINE n == Len(bytes)
           rest == Skip(d.room, n)
           room == bytes \o rest
           p == Poked[d][bytes]
<1>1. d \in BufMut /\ d.kind # "chain" /\ d.kind \in {"fixed", "vec"}
  BY LeafFields DEF Leaf
<1>2. d = [kind |-> d.kind, done |-> d.done, room |-> d.room] /\ d.room \in Seq(Cell) /\ d.done \in Seq(Cell)
  BY DEF Leaf
<1>3. Len(d.done) + Len(d.room) <= IsizeMax
  BY DEF Leaf
<1>4. p = [d EXCEPT !.room = room]
  <2>1. Poked[d] = [t \in Seq(Byte) |->
            IF d.kind # "chain"
            THEN [d EXCEPT !.room = t \o Skip(@, Len(t))]
            ELSE IF Side(d) = "a" THEN Halves(Poked[d.a][t], d.b) ELSE Halves(d.a, Poked[d.b][t])]
    BY <1>1, PokedDef, Zenon
  <2> QED BY <1>1, <2>1
<1>0. n \in Nat /\ n <= Len(d.room) /\ Len(d.room) \in Nat /\ bytes \in Seq(Cell)
  BY <1>2, BytesAreCells
<1>5. rest \in Seq(Cell) /\ Len(rest) = Len(d.room) - n
  BY <1>0, <1>2, SkipType DEF Beyond
<1>6. room \in Seq(Cell) /\ Len(room) = n + Len(rest)
  BY <1>0, <1>5, JoinElements
<1> HIDE DEF n, rest, room
<1>7. Len(room) = Len(d.room)
  BY <1>0, <1>5, <1>6
<1>8. p = [kind |-> d.kind, done |-> d.done, room |-> room]
  BY <1>2, <1>4
<1>9. p.kind = d.kind /\ p.done = d.done /\ p.room = room
  BY <1>8
<1>10. Leaf(p)
  BY <1>1, <1>2, <1>3, <1>6, <1>7, <1>8, <1>9 DEF Leaf
<1> QED BY <1>7, <1>9, <1>10 DEF room, rest, n

LEMMA LeafAdvanced ==
    ASSUME NEW d, Leaf(d), NEW n \in Nat, n <= Len(d.room)
    PROVE  /\ Leaf(AdvanceMut[d][n])
           /\ AdvanceMut[d][n].kind = d.kind
           /\ AdvanceMut[d][n].done = d.done \o First(d.room, n)
           /\ AdvanceMut[d][n].room = Skip(d.room, n)
           /\ Len(AdvanceMut[d][n].room) = Len(d.room) - n
           /\ Len(AdvanceMut[d][n].done) = Len(d.done) + n
<1> DEFINE first == First(d.room, n)
           rest == Skip(d.room, n)
           done == d.done \o first
           p == AdvanceMut[d][n]
<1>1. d \in BufMut /\ d.kind # "chain" /\ d.kind \in {"fixed", "vec"}
  BY LeafFields DEF Leaf
<1>2. d.room \in Seq(Cell) /\ d.done \in Seq(Cell) /\ Len(d.done) + Len(d.room) <= IsizeMax
  BY DEF Leaf
<1>3. Len(d.room) \in Nat /\ Len(d.done) \in Nat /\ n <= Len(d.room)
  BY <1>2
<1>4. p = [kind |-> d.kind, done |-> done, room |-> rest]
  BY <1>1, AdvanceMutDef
<1>5. rest \in Seq(Cell) /\ Len(rest) = Len(d.room) - n
  <2>1. rest \in Seq(Cell) /\ Len(rest) = Beyond(Len(d.room), n)
    BY <1>2, SkipType
  <2>2. Beyond(Len(d.room), n) = Len(d.room) - n
    BY <1>3, Lens
  <2> QED BY <2>1, <2>2
<1>6. first \in Seq(Cell) /\ Len(first) = n
  <2>1. first \in Seq(Cell) /\ Len(first) = Least(n, Len(d.room))
    BY <1>2, FirstType
  <2>2. Least(n, Len(d.room)) = n
    BY <1>3, Lens
  <2> QED BY <2>1, <2>2
<1>7. done \in Seq(Cell) /\ Len(done) = Len(d.done) + n
  <2> HIDE DEF first
  <2>1. d.done \in Seq(Cell)
    BY <1>2
  <2>2. done \in Seq(Cell) /\ Len(done) = Len(d.done) + Len(first)
    BY <1>6, <2>1, JoinElements
  <2> QED BY <1>6, <2>2
<1> HIDE DEF first, rest, done
<1>9. p.kind = d.kind /\ p.done = done /\ p.room = rest
  BY <1>4
<1>8. Len(done) + Len(rest) <= IsizeMax
  <2>1. Len(done) = Len(d.done) + n /\ Len(rest) = Len(d.room) - n /\ Len(d.done) + Len(d.room) <= IsizeMax
    BY <1>2, <1>5, <1>7
  <2>3. \A x, y \in Nat : (x + n) + (y - n) = x + y
    OBVIOUS
  <2>4. (Len(d.done) + n) + (Len(d.room) - n) = Len(d.done) + Len(d.room)
    BY <1>3, <2>3, Zenon
  <2> QED BY <2>1, <2>4, Zenon
<1>10. Leaf(p)
  BY <1>1, <1>4, <1>5, <1>7, <1>8, <1>9 DEF Leaf
<1> QED BY <1>5, <1>7, <1>9, <1>10 DEF first, rest, done

LEMMA FillsLeaf == ASSUME NEW d, Leaf(d) PROVE Fills(d)
<1> SUFFICES ASSUME Opens(d) PROVE /\ RoomOf(d)
                                   /\ SameRoom(d, Opened[d])
                                   /\ \A bytes \in Seq(Byte) : Len(bytes) <= ChunkRoom[d] =>
                                         /\ SameRoom(d, Poked[Opened[d]][bytes])
                                         /\ FilledWith(d, Filled(d, bytes), bytes)
  BY DEF Fills
<1> DEFINE o == Opened[d]
<1>1. /\ Leaf(o) /\ o.kind = d.kind /\ o.done = d.done
      /\ Len(o.room) = ChunkRoom[d] /\ Len(o.room) >= Len(d.room)
      /\ Len(d.room) > 0 \/ d.kind = "vec" => Len(o.room) > 0
  BY LeafOpened
<1>2. d.kind = "fixed" => o = d
  BY LeafFields, OpenedDef
<1> HIDE DEF o
<1>3. /\ Len(d.done) \in Nat /\ Len(d.room) \in Nat /\ Len(o.room) \in Nat
      /\ Len(o.done) + Len(o.room) <= IsizeMax /\ d.kind \in {"fixed", "vec"}
      /\ d.done \in Seq(Cell)
  BY <1>1 DEF Leaf
<1>4. RemainingMut[d] = IF d.kind = "fixed" THEN Len(d.room) ELSE IsizeMax - Len(d.done)
  BY LeafFields
<1>5. RoomOf(d)
  <2>1. CASE d.kind = "fixed"
    BY <1>1, <1>2, <1>3, <1>4, <2>1 DEF RoomOf
  <2>2. CASE d.kind = "vec"
    BY <1>1, <1>3, <1>4, <2>2, CursorsAssumption DEF RoomOf
  <2> QED BY <1>3, <2>1, <2>2
<1>6. ASSUME NEW x, Leaf(x), x.kind = d.kind, x.done = d.done, d.kind = "fixed" => Len(x.room) = Len(d.room)
      PROVE  SameRoom(d, x)
  <2>1. RemainingMut[x] = IF x.kind = "fixed" THEN Len(x.room) ELSE IsizeMax - Len(x.done)
    BY <1>6, LeafFields
  <2>2. RemainingMut[x] = RemainingMut[d]
    BY <1>4, <1>6, <2>1
  <2> QED BY <1>6, <2>2, LevelsLeaf DEF SameRoom
<1>7. SameRoom(d, o)
  BY <1>1, <1>2, <1>6
<1>8. ASSUME NEW bytes \in Seq(Byte), Len(bytes) <= ChunkRoom[d]
      PROVE  SameRoom(d, Poked[o][bytes]) /\ FilledWith(d, AdvanceMut[Poked[o][bytes]][Len(bytes)], bytes)
  <2> DEFINE p == Poked[o][bytes]
             n == Len(bytes)
             rest == Skip(o.room, n)
             f == AdvanceMut[p][n]
  <2>1. n \in Nat /\ n <= Len(o.room) /\ bytes \in Seq(Cell) /\ o.room \in Seq(Cell)
    BY <1>1, <1>8, BytesAreCells DEF Leaf
  <2>2. Leaf(p) /\ p.kind = o.kind /\ p.done = o.done /\ p.room = bytes \o rest /\ Len(p.room) = Len(o.room)
    BY <1>1, <2>1, LeafPoked
  <2>3. /\ Leaf(f) /\ f.kind = p.kind /\ f.done = p.done \o First(p.room, n)
        /\ Len(f.room) = Len(p.room) - n /\ Len(f.done) = Len(p.done) + n
    <3>1. n <= Len(p.room)
      BY <2>1, <2>2
    <3> HIDE DEF p, n
    <3> QED BY <2>1, <2>2, <3>1, LeafAdvanced
  <2>4. First(p.room, n) = bytes
    <3>1. rest \in Seq(Cell)
      BY <2>1, SkipType
    <3>2. First(bytes \o rest, n) = First(bytes, n)
      BY <2>1, <3>1, CutInside
    <3>3. First(bytes, n) = bytes
      BY <2>1, CutEnds
    <3> QED BY <2>2, <3>2, <3>3
  <2> HIDE DEF p, n, rest, f
  <2>5. SameRoom(d, p)
    BY <1>1, <1>2, <1>6, <2>2
  <2>6. f.done = d.done \o bytes /\ f.kind = d.kind
    BY <1>1, <2>2, <2>3, <2>4
  <2>7. InOrder[f] /\ Written[f] = Written[d] \o bytes
    <3>1. Written[f] = f.done /\ InOrder[f] /\ Written[d] = d.done
      BY <2>3, LeafFields
    <3> QED BY <2>6, <3>1
  <2>8. RemainingMut[f] = RemainingMut[d] - n
    <3>1. RemainingMut[f] = IF f.kind = "fixed" THEN Len(f.room) ELSE IsizeMax - Len(f.done)
      BY <2>3, LeafFields
    <3>2. Len(f.room) = Len(o.room) - n /\ Len(f.done) = Len(d.done) + n
      BY <1>1, <2>2, <2>3
    <3>3. d.kind = "fixed" => Len(o.room) = Len(d.room)
      BY <1>2
    <3>4. IsizeMax \in Nat
      BY CursorsAssumption
    <3> QED BY <1>3, <1>4, <2>1, <2>6, <3>1, <3>2, <3>3, <3>4
  <2>9. Len(f.room) >= Len(d.room) - n
    BY <1>1, <1>3, <2>1, <2>2, <2>3
  <2>10. FilledWith(d, f, bytes)
    BY <2>3, <2>6, <2>7, <2>8, <2>9, LevelsLeaf DEF FilledWith, n
  <2> QED BY <2>5, <2>10 DEF p, f, n
<1> QED BY <1>5, <1>7, <1>8 DEF Filled, o

\* Writing bytes into the chunk and moving the cursor past them appends them to what was written.
LEMMA FillsLaw == \A d \in BufMut : Fills(d)
<1> DEFINE P == {d \in BufMut : Fills(d)}
<1>1. \A d \in BufMut : Leaf(d) => d \in P
  BY FillsLeaf
<1>2. ASSUME NEW a \in BufMut, NEW b \in BufMut, a \in P, b \in P, Halves(a, b) \in BufMut
      PROVE  Halves(a, b) \in P
  <2>1. CASE RemainingMut[a] > 0
    BY <1>2, <2>1, FillsFirst
  <2>2. CASE ~(RemainingMut[a] > 0)
    BY <1>2, <2>2, FillsSecond
  <2> QED BY <2>1, <2>2
<1> HIDE DEF P
<1>3. \A d \in BufMut : d \in P
  BY <1>1, <1>2, MutInduction
<1> QED BY <1>3 DEF P
=============================================================================
