-------------------------- MODULE SendHistoryProofs --------------------------
(***************************************************************************)
(* Proofs about SendHistory, for every set of files, number of invocations *)
(* and length of the list.                                                 *)
(***************************************************************************)
EXTENDS SendHistory, SequenceTheorems, TLAPS

USE HistoryAssumption, TornAssumption

-----------------------------------------------------------------------------
(***************************************************************************)
(* Sequences.                                                              *)
(***************************************************************************)

\* A sequence of at most n files.
LEMMA BoundedSeqProperties ==
    ASSUME NEW s, NEW n \in Nat
    PROVE  s \in BoundedSeq(Files, n) <=> s \in Seq(Files) /\ Len(s) <= n
<1>1. ASSUME NEW m \in 0..n, s \in [1..m -> Files]
      PROVE  s \in Seq(Files) /\ Len(s) <= n
  <2>1. s \in Seq(Files)
    BY <1>1, SeqDef
  <2>2. Len(s) \in Nat /\ DOMAIN s = 1..Len(s) /\ DOMAIN s = 1..m
    BY <1>1, <2>1, LenProperties
  <2> QED BY <2>1, <2>2
<1>2. ASSUME s \in Seq(Files), Len(s) <= n
      PROVE  \E m \in 0..n : s \in [1..m -> Files]
  BY <1>2, LenProperties
<1> QED
  BY <1>1, <1>2 DEF BoundedSeq, SeqOf

\* The smaller of two lengths.
LEMMA MinOfTwo ==
    ASSUME NEW a \in Nat, NEW b \in Nat
    PROVE  Min({a, b}) = IF a <= b THEN a ELSE b
BY DEF Min

\* list.remove on a list that names f once, or not: what is behind f moves up.
LEMMA RemoveFirstProperties ==
    ASSUME NEW s \in Seq(Files), IsInjective(s), NEW f
    PROVE  \E k \in 1..(Len(s) + 1) :
              /\ k <= Len(s) => s[k] = f
              /\ \A i \in 1..Len(s) : i # k => s[i] # f
              /\ RemoveFirst(s, f) \in Seq(Files)
              /\ Len(RemoveFirst(s, f)) = IF k <= Len(s) THEN Len(s) - 1
                                                         ELSE Len(s)
              /\ \A i \in 1..Len(RemoveFirst(s, f)) :
                    RemoveFirst(s, f)[i] = s[IF i < k THEN i ELSE i + 1]
<1>1. Len(s) \in Nat /\ DOMAIN s = 1..Len(s) /\ \A i \in 1..Len(s) : s[i] \in Files
  BY LenProperties, ElementOfSeq
<1>2. CASE ~ \E i \in 1..Len(s) : s[i] = f
  <2>1. RemoveFirst(s, f) = s
    BY <1>2 DEF RemoveFirst
  <2>2. Len(s) + 1 \in 1..(Len(s) + 1) /\ ~(Len(s) + 1 <= Len(s))
    BY <1>1
  <2>3. \A i \in 1..Len(s) : i < Len(s) + 1
    BY <1>1
  <2> WITNESS Len(s) + 1 \in 1..(Len(s) + 1)
  <2> QED BY <1>2, <2>1, <2>2, <2>3
<1>3. CASE \E i \in 1..Len(s) : s[i] = f
  <2>1. PICK k \in 1..Len(s) : s[k] = f
    BY <1>3
  <2>0. Len(s) \in Nat /\ k \in Nat /\ 1 <= k /\ k <= Len(s)
    BY <1>1
  <2>2. \A i \in 1..Len(s) : i # k => s[i] # f
    BY <1>1, <2>1 DEF IsInjective
  <2>3. {i \in 1..Len(s) : s[i] = f} = {k}
    BY <2>1, <2>2
  <2>4. SelectInSeq(s, LAMBDA v : v = f) = k
    <3>1. Min({k}) = k
      BY <1>1 DEF Min
    <3> QED BY <2>3, <3>1 DEF SelectInSeq
  <2> DEFINE a == SubSeq(s, 1, k - 1)
             b == SubSeq(s, k + 1, Len(s))
  <2>5. RemoveFirst(s, f) = a \o b
    BY <1>3, <2>4 DEF RemoveFirst, RemoveAt
  <2>6. /\ a \in Seq(Files) /\ Len(a) = k - 1
        /\ \A i \in 1..(k - 1) : a[i] = s[i]
    <3>1. /\ 1 \in Int /\ k - 1 \in Int
          /\ \A i \in 1..(k - 1) : s[i] \in Files
      BY <1>1
    <3>2. /\ a \in Seq(Files)
          /\ Len(a) = IF 1 <= k - 1 THEN (k - 1) - 1 + 1 ELSE 0
          /\ \A i \in 1..((k - 1) - 1 + 1) : a[i] = s[1 + i - 1]
      BY <3>1, SubSeqProperties
    <3> QED BY <1>1, <3>2
  <2>7. /\ b \in Seq(Files) /\ Len(b) = Len(s) - k
        /\ \A i \in 1..(Len(s) - k) : b[i] = s[i + k]
    <3>1. /\ k + 1 \in Int /\ Len(s) \in Int
          /\ \A i \in (k + 1)..Len(s) : s[i] \in Files
      BY <1>1
    <3>2. /\ b \in Seq(Files)
          /\ Len(b) = IF k + 1 <= Len(s) THEN Len(s) - (k + 1) + 1 ELSE 0
          /\ \A i \in 1..(Len(s) - (k + 1) + 1) : b[i] = s[(k + 1) + i - 1]
      BY <3>1, SubSeqProperties
    <3>3. /\ Len(s) - (k + 1) + 1 = Len(s) - k
          /\ ~(k + 1 <= Len(s)) => Len(s) - k = 0
      BY <2>0
    <3>4. \A i \in 1..(Len(s) - k) : (k + 1) + i - 1 = i + k
      BY <2>0
    <3> HIDE DEF b
    <3> QED BY <3>2, <3>3, <3>4
  <2> HIDE DEF a, b
  <2>8. /\ a \o b \in Seq(Files) /\ Len(a \o b) = Len(s) - 1
        /\ \A i \in 1..(Len(s) - 1) :
              (a \o b)[i] = IF i <= k - 1 THEN a[i] ELSE b[i - (k - 1)]
    <3>1. /\ a \o b \in Seq(Files) /\ Len(a \o b) = Len(a) + Len(b)
          /\ \A i \in 1..(Len(a) + Len(b)) :
                (a \o b)[i] = IF i <= Len(a) THEN a[i] ELSE b[i - Len(a)]
      BY <2>6, <2>7, ConcatProperties
    <3>2. Len(a) + Len(b) = Len(s) - 1
      BY <2>0, <2>6, <2>7
    <3> QED BY <2>6, <3>1, <3>2
  <2>9. ASSUME NEW i \in 1..(Len(s) - 1)
        PROVE  (a \o b)[i] = s[IF i < k THEN i ELSE i + 1]
    <3>1. CASE i < k
      <4>1. i \in 1..(k - 1) /\ i <= k - 1
        BY <1>1, <3>1
      <4> QED BY <2>6, <2>8, <3>1, <4>1
    <3>2. CASE ~(i < k)
      <4>1. /\ i - (k - 1) \in 1..(Len(s) - k) /\ ~(i <= k - 1)
            /\ (i - (k - 1)) + k = i + 1
        BY <1>1, <3>2
      <4> QED BY <2>7, <2>8, <3>2, <4>1
    <3> QED BY <3>1, <3>2
  <2>10. k \in 1..(Len(s) + 1) /\ k <= Len(s)
    BY <1>1
  <2> WITNESS k \in 1..(Len(s) + 1)
  <2> QED BY <2>1, <2>2, <2>5, <2>8, <2>9, <2>10
<1> QED
  BY <1>2, <1>3

\* add_to_history: f first, the others in their order, the surplus cut off.
LEMMA WithLatestProperties ==
    ASSUME NEW s \in Seq(Files), IsInjective(s), NEW f \in Files
    PROVE  \E k \in 1..(Len(s) + 1) :
              /\ k <= Len(s) => s[k] = f
              /\ \A i \in 1..Len(s) : i # k => s[i] # f
              /\ WithLatest(s, f) \in Seq(Files)
              /\ LET n == IF k <= Len(s) THEN Len(s) ELSE Len(s) + 1
                 IN Len(WithLatest(s, f)) = IF n <= MaxHistory THEN n
                                                              ELSE MaxHistory
              /\ WithLatest(s, f)[1] = f
              /\ \A i \in 2..Len(WithLatest(s, f)) :
                    WithLatest(s, f)[i] = s[IF i <= k THEN i - 1 ELSE i]
<1> DEFINE r == RemoveFirst(s, f)
<1>1. PICK k \in 1..(Len(s) + 1) :
          /\ k <= Len(s) => s[k] = f
          /\ \A i \in 1..Len(s) : i # k => s[i] # f
          /\ r \in Seq(Files)
          /\ Len(r) = IF k <= Len(s) THEN Len(s) - 1 ELSE Len(s)
          /\ \A i \in 1..Len(r) : r[i] = s[IF i < k THEN i ELSE i + 1]
  BY RemoveFirstProperties
<1> DEFINE l == <<f>> \o r
           n == IF k <= Len(s) THEN Len(s) ELSE Len(s) + 1
           m == IF n <= MaxHistory THEN n ELSE MaxHistory
<1>2. Len(s) \in Nat /\ n \in Nat /\ m \in Nat /\ m <= n /\ 1 <= m
  BY LenProperties
<1>3. WithLatest(s, f) = SubSeq(l, 1, Min({MaxHistory, Len(l)}))
  BY DEF WithLatest
<1> HIDE DEF r
<1>4. /\ l \in Seq(Files) /\ Len(l) = n /\ l[1] = f
      /\ \A i \in 2..n : l[i] = r[i - 1] /\ l[i] \in Files
  <2>1. <<f>> \in Seq(Files) /\ Len(<<f>>) = 1 /\ <<f>>[1] = f
    OBVIOUS
  <2>2. Len(r) = n - 1
    BY <1>1, <1>2
  <2>3. /\ l \in Seq(Files) /\ Len(l) = 1 + (n - 1)
        /\ \A i \in 1..(1 + (n - 1)) : l[i] = IF i <= 1 THEN <<f>>[i] ELSE r[i - 1]
    BY <1>1, <2>1, <2>2, ConcatProperties
  <2> HIDE DEF l, n
  <2>4. \A i \in 1..n : l[i] \in Files
    BY <1>2, <2>3, ElementOfSeq
  <2> QED BY <1>2, <2>1, <2>3, <2>4
<1> HIDE DEF l
<1>5. Min({MaxHistory, Len(l)}) = m
  <2>1. MaxHistory \in Nat /\ Len(l) = n /\ n \in Nat
    BY <1>2, <1>4
  <2> HIDE DEF n
  <2>2. Min({MaxHistory, n}) = IF MaxHistory <= n THEN MaxHistory ELSE n
    BY <2>1, MinOfTwo
  <2> QED BY <2>1, <2>2
<1> DEFINE w == SubSeq(l, 1, m)
<1>6. w \in Seq(Files) /\ Len(w) = m /\ \A i \in 1..m : w[i] = l[i]
  <2> HIDE DEF n
  <2>1. 1 \in Int /\ m \in Int /\ \A i \in 1..m : l[i] \in Files
    BY <1>2, <1>4
  <2>2. /\ w \in Seq(Files)
        /\ Len(w) = IF 1 <= m THEN m - 1 + 1 ELSE 0
        /\ \A i \in 1..(m - 1 + 1) : w[i] = l[1 + i - 1]
    <3> HIDE DEF m
    <3> QED BY <1>4, <2>1, SubSeqProperties
  <2> QED BY <1>2, <2>2
<1> HIDE DEF w
<1>7. WithLatest(s, f) = w
  BY <1>3, <1>5 DEF w
<1>8. \A i \in 2..m : w[i] = s[IF i <= k THEN i - 1 ELSE i]
  <2> TAKE i \in 2..m
  <2>1. w[i] = r[i - 1] /\ i - 1 \in 1..Len(r)
    BY <1>1, <1>2, <1>4, <1>6
  <2>2. r[i - 1] = s[IF i - 1 < k THEN i - 1 ELSE (i - 1) + 1]
    BY <1>1, <2>1
  <2>3. (i - 1 < k <=> i <= k) /\ (i - 1) + 1 = i
    BY <1>2
  <2> QED BY <2>1, <2>2, <2>3
<1>9. w[1] = f
  BY <1>2, <1>4, <1>6
<1> QED
  BY <1>1, <1>6, <1>7, <1>8, <1>9

\* The list that is saved is a list: nothing twice, no more than MAX_HISTORY.
LEMMA WithLatestType ==
    ASSUME NEW s \in Lists, NEW f \in Files
    PROVE  WithLatest(s, f) \in Lists
<1> DEFINE w == WithLatest(s, f)
<1>1. s \in Seq(Files) /\ IsInjective(s) /\ Len(s) \in Nat /\ DOMAIN s = 1..Len(s)
  BY BoundedSeqProperties, LenProperties DEF Lists
<1>2. PICK k \in 1..(Len(s) + 1) :
          /\ k <= Len(s) => s[k] = f
          /\ \A i \in 1..Len(s) : i # k => s[i] # f
          /\ w \in Seq(Files)
          /\ LET n == IF k <= Len(s) THEN Len(s) ELSE Len(s) + 1
             IN Len(w) = IF n <= MaxHistory THEN n ELSE MaxHistory
          /\ w[1] = f
          /\ \A i \in 2..Len(w) : w[i] = s[IF i <= k THEN i - 1 ELSE i]
  BY <1>1, WithLatestProperties
<1> HIDE DEF w
<1>3. /\ Len(w) \in Nat /\ Len(w) <= MaxHistory /\ DOMAIN w = 1..Len(w)
      /\ Len(w) <= IF k <= Len(s) THEN Len(s) ELSE Len(s) + 1
  BY <1>1, <1>2, LenProperties
<1>4. ASSUME NEW i \in 2..Len(w)
      PROVE  /\ (IF i <= k THEN i - 1 ELSE i) \in (1..Len(s)) \ {k}
             /\ w[i] = s[IF i <= k THEN i - 1 ELSE i]
             /\ w[i] # f
  <2>1. (IF i <= k THEN i - 1 ELSE i) \in (1..Len(s)) \ {k}
    BY <1>1, <1>3
  <2> QED BY <1>2, <2>1
<1>5. ASSUME NEW i \in 1..Len(w), NEW j \in 1..Len(w), w[i] = w[j]
      PROVE  i = j
  <2>1. CASE i = 1 \/ j = 1
    <3>1. i # 1 => i \in 2..Len(w)
      BY <1>3
    <3>2. j # 1 => j \in 2..Len(w)
      BY <1>3
    <3> QED BY <1>2, <1>4, <1>5, <2>1, <3>1, <3>2
  <2>2. CASE i # 1 /\ j # 1
    <3>1. i \in 2..Len(w) /\ j \in 2..Len(w)
      BY <1>3, <2>2
    <3>2. (IF i <= k THEN i - 1 ELSE i) = (IF j <= k THEN j - 1 ELSE j)
      BY <1>1, <1>4, <1>5, <3>1 DEF IsInjective
    <3> QED BY <3>1, <3>2
  <2> QED BY <2>1, <2>2
<1>6. IsInjective(w)
  BY <1>3, <1>5 DEF IsInjective
<1> QED
  BY <1>2, <1>3, <1>6, BoundedSeqProperties DEF Lists, w

-----------------------------------------------------------------------------
(***************************************************************************)
(* The order of the files chosen.                                          *)
(***************************************************************************)

\* What choosing f adds to the order: f comes before every other file, and the
\* others keep their places.
LEMMA ChosenFirst ==
    ASSUME NEW u \in Seq(Files), NEW f \in Files
    PROVE  /\ <<f>> \o u \in Seq(Files)
           /\ Len(<<f>> \o u) = Len(u) + 1
           /\ Range(<<f>> \o u) = Range(u) \cup {f}
           /\ \A g : g # f => MoreRecent(<<f>> \o u, f, g)
           /\ \A g, h : h # f /\ MoreRecent(u, g, h)
                          => MoreRecent(<<f>> \o u, g, h)
<1> DEFINE v == <<f>> \o u
<1>1. Len(u) \in Nat /\ DOMAIN u = 1..Len(u)
  BY LenProperties
<1>2. /\ v \in Seq(Files) /\ Len(v) = Len(u) + 1
      /\ v[1] = f /\ \A i \in 1..Len(u) : v[i + 1] = u[i]
  <2>1. <<f>> \in Seq(Files) /\ Len(<<f>>) = 1 /\ <<f>>[1] = f
    OBVIOUS
  <2>2. /\ v \in Seq(Files) /\ Len(v) = 1 + Len(u)
        /\ \A i \in 1..(1 + Len(u)) : v[i] = IF i <= 1 THEN <<f>>[i] ELSE u[i - 1]
    BY <2>1, ConcatProperties
  <2> HIDE DEF v
  <2>3. v[1] = f
    <3>1. 1 \in 1..(1 + Len(u)) /\ 1 <= 1
      BY <1>1
    <3> QED BY <2>1, <2>2, <3>1
  <2>4. \A i \in 1..Len(u) : v[i + 1] = u[i]
    <3> TAKE i \in 1..Len(u)
    <3>1. i + 1 \in 1..(1 + Len(u)) /\ ~(i + 1 <= 1) /\ (i + 1) - 1 = i
      BY <1>1
    <3> QED BY <2>2, <3>1
  <2> QED BY <1>1, <2>2, <2>3, <2>4
<1> HIDE DEF v
<1>3. DOMAIN v = 1..(Len(u) + 1)
  BY <1>2, LenProperties
<1>4. \A i \in 1..(Len(u) + 1) : i = 1 \/ (i - 1 \in 1..Len(u) /\ v[i] = u[i - 1])
  <2> TAKE i \in 1..(Len(u) + 1)
  <2>1. i = 1 \/ (i - 1 \in 1..Len(u) /\ (i - 1) + 1 = i)
    BY <1>1
  <2> QED BY <1>2, <2>1
<1>5. Range(v) = Range(u) \cup {f}
  <2>1. ASSUME NEW g \in Range(v) PROVE g \in Range(u) \cup {f}
    <3>1. PICK i \in 1..(Len(u) + 1) : v[i] = g
      BY <1>3, <2>1 DEF Range
    <3>2. CASE i = 1
      BY <1>2, <3>1, <3>2
    <3>3. CASE i - 1 \in 1..Len(u) /\ v[i] = u[i - 1]
      BY <1>1, <3>1, <3>3 DEF Range
    <3> QED BY <1>4, <3>2, <3>3
  <2>2. \A i \in 1..Len(u) : i + 1 \in 1..(Len(u) + 1)
    BY <1>1
  <2>3. \A g \in Range(u) : g \in Range(v)
    BY <1>1, <1>2, <1>3, <2>2 DEF Range
  <2>4. f \in Range(v)
    <3>1. 1 \in 1..(Len(u) + 1)
      BY <1>1
    <3> QED BY <1>2, <1>3, <3>1 DEF Range
  <2> QED BY <2>1, <2>3, <2>4
<1>6. ASSUME NEW g, g # f PROVE MoreRecent(v, f, g)
  <2>1. 1 \in 1..Len(v) /\ \A j \in 1..1 : j = 1
    BY <1>1, <1>2
  <2> QED BY <1>2, <1>6, <2>1 DEF MoreRecent
<1>7. ASSUME NEW g, NEW h, h # f, MoreRecent(u, g, h)
      PROVE  MoreRecent(v, g, h)
  <2>1. PICK i \in 1..Len(u) : u[i] = g /\ \A j \in 1..i : u[j] # h
    BY <1>7 DEF MoreRecent
  <2>2. i + 1 \in 1..Len(v) /\ v[i + 1] = g
    BY <1>1, <1>2, <2>1
  <2>3. ASSUME NEW j \in 1..(i + 1) PROVE v[j] # h
    <3>1. CASE j = 1
      BY <1>2, <1>7, <3>1
    <3>2. CASE j # 1
      <4>1. j - 1 \in 1..i /\ j \in 1..(Len(u) + 1)
        BY <1>1, <3>2
      <4> QED BY <1>4, <2>1, <3>2, <4>1
    <3> QED BY <3>1, <3>2
  <2> QED BY <2>2, <2>3 DEF MoreRecent
<1> QED
  BY <1>2, <1>5, <1>6, <1>7 DEF v

\* No file comes before itself: a list in that order names nothing twice.
LEMMA LatestInjective ==
    ASSUME NEW u \in Seq(Files), NEW l \in Seq(Files), LatestOf(l, u)
    PROVE  IsInjective(l)
<1>1. Len(l) \in Nat /\ DOMAIN l = 1..Len(l) /\ Len(u) \in Nat
  BY LenProperties
<1>2. \A g : ~MoreRecent(u, g, g)
  <2> SUFFICES ASSUME NEW g, MoreRecent(u, g, g) PROVE FALSE
    OBVIOUS
  <2>1. PICK i \in 1..Len(u) : u[i] = g /\ \A j \in 1..i : u[j] # g
    BY DEF MoreRecent
  <2>2. i \in 1..i
    BY <1>1
  <2> QED BY <2>1, <2>2
<1>3. ASSUME NEW i \in 1..Len(l), NEW j \in 1..Len(l), l[i] = l[j]
      PROVE  i = j
  <2>1. ~(i < j) /\ ~(j < i)
    BY <1>2, <1>3 DEF LatestOf
  <2> QED BY <1>1, <2>1
<1> QED
  BY <1>1, <1>3 DEF IsInjective

\* add_to_history turns the list of the files last sent into the list of the
\* files last sent, the new one included.
LEMMA WithLatestOf ==
    ASSUME NEW u \in Seq(Files), NEW s \in Seq(Files), NEW f \in Files,
           Len(s) <= MaxHistory, LatestOf(s, u)
    PROVE  LatestOf(WithLatest(s, f), <<f>> \o u)
<1> DEFINE w == WithLatest(s, f)
           v == <<f>> \o u
<1>1. IsInjective(s) /\ Len(s) \in Nat /\ DOMAIN s = 1..Len(s)
  BY LatestInjective, LenProperties
<1>2. PICK k \in 1..(Len(s) + 1) :
          /\ k <= Len(s) => s[k] = f
          /\ \A i \in 1..Len(s) : i # k => s[i] # f
          /\ w \in Seq(Files)
          /\ LET n == IF k <= Len(s) THEN Len(s) ELSE Len(s) + 1
             IN Len(w) = IF n <= MaxHistory THEN n ELSE MaxHistory
          /\ w[1] = f
          /\ \A i \in 2..Len(w) : w[i] = s[IF i <= k THEN i - 1 ELSE i]
  BY <1>1, WithLatestProperties
<1>3. /\ v \in Seq(Files) /\ Range(v) = Range(u) \cup {f}
      /\ \A g : g # f => MoreRecent(v, f, g)
      /\ \A g, h : h # f /\ MoreRecent(u, g, h) => MoreRecent(v, g, h)
  BY ChosenFirst
<1> HIDE DEF w, v
<1>4. /\ Len(w) \in Nat /\ DOMAIN w = 1..Len(w)
      /\ Len(w) <= IF k <= Len(s) THEN Len(s) ELSE Len(s) + 1
      /\ 1 <= Len(w)
  BY <1>1, <1>2, LenProperties
<1> DEFINE old(i) == IF i <= k THEN i - 1 ELSE i
<1>5. ASSUME NEW i \in 2..Len(w)
      PROVE  old(i) \in 1..Len(s) /\ w[i] = s[old(i)] /\ w[i] # f
  <2>1. old(i) \in 1..Len(s) /\ old(i) # k
    BY <1>1, <1>4
  <2> QED BY <1>2, <2>1
<1>6. ASSUME NEW i \in 1..Len(w) PROVE w[i] \in Range(v)
  <2>1. CASE i = 1
    BY <1>2, <1>3, <2>1
  <2>2. CASE i # 1
    <3>1. i \in 2..Len(w)
      BY <1>4, <2>2
    <3> QED BY <1>3, <1>5, <3>1 DEF LatestOf
  <2> QED BY <2>1, <2>2
<1>7. ASSUME NEW i \in 1..Len(w), NEW j \in 1..Len(w), i < j
      PROVE  MoreRecent(v, w[i], w[j])
  <2>1. j \in 2..Len(w)
    BY <1>4, <1>7
  <2>2. CASE i = 1
    BY <1>2, <1>3, <1>5, <2>1, <2>2
  <2>3. CASE i # 1
    <3>1. i \in 2..Len(w) /\ old(i) < old(j)
      BY <1>1, <1>4, <1>7, <2>3
    <3>2. /\ old(i) \in 1..Len(s) /\ old(j) \in 1..Len(s)
          /\ w[i] = s[old(i)] /\ w[j] = s[old(j)] /\ w[j] # f
      BY <1>5, <2>1, <3>1
    <3> HIDE DEF old
    <3>3. MoreRecent(u, w[i], w[j])
      BY <3>1, <3>2 DEF LatestOf
    <3> QED BY <1>3, <3>2, <3>3
  <2> QED BY <2>2, <2>3
<1>8. ASSUME NEW g \in Range(v) \ Range(w)
      PROVE  /\ Len(w) = MaxHistory
             /\ \A i \in 1..Len(w) : MoreRecent(v, w[i], g)
  <2>1. g # f /\ g \in Range(u)
    <3>1. 1 \in 1..Len(w)
      BY <1>4
    <3> QED BY <1>2, <1>3, <1>4, <3>1 DEF Range
  <2>2. \A i \in 1..Len(w) : w[i] # g
    BY <1>4 DEF Range
  <2>3. CASE g \notin Range(s)
    <3>1. /\ Len(s) = MaxHistory
          /\ \A i \in 1..Len(s) : MoreRecent(u, s[i], g)
      BY <2>1, <2>3 DEF LatestOf
    <3>2. Len(w) = MaxHistory
      BY <1>1, <1>2, <3>1
    <3>3. ASSUME NEW i \in 1..Len(w) PROVE MoreRecent(v, w[i], g)
      <4>1. CASE i = 1
        BY <1>2, <1>3, <2>1, <4>1
      <4>2. CASE i # 1
        <5>1. i \in 2..Len(w)
          BY <1>4, <4>2
        <5> QED BY <1>3, <1>5, <2>1, <3>1, <5>1
      <4> QED BY <4>1, <4>2
    <3> QED BY <3>2, <3>3
  <2>4. CASE g \in Range(s)
    <3>1. PICK m \in 1..Len(s) : s[m] = g
      BY <1>1, <2>4 DEF Range
    <3>2. m # k
      BY <1>1, <1>2, <2>1, <3>1
    <3> DEFINE new == IF m < k THEN m + 1 ELSE m
    <3>3. new \notin 1..Len(w)
      <4> SUFFICES ASSUME new \in 1..Len(w) PROVE FALSE
        OBVIOUS
      <4>1. new \in 2..Len(w) /\ old(new) = m
        BY <1>1, <1>4, <3>2
      <4>2. w[new] = g
        BY <1>5, <3>1, <4>1
      <4> QED BY <2>2, <4>2
    <3>4. Len(w) = MaxHistory /\ Len(w) < new
      <4>1. /\ Len(w) = MaxHistory
               \/ Len(w) = IF k <= Len(s) THEN Len(s) ELSE Len(s) + 1
            /\ k \in 1..(Len(s) + 1) /\ m \in 1..Len(s)
        BY <1>2
      <4>2. new \in Nat /\ 1 <= new /\ ~(new <= Len(w))
        BY <1>1, <1>4, <3>3
      <4>3. new <= IF k <= Len(s) THEN Len(s) ELSE Len(s) + 1
        BY <1>1, <3>2, <4>1
      <4> HIDE DEF new
      <4>4. Len(w) < new
        BY <1>4, <4>2
      <4> QED BY <4>1, <4>2, <4>3, <4>4
    <3>5. ASSUME NEW i \in 1..Len(w) PROVE MoreRecent(v, w[i], g)
      <4>1. CASE i = 1
        BY <1>2, <1>3, <2>1, <4>1
      <4>2. CASE i # 1
        <5>1. i \in 2..Len(w) /\ old(i) < m
          BY <1>1, <1>4, <3>2, <3>4, <4>2
        <5>2. old(i) \in 1..Len(s) /\ w[i] = s[old(i)]
          BY <1>5, <5>1
        <5> HIDE DEF old
        <5>3. MoreRecent(u, w[i], g)
          BY <3>1, <5>1, <5>2 DEF LatestOf
        <5> QED BY <1>3, <2>1, <5>3
      <4> QED BY <4>1, <4>2
    <3> QED BY <3>4, <3>5
  <2> QED BY <2>3, <2>4
<1>9. LatestOf(w, v)
  BY <1>6, <1>7, <1>8 DEF LatestOf
<1> QED
  BY <1>9 DEF w, v

-----------------------------------------------------------------------------
(***************************************************************************)
(* Type correctness.                                                       *)
(***************************************************************************)

\* A list, and the empty one, as sequences.
LEMMA ListProperties ==
    /\ <<>> \in Lists /\ <<>> \in Seq(Files) /\ Len(<<>>) = 0
    /\ \A s \in Lists : s \in Seq(Files) /\ Len(s) <= MaxHistory
<1>1. <<>> \in Seq(Files) /\ Len(<<>>) = 0 /\ DOMAIN <<>> = 1..Len(<<>>)
  <2>1. <<>> \in Seq(Files) /\ Len(<<>>) = 0
    BY EmptySeq
  <2> QED BY <2>1, LenProperties
<1>2. IsInjective(<<>>)
  BY <1>1 DEF IsInjective
<1>3. ASSUME NEW s PROVE s \in BoundedSeq(Files, MaxHistory)
                         <=> s \in Seq(Files) /\ Len(s) <= MaxHistory
  BY BoundedSeqProperties
<1>4. <<>> \in BoundedSeq(Files, MaxHistory)
  <2>1. Len(<<>>) <= MaxHistory
    BY <1>1
  <2> QED BY <1>1, <1>3, <2>1
<1> QED
  BY <1>1, <1>2, <1>3, <1>4 DEF Lists

\* load_history returns a list, whatever the file holds.
LEMMA LoadType == TypeOK => load_history \in Lists
BY ListProperties DEF TypeOK, load_history

\* No step takes the file, or a list about to be saved, out of its type.
LEMMA TypeNext == TypeOK /\ [Next]_vars => TypeOK'
<1> SUFFICES ASSUME TypeOK, [Next]_vars PROVE TypeOK'
  OBVIOUS
<1> USE DEF TypeOK, Steps
<1> <<>> \in Lists
  BY ListProperties
<1> HIDE DEF Lists
<1>1. ASSUME NEW t \in Tools, NEW f \in Files, Choose(t, f) PROVE TypeOK'
  BY <1>1 DEF Choose
<1>2. ASSUME NEW t \in Tools, Load(t) PROVE TypeOK'
  <2>1. WithLatest(load_history, filepath[t]) \in Lists
    BY LoadType, WithLatestType
  <2>2. uses' \in BoundedSeq(Files, MaxUses)
    <3>1. uses \in Seq(Files) /\ Len(uses) < MaxUses /\ filepath[t] \in Files
      BY <1>2, BoundedSeqProperties DEF Load
    <3>2. uses' \in Seq(Files) /\ Len(uses') = Len(uses) + 1
      BY <1>2, <3>1, ChosenFirst DEF Load
    <3>3. Len(uses) \in Nat
      BY <3>1, LenProperties
    <3>4. Len(uses') <= MaxUses
      BY <3>1, <3>2, <3>3
    <3> QED BY <3>2, <3>4, BoundedSeqProperties
  <2>3. upset' \in BOOLEAN
    BY <1>2 DEF Load
  <2> QED BY <1>2, <2>1, <2>2, <2>3 DEF Load
<1>3. ASSUME NEW t \in Tools, Truncate(t) PROVE TypeOK'
  BY <1>3 DEF Truncate
<1>4. ASSUME NEW t \in Tools, Write(t) PROVE TypeOK'
  BY <1>4 DEF Write
<1>5. ASSUME NEW t \in Tools, Again(t) PROVE TypeOK'
  BY <1>5 DEF Again
<1>6. ASSUME NEW t \in Tools, Killed(t) PROVE TypeOK'
  <2>1. upset' \in BOOLEAN
    BY <1>6 DEF Killed
  <2> QED BY <1>6, <2>1 DEF Killed
<1>7. CASE UNCHANGED vars
  BY <1>7 DEF vars
<1> QED
  BY <1>1, <1>2, <1>3, <1>4, <1>5, <1>6, <1>7 DEF Next

\* What the file holds, and every list about to be saved, names no file twice
\* and no more than MAX_HISTORY, however invocations meet or die: see TypeOK.
THEOREM TypeCorrect == Spec => []TypeOK
<1>1. Init => TypeOK
  <2> SUFFICES ASSUME Init PROVE TypeOK
    OBVIOUS
  <2>1. <<>> \in BoundedSeq(Files, MaxUses)
    BY ListProperties, BoundedSeqProperties
  <2> HIDE DEF Lists
  <2> QED BY <2>1, ListProperties DEF Init, TypeOK, Steps
<1> QED
  BY <1>1, TypeNext, PTL DEF Spec

-----------------------------------------------------------------------------
(***************************************************************************)
(* The inductive invariant: as long as nothing upsets the tool, one        *)
(* invocation at a time holds a list to be saved; that list, or else the   *)
(* file, is the list of the files last sent; and nobody has written since  *)
(* the file was truncated for it.                                          *)
(***************************************************************************)
Alone ==
    ~upset =>
        /\ \A t, v \in Tools : Busy(t) /\ Busy(v) => t = v
        /\ \A t \in Tools : Busy(t) => LatestOf(history[t], uses)
        /\ \A t \in Tools : step[t] = "write" => disk = Torn
        /\ (\A t \in Tools : ~Busy(t)) => /\ disk \notin {Torn, Garbled}
                                         /\ LatestOf(disk, uses)

\* At first nothing has been chosen and the file lists nothing.
LEMMA AloneInit == Init => Alone
<1> SUFFICES ASSUME Init PROVE Alone
  OBVIOUS
<1>1. \A t \in Tools : ~Busy(t)
  BY DEF Init, Busy
<1>2. <<>> \in Seq(Files) /\ Len(<<>>) = 0 /\ DOMAIN <<>> = {}
  BY ListProperties
<1>3. disk \notin {Torn, Garbled}
  <2>1. Len(Torn) = 1 /\ Len(Garbled) = 1
    BY DEF Torn, Garbled
  <2> QED BY <1>2, <2>1 DEF Init
<1>4. LatestOf(<<>>, <<>>)
  BY <1>2 DEF LatestOf, Range
<1> QED
  BY <1>1, <1>3, <1>4 DEF Alone, Init

\* No list of files is what a truncated or a garbled file holds.
LEMMA ListIsNotTorn ==
    ASSUME NEW s \in Lists
    PROVE  s \notin {Torn, Garbled}
<1>1. \A i \in 1..Len(s) : s[i] \in Files
  BY ListProperties, ElementOfSeq
<1>2. /\ Len(Torn) = 1 /\ Torn[1] = "torn"
      /\ Len(Garbled) = 1 /\ Garbled[1] = "garbled"
  BY DEF Torn, Garbled
<1>3. /\ ~ \A i \in 1..Len(Torn) : Torn[i] \in Files
      /\ ~ \A i \in 1..Len(Garbled) : Garbled[i] \in Files
  BY <1>2
<1> QED
  BY <1>1, <1>3

\* An invocation that finds nobody busy turns the file's list into its own; it
\* gives it back to the file by Truncate and Write, or upsets it by dying.
LEMMA AloneNext == TypeOK /\ Alone /\ [Next]_vars => Alone'
<1> SUFFICES ASSUME TypeOK, Alone, [Next]_vars, ~upset' PROVE Alone'
  BY DEF Alone
<1> USE DEF TypeOK
<1>1. ASSUME UNCHANGED <<disk, history, uses, upset>>,
             \A t \in Tools : Busy(t)' <=> Busy(t),
             \A t \in Tools : step'[t] = "write" => step[t] = "write"
      PROVE  Alone'
  <2>1. \A t \in Tools : step'[t] = "write" => disk' = Torn
    BY <1>1 DEF Alone
  <2>2. /\ \A t, v \in Tools : Busy(t)' /\ Busy(v)' => t = v
        /\ \A t \in Tools : Busy(t)' => LatestOf(history[t], uses)'
        /\ (\A t \in Tools : ~Busy(t)') => /\ disk' \notin {Torn, Garbled}
                                          /\ LatestOf(disk, uses)'
    BY <1>1 DEF Alone, LatestOf, MoreRecent
  <2> QED BY <2>1, <2>2 DEF Alone
<1>2. ASSUME NEW t \in Tools, NEW f \in Files, Choose(t, f) PROVE Alone'
  <2>1. \A v \in Tools : step'[v] = "write" => step[v] = "write"
    BY <1>2 DEF Choose
  <2>2. \A v \in Tools : Busy(v)' <=> Busy(v)
    BY <1>2 DEF Choose, Busy
  <2> QED BY <1>1, <1>2, <2>1, <2>2 DEF Choose
<1>3. ASSUME NEW t \in Tools, Load(t) PROVE Alone'
  <2>1. ~upset /\ \A v \in Tools : ~Busy(v)
    BY <1>3 DEF Load
  <2>2. disk \notin {Torn, Garbled} /\ LatestOf(disk, uses)
    BY <2>1 DEF Alone
  <2>3. load_history = disk /\ disk \in Lists
    BY <2>2 DEF load_history
  <2>4. /\ uses \in Seq(Files) /\ disk \in Seq(Files) /\ Len(disk) <= MaxHistory
        /\ filepath[t] \in Files
    BY <2>3, ListProperties, BoundedSeqProperties
  <2>5. LatestOf(history'[t], uses')
    <3>1. LatestOf(WithLatest(disk, filepath[t]), <<filepath[t]>> \o uses)
      BY <2>2, <2>4, WithLatestOf
    <3>2. /\ history'[t] = WithLatest(disk, filepath[t])
          /\ uses' = <<filepath[t]>> \o uses
      BY <1>3, <2>3 DEF Load
    <3> QED BY <3>1, <3>2
  <2>6. Busy(t)' /\ \A v \in Tools : Busy(v)' => v = t
    BY <1>3, <2>1 DEF Load, Busy
  <2>7. \A v \in Tools : step'[v] # "write"
    BY <1>3, <2>1 DEF Load, Busy
  <2> QED BY <2>5, <2>6, <2>7 DEF Alone
<1>4. ASSUME NEW t \in Tools, Truncate(t) PROVE Alone'
  <2>1. /\ ~upset /\ Busy(t) /\ Busy(t)'
        /\ \A v \in Tools : Busy(v)' <=> Busy(v)
        /\ UNCHANGED <<history, uses>>
    BY <1>4 DEF Truncate, Busy
  <2>2. disk' = Torn
    BY <1>4 DEF Truncate
  <2> QED BY <2>1, <2>2 DEF Alone, LatestOf, MoreRecent
<1>5. ASSUME NEW t \in Tools, Write(t) PROVE Alone'
  <2>0. ~upset /\ step[t] = "write" /\ disk = Torn
    BY <1>5 DEF Write, Alone
  <2>1. /\ ~upset /\ Busy(t) /\ disk' = history[t] /\ uses' = uses
        /\ \A v \in Tools : Busy(v)' => Busy(v) /\ v # t
    BY <1>5, <2>0 DEF Write, Busy
  <2>2. LatestOf(disk', uses') /\ disk' \notin {Torn, Garbled}
    BY <2>1, ListIsNotTorn DEF Alone
  <2>3. \A v \in Tools : ~Busy(v)' /\ step'[v] # "write"
    BY <2>1 DEF Alone, Busy
  <2> QED BY <2>2, <2>3 DEF Alone
<1>6. ASSUME NEW t \in Tools, Again(t) PROVE Alone'
  <2>1. \A v \in Tools : step'[v] = "write" => step[v] = "write"
    BY <1>6 DEF Again
  <2>2. \A v \in Tools : Busy(v)' <=> Busy(v)
    BY <1>6 DEF Again, Busy
  <2> QED BY <1>1, <1>6, <2>1, <2>2 DEF Again
<1>7. ASSUME NEW t \in Tools, Killed(t) PROVE Alone'
  <2>1. ~upset /\ ~Busy(t) /\ UNCHANGED <<disk, uses>>
    BY <1>7 DEF Killed, Busy
  <2>2. \A v \in Tools : /\ Busy(v)' <=> Busy(v)
                         /\ step'[v] = "write" <=> step[v] = "write"
    BY <1>7, <2>1 DEF Killed, Busy
  <2>3. \A v \in Tools : v # t => history'[v] = history[v]
    BY <1>7 DEF Killed
  <2>4. \A v \in Tools : Busy(v)' => v # t /\ Busy(v)
    BY <2>1, <2>2
  <2> QED BY <2>1, <2>2, <2>3, <2>4 DEF Alone
<1>8. CASE UNCHANGED vars
  <2>1. \A v \in Tools : Busy(v)' <=> Busy(v)
    BY <1>8 DEF vars, Busy
  <2> QED BY <1>1, <1>8, <2>1 DEF vars
<1> QED
  BY <1>2, <1>3, <1>4, <1>5, <1>6, <1>7, <1>8 DEF Next

\* As long as invocations do not meet and none is killed while it saves, the
\* file is the list of the files last sent, latest first: see ListsLatest.
THEOREM HistoryIsLatest == Spec => []ListsLatest
<1>1. Alone => ListsLatest
  BY DEF Alone, ListsLatest
<1> QED
  BY <1>1, TypeCorrect, AloneInit, AloneNext, PTL DEF Spec
=============================================================================
