--------------------------- MODULE SequenceLemmas ---------------------------
(***************************************************************************)
(* Facts that several components use: induction up to a number, and the    *)
(* functions it gives; the removal of an entry from a sequence; what is in *)
(* a queue, and how often, once it was extended or its head was taken; and *)
(* sequences that are joined and cut.                                      *)
(***************************************************************************)
EXTENDS SequencesExt, TLAPS, SequenceTheorems, WellFoundedInduction

\* A set of numbers has a least one.
LEMMA LeastNumber ==
  ASSUME NEW S \in SUBSET Nat, S # {}
  PROVE  \E x \in S : \A y \in S : x <= y
<1> DEFINE Below == {p \in Nat \X Nat : p[1] < p[2]}
<1>1. IsWellFoundedOn(Below, Nat)
  BY NatLessThanWellFounded DEF OpToRel
<1>2. PICK x \in S : \A y \in S : ~(<<y, x>> \in Below)
  BY <1>1, WFMin
<1>3. ASSUME NEW y \in S PROVE x <= y
  <2>1. ~(<<y, x>>[1] < <<y, x>>[2])
    BY <1>2, <1>3
  <2>2. QED
    BY <2>1
<1>4. QED
  BY <1>3

\* So does its Min.
LEMMA LeastOf ==
  ASSUME NEW S \in SUBSET Nat, S # {}
  PROVE  Min(S) \in S
<1>1. PICK x \in S : \A y \in S : x <= y
  BY LeastNumber
<1>2. QED
  BY <1>1 DEF Min

\* What holds of 0 and goes on from each number to the next holds up to m.
LEMMA Upwards ==
  ASSUME NEW T, 0 \in T, NEW m \in Nat, \A n \in 0..m - 1 : n \in T => n + 1 \in T
  PROVE  0..m \subseteq T
<1> DEFINE Out == {n \in 0..m : n \notin T}
<1>1. SUFFICES ASSUME Out # {} PROVE FALSE
  OBVIOUS
<1>2. Out \subseteq Nat
  OBVIOUS
<1>3. PICK x \in Out : \A y \in Out : x <= y
  BY <1>1, <1>2, LeastNumber
<1>4. x \in Nat /\ x > 0 /\ x <= m /\ x \notin T
  BY <1>2, <1>3
<1>5. x - 1 \in 0..m - 1 /\ x - 1 \in 0..m
  BY <1>4
<1>6. x - 1 \in T
  <2>1. x - 1 \notin Out
    BY <1>3, <1>4
  <2>2. QED
    BY <1>5, <2>1
<1>7. QED
  BY <1>4, <1>5, <1>6

\* Opaque, so that the provers do not rewrite with it.
Steps(step, S) == step \in [S -> S]

\* The first m steps from there.
Stepwise(f, S, step, start, m) ==
  /\ f \in [0..m -> S]
  /\ f[0] = start /\ \A n \in 1..m : f[n] = step[f[n - 1]]

\* A function can be given step by step.
LEMMA Iterated ==
  ASSUME NEW S, NEW step, Steps(step, S), NEW start \in S, NEW m \in Nat
  PROVE  \E f : Stepwise(f, S, step, start, m)
<1>0. step \in [S -> S]
  BY DEF Steps
<1> DEFINE Fits(f, n) == f \in [0..n -> S] /\ f[0] = start /\ \A i \in 1..n : f[i] = step[f[i - 1]]
           T == {n \in Nat : \E f : Fits(f, n)}
<1>1. 0 \in T
  <2> DEFINE g == [i \in 0..0 |-> start]
  <2>1. Fits(g, 0)
    OBVIOUS
  <2>2. QED
    BY <2>1
<1>2. ASSUME NEW n \in 0..m - 1, n \in T PROVE n + 1 \in T
  <2>1. PICK f : Fits(f, n)
    BY <1>2
  <2>2. n \in Nat /\ n \in 0..n
    OBVIOUS
  <2> DEFINE g == [i \in 0..n + 1 |-> IF i = n + 1 THEN step[f[n]] ELSE f[i]]
  <2>3. \A i \in 0..n : g[i] = f[i] /\ f[i] \in S
    BY <2>1, <2>2
  <2>4. g[n + 1] = step[f[n]] /\ step[f[n]] \in S
    BY <1>0, <2>1, <2>2
  <2>5. \A i \in 0..n + 1 : i \in 0..n \/ i = n + 1
    BY <2>2
  <2>6. g \in [0..n + 1 -> S]
    <3>1. \A i \in 0..n + 1 : g[i] \in S
      BY <2>3, <2>4, <2>5
    <3>2. g = [i \in 0..n + 1 |-> g[i]]
      OBVIOUS
    <3> HIDE DEF g
    <3>3. QED
      BY <3>1, <3>2
  <2> HIDE DEF g
  <2>7. ASSUME NEW i \in 1..n + 1 PROVE g[i] = step[g[i - 1]]
    <3>1. CASE i = n + 1
      <4>1. i - 1 = n
        BY <2>2, <3>1
      <4>2. QED
        BY <2>2, <2>3, <2>4, <3>1, <4>1
    <3>2. CASE i \in 1..n
      <4>1. i - 1 \in 0..n /\ i \in 0..n
        BY <2>2, <3>2
      <4>2. QED
        BY <2>1, <2>3, <3>2, <4>1
    <3>3. QED
      BY <2>2, <3>1, <3>2
  <2>8. Fits(g, n + 1)
    <3>1. 0 \in 0..n
      BY <2>2
    <3>2. QED
      BY <2>1, <2>3, <2>6, <2>7, <3>1
  <2>9. n + 1 \in Nat
    BY <2>2
  <2>10. QED
    BY <2>8, <2>9
<1>3. m \in T
  <2> HIDE DEF T
  <2>1. 0..m \subseteq T
    BY <1>1, <1>2, Upwards
  <2>2. QED
    BY <2>1
<1>4. QED
  BY <1>3 DEF Stepwise

\* The sequence without its i-th entry.
LEMMA Removed ==
  ASSUME NEW S, NEW s \in Seq(S), NEW i \in 1..Len(s)
  PROVE  /\ RemoveAt(s, i) \in Seq(S) /\ Len(RemoveAt(s, i)) = Len(s) - 1
         /\ \A j \in 1..Len(s) - 1 : RemoveAt(s, i)[j] = s[IF j < i THEN j ELSE j + 1]
<1> DEFINE l == SubSeq(s, 1, i - 1)
           r == SubSeq(s, i + 1, Len(s))
<1>1. Len(s) \in Nat /\ i \in Nat /\ 1 <= i /\ i <= Len(s)
  OBVIOUS
<1>2. l \in Seq(S) /\ Len(l) = i - 1 /\ \A j \in 1..i - 1 : l[j] = s[j]
  BY <1>1
<1>3. r \in Seq(S) /\ Len(r) = Len(s) - i /\ \A j \in 1..Len(s) - i : r[j] = s[i + j]
  BY <1>1
<1>4. RemoveAt(s, i) = l \o r
  BY DEF RemoveAt
<1> HIDE DEF l, r
<1>5. l \o r \in Seq(S) /\ Len(l \o r) = Len(s) - 1
  <2>1. l \o r \in Seq(S) /\ Len(l \o r) = Len(l) + Len(r)
    BY <1>2, <1>3, ConcatProperties
  <2>2. QED
    BY <1>1, <1>2, <1>3, <2>1
<1>6. ASSUME NEW j \in 1..Len(s) - 1
      PROVE  (l \o r)[j] = s[IF j < i THEN j ELSE j + 1]
  <2>1. CASE j < i
    BY <1>1, <1>2, <1>3, <2>1
  <2>2. CASE ~(j < i)
    <3>1. (l \o r)[j] = r[j - (i - 1)] /\ j - (i - 1) \in 1..Len(s) - i
      BY <1>1, <1>2, <1>3, <2>2
    <3>2. r[j - (i - 1)] = s[i + (j - (i - 1))] /\ i + (j - (i - 1)) = j + 1
      BY <1>1, <1>3, <3>1
    <3>3. QED
      BY <2>2, <3>1, <3>2
  <2>3. QED
    BY <2>1, <2>2
<1>7. QED
  BY <1>4, <1>5, <1>6

\* Where the first entry e is.
LEMMA FoundFirst ==
  ASSUME NEW S, NEW s \in Seq(S), NEW e, \E i \in 1..Len(s) : s[i] = e
  PROVE  /\ SelectInSeq(s, LAMBDA v : v = e) \in 1..Len(s)
         /\ s[SelectInSeq(s, LAMBDA v : v = e)] = e
<1> DEFINE I == {i \in 1..Len(s) : s[i] = e}
<1>1. I \in SUBSET Nat /\ I # {}
  OBVIOUS
<1>2. Min(I) \in I
  BY <1>1, LeastOf
<1>3. SelectInSeq(s, LAMBDA v : v = e) = Min(I)
  BY <1>1 DEF SelectInSeq
<1>4. QED
  BY <1>2, <1>3

\* No entry comes twice.
Distinct(s) == \A i, j \in 1..Len(s) : s[i] = s[j] => i = j

\* An entry that is removed was the only one of its kind.
LEMMA RemovedFirst ==
  ASSUME NEW S, NEW s \in Seq(S), Distinct(s), NEW e
  PROVE  /\ RemoveFirst(s, e) \in Seq(S)
         /\ Distinct(RemoveFirst(s, e))
         /\ \A x : Contains(RemoveFirst(s, e), x) <=> Contains(s, x) /\ x # e
<1>1. CASE ~\E i \in 1..Len(s) : s[i] = e
  BY <1>1 DEF RemoveFirst, Contains
<1>2. CASE \E i \in 1..Len(s) : s[i] = e
  <2> DEFINE k == SelectInSeq(s, LAMBDA v : v = e)
  <2>1. k \in 1..Len(s) /\ s[k] = e
    BY <1>2, FoundFirst
  <2>2. s[k] = e /\ RemoveFirst(s, e) = RemoveAt(s, k)
    BY <1>2, <2>1 DEF RemoveFirst
  <2> HIDE DEF k
  <2> DEFINE r == RemoveAt(s, k)
  <2>3. /\ r \in Seq(S) /\ Len(r) = Len(s) - 1
        /\ \A j \in 1..Len(s) - 1 : r[j] = s[IF j < k THEN j ELSE j + 1]
    BY <2>1, Removed
  <2>4. Len(s) \in Nat /\ k \in Nat /\ 1 <= k /\ k <= Len(s)
    BY <2>1
  <2> HIDE DEF r
  <2>5. \A j \in 1..Len(r) : \E i \in 1..Len(s) \ {k} : r[j] = s[i] /\ i = (IF j < k THEN j ELSE j + 1)
    BY <2>3, <2>4
  <2>6. Distinct(r)
    BY <2>3, <2>4, <2>5 DEF Distinct
  <2>7. ASSUME NEW i \in 1..Len(s), i # k PROVE Contains(r, s[i])
    <3>1. CASE i < k
      <4>1. i \in 1..Len(r) /\ r[i] = s[i]
        BY <2>3, <2>4, <3>1
      <4>2. QED
        BY <4>1 DEF Contains
    <3>2. CASE i > k
      <4>1. i - 1 \in 1..Len(r) /\ r[i - 1] = s[i]
        BY <2>3, <2>4, <3>2
      <4>2. QED
        BY <4>1 DEF Contains
    <3>3. QED
      BY <2>4, <2>7, <3>1, <3>2
  <2>8. \A x : Contains(r, x) <=> Contains(s, x) /\ x # e
    <3>1. ASSUME NEW x, Contains(r, x) PROVE Contains(s, x) /\ x # e
      <4>1. PICK i \in 1..Len(s) \ {k} : x = s[i]
        BY <3>1, <2>5 DEF Contains
      <4>2. QED
        BY <2>1, <2>2, <4>1 DEF Contains, Distinct
    <3>2. ASSUME NEW x, Contains(s, x), x # e PROVE Contains(r, x)
      <4>1. PICK i \in 1..Len(s) : x = s[i]
        BY <3>2 DEF Contains
      <4>2. QED
        BY <2>2, <2>7, <3>2, <4>1
    <3>3. QED
      BY <3>1, <3>2
  <2>9. QED
    BY <2>2, <2>3, <2>6, <2>8 DEF r
<1>3. QED
  BY <1>1, <1>2

----------------------------------------------------------------------------
(* Queues.                                                                 *)

\* t is not in the queue twice.
Once(s, t) == \A i, j \in 1..Len(s) : s[i] = t /\ s[j] = t => i = j

LEMMA Dequeued ==
  ASSUME NEW S, NEW s \in Seq(S), s # <<>>
  PROVE  /\ Head(s) \in S /\ Tail(s) \in Seq(S) /\ Contains(s, Head(s))
         /\ \A t : Contains(Tail(s), t) => Contains(s, t)
         /\ \A t : Contains(s, t) => t = Head(s) \/ Contains(Tail(s), t)
         /\ \A t : Once(s, t) => Once(Tail(s), t)
         /\ Once(s, Head(s)) => ~Contains(Tail(s), Head(s))
<1>1. /\ Len(s) \in Nat /\ Len(s) > 0 /\ Head(s) = s[1] /\ Head(s) \in S
      /\ Tail(s) \in Seq(S) /\ Len(Tail(s)) = Len(s) - 1
      /\ \A i \in 1..Len(Tail(s)) : Tail(s)[i] = s[i + 1]
  BY HeadTailProperties, LenProperties, EmptySeq
<1>2. Contains(s, Head(s))
  BY <1>1 DEF Contains
<1>3. \A t : Contains(Tail(s), t) => Contains(s, t)
  BY <1>1 DEF Contains
<1>4. ASSUME NEW t, Contains(s, t), t # Head(s) PROVE Contains(Tail(s), t)
  <2>1. PICK i \in 1..Len(s) : s[i] = t
    BY <1>4 DEF Contains
  <2>2. i - 1 \in 1..Len(Tail(s)) /\ Tail(s)[i - 1] = t
    BY <1>1, <1>4, <2>1
  <2>3. QED
    BY <2>2 DEF Contains
<1>5. ASSUME NEW t, Once(s, t) PROVE Once(Tail(s), t)
  <2>1. SUFFICES ASSUME NEW i \in 1..Len(Tail(s)), NEW j \in 1..Len(Tail(s)),
                        Tail(s)[i] = t, Tail(s)[j] = t
                 PROVE  i = j
    BY DEF Once
  <2>2. i + 1 \in 1..Len(s) /\ j + 1 \in 1..Len(s) /\ s[i + 1] = t /\ s[j + 1] = t
    BY <1>1, <2>1
  <2>3. i + 1 = j + 1
    BY <1>5, <2>2 DEF Once
  <2>4. QED
    BY <2>3
<1>6. ASSUME Once(s, Head(s)), Contains(Tail(s), Head(s)) PROVE FALSE
  <2>1. PICK i \in 1..Len(Tail(s)) : Tail(s)[i] = s[1]
    BY <1>1, <1>6 DEF Contains
  <2>2. i + 1 \in 1..Len(s) /\ 1 \in 1..Len(s) /\ s[i + 1] = s[1]
    BY <1>1, <2>1
  <2>3. i + 1 = 1
    BY <1>1, <1>6, <2>2 DEF Once
  <2>4. QED
    BY <2>3
<1>7. QED
  BY <1>1, <1>2, <1>3, <1>4, <1>5, <1>6

LEMMA Joined ==
  ASSUME NEW S, NEW s \in Seq(S), NEW u \in Seq(S)
  PROVE  /\ s \o u \in Seq(S)
         /\ \A t : Contains(s \o u, t) <=> Contains(s, t) \/ Contains(u, t)
         /\ \A t : Once(s, t) /\ ~Contains(u, t) => Once(s \o u, t)
<1> DEFINE r == s \o u
<1>1. /\ r \in Seq(S) /\ Len(r) = Len(s) + Len(u) /\ Len(s) \in Nat /\ Len(u) \in Nat
      /\ \A i \in 1..Len(s) : r[i] = s[i]
      /\ \A i \in 1..Len(u) : r[Len(s) + i] = u[i]
  BY ConcatProperties
<1> HIDE DEF r
<1>2. \A i \in 1..Len(r) : i \in 1..Len(s) \/ i - Len(s) \in 1..Len(u)
  BY <1>1
<1>3. \A i \in 1..Len(r) : i \notin 1..Len(s) => r[i] = u[i - Len(s)] /\ i - Len(s) \in 1..Len(u)
  BY <1>1
<1>4. \A t : Contains(r, t) => Contains(s, t) \/ Contains(u, t)
  BY <1>1, <1>3 DEF Contains
<1>5. \A t : Contains(s, t) => Contains(r, t)
  BY <1>1 DEF Contains
<1>6. ASSUME NEW t, Contains(u, t) PROVE Contains(r, t)
  <2>1. PICK i \in 1..Len(u) : u[i] = t
    BY <1>6 DEF Contains
  <2>2. Len(s) + i \in 1..Len(r) /\ r[Len(s) + i] = t
    BY <1>1, <2>1
  <2>3. QED
    BY <2>2 DEF Contains
<1>7. ASSUME NEW t, Once(s, t), ~Contains(u, t) PROVE Once(r, t)
  <2>1. \A i \in 1..Len(r) : r[i] = t => i \in 1..Len(s) /\ s[i] = t
    BY <1>1, <1>3, <1>7 DEF Contains
  <2>2. QED
    BY <1>7, <2>1 DEF Once
<1>8. QED
  BY <1>1, <1>4, <1>5, <1>6, <1>7 DEF r

\* An element of the second sequence alone is in the two as often as it is there.
LEMMA JoinedOnce ==
  ASSUME NEW S, NEW s \in Seq(S), NEW u \in Seq(S), NEW t, ~Contains(s, t), Once(u, t)
  PROVE  Once(s \o u, t)
<1> DEFINE r == s \o u
<1>1. /\ r \in Seq(S) /\ Len(r) = Len(s) + Len(u) /\ Len(s) \in Nat /\ Len(u) \in Nat
      /\ \A i \in 1..Len(s) : r[i] = s[i]
      /\ \A i \in 1..Len(u) : r[Len(s) + i] = u[i]
  BY ConcatProperties
<1> HIDE DEF r
<1>2. \A i \in 1..Len(r) : r[i] = t => i - Len(s) \in 1..Len(u) /\ u[i - Len(s)] = t
  <2>1. TAKE i \in 1..Len(r)
  <2>2. HAVE r[i] = t
  <2>3. i \notin 1..Len(s)
    BY <1>1, <2>2 DEF Contains
  <2>4. i - Len(s) \in 1..Len(u) /\ Len(s) + (i - Len(s)) = i
    BY <1>1, <2>3
  <2>5. QED
    BY <1>1, <2>2, <2>4
<1>3. \A i, j \in 1..Len(r) : r[i] = t /\ r[j] = t => i - Len(s) = j - Len(s)
  BY <1>2 DEF Once
<1>4. \A i, j \in 1..Len(r) : i - Len(s) = j - Len(s) => i = j
  BY <1>1
<1>5. QED
  BY <1>3, <1>4 DEF Once, r

LEMMA Enqueued ==
  ASSUME NEW S, NEW s \in Seq(S), NEW e \in S
  PROVE  /\ Append(s, e) \in Seq(S)
         /\ \A t : Contains(Append(s, e), t) <=> Contains(s, t) \/ t = e
         /\ \A t : Once(s, t) /\ t # e => Once(Append(s, e), t)
         /\ ~Contains(s, e) => Once(Append(s, e), e)
<1> DEFINE r == Append(s, e)
<1>1. /\ r \in Seq(S) /\ Len(r) = Len(s) + 1 /\ Len(s) \in Nat
      /\ \A i \in 1..Len(s) : r[i] = s[i]
      /\ r[Len(s) + 1] = e
  BY AppendProperties
<1> HIDE DEF r
<1>2. \A i \in 1..Len(r) : i \in 1..Len(s) \/ i = Len(s) + 1
  BY <1>1
<1>3. \A t : Contains(r, t) <=> Contains(s, t) \/ t = e
  BY <1>1, <1>2 DEF Contains
<1>4. \A t : Once(s, t) /\ t # e => Once(r, t)
  BY <1>1, <1>2 DEF Once
<1>5. ~Contains(s, e) => Once(r, e)
  BY <1>1, <1>2 DEF Once, Contains
<1>6. QED
  BY <1>1, <1>3, <1>4, <1>5 DEF r

----------------------------------------------------------------------------
(* Sequences joined: where each of them is.                                *)

\* The partial results of FlattenSeq.
IsFlat(f, list, n) ==
  /\ DOMAIN f = 1..n
  /\ \A i \in 1..n : f[i] = IF i = 1 THEN list[i] ELSE f[i - 1] \o list[i]

\* They exist up to any number.
LEMMA FlatExists ==
  ASSUME NEW list, NEW m \in Nat
  PROVE  \E f : f = [i \in 1..m |-> IF i = 1 THEN list[i] ELSE f[i - 1] \o list[i]]
<1> DEFINE Good(f, n) == f = [i \in 1..n |-> IF i = 1 THEN list[i] ELSE f[i - 1] \o list[i]]
           T == {n \in Nat : \E f : Good(f, n)}
<1>1. 0 \in T
  <2> DEFINE e == [i \in 1..0 |-> <<>>]
  <2>1. Good(e, 0)
    OBVIOUS
  <2>2. QED
    BY <2>1
<1>2. ASSUME NEW n \in 0..m - 1, n \in T PROVE n + 1 \in T
  <2>1. PICK f : Good(f, n)
    BY <1>2
  <2>2. n \in Nat
    OBVIOUS
  <2> DEFINE g == [i \in 1..n + 1 |-> IF i = n + 1 THEN IF i = 1 THEN list[i] ELSE f[n] \o list[i] ELSE f[i]]
  <2>3. ASSUME NEW i \in 1..n + 1 PROVE g[i] = IF i = 1 THEN list[i] ELSE g[i - 1] \o list[i]
    <3>1. CASE i = n + 1
      <4>1. CASE i = 1
        BY <3>1, <4>1
      <4>2. CASE i # 1
        <5>1. i - 1 = n /\ n \in 1..n + 1 /\ n # n + 1
          BY <2>2, <3>1, <4>2
        <5>2. g[n] = f[n]
          BY <5>1
        <5>3. g[i] = f[n] \o list[i]
          BY <3>1, <4>2
        <5> HIDE DEF g
        <5>4. QED
          BY <4>2, <5>1, <5>2, <5>3
      <4>3. QED
        BY <4>1, <4>2
    <3>2. CASE i # n + 1
      <4>1. i \in 1..n
        BY <2>2, <3>2
      <4>2. g[i] = f[i]
        BY <3>2
      <4>3. f[i] = IF i = 1 THEN list[i] ELSE f[i - 1] \o list[i]
        BY <2>1, <4>1
      <4>4. i # 1 => i - 1 \in 1..n + 1 /\ i - 1 # n + 1
        BY <2>2, <4>1
      <4>5. i # 1 => g[i - 1] = f[i - 1]
        BY <4>4
      <4> HIDE DEF g
      <4>6. QED
        BY <4>2, <4>3, <4>5
    <3>3. QED
      BY <3>1, <3>2
  <2>4. g = [i \in 1..n + 1 |-> g[i]]
    OBVIOUS
  <2> HIDE DEF g
  <2>5. Good(g, n + 1)
    BY <2>3, <2>4
  <2>6. \E h : Good(h, n + 1)
    BY <2>5, Zenon
  <2> HIDE DEF Good
  <2>7. QED
    BY <2>2, <2>6
<1>3. m \in T
  <2> HIDE DEF T
  <2>1. 0..m \subseteq T
    BY <1>1, <1>2, Upwards
  <2>2. QED
    BY <2>1
<1>4. QED
  BY <1>3

\* FlattenSeq is the last of them.
LEMMA FlatLast ==
  ASSUME NEW list, Len(list) \in Nat \ {0}
  PROVE  \E f : IsFlat(f, list, Len(list)) /\ FlattenSeq(list) = f[Len(list)]
<1> DEFINE m == Len(list)
           f == CHOOSE g : g = [i \in 1..m |-> IF i = 1 THEN list[i] ELSE g[i - 1] \o list[i]]
<1>1. FlattenSeq(list) = f[m]
  BY DEF FlattenSeq
<1>2. \E g : g = [i \in 1..m |-> IF i = 1 THEN list[i] ELSE g[i - 1] \o list[i]]
  <2> HIDE DEF m
  <2>1. m \in Nat
    BY DEF m
  <2>2. QED
    BY <2>1, FlatExists
<1>3. f = [i \in 1..m |-> IF i = 1 THEN list[i] ELSE f[i - 1] \o list[i]]
  BY <1>2
<1> HIDE DEF f
<1>4. IsFlat(f, list, m)
  BY <1>3 DEF IsFlat
<1>5. QED
  BY <1>1, <1>4

\* One sequence more is joined at the end.
LEMMA FlatMore ==
  ASSUME NEW S, NEW list \in Seq(Seq(S)), NEW e \in Seq(S)
  PROVE  FlattenSeq(Append(list, e)) = FlattenSeq(list) \o e
<1> DEFINE m == Len(list)
           more == Append(list, e)
<1>1. m \in Nat /\ Len(more) = m + 1 /\ more[m + 1] = e /\ \A i \in 1..m : more[i] = list[i]
  BY LenProperties, AppendProperties
<1> HIDE DEF m, more
<1>2. PICK g : IsFlat(g, more, m + 1) /\ FlattenSeq(more) = g[m + 1]
  BY <1>1, FlatLast
<1>3. CASE m = 0
  <2>1. list = <<>> /\ FlattenSeq(list) = <<>>
    BY <1>3, EmptySeq DEF m, FlattenSeq
  <2>2. g[m + 1] = e
    BY <1>1, <1>2, <1>3 DEF IsFlat
  <2>3. <<>> \o e = e
    BY ConcatEmptySeq
  <2>4. QED
    BY <1>2, <2>1, <2>2, <2>3 DEF more
<1>4. CASE m # 0
  <2>1. PICK f : IsFlat(f, list, m) /\ FlattenSeq(list) = f[m]
    BY <1>1, <1>4, FlatLast DEF m
  <2> DEFINE T == {n \in Nat : n > 0 => g[n] = f[n]}
  <2>2. 0 \in T
    OBVIOUS
  <2>3. ASSUME NEW n \in 0..m - 1, n \in T PROVE n + 1 \in T
    <3>1. PICK k : k = n + 1
      OBVIOUS
    <3>2. k \in 1..m /\ k \in 1..m + 1 /\ k - 1 = n /\ n \in Nat
      BY <1>1, <3>1
    <3>3. f[k] = (IF k = 1 THEN list[k] ELSE f[n] \o list[k]) /\ g[k] = (IF k = 1 THEN more[k] ELSE g[n] \o more[k])
      BY <1>2, <2>1, <3>2 DEF IsFlat
    <3>4. more[k] = list[k]
      BY <1>1, <3>2
    <3>5. k # 1 => g[n] = f[n]
      BY <2>3, <3>2
    <3>6. g[k] = f[k]
      BY <3>3, <3>4, <3>5
    <3>7. QED
      BY <3>1, <3>2, <3>6
  <2>4. m \in T
    <3> HIDE DEF T
    <3>1. 0..m \subseteq T
      BY <1>1, <2>2, <2>3, Upwards
    <3>2. QED
      BY <1>1, <3>1
  <2>5. g[m] = f[m]
    BY <1>1, <1>4, <2>4
  <2>6. PICK k : k = m + 1
    OBVIOUS
  <2>7. k \in 1..m + 1 /\ k # 1 /\ k - 1 = m
    BY <1>1, <1>4, <2>6
  <2>8. g[k] = g[m] \o more[k]
    BY <1>2, <2>7 DEF IsFlat
  <2>9. QED
    BY <1>1, <1>2, <2>1, <2>5, <2>6, <2>8 DEF more
<1>5. QED
  BY <1>3, <1>4

\* What follows the first k sequences of a list that are joined.
Behind(list, k) ==
  SubSeq(FlattenSeq(list), Len(FlattenSeq(SubSeq(list, 1, k))) + 1, Len(FlattenSeq(list)))

\* One more of the sequences of a list.
LEMMA FirstOnes ==
  ASSUME NEW S, NEW list \in Seq(S), NEW k \in 0..Len(list)
  PROVE  /\ SubSeq(list, 1, k) \in Seq(S) /\ Len(SubSeq(list, 1, k)) = k
         /\ k < Len(list) => list[k + 1] \in S /\ SubSeq(list, 1, k + 1) = Append(SubSeq(list, 1, k), list[k + 1])
<1>1. Len(list) \in Nat /\ \A i \in 1..Len(list) : list[i] \in S
  BY LenProperties, ElementOfSeq
<1>2. /\ SubSeq(list, 1, k) \in Seq(S) /\ Len(SubSeq(list, 1, k)) = k
      /\ \A i \in 1..k : SubSeq(list, 1, k)[i] = list[i]
  BY <1>1, SubSeqProperties
<1>3. ASSUME k < Len(list) PROVE SubSeq(list, 1, k + 1) = Append(SubSeq(list, 1, k), list[k + 1])
  <2> DEFINE a == SubSeq(list, 1, k + 1)
             b == Append(SubSeq(list, 1, k), list[k + 1])
  <2>1. a \in Seq(S) /\ Len(a) = k + 1 /\ \A i \in 1..k + 1 : a[i] = list[i]
    BY <1>1, <1>3, SubSeqProperties
  <2>2. b \in Seq(S) /\ Len(b) = k + 1 /\ \A i \in 1..k + 1 : b[i] = list[i]
    BY <1>1, <1>2, <1>3, AppendProperties
  <2> HIDE DEF a, b
  <2>3. a = b
    BY <2>1, <2>2, SeqEqual
  <2>4. QED
    BY <2>3 DEF a, b
<1>4. QED
  BY <1>1, <1>2, <1>3

\* Joined sequences are a sequence.
LEMMA FlatTyped ==
  ASSUME NEW S, NEW list \in Seq(Seq(S))
  PROVE  FlattenSeq(list) \in Seq(S)
<1> DEFINE First(k) == SubSeq(list, 1, k)
           T == {n \in Nat : FlattenSeq(First(n)) \in Seq(S)}
<1>1. Len(list) \in Nat /\ First(Len(list)) = list
  BY LenProperties, SubSeqFull
<1>2. 0 \in T
  <2>1. First(0) = <<>>
    BY SubSeqEmpty
  <2>2. FlattenSeq(<<>>) = <<>>
    BY DEF FlattenSeq
  <2>3. QED
    BY <2>1, <2>2, EmptySeq
<1>3. ASSUME NEW n \in 0..Len(list) - 1, n \in T PROVE n + 1 \in T
  <2>1. /\ First(n) \in Seq(Seq(S)) /\ list[n + 1] \in Seq(S)
        /\ First(n + 1) = Append(First(n), list[n + 1])
    <3>1. n \in 0..Len(list) /\ n < Len(list)
      BY <1>1
    <3>2. QED
      BY <3>1, FirstOnes
  <2>2. FlattenSeq(First(n + 1)) = FlattenSeq(First(n)) \o list[n + 1]
    BY <2>1, FlatMore
  <2>3. FlattenSeq(First(n)) \o list[n + 1] \in Seq(S)
    BY <1>3, <2>1, ConcatProperties
  <2>4. n + 1 \in Nat
    BY <1>1
  <2>5. QED
    BY <2>2, <2>3, <2>4
<1> HIDE DEF T
<1>4. 0..Len(list) \subseteq T
  BY <1>1, <1>2, <1>3, Upwards
<1>5. Len(list) \in T
  BY <1>1, <1>4
<1>6. QED
  BY <1>1, <1>5 DEF T

\* What follows the same sequence is the same.
LEMMA Cancelled ==
  ASSUME NEW S, NEW s \in Seq(S), NEW t \in Seq(S), NEW v \in Seq(S), s \o t = s \o v
  PROVE  t = v
  BY ConcatSimplifications

\* It does not matter which are joined first.
LEMMA Regrouped ==
  \A S : \A s, t, u \in Seq(S) : (s \o t) \o u = s \o (t \o u)
  BY ConcatAssociative

\* A sequence that continues another is cut after it.
LEMMA CutAfter ==
  ASSUME NEW S, NEW a \in Seq(S), NEW b \in Seq(S)
  PROVE  SubSeq(a \o b, Len(a) + 1, Len(a \o b)) = b
<1> DEFINE s == SubSeq(a \o b, Len(a) + 1, Len(a \o b))
<1>1. Len(a) \in Nat /\ Len(b) \in Nat
  BY LenProperties
<1>2. /\ a \o b \in Seq(S) /\ Len(a \o b) = Len(a) + Len(b)
      /\ \A i \in 1..Len(a) + Len(b) : (a \o b)[i] = IF i <= Len(a) THEN a[i] ELSE b[i - Len(a)]
  BY ConcatProperties
<1>3. \A i \in 1..Len(b) : b[i] \in S
  BY ElementOfSeq
<1>4. \A i \in Len(a) + 1..Len(a) + Len(b) : (a \o b)[i] \in S /\ (a \o b)[i] = b[i - Len(a)]
  BY <1>1, <1>2, <1>3
<1>5. /\ s \in Seq(S) /\ Len(s) = Len(b)
      /\ \A i \in 1..Len(b) : s[i] = (a \o b)[Len(a) + 1 + i - 1]
  BY <1>1, <1>2, <1>4, SubSeqProperties
<1>6. \A i \in 1..Len(b) : s[i] = b[i]
  BY <1>1, <1>4, <1>5
<1> HIDE DEF s
<1>7. s = b
  BY <1>5, <1>6, SeqEqual
<1>8. QED
  BY <1>7 DEF s

\* Joined sequences are the first of them and what is behind.
LEMMA FlatCut ==
  ASSUME NEW S, NEW list \in Seq(Seq(S)), NEW k \in 0..Len(list)
  PROVE  /\ FlattenSeq(SubSeq(list, 1, k)) \in Seq(S) /\ Behind(list, k) \in Seq(S)
         /\ FlattenSeq(list) = FlattenSeq(SubSeq(list, 1, k)) \o Behind(list, k)
<1> DEFINE Flat(n) == FlattenSeq(SubSeq(list, 1, n))
           T == {n \in Nat : \E r \in Seq(S) : Flat(k + n) = Flat(k) \o r}
<1>0. \A s, t, u \in Seq(S) : (s \o t) \o u = s \o (t \o u)
  BY Regrouped
<1>1. Len(list) \in Nat /\ k \in Nat /\ k <= Len(list)
  BY LenProperties
<1>2. \A n \in 0..Len(list) : Flat(n) \in Seq(S)
  BY FirstOnes, FlatTyped
<1>3. \A n \in 0..Len(list) - 1 : list[n + 1] \in Seq(S) /\ Flat(n + 1) = Flat(n) \o list[n + 1]
  <2>1. TAKE n \in 0..Len(list) - 1
  <2>2. n \in 0..Len(list) /\ n < Len(list)
    BY <1>1
  <2>3. /\ SubSeq(list, 1, n) \in Seq(Seq(S)) /\ list[n + 1] \in Seq(S)
        /\ SubSeq(list, 1, n + 1) = Append(SubSeq(list, 1, n), list[n + 1])
    BY <2>2, FirstOnes
  <2>4. QED
    BY <2>3, FlatMore
<1>4. 0 \in T
  <2>1. <<>> \in Seq(S) /\ Flat(k) \o <<>> = Flat(k) /\ k + 0 = k
    BY <1>1, <1>2, EmptySeq, ConcatEmptySeq
  <2>2. QED
    BY <2>1
<1>5. ASSUME NEW n \in 0..Len(list) - k - 1, n \in T PROVE n + 1 \in T
  <2>1. PICK r \in Seq(S) : Flat(k + n) = Flat(k) \o r
    BY <1>5
  <2>2. PICK m : m = k + n
    OBVIOUS
  <2>3. m \in 0..Len(list) - 1 /\ k + (n + 1) = m + 1 /\ n + 1 \in Nat
    BY <1>1, <2>2
  <2>4. list[m + 1] \in Seq(S) /\ Flat(m + 1) = Flat(m) \o list[m + 1]
    BY <1>3, <2>3
  <2>5. r \o list[m + 1] \in Seq(S)
    BY <2>4, ConcatProperties
  <2>6. (Flat(k) \o r) \o list[m + 1] = Flat(k) \o (r \o list[m + 1])
    <3>1. Flat(k) \in Seq(S)
      BY <1>1, <1>2
    <3> HIDE DEF Flat
    <3>2. QED
      BY <1>0, <2>4, <3>1
  <2> HIDE DEF Flat
  <2>7. Flat(k + (n + 1)) = Flat(k) \o (r \o list[m + 1])
    BY <2>1, <2>2, <2>3, <2>4, <2>6
  <2>8. QED
    BY <2>3, <2>5, <2>7
<1>6. PICK r \in Seq(S) : FlattenSeq(list) = Flat(k) \o r
  <2> HIDE DEF T
  <2>1. Len(list) - k \in Nat
    BY <1>1
  <2>2. 0..Len(list) - k \subseteq T
    BY <1>4, <1>5, <2>1, Upwards
  <2>3. Len(list) - k \in T
    BY <2>1, <2>2
  <2>4. k + (Len(list) - k) = Len(list) /\ SubSeq(list, 1, Len(list)) = list
    BY <1>1, SubSeqFull
  <2>5. QED
    BY <2>3, <2>4 DEF T
<1>7. Behind(list, k) = r
  BY <1>2, <1>6, CutAfter DEF Behind
<1>8. QED
  BY <1>2, <1>6, <1>7

\* What is behind the first k begins with the next, and behind the last is nothing.
LEMMA BehindNext ==
  ASSUME NEW S, NEW list \in Seq(Seq(S))
  PROVE  /\ Behind(list, 0) = FlattenSeq(list) /\ Behind(list, Len(list)) = <<>>
         /\ \A k \in 0..Len(list) - 1 : /\ list[k + 1] \in Seq(S)
                                        /\ Behind(list, k) = list[k + 1] \o Behind(list, k + 1)
                                        /\ FlattenSeq(SubSeq(list, 1, k + 1)) = FlattenSeq(SubSeq(list, 1, k)) \o list[k + 1]
<1> DEFINE Flat(n) == FlattenSeq(SubSeq(list, 1, n))
<1>1. Len(list) \in Nat
  BY LenProperties
<1>2. Behind(list, 0) = FlattenSeq(list)
  <2>1. Flat(0) = <<>>
    BY SubSeqEmpty DEF FlattenSeq
  <2>2. FlattenSeq(list) = <<>> \o Behind(list, 0) /\ Behind(list, 0) \in Seq(S)
    <3>1. 0 \in 0..Len(list)
      BY <1>1
    <3>2. FlattenSeq(list) = Flat(0) \o Behind(list, 0) /\ Behind(list, 0) \in Seq(S)
      BY <3>1, FlatCut
    <3>3. QED
      BY <2>1, <3>2
  <2>3. QED
    BY <2>2, ConcatEmptySeq
<1>3. Behind(list, Len(list)) = <<>>
  <2>1. Flat(Len(list)) = FlattenSeq(list)
    BY SubSeqFull
  <2>2. /\ FlattenSeq(list) = FlattenSeq(list) \o Behind(list, Len(list))
        /\ FlattenSeq(list) \in Seq(S) /\ Behind(list, Len(list)) \in Seq(S)
    BY <1>1, <2>1, FlatCut, FlatTyped
  <2>3. QED
    BY <2>2, ConcatEqualIffEmpty
<1>4. ASSUME NEW k \in 0..Len(list) - 1
      PROVE  list[k + 1] \in Seq(S) /\ Behind(list, k) = list[k + 1] \o Behind(list, k + 1) /\ Flat(k + 1) = Flat(k) \o list[k + 1]
  <2>1. k \in 0..Len(list) /\ k + 1 \in 0..Len(list) /\ k < Len(list)
    BY <1>1
  <2>2. list[k + 1] \in Seq(S) /\ Flat(k + 1) = Flat(k) \o list[k + 1]
    BY <2>1, FirstOnes, FlatMore
  <2>3. /\ Flat(k) \in Seq(S) /\ Behind(list, k) \in Seq(S) /\ Behind(list, k + 1) \in Seq(S)
        /\ Flat(k) \o Behind(list, k) = Flat(k + 1) \o Behind(list, k + 1)
    BY <2>1, FlatCut
  <2> HIDE DEF Flat
  <2>4. Flat(k) \o Behind(list, k) = Flat(k) \o (list[k + 1] \o Behind(list, k + 1))
    <3>1. Flat(k) \o Behind(list, k) = (Flat(k) \o list[k + 1]) \o Behind(list, k + 1)
      BY <2>2, <2>3
    <3>2. (Flat(k) \o list[k + 1]) \o Behind(list, k + 1) = Flat(k) \o (list[k + 1] \o Behind(list, k + 1))
      <4>1. Flat(k) \in Seq(S) /\ list[k + 1] \in Seq(S) /\ Behind(list, k + 1) \in Seq(S)
        BY <2>2, <2>3
      <4>2. \A s, t, u \in Seq(S) : (s \o t) \o u = s \o (t \o u)
        BY Regrouped
      <4>3. QED
        BY <4>1, <4>2
    <3>3. QED
      BY <3>1, <3>2
  <2>5. list[k + 1] \o Behind(list, k + 1) \in Seq(S)
    BY <2>2, <2>3, ConcatProperties
  <2>6. QED
    BY <2>2, <2>3, <2>4, <2>5, Cancelled
<1>5. QED
  BY <1>2, <1>3, <1>4

\* A sequence is cut at two places.  Opaque, so that the provers do not rewrite with it.
Cuts(a, r, p, t) == a \o r = p \o t

\* A sequence and what comes after it are read: when it is long enough, its beginning is
\* theirs.
LEMMA ReadOff ==
  ASSUME NEW S, NEW a \in Seq(S), NEW r \in Seq(S), NEW p \in Seq(S), NEW t \in Seq(S),
         Cuts(a, r, p, t), Len(a) >= Len(p)
  PROVE  /\ SubSeq(a, 1, Len(p)) = p
         /\ SubSeq(a, Len(p) + 1, Len(a)) \in Seq(S)
         /\ Len(SubSeq(a, Len(p) + 1, Len(a))) = Len(a) - Len(p)
         /\ Cuts(SubSeq(a, Len(p) + 1, Len(a)), r, <<>>, t)
<1> DEFINE b == SubSeq(a, 1, Len(p))
           c == SubSeq(a, Len(p) + 1, Len(a))
<1>1. Len(a) \in Nat /\ Len(p) \in Nat /\ Len(r) \in Nat /\ Len(t) \in Nat
  BY LenProperties
<1>2. \A i \in 1..Len(a) : a[i] \in S
  BY ElementOfSeq
<1>3. b \in Seq(S) /\ Len(b) = Len(p) /\ \A i \in 1..Len(p) : b[i] = a[i]
  BY <1>1, <1>2, SubSeqProperties
<1>4. c \in Seq(S) /\ Len(c) = Len(a) - Len(p)
  BY <1>1, <1>2, SubSeqProperties
<1>5. \A i \in 1..Len(p) : a[i] = p[i]
  <2>1. \A i \in 1..Len(a) + Len(r) : (a \o r)[i] = IF i <= Len(a) THEN a[i] ELSE r[i - Len(a)]
    BY ConcatProperties
  <2>2. \A i \in 1..Len(p) + Len(t) : (p \o t)[i] = IF i <= Len(p) THEN p[i] ELSE t[i - Len(p)]
    BY ConcatProperties
  <2>3. TAKE i \in 1..Len(p)
  <2>4. (a \o r)[i] = a[i] /\ (p \o t)[i] = p[i]
    BY <1>1, <2>1, <2>2
  <2>5. QED
    BY <2>4 DEF Cuts
<1>6. a = b \o c
  <2>1. 1 \in 1..Len(a) + 1 /\ Len(p) \in 1 - 1..Len(a) /\ Len(a) \in Len(p)..Len(a)
    BY <1>1
  <2>2. b \o c = SubSeq(a, 1, Len(a))
    BY <2>1, ConcatAdjacentSubSeq
  <2>3. QED
    BY <2>2, SubSeqFull
<1> HIDE DEF b, c
<1>7. b = p
  BY <1>3, <1>5, SeqEqual
<1>8. p \o (c \o r) = p \o t
  <2>1. (p \o c) \o r = p \o (c \o r)
    BY <1>4, ConcatAssociative, SMTT(60)
  <2>2. QED
    BY <1>6, <1>7, <2>1 DEF Cuts
<1>9. c \o r = t
  <2>1. c \o r \in Seq(S)
    BY <1>4, ConcatProperties
  <2>2. QED
    BY <1>8, <2>1, Cancelled
<1>10. <<>> \o t = t
  BY ConcatEmptySeq
<1>11. QED
  BY <1>4, <1>7, <1>9, <1>10 DEF b, c, Cuts
=============================================================================
