----------------------------- MODULE SemProofs -----------------------------
(***************************************************************************)
(* Theorems about the semaphore of ipc.c, for any threads, priorities,     *)
(* longest wait and limit of the counter: its suspend list holds exactly   *)
(* those who wait, no wake-up is lost, and it implements TokenQueue.  They *)
(* rest on what inserting into and removing from a list do to the set of   *)
(* its members and to their order.                                         *)
(***************************************************************************)
EXTENDS RtSemaphore, FiniteSetTheorems, SequenceTheorems, TLAPS

\* The pairs of members of a list, the first one ahead of the second.
OrderOf(s) == {<<s[p[1]], s[p[2]]>> : p \in {p \in (DOMAIN s) \X (DOMAIN s) : p[1] < p[2]}}

\* A pair is in the order of a list when there are two such places.
LEMMA OrderMember ==
  ASSUME NEW S, NEW s \in Seq(S), NEW a, NEW b
  PROVE  <<a, b>> \in OrderOf(s) <=> \E i, j \in 1 .. Len(s) : i < j /\ s[i] = a /\ s[j] = b
<1>1. DOMAIN s = 1 .. Len(s)
  OBVIOUS
<1>2. ASSUME <<a, b>> \in OrderOf(s)
      PROVE  \E i, j \in 1 .. Len(s) : i < j /\ s[i] = a /\ s[j] = b
  <2>1. PICK p \in (DOMAIN s) \X (DOMAIN s) : p[1] < p[2] /\ <<a, b>> = <<s[p[1]], s[p[2]]>>
    BY <1>2 DEF OrderOf
  <2>2. p[1] \in 1 .. Len(s) /\ p[2] \in 1 .. Len(s) /\ s[p[1]] = a /\ s[p[2]] = b
    BY <1>1, <2>1
  <2> QED BY <2>1, <2>2
<1>3. ASSUME NEW i \in 1 .. Len(s), NEW j \in 1 .. Len(s), i < j, s[i] = a, s[j] = b
      PROVE  <<a, b>> \in OrderOf(s)
  <2> DEFINE p == <<i, j>>
  <2>1. p \in (DOMAIN s) \X (DOMAIN s) /\ p[1] = i /\ p[2] = j
    BY <1>1
  <2>2. p[1] < p[2] /\ <<a, b>> = <<s[p[1]], s[p[2]]>>
    BY <1>3, <2>1
  <2> HIDE DEF p
  <2> QED BY <2>1, <2>2 DEF OrderOf
<1> QED BY <1>2, <1>3

\* Every member of the order of a list is a pair of its members.
LEMMA OrderPairs ==
  ASSUME NEW S, NEW s \in Seq(S)
  PROVE  OrderOf(s) \subseteq ToSet(s) \X ToSet(s)
BY DEF OrderOf, ToSet

\* Two orders of lists over one set are equal when they hold the same pairs.
LEMMA PairsEqual ==
  ASSUME NEW S, NEW A \in SUBSET (S \X S), NEW B \in SUBSET (S \X S),
         \A a, b \in S : <<a, b>> \in A <=> <<a, b>> \in B
  PROVE  A = B
OBVIOUS

\* A set that reaches up to the end of an interval has a least member, which is
\* its Min: the place after all the others.
LEMMA MinOfTail ==
  ASSUME NEW n \in Nat, NEW B \in SUBSET (1 .. n), B # {},
         \A i \in B : \A j \in 1 .. n : i < j => j \in B
  PROVE  Min(B) \in B /\ \A y \in B : Min(B) <= y
<1> DEFINE D == (1 .. n) \ B
           k == Cardinality(D)
<1>1. IsFiniteSet(D) /\ k \in Nat
  <2>1. IsFiniteSet(1 .. n)
    BY FS_Interval
  <2>2. IsFiniteSet(D)
    BY <2>1, FS_Subset
  <2> QED BY <2>2, FS_CardinalityType
<1>2. ASSUME NEW x \in D PROVE x <= k
  <2>1. (1 .. x) \subseteq D
    OBVIOUS
  <2>2. Cardinality(1 .. x) <= k
    BY <1>1, <2>1, FS_Subset
  <2>3. Cardinality(1 .. x) = x
    BY FS_Interval
  <2> QED BY <2>2, <2>3
<1>3. ASSUME NEW x \in B PROVE x > k
  <2>1. D \subseteq (1 .. x - 1)
    OBVIOUS
  <2>2. IsFiniteSet(1 .. x - 1) /\ Cardinality(1 .. x - 1) = x - 1
    BY FS_Interval
  <2>3. k <= Cardinality(1 .. x - 1)
    BY <2>1, <2>2, FS_Subset
  <2> QED BY <1>1, <2>2, <2>3
<1> HIDE DEF k
<1>4. k + 1 \in B
  <2>1. PICK x \in B : TRUE
    OBVIOUS
  <2>2. k + 1 \in 1 .. n
    BY <1>1, <1>3, <2>1
  <2>3. k + 1 \notin D
    BY <1>1, <1>2
  <2> QED BY <2>2, <2>3
<1>5. \A y \in B : k + 1 <= y
  BY <1>1, <1>3
<1>6. Min(B) = CHOOSE x \in B : \A y \in B : x =< y
  BY DEF Min
<1> QED BY <1>4, <1>5, <1>6

\* What InsertAt returns, place by place.
LEMMA InsertElements ==
  ASSUME NEW S, NEW s \in Seq(S), NEW i \in 1 .. Len(s) + 1, NEW e \in S
  PROVE  /\ InsertAt(s, i, e) \in Seq(S)
         /\ Len(InsertAt(s, i, e)) = Len(s) + 1
         /\ \A j \in 1 .. Len(s) + 1 :
              InsertAt(s, i, e)[j] = IF j < i THEN s[j] ELSE IF j = i THEN e ELSE s[j - 1]
<1> DEFINE a == SubSeq(s, 1, i - 1)
           b == SubSeq(s, i, Len(s))
<1>1. a \in Seq(S) /\ Len(a) = i - 1 /\ \A j \in 1 .. i - 1 : a[j] = s[j]
  OBVIOUS
<1>2. b \in Seq(S) /\ Len(b) = Len(s) - i + 1 /\ \A j \in 1 .. Len(s) - i + 1 : b[j] = s[i + j - 1]
  OBVIOUS
<1> HIDE DEF a, b
<1> DEFINE c == a \o <<e>>
<1>3. c \in Seq(S) /\ Len(c) = i /\ \A j \in 1 .. i : c[j] = IF j < i THEN s[j] ELSE e
  BY <1>1
<1> HIDE DEF c
<1>4. InsertAt(s, i, e) = c \o b
  BY DEF InsertAt, a, b, c
<1>5. /\ c \o b \in Seq(S)
      /\ Len(c \o b) = Len(c) + Len(b)
      /\ \A j \in 1 .. Len(c) + Len(b) : (c \o b)[j] = IF j <= Len(c) THEN c[j] ELSE b[j - Len(c)]
  BY <1>2, <1>3, ConcatProperties
<1>6. ASSUME NEW j \in 1 .. Len(s) + 1
      PROVE  InsertAt(s, i, e)[j] = IF j < i THEN s[j] ELSE IF j = i THEN e ELSE s[j - 1]
  <2>1. CASE j <= i
    BY <1>2, <1>3, <1>4, <1>5, <2>1
  <2>2. CASE j > i
    <3>1. InsertAt(s, i, e)[j] = b[j - i]
      BY <1>2, <1>3, <1>4, <1>5, <2>2
    <3>2. j - i \in 1 .. Len(s) - i + 1 /\ i + (j - i) - 1 = j - 1
      BY <2>2
    <3>3. b[j - i] = s[i + (j - i) - 1]
      BY <1>2, <3>2
    <3> QED BY <2>2, <3>1, <3>2, <3>3
  <2> QED BY <2>1, <2>2
<1>7. Len(c) + Len(b) = Len(s) + 1
  BY <1>2, <1>3
<1> QED BY <1>4, <1>5, <1>6, <1>7

\* What RemoveAt returns, place by place.
LEMMA RemoveElements ==
  ASSUME NEW S, NEW s \in Seq(S), NEW i \in 1 .. Len(s)
  PROVE  /\ RemoveAt(s, i) \in Seq(S)
         /\ Len(RemoveAt(s, i)) = Len(s) - 1
         /\ \A j \in 1 .. Len(s) - 1 : RemoveAt(s, i)[j] = IF j < i THEN s[j] ELSE s[j + 1]
<1> DEFINE a == SubSeq(s, 1, i - 1)
           b == SubSeq(s, i + 1, Len(s))
<1>1. a \in Seq(S) /\ Len(a) = i - 1 /\ \A j \in 1 .. i - 1 : a[j] = s[j]
  OBVIOUS
<1>2. b \in Seq(S) /\ Len(b) = Len(s) - i /\ \A j \in 1 .. Len(s) - i : b[j] = s[i + j]
  OBVIOUS
<1> HIDE DEF a, b
<1>3. RemoveAt(s, i) = a \o b
  BY DEF RemoveAt, a, b
<1>4. /\ a \o b \in Seq(S)
      /\ Len(a \o b) = Len(a) + Len(b)
      /\ \A j \in 1 .. Len(a) + Len(b) : (a \o b)[j] = IF j <= Len(a) THEN a[j] ELSE b[j - Len(a)]
  BY <1>1, <1>2, ConcatProperties
<1>5. ASSUME NEW j \in 1 .. Len(s) - 1
      PROVE  RemoveAt(s, i)[j] = IF j < i THEN s[j] ELSE s[j + 1]
  <2>1. CASE j < i
    BY <1>1, <1>2, <1>3, <1>4, <2>1
  <2>2. CASE j >= i
    <3>1. RemoveAt(s, i)[j] = b[j - (i - 1)]
      BY <1>1, <1>2, <1>3, <1>4, <2>2
    <3>2. j - (i - 1) \in 1 .. Len(s) - i /\ i + (j - (i - 1)) = j + 1
      BY <2>2
    <3>3. b[j - (i - 1)] = s[i + (j - (i - 1))]
      BY <1>2, <3>2
    <3> QED BY <2>2, <3>1, <3>2, <3>3
  <2> QED BY <2>1, <2>2
<1>6. Len(a) + Len(b) = Len(s) - 1
  BY <1>1, <1>2
<1> QED BY <1>3, <1>4, <1>5, <1>6

\* A suspend list: its threads are listed once each, the urgent ones first.
SuspendList(s) ==
  /\ s \in Seq(Threads)
  /\ \A i, j \in 1 .. Len(s) : s[i] = s[j] => i = j
  /\ \A i, j \in 1 .. Len(s) : i < j => Priority[s[i]] <= Priority[s[j]]

\* The place _ipc_list_suspend finds is after every thread of the same or a higher
\* priority, and before the others.
LEMMA SuspendPlace ==
  ASSUME NEW s, SuspendList(s), NEW t \in Threads
  PROVE  \E i \in 1 .. Len(s) + 1 :
           /\ IpcListSuspend(s, t) = InsertAt(s, i, t)
           /\ \A j \in 1 .. Len(s) : j < i <=> Priority[s[j]] <= Priority[t]
<1> DEFINE B == {i \in 1 .. Len(s) : Priority[t] < Priority[s[i]]}
           i == IF B = {} THEN Len(s) + 1 ELSE Min(B)
<1>1. DOMAIN s = 1 .. Len(s) /\ Len(s) \in Nat
  BY DEF SuspendList
<1>2. IpcListSuspend(s, t) = InsertAt(s, i, t)
  BY <1>1 DEF IpcListSuspend
<1>3. Priority[t] \in Nat /\ \A j \in 1 .. Len(s) : Priority[s[j]] \in Nat
  BY ThreadAssumption DEF SuspendList
<1>4. CASE B = {}
  <2>1. \A j \in 1 .. Len(s) : Priority[s[j]] <= Priority[t]
    BY <1>3, <1>4
  <2>2. \A j \in 1 .. Len(s) : j < Len(s) + 1
    BY <1>1
  <2>3. IpcListSuspend(s, t) = InsertAt(s, Len(s) + 1, t)
    BY <1>2, <1>4
  <2> QED BY <1>1, <2>1, <2>2, <2>3
<1>5. CASE B # {}
  <2>1. \A k \in B : \A j \in 1 .. Len(s) : k < j => j \in B
    BY <1>3 DEF SuspendList
  <2>2. Min(B) \in B /\ \A y \in B : Min(B) <= y
    BY <1>1, <1>5, <2>1, MinOfTail
  <2>3. \A j \in 1 .. Len(s) : j < Min(B) <=> Priority[s[j]] <= Priority[t]
    BY <1>1, <1>3, <2>1, <2>2
  <2>4. IpcListSuspend(s, t) = InsertAt(s, Min(B), t)
    BY <1>2, <1>5
  <2>5. Min(B) \in 1 .. Len(s) + 1
    BY <1>1, <2>2
  <2> HIDE DEF B
  <2> QED BY <2>3, <2>4, <2>5
<1> QED BY <1>4, <1>5

\* The members of a list, by their places.
LEMMA MemberPlace ==
  ASSUME NEW S, NEW s \in Seq(S), NEW x
  PROVE  x \in ToSet(s) <=> \E i \in 1 .. Len(s) : s[i] = x
BY DEF ToSet

\* A thread that begins to wait joins the list: behind those of the same or a higher
\* priority, ahead of the others.
LEMMA SuspendJoins ==
  ASSUME NEW s, SuspendList(s), NEW t \in Threads, t \notin ToSet(s)
  PROVE  LET r == IpcListSuspend(s, t)
         IN  /\ SuspendList(r)
             /\ ToSet(r) = ToSet(s) \cup {t}
             /\ OrderOf(r) = OrderOf(s)
                  \cup {<<w, t>> : w \in {w \in ToSet(s) : Priority[w] <= Priority[t]}}
                  \cup {<<t, w>> : w \in {w \in ToSet(s) : Priority[w] > Priority[t]}}
<1> DEFINE r == IpcListSuspend(s, t)
           n == Len(s)
<1>0. s \in Seq(Threads) /\ n \in Nat
  BY DEF SuspendList
<1>1. PICK i \in 1 .. n + 1 :
        /\ r = InsertAt(s, i, t)
        /\ \A j \in 1 .. n : j < i <=> Priority[s[j]] <= Priority[t]
  BY SuspendPlace
<1>2. /\ r \in Seq(Threads) /\ Len(r) = n + 1
      /\ \A j \in 1 .. n + 1 : r[j] = IF j < i THEN s[j] ELSE IF j = i THEN t ELSE s[j - 1]
  <2> DEFINE q == InsertAt(s, i, t)
  <2>1. /\ q \in Seq(Threads) /\ Len(q) = Len(s) + 1
        /\ \A j \in 1 .. Len(s) + 1 : q[j] = IF j < i THEN s[j] ELSE IF j = i THEN t ELSE s[j - 1]
    BY <1>0, InsertElements
  <2>2. r = q
    BY <1>1
  <2> HIDE DEF q, r
  <2> QED BY <2>1, <2>2
<1>3. \A j \in 1 .. n : s[j] \in Threads /\ s[j] \in ToSet(s) /\ s[j] # t
  BY <1>0, MemberPlace
<1> DEFINE old(j) == IF j < i THEN j ELSE j - 1
           new(j) == IF j < i THEN j ELSE j + 1
<1>4. \A j \in 1 .. n + 1 : j # i => old(j) \in 1 .. n /\ r[j] = s[old(j)] /\ new(old(j)) = j
  BY <1>0, <1>2
<1>5. \A j \in 1 .. n : new(j) \in 1 .. n + 1 /\ new(j) # i /\ r[new(j)] = s[j] /\ old(new(j)) = j
  BY <1>0, <1>2
<1>6. /\ \A j, k \in 1 .. n : j < k => new(j) < new(k)
      /\ \A j, k \in 1 .. n + 1 : j # i /\ k # i /\ j < k => old(j) < old(k)
      /\ \A j \in 1 .. n : new(j) < i <=> j < i
      /\ \A j \in 1 .. n + 1 : j # i => (old(j) < i <=> j < i)
      /\ r[i] = t
  BY <1>0, <1>2
<1>7. \A j \in 1 .. n : Priority[s[j]] \in Nat
  BY <1>3, ThreadAssumption
<1>8. Priority[t] \in Nat
  BY ThreadAssumption
<1> HIDE DEF r, n, old, new
<1>9. \A j, k \in 1 .. n + 1 : r[j] = r[k] => j = k
  <2> SUFFICES ASSUME NEW j \in 1 .. n + 1, NEW k \in 1 .. n + 1, r[j] = r[k]
               PROVE  j = k
    OBVIOUS
  <2>1. CASE j = i \/ k = i
    BY <2>1, <1>3, <1>4, <1>6
  <2>2. CASE j # i /\ k # i
    <3>1. old(j) = old(k)
      BY <2>2, <1>4 DEF SuspendList, n
    <3> QED BY <2>2, <3>1, <1>4
  <2> QED BY <2>1, <2>2
<1>10. \A j, k \in 1 .. n + 1 : j < k => Priority[r[j]] <= Priority[r[k]]
  <2> SUFFICES ASSUME NEW j \in 1 .. n + 1, NEW k \in 1 .. n + 1, j < k
               PROVE  Priority[r[j]] <= Priority[r[k]]
    OBVIOUS
  <2>1. CASE j = i
    <3>1. k # i /\ ~(k < i)
      BY <2>1
    <3>2. old(k) \in 1 .. n /\ ~(old(k) < i) /\ r[k] = s[old(k)]
      BY <3>1, <1>4, <1>6
    <3>3. ~(Priority[s[old(k)]] <= Priority[t])
      BY <3>2, <1>1 DEF n
    <3> QED BY <2>1, <3>2, <3>3, <1>6, <1>7, <1>8
  <2>2. CASE k = i
    <3>1. old(j) \in 1 .. n /\ old(j) < i /\ r[j] = s[old(j)]
      BY <2>2, <1>4, <1>6
    <3>2. Priority[s[old(j)]] <= Priority[t]
      BY <3>1, <1>1 DEF n
    <3> QED BY <2>2, <3>1, <3>2, <1>6
  <2>3. CASE j # i /\ k # i
    <3>1. old(j) \in 1 .. n /\ old(k) \in 1 .. n /\ old(j) < old(k)
      BY <2>3, <1>4, <1>6
    <3>2. Priority[s[old(j)]] <= Priority[s[old(k)]]
      BY <3>1 DEF SuspendList, n
    <3> QED BY <2>3, <3>2, <1>4
  <2> QED BY <2>1, <2>2, <2>3
<1>11. SuspendList(r)
  BY <1>2, <1>9, <1>10 DEF SuspendList
<1>12. ToSet(r) = ToSet(s) \cup {t}
  <2>1. ASSUME NEW x PROVE x \in ToSet(r) => x \in ToSet(s) \cup {t}
    <3> SUFFICES ASSUME NEW j \in 1 .. n + 1, r[j] = x PROVE x \in ToSet(s) \cup {t}
      BY <1>2, MemberPlace
    <3> QED BY <1>3, <1>4, <1>6
  <2>2. ASSUME NEW j \in 1 .. n PROVE s[j] \in ToSet(r)
    BY <1>2, <1>5, MemberPlace
  <2>3. t \in ToSet(r)
    BY <1>2, <1>6, MemberPlace
  <2>4. \A x \in ToSet(s) : \E j \in 1 .. n : s[j] = x
    BY <1>0, MemberPlace DEF n
  <2> QED BY <2>1, <2>2, <2>3, <2>4
<1> DEFINE J == OrderOf(s)
                  \cup {<<w, t>> : w \in {w \in ToSet(s) : Priority[w] <= Priority[t]}}
                  \cup {<<t, w>> : w \in {w \in ToSet(s) : Priority[w] > Priority[t]}}
<1>13. ToSet(s) \subseteq Threads /\ ToSet(r) \subseteq Threads
  <2>1. \A x \in ToSet(s) : \E j \in 1 .. n : s[j] = x
    BY <1>0, MemberPlace DEF n
  <2> QED BY <2>1, <1>3, <1>12
<1>14. OrderOf(r) \in SUBSET (Threads \X Threads) /\ J \in SUBSET (Threads \X Threads)
  BY <1>0, <1>2, <1>13, OrderPairs
<1>15. ASSUME NEW a \in Threads, NEW b \in Threads
       PROVE  <<a, b>> \in J <=> \/ <<a, b>> \in OrderOf(s)
                                 \/ b = t /\ a \in ToSet(s) /\ Priority[a] <= Priority[t]
                                 \/ a = t /\ b \in ToSet(s) /\ Priority[b] > Priority[t]
  OBVIOUS
<1>16. ASSUME NEW a \in Threads, NEW b \in Threads
       PROVE  <<a, b>> \in OrderOf(r) <=> <<a, b>> \in J
  <2> HIDE DEF J
  <2>1. ASSUME NEW j \in 1 .. n + 1, NEW k \in 1 .. n + 1, j < k, r[j] = a, r[k] = b
        PROVE  <<a, b>> \in J
    <3>1. CASE j = i
      <4>1. k # i /\ old(k) \in 1 .. n /\ ~(old(k) < i) /\ b = s[old(k)] /\ a = t
        BY <2>1, <3>1, <1>4, <1>6
      <4>2. ~(Priority[b] <= Priority[t]) /\ b \in ToSet(s)
        BY <4>1, <1>1, <1>3 DEF n
      <4> QED BY <4>1, <4>2, <1>7, <1>8, <1>15
    <3>2. CASE k = i
      <4>1. j # i /\ old(j) \in 1 .. n /\ old(j) < i /\ a = s[old(j)] /\ b = t
        BY <2>1, <3>2, <1>4, <1>6
      <4>2. Priority[a] <= Priority[t] /\ a \in ToSet(s)
        BY <4>1, <1>1, <1>3 DEF n
      <4> QED BY <4>1, <4>2, <1>15
    <3>3. CASE j # i /\ k # i
      <4>1. old(j) \in 1 .. n /\ old(k) \in 1 .. n /\ old(j) < old(k) /\ s[old(j)] = a /\ s[old(k)] = b
        BY <2>1, <3>3, <1>4, <1>6
      <4>2. <<a, b>> \in OrderOf(s)
        BY <1>0, <4>1, OrderMember DEF n
      <4> QED BY <4>2, <1>15
    <3> QED BY <3>1, <3>2, <3>3
  <2>2. ASSUME NEW j \in 1 .. n + 1, NEW k \in 1 .. n + 1, j < k, r[j] = a, r[k] = b
        PROVE  <<a, b>> \in OrderOf(r)
    BY <1>2, <2>2, OrderMember
  <2>3. ASSUME <<a, b>> \in OrderOf(s) PROVE <<a, b>> \in OrderOf(r)
    <3>1. PICK j \in 1 .. n, k \in 1 .. n : j < k /\ s[j] = a /\ s[k] = b
      BY <1>0, <2>3, OrderMember DEF n
    <3>2. new(j) < new(k) /\ r[new(j)] = a /\ r[new(k)] = b /\ new(j) \in 1 .. n + 1 /\ new(k) \in 1 .. n + 1
      BY <3>1, <1>5, <1>6
    <3> QED BY <3>2, <2>2
  <2>4. ASSUME b = t, a \in ToSet(s), Priority[a] <= Priority[t] PROVE <<a, b>> \in OrderOf(r)
    <3>1. PICK j \in 1 .. n : s[j] = a
      BY <1>0, <2>4, MemberPlace DEF n
    <3>2. j < i
      BY <2>4, <3>1, <1>1 DEF n
    <3>3. new(j) < i /\ r[new(j)] = a /\ r[i] = b /\ new(j) \in 1 .. n + 1
      BY <2>4, <3>1, <3>2, <1>5, <1>6
    <3> QED BY <3>3, <2>2
  <2>5. ASSUME a = t, b \in ToSet(s), Priority[b] > Priority[t] PROVE <<a, b>> \in OrderOf(r)
    <3>1. PICK j \in 1 .. n : s[j] = b
      BY <1>0, <2>5, MemberPlace DEF n
    <3>2. ~(j < i)
      BY <2>5, <3>1, <1>1, <1>7, <1>8 DEF n
    <3>3. ~(new(j) < i) /\ new(j) # i /\ r[new(j)] = b /\ r[i] = a /\ new(j) \in 1 .. n + 1
      BY <2>5, <3>1, <3>2, <1>5, <1>6
    <3>4. i < new(j)
      BY <3>3
    <3> QED BY <3>3, <3>4, <2>2
  <2>6. <<a, b>> \in OrderOf(r) => <<a, b>> \in J
    BY <1>2, <2>1, OrderMember
  <2> QED BY <2>3, <2>4, <2>5, <2>6, <1>15
<1>17. OrderOf(r) = J
  <2> HIDE DEF J
  <2> QED BY <1>14, <1>16, PairsEqual
<1> QED BY <1>11, <1>12, <1>17 DEF r

\* A thread that no longer waits leaves the list, and the others keep their order.
LEMMA RemoveLeaves ==
  ASSUME NEW s, SuspendList(s), NEW i \in 1 .. Len(s)
  PROVE  LET r == RemoveAt(s, i)
         IN  /\ SuspendList(r)
             /\ ToSet(r) = ToSet(s) \ {s[i]}
             /\ OrderOf(r) = {p \in OrderOf(s) : p[1] # s[i] /\ p[2] # s[i]}
<1> DEFINE r == RemoveAt(s, i)
           n == Len(s)
           old(j) == IF j < i THEN j ELSE j + 1
           new(j) == IF j < i THEN j ELSE j - 1
<1>0. s \in Seq(Threads) /\ n \in Nat
  BY DEF SuspendList
<1>1. /\ r \in Seq(Threads) /\ Len(r) = n - 1
      /\ \A j \in 1 .. n - 1 : r[j] = IF j < i THEN s[j] ELSE s[j + 1]
  BY <1>0, RemoveElements
<1>2. \A j \in 1 .. n : s[j] \in Threads /\ s[j] \in ToSet(s) /\ (s[j] = s[i] => j = i)
  BY <1>0, MemberPlace DEF SuspendList
<1> HIDE DEF r
<1>3. \A j \in 1 .. n - 1 : old(j) \in 1 .. n /\ old(j) # i /\ r[j] = s[old(j)] /\ new(old(j)) = j
  BY <1>0, <1>1
<1>4. \A j \in 1 .. n : j # i => new(j) \in 1 .. n - 1 /\ r[new(j)] = s[j]
  BY <1>0, <1>1
<1>5. /\ \A j, k \in 1 .. n - 1 : j < k => old(j) < old(k)
      /\ \A j, k \in 1 .. n : j # i /\ k # i /\ j < k => new(j) < new(k)
  BY <1>0
<1> HIDE DEF n, old, new
<1>6. \A j, k \in 1 .. n - 1 : r[j] = r[k] => j = k
  <2> SUFFICES ASSUME NEW j \in 1 .. n - 1, NEW k \in 1 .. n - 1, r[j] = r[k]
               PROVE  j = k
    OBVIOUS
  <2>1. old(j) = old(k)
    BY <1>3 DEF SuspendList, n
  <2> QED BY <2>1, <1>3
<1>7. \A j, k \in 1 .. n - 1 : j < k => Priority[r[j]] <= Priority[r[k]]
  <2> SUFFICES ASSUME NEW j \in 1 .. n - 1, NEW k \in 1 .. n - 1, j < k
               PROVE  Priority[r[j]] <= Priority[r[k]]
    OBVIOUS
  <2>1. old(j) \in 1 .. n /\ old(k) \in 1 .. n /\ old(j) < old(k)
    BY <1>3, <1>5
  <2>2. Priority[s[old(j)]] <= Priority[s[old(k)]]
    BY <2>1 DEF SuspendList, n
  <2> QED BY <2>2, <1>3
<1>8. SuspendList(r)
  BY <1>1, <1>6, <1>7 DEF SuspendList
<1>9. ToSet(r) = ToSet(s) \ {s[i]}
  <2>1. ASSUME NEW x PROVE x \in ToSet(r) => x \in ToSet(s) \ {s[i]}
    <3> SUFFICES ASSUME NEW j \in 1 .. n - 1, r[j] = x PROVE x \in ToSet(s) \ {s[i]}
      BY <1>1, MemberPlace
    <3> QED BY <1>2, <1>3
  <2>2. ASSUME NEW x PROVE x \in ToSet(s) \ {s[i]} => x \in ToSet(r)
    <3> SUFFICES ASSUME NEW j \in 1 .. n, s[j] = x, x # s[i] PROVE x \in ToSet(r)
      BY <1>0, MemberPlace DEF n
    <3>1. new(j) \in 1 .. n - 1 /\ r[new(j)] = x
      BY <1>4
    <3> QED BY <1>1, <3>1, MemberPlace
  <2> QED BY <2>1, <2>2
<1> DEFINE J == {p \in OrderOf(s) : p[1] # s[i] /\ p[2] # s[i]}
<1>10. ToSet(s) \subseteq Threads /\ ToSet(r) \subseteq Threads
  <2>1. \A x \in ToSet(s) : \E j \in 1 .. n : s[j] = x
    BY <1>0, MemberPlace DEF n
  <2> QED BY <2>1, <1>2, <1>9
<1>11. OrderOf(r) \in SUBSET (Threads \X Threads) /\ J \in SUBSET (Threads \X Threads)
  BY <1>0, <1>1, <1>10, OrderPairs
<1>12. ASSUME NEW a \in Threads, NEW b \in Threads
       PROVE  <<a, b>> \in OrderOf(r) <=> <<a, b>> \in J
  <2>1. <<a, b>> \in J <=> <<a, b>> \in OrderOf(s) /\ a # s[i] /\ b # s[i]
    OBVIOUS
  <2> HIDE DEF J
  <2>2. ASSUME NEW j \in 1 .. n - 1, NEW k \in 1 .. n - 1, j < k, r[j] = a, r[k] = b
        PROVE  <<a, b>> \in OrderOf(s) /\ a # s[i] /\ b # s[i]
    <3>1. /\ old(j) \in 1 .. n /\ old(k) \in 1 .. n /\ old(j) < old(k)
          /\ s[old(j)] = a /\ s[old(k)] = b /\ old(j) # i /\ old(k) # i
      BY <2>2, <1>3, <1>5
    <3>2. <<a, b>> \in OrderOf(s)
      BY <1>0, <3>1, OrderMember DEF n
    <3> QED BY <1>2, <3>1, <3>2
  <2>3. ASSUME NEW j \in 1 .. n, NEW k \in 1 .. n, j < k, s[j] = a, s[k] = b, a # s[i], b # s[i]
        PROVE  <<a, b>> \in OrderOf(r)
    <3>1. new(j) \in 1 .. n - 1 /\ new(k) \in 1 .. n - 1 /\ new(j) < new(k) /\ r[new(j)] = a /\ r[new(k)] = b
      BY <2>3, <1>4, <1>5
    <3> QED BY <1>1, <3>1, OrderMember
  <2>4. <<a, b>> \in OrderOf(r) => <<a, b>> \in J
    <3> SUFFICES ASSUME <<a, b>> \in OrderOf(r) PROVE <<a, b>> \in J
      OBVIOUS
    <3>1. \E j, k \in 1 .. Len(r) : j < k /\ r[j] = a /\ r[k] = b
      BY <1>1, OrderMember
    <3>2. Len(r) = n - 1
      BY <1>1
    <3>3. PICK j \in 1 .. n - 1, k \in 1 .. n - 1 : j < k /\ r[j] = a /\ r[k] = b
      BY <3>1, <3>2
    <3> QED BY <3>3, <2>1, <2>2
  <2>5. <<a, b>> \in J => <<a, b>> \in OrderOf(r)
    BY <1>0, <2>1, <2>3, OrderMember DEF n
  <2> QED BY <2>4, <2>5
<1>13. OrderOf(r) = J
  <2> HIDE DEF J
  <2> QED BY <1>11, <1>12, PairsEqual
<1> QED BY <1>8, <1>9, <1>13 DEF r

\* What rt_sem_release takes off the list is its first thread.
LEMMA TailRemoves ==
  ASSUME NEW S, NEW s \in Seq(S), s # <<>>
  PROVE  Tail(s) = RemoveAt(s, 1) /\ Head(s) = s[1] /\ 1 \in 1 .. Len(s)
<1>1. Len(s) \in Nat /\ 1 \in 1 .. Len(s)
  BY EmptySeq
<1>2. Tail(s) \in Seq(S) /\ Len(Tail(s)) = Len(s) - 1 /\ \A j \in 1 .. Len(s) - 1 : Tail(s)[j] = s[j + 1]
  BY HeadTailProperties, <1>1
<1>3. /\ RemoveAt(s, 1) \in Seq(S) /\ Len(RemoveAt(s, 1)) = Len(s) - 1
      /\ \A j \in 1 .. Len(s) - 1 : RemoveAt(s, 1)[j] = s[j + 1]
  BY <1>1, RemoveElements
<1>4. Tail(s) = RemoveAt(s, 1)
  <2> DEFINE u == Tail(s)
             v == RemoveAt(s, 1)
  <2>1. u \in Seq(S) /\ v \in Seq(S) /\ Len(u) = Len(v) /\ \A i \in 1 .. Len(u) : u[i] = v[i]
    BY <1>2, <1>3
  <2> HIDE DEF u, v
  <2>2. u = v
    BY <2>1, SeqEqual
  <2> QED BY <2>2 DEF u, v
<1> QED BY <1>1, <1>4

-----------------------------------------------------------------------------
\* The inductive invariant: whoever waits has not been told a result yet, and
\* no timer runs for a thread that does not.
SemInv ==
  /\ SemTypeOK /\ NoLostWakeup
  /\ \A t \in Threads : IF Ready(t) THEN timer[t] = Stopped ELSE error[t] = "EOK"

\* The conditions on the list in SemTypeOK are those of a suspend list.
LEMMA ListOK ==
  ASSUME NEW s \in Seq(Threads)
  PROVE  SuspendList(s) <=> /\ IsInjective(s)
                            /\ \A i, j \in DOMAIN s : i < j => Priority[s[i]] <= Priority[s[j]]
BY DEF SuspendList, IsInjective

\* A thread that calls something runs, and is on no list.
LEMMA CallerRuns ==
  ASSUME SemInv, NEW t \in Threads, Calls(t)
  PROVE  /\ call[t] = "none" /\ Ready(t) /\ stat[t] = "ready" /\ timer[t] # 0
         /\ t \notin Waiters /\ SuspendList(waiting)
BY ListOK DEF SemInv, SemTypeOK, Calls, Running, InInterrupt, Ready

\* The semaphore is created with some tokens and nobody waits.
LEMMA InitSem == SemInit => SemInv
<1> SUFFICES ASSUME SemInit PROVE SemInv
  OBVIOUS
<1>1. waiting = <<>> /\ waiting \in Seq(Threads) /\ DOMAIN waiting = {} /\ Waiters = {}
  BY DEF SemInit, Waiters, ToSet
<1>2. ThreadTypeOK /\ \A t \in Threads : Ready(t) /\ call[t] = "none" /\ timer[t] = Stopped
  BY DEF SemInit, ThreadInit, ThreadTypeOK, Ready
<1>3. IsInjective(waiting)
  BY <1>1 DEF IsInjective
<1>4. SemTypeOK
  BY <1>1, <1>2, <1>3 DEF SemTypeOK, SemInit
<1> QED BY <1>1, <1>2, <1>4 DEF SemInv, NoLostWakeup

\* A list that stays as it was while nobody begins or ends a wait on it.
LEMMA ListStays ==
  ASSUME SemInv, UNCHANGED waiting
  PROVE  /\ Waiters' = Waiters /\ waiting' \in Seq(Threads) /\ IsInjective(waiting')
         /\ \A i, j \in DOMAIN waiting' : i < j => Priority[waiting'[i]] <= Priority[waiting'[j]]
BY DEF SemInv, SemTypeOK, Waiters

LEMMA ListIs ==
  ASSUME SuspendList(waiting')
  PROVE  /\ waiting' \in Seq(Threads) /\ IsInjective(waiting')
         /\ \A i, j \in DOMAIN waiting' : i < j => Priority[waiting'[i]] <= Priority[waiting'[j]]
<1>1. waiting' \in Seq(Threads)
  BY DEF SuspendList
<1> QED BY <1>1, ListOK

\* A take that finds a token keeps the invariant.
LEMMA TakeNowSem ==
  ASSUME SemInv, NEW t \in Threads, SemTakeNow(t)
  PROVE  SemInv'
<1>1. UNCHANGED <<stat, error, timer, waiting, call>> /\ value > 0 /\ value' = value - 1
  BY DEF SemTakeNow, threadVars
<1>2. value' \in 0 .. SemValueMax /\ waiting = <<>>
  BY <1>1, SemAssumption DEF SemInv, SemTypeOK, NoLostWakeup
<1>3. SemTypeOK'
  BY <1>1, <1>2, ListStays DEF SemInv, SemTypeOK, ThreadTypeOK, Ready
<1> QED BY <1>1, <1>2, <1>3 DEF SemInv, NoLostWakeup, Ready

\* A take that waits.
LEMMA TakeWaitsSem ==
  ASSUME SemInv, NEW t \in Threads, NEW timeout \in Waits \cup {RT_WAITING_FOREVER},
         SemTakeWaits(t, timeout)
  PROVE  SemInv'
<1>1. /\ Calls(t) /\ value = 0 /\ UNCHANGED value
      /\ stat' = [stat EXCEPT ![t] = "suspended"] /\ error' = [error EXCEPT ![t] = "EOK"]
      /\ timer' = [timer EXCEPT ![t] = timeout] /\ call' = [call EXCEPT ![t] = "take"]
      /\ waiting' = IpcListSuspend(waiting, t)
  BY DEF SemTakeWaits, SuspendFor
<1>2. timeout \in {Stopped} \cup 0 .. MaxWait
  BY ThreadAssumption DEF Waits, RT_WAITING_FOREVER
<1>3. SuspendList(waiting') /\ Waiters' = Waiters \cup {t}
  <2>1. SuspendList(waiting) /\ t \notin ToSet(waiting)
    BY <1>1, CallerRuns DEF Waiters
  <2> QED BY <1>1, <2>1, SuspendJoins DEF Waiters
<1>4. ThreadTypeOK'
  BY <1>1, <1>2 DEF SemInv, SemTypeOK, ThreadTypeOK
<1>5. /\ Waiters' = {u \in Threads : call'[u] = "take" /\ ~Ready(u)'}
      /\ \A u \in Threads : (timer'[u] # Stopped \/ call'[u] = "none") => (Ready(u)' <=> call'[u] = "none")
      /\ \A u \in Threads : IF Ready(u)' THEN timer'[u] = Stopped ELSE error'[u] = "EOK"
  BY <1>1, <1>3 DEF SemInv, SemTypeOK, ThreadTypeOK, Ready
<1> QED BY <1>1, <1>3, <1>4, <1>5, ListIs DEF SemInv, SemTypeOK, NoLostWakeup

\* A take that returns.
LEMMA TakeReturnsSem ==
  ASSUME SemInv, NEW t \in Threads, SemTakeReturns(t)
  PROVE  SemInv'
<1>1. /\ Ready(t) /\ call[t] = "take" /\ call' = [call EXCEPT ![t] = "none"]
      /\ UNCHANGED <<stat, error, timer, value, waiting>>
  BY DEF SemTakeReturns, Returns, Running, threadVars
<1>2. SemTypeOK'
  BY <1>1, ListStays DEF SemInv, SemTypeOK, ThreadTypeOK, Ready
<1> QED BY <1>1, <1>2 DEF SemInv, NoLostWakeup, Ready

\* A release hands the token to the first waiter, or keeps it.
LEMMA ReleaseSem ==
  ASSUME SemInv, NEW t \in Threads, SemRelease(t)
  PROVE  SemInv'
<1>1. CASE waiting = <<>>
  <2>1. /\ value < SemValueMax /\ value' = value + 1
        /\ UNCHANGED <<stat, error, timer, waiting, call>>
    BY <1>1 DEF SemRelease, threadVars
  <2>2. SemTypeOK'
    BY <2>1, SemAssumption, ListStays DEF SemInv, SemTypeOK, ThreadTypeOK, Ready
  <2> QED BY <1>1, <2>1, <2>2 DEF SemInv, NoLostWakeup, Ready
<1>2. CASE waiting # <<>>
  <2> DEFINE w == Head(waiting)
  <2>1. /\ stat' = [stat EXCEPT ![w] = "ready"] /\ timer' = [timer EXCEPT ![w] = Stopped]
        /\ UNCHANGED <<error, value, call>> /\ waiting' = Tail(waiting)
    BY <1>2 DEF SemRelease, ThreadResume
  <2>2. waiting \in Seq(Threads) /\ SuspendList(waiting)
    BY ListOK DEF SemInv, SemTypeOK
  <2>3. SuspendList(waiting') /\ Waiters' = Waiters \ {w} /\ w \in Waiters
    <3>1. Tail(waiting) = RemoveAt(waiting, 1) /\ w = waiting[1] /\ 1 \in 1 .. Len(waiting)
      BY <1>2, <2>2, TailRemoves
    <3>2. w \in Waiters
      BY <2>2, <3>1, MemberPlace DEF Waiters
    <3>3. /\ SuspendList(RemoveAt(waiting, 1))
          /\ ToSet(RemoveAt(waiting, 1)) = ToSet(waiting) \ {waiting[1]}
      BY <2>2, <3>1, RemoveLeaves
    <3>4. waiting' = RemoveAt(waiting, 1)
      BY <2>1, <3>1
    <3> QED BY <3>1, <3>2, <3>3, <3>4 DEF Waiters
  <2> HIDE DEF w
  <2>4. w \in Threads /\ call[w] = "take" /\ ~Ready(w)
    BY <2>3 DEF SemInv, SemTypeOK
  <2>5. ThreadTypeOK'
    BY <2>1 DEF SemInv, SemTypeOK, ThreadTypeOK
  <2>6. /\ Waiters' = {u \in Threads : call'[u] = "take" /\ ~Ready(u)'}
        /\ \A u \in Threads : (timer'[u] # Stopped \/ call'[u] = "none") => (Ready(u)' <=> call'[u] = "none")
        /\ \A u \in Threads : IF Ready(u)' THEN timer'[u] = Stopped ELSE error'[u] = "EOK"
    BY <2>1, <2>3, <2>4 DEF SemInv, SemTypeOK, ThreadTypeOK, Ready
  <2>7. value = 0
    BY <1>2 DEF SemInv, NoLostWakeup
  <2> QED BY <2>1, <2>3, <2>5, <2>6, <2>7, ListIs DEF SemInv, SemTypeOK, NoLostWakeup
<1> QED BY <1>1, <1>2

\* A thread goes to sleep.
LEMMA SleepSem ==
  ASSUME SemInv, NEW t \in Threads, NEW ticks \in Waits, Sleep(t, ticks)
  PROVE  SemInv'
<1>1. /\ Calls(t) /\ UNCHANGED <<value, waiting>>
      /\ stat' = [stat EXCEPT ![t] = "suspended"] /\ error' = [error EXCEPT ![t] = "EOK"]
      /\ timer' = [timer EXCEPT ![t] = ticks] /\ call' = [call EXCEPT ![t] = "sleep"]
  BY DEF Sleep, SuspendFor
<1>2. ticks \in 0 .. MaxWait
  BY ThreadAssumption DEF Waits
<1>3. call[t] = "none" /\ stat[t] = "ready"
  BY <1>1, CallerRuns
<1>4. SemTypeOK'
  BY <1>1, <1>2, <1>3, ListStays DEF SemInv, SemTypeOK, ThreadTypeOK, Ready
<1> QED BY <1>1, <1>4 DEF SemInv, SemTypeOK, ThreadTypeOK, NoLostWakeup, Ready

\* A sleep that is over.
LEMMA SleepReturnsSem ==
  ASSUME SemInv, NEW t \in Threads, SleepReturns(t)
  PROVE  SemInv'
<1>1. /\ Ready(t) /\ call[t] = "sleep" /\ call' = [call EXCEPT ![t] = "none"]
      /\ error' = [error EXCEPT ![t] = "EOK"] /\ UNCHANGED <<stat, timer, value, waiting>>
  BY DEF SleepReturns, Returns, Running
<1>2. SemTypeOK'
  BY <1>1, ListStays DEF SemInv, SemTypeOK, ThreadTypeOK, Ready
<1> QED BY <1>1, <1>2 DEF SemInv, SemTypeOK, ThreadTypeOK, NoLostWakeup, Ready

\* A tick passes; the timers that run are due one tick sooner.
LEMMA TickSem ==
  ASSUME SemInv, TickPasses
  PROVE  SemInv'
<1>1. /\ timer' = [t \in Threads |-> IF timer[t] > 0 THEN timer[t] - 1 ELSE timer[t]]
      /\ UNCHANGED <<stat, error, value, waiting, call>>
  BY DEF TickPasses, TickIncrease
<1>2. \A t \in Threads : timer'[t] \in {Stopped} \cup 0 .. MaxWait /\ (timer'[t] = Stopped <=> timer[t] = Stopped)
  BY <1>1, ThreadAssumption DEF SemInv, SemTypeOK, ThreadTypeOK, Stopped
<1>3. ThreadTypeOK'
  BY <1>1, <1>2 DEF SemInv, SemTypeOK, ThreadTypeOK
<1>4. SemTypeOK'
  BY <1>1, <1>2, <1>3, ListStays DEF SemInv, SemTypeOK, Ready
<1> QED BY <1>1, <1>2, <1>4 DEF SemInv, NoLostWakeup, Ready

\* _thread_timeout: the list without the thread, whether it was on it or not.
LEMMA TimeOutList ==
  ASSUME SemInv, NEW t \in Threads, TimeOut(t)
  PROVE  /\ SuspendList(waiting') /\ Waiters' = Waiters \ {t}
         /\ OrderOf(waiting') = {p \in OrderOf(waiting) : p[1] # t /\ p[2] # t}
         /\ (waiting = <<>> => waiting' = <<>>)
<1>1. waiting' = IpcListRemove(waiting, t)
  BY DEF TimeOut
<1>2. SuspendList(waiting) /\ waiting \in Seq(Threads)
  BY ListOK DEF SemInv, SemTypeOK
<1>3. CASE t \in ToSet(waiting)
  <2> DEFINE i == CHOOSE i \in DOMAIN waiting : waiting[i] = t
  <2>1. i \in 1 .. Len(waiting) /\ waiting[i] = t
    BY <1>2, <1>3, MemberPlace
  <2>2. waiting' = RemoveAt(waiting, i)
    BY <1>1, <1>3 DEF IpcListRemove
  <2> HIDE DEF i
  <2>3. /\ SuspendList(RemoveAt(waiting, i))
        /\ ToSet(RemoveAt(waiting, i)) = ToSet(waiting) \ {waiting[i]}
        /\ OrderOf(RemoveAt(waiting, i)) = {p \in OrderOf(waiting) : p[1] # waiting[i] /\ p[2] # waiting[i]}
    BY <1>2, <2>1, RemoveLeaves
  <2>4. waiting # <<>>
    BY <2>1, <1>2
  <2> QED BY <2>1, <2>2, <2>3, <2>4 DEF Waiters
<1>4. CASE t \notin ToSet(waiting)
  <2>1. waiting' = waiting
    BY <1>1, <1>4 DEF IpcListRemove
  <2>2. \A p \in OrderOf(waiting) : p[1] # t /\ p[2] # t
    BY <1>2, <1>4, OrderPairs
  <2> QED BY <1>2, <1>4, <2>1, <2>2 DEF Waiters
<1> QED BY <1>3, <1>4

\* A wait that times out.
LEMMA TimeOutSem ==
  ASSUME SemInv, NEW t \in Threads, TimeOut(t)
  PROVE  SemInv'
<1>1. /\ timer[t] = 0 /\ error' = [error EXCEPT ![t] = "ETIMEOUT"]
      /\ stat' = [stat EXCEPT ![t] = "ready"] /\ timer' = [timer EXCEPT ![t] = Stopped]
      /\ UNCHANGED <<value, call>>
  BY DEF TimeOut, ThreadTimeout
<1>2. call[t] # "none" /\ ~Ready(t)
  BY <1>1 DEF SemInv, SemTypeOK, Stopped, Running, InInterrupt, Ready
<1>3. ThreadTypeOK'
  BY <1>1 DEF SemInv, SemTypeOK, ThreadTypeOK
<1>4. /\ Waiters' = {u \in Threads : call'[u] = "take" /\ ~Ready(u)'}
      /\ \A u \in Threads : (timer'[u] # Stopped \/ call'[u] = "none") => (Ready(u)' <=> call'[u] = "none")
      /\ \A u \in Threads : IF Ready(u)' THEN timer'[u] = Stopped ELSE error'[u] = "EOK"
  BY <1>1, <1>2, TimeOutList DEF SemInv, SemTypeOK, ThreadTypeOK, Ready
<1> QED BY <1>1, <1>3, <1>4, TimeOutList, ListIs DEF SemInv, SemTypeOK, NoLostWakeup

\* Every step keeps the invariant.
LEMMA StepSem ==
  ASSUME SemInv, SemNext
  PROVE  SemInv'
<1>1. CASE TickPasses
  BY <1>1, TickSem
<1>2. ASSUME NEW t \in Threads, TimeOut(t) PROVE SemInv'
  BY <1>2, TimeOutSem
<1>3. ASSUME NEW t \in Threads, SemStep(t) PROVE SemInv'
  BY <1>3, TakeNowSem, TakeWaitsSem, TakeReturnsSem, ReleaseSem, SleepSem, SleepReturnsSem DEF SemStep
<1> QED BY <1>1, <1>2, <1>3 DEF SemNext

LEMMA StutterSem ==
  ASSUME SemInv, UNCHANGED semVars
  PROVE  SemInv'
<1>1. UNCHANGED <<stat, error, timer, value, waiting, call>>
  BY DEF semVars
<1>2. SemTypeOK'
  BY <1>1, ListStays DEF SemInv, SemTypeOK, ThreadTypeOK, Ready
<1> QED BY <1>1, <1>2 DEF SemInv, NoLostWakeup, Ready

THEOREM SemInvariant == SemSpec => []SemInv
<1>1. SemInv /\ [SemNext]_semVars => SemInv'
  BY StepSem, StutterSem
<1> QED BY InitSem, <1>1, PTL DEF SemSpec

\* rt_sem_take and rt_sem_release lose no wake-up, whichever threads call them in
\* whichever order: nobody waits while the counter of the semaphore holds a token.
THEOREM SemNoLostWakeup == SemSpec => []NoLostWakeup
<1>1. SemInv => NoLostWakeup
  BY DEF SemInv
<1> QED BY SemInvariant, <1>1, PTL

-----------------------------------------------------------------------------
\* What the abstract semaphore sees of the threads.
abs == <<value, Waiters, Ahead, Woken("EOK"), Woken("ETIMEOUT")>>

LEMMA AheadIs == Ahead = OrderOf(waiting) /\ Ahead' = OrderOf(waiting')
BY DEF Ahead, Before, OrderOf

LEMMA WaitersAre ==
  ASSUME SemInv
  PROVE  /\ SuspendList(waiting) /\ waiting \in Seq(Threads) /\ Waiters \subseteq Threads
         /\ \A t \in Waiters : call[t] = "take" /\ ~Ready(t)
         /\ (waiting = <<>> <=> Waiters = {})
<1>1. waiting \in Seq(Threads) /\ SuspendList(waiting)
  BY ListOK DEF SemInv, SemTypeOK
<1>2. Waiters \subseteq Threads /\ \A t \in Waiters : call[t] = "take" /\ ~Ready(t)
  BY DEF SemInv, SemTypeOK
<1>3. waiting = <<>> => Waiters = {}
  BY DEF Waiters, ToSet
<1>4. waiting # <<>> => waiting[1] \in Waiters
  BY <1>1, TailRemoves, MemberPlace DEF Waiters
<1> QED BY <1>1, <1>2, <1>3, <1>4

\* The abstract semaphore begins with some tokens and nobody waiting.
LEMMA InitTokens == SemInit => Tokens!Init
<1> SUFFICES ASSUME SemInit PROVE Tokens!Init
  OBVIOUS
<1>1. waiting = <<>> /\ DOMAIN waiting = {}
  BY DEF SemInit
<1>2. Waiters = {} /\ Ahead = {}
  BY <1>1 DEF Waiters, ToSet, Ahead, Before
<1>3. Woken("EOK") = {} /\ Woken("ETIMEOUT") = {}
  BY DEF SemInit, Woken
<1> QED BY <1>2, <1>3 DEF SemInit, Tokens!Init

\* A take that finds a token takes it.
LEMMA TakeNowTokens ==
  ASSUME SemInv, NEW t \in Threads, SemTakeNow(t)
  PROVE  Tokens!Take
<1>1. UNCHANGED <<stat, error, timer, waiting, call>> /\ value > 0 /\ value' = value - 1
  BY DEF SemTakeNow, threadVars
<1>2. UNCHANGED <<Waiters, Ahead, Woken("EOK"), Woken("ETIMEOUT")>>
  BY <1>1 DEF Waiters, Ahead, Before, Woken, Ready
<1> QED BY <1>1, <1>2 DEF Tokens!Take

\* A take that finds none joins the waiters.
LEMMA TakeWaitsTokens ==
  ASSUME SemInv, NEW t \in Threads, NEW timeout \in Waits \cup {RT_WAITING_FOREVER},
         SemTakeWaits(t, timeout)
  PROVE  Tokens!Join(t)
<1>1. /\ Calls(t) /\ value = 0 /\ UNCHANGED value
      /\ stat' = [stat EXCEPT ![t] = "suspended"] /\ error' = [error EXCEPT ![t] = "EOK"]
      /\ call' = [call EXCEPT ![t] = "take"]
      /\ waiting' = IpcListSuspend(waiting, t)
  BY DEF SemTakeWaits, SuspendFor
<1>2. SuspendList(waiting) /\ t \notin ToSet(waiting) /\ call[t] = "none"
  BY <1>1, CallerRuns DEF Waiters
<1>3. /\ Waiters' = Waiters \cup {t}
      /\ Ahead' = Ahead
           \cup {<<w, t>> : w \in {w \in Waiters : Priority[w] <= Priority[t]}}
           \cup {<<t, w>> : w \in {w \in Waiters : Priority[w] > Priority[t]}}
  BY <1>1, <1>2, SuspendJoins, AheadIs DEF Waiters
<1>4. UNCHANGED <<Woken("EOK"), Woken("ETIMEOUT")>>
  BY <1>1, <1>2 DEF Woken, Ready, SemInv, SemTypeOK, ThreadTypeOK
<1>5. t \notin Waiters /\ t \notin Woken("EOK") /\ t \notin Woken("ETIMEOUT")
  BY <1>2 DEF Woken, Waiters
<1> QED BY <1>1, <1>3, <1>4, <1>5 DEF Tokens!Join, Tokens!Away

\* A take that returns leaves with what it was told.
LEMMA TakeReturnsTokens ==
  ASSUME SemInv, NEW t \in Threads, SemTakeReturns(t)
  PROVE  Tokens!Leave(t)
<1>1. /\ Ready(t) /\ call[t] = "take" /\ call' = [call EXCEPT ![t] = "none"]
      /\ UNCHANGED <<stat, error, timer, value, waiting>>
  BY DEF SemTakeReturns, Returns, Running, threadVars
<1>2. UNCHANGED <<Waiters, Ahead>>
  BY <1>1 DEF Waiters, Ahead, Before
<1>3. t \in Woken("EOK") \cup Woken("ETIMEOUT")
  BY <1>1 DEF Woken, SemInv, SemTypeOK, ThreadTypeOK
<1>4. Woken("EOK")' = Woken("EOK") \ {t} /\ Woken("ETIMEOUT")' = Woken("ETIMEOUT") \ {t}
  BY <1>1 DEF Woken, Ready, SemInv, SemTypeOK
<1> QED BY <1>1, <1>2, <1>3, <1>4 DEF Tokens!Leave

\* A release keeps its token, or hands it to the waiter that nobody is ahead of.
LEMMA ReleaseTokens ==
  ASSUME SemInv, NEW t \in Threads, SemRelease(t)
  PROVE  Tokens!Keep \/ \E u \in Threads : Tokens!HandTo(u)
<1>1. CASE waiting = <<>>
  <2>1. /\ value < SemValueMax /\ value' = value + 1
        /\ UNCHANGED <<stat, error, timer, waiting, call>>
    BY <1>1 DEF SemRelease, threadVars
  <2>2. UNCHANGED <<Waiters, Ahead, Woken("EOK"), Woken("ETIMEOUT")>> /\ Waiters = {}
    BY <1>1, <2>1, WaitersAre DEF Waiters, Ahead, Before, Woken, Ready
  <2> QED BY <2>1, <2>2 DEF Tokens!Keep
<1>2. CASE waiting # <<>>
  <2> DEFINE w == Head(waiting)
  <2>1. /\ stat' = [stat EXCEPT ![w] = "ready"] /\ UNCHANGED <<error, value, call>>
        /\ waiting' = Tail(waiting)
    BY <1>2 DEF SemRelease, ThreadResume
  <2>2. Tail(waiting) = RemoveAt(waiting, 1) /\ w = waiting[1] /\ 1 \in 1 .. Len(waiting)
    BY <1>2, WaitersAre, TailRemoves
  <2>3. /\ ToSet(RemoveAt(waiting, 1)) = ToSet(waiting) \ {waiting[1]}
        /\ OrderOf(RemoveAt(waiting, 1)) = {p \in OrderOf(waiting) : p[1] # waiting[1] /\ p[2] # waiting[1]}
    BY <2>2, WaitersAre, RemoveLeaves
  <2>4. waiting' = RemoveAt(waiting, 1)
    BY <2>1, <2>2
  <2>5. Waiters' = Waiters \ {w} /\ Ahead' = {p \in Ahead : p[1] # w /\ p[2] # w}
    BY <2>2, <2>3, <2>4, AheadIs DEF Waiters
  <2>6. w \in Waiters
    BY <2>2, WaitersAre, MemberPlace DEF Waiters
  <2>7. \A u \in Waiters : <<u, w>> \notin Ahead
    <3> SUFFICES ASSUME NEW u \in Waiters, <<u, w>> \in OrderOf(waiting) PROVE FALSE
      BY AheadIs
    <3>1. \E i, j \in 1 .. Len(waiting) : i < j /\ waiting[i] = u /\ waiting[j] = w
      BY WaitersAre, OrderMember
    <3>2. \A j \in 1 .. Len(waiting) : waiting[j] = w => j = 1
      BY <2>2, WaitersAre DEF SuspendList
    <3> QED BY <3>1, <3>2
  <2> HIDE DEF w
  <2>8. w \in Threads /\ call[w] = "take" /\ ~Ready(w) /\ error[w] = "EOK"
    BY <2>6, WaitersAre DEF SemInv
  <2>9. Woken("EOK")' = Woken("EOK") \cup {w} /\ UNCHANGED Woken("ETIMEOUT")
    BY <2>1, <2>8 DEF Woken, Ready, SemInv, SemTypeOK, ThreadTypeOK
  <2>10. Tokens!HandTo(w)
    BY <2>1, <2>5, <2>6, <2>7, <2>9 DEF Tokens!HandTo, Tokens!Without
  <2> QED BY <2>8, <2>10
<1> QED BY <1>1, <1>2

\* A wait that times out is given up, if it was one for a token.
LEMMA TimeOutTokens ==
  ASSUME SemInv, NEW t \in Threads, TimeOut(t)
  PROVE  Tokens!GiveUp(t) \/ UNCHANGED abs
<1>1. /\ timer[t] = 0 /\ error' = [error EXCEPT ![t] = "ETIMEOUT"]
      /\ stat' = [stat EXCEPT ![t] = "ready"] /\ UNCHANGED <<value, call>>
  BY DEF TimeOut, ThreadTimeout
<1>2. ~Ready(t)
  BY <1>1 DEF SemInv, Stopped
<1>3. Waiters' = Waiters \ {t} /\ Ahead' = {p \in Ahead : p[1] # t /\ p[2] # t}
  BY TimeOutList, AheadIs
<1>4. Woken("EOK")' = Woken("EOK")
  BY <1>1, <1>2 DEF Woken, Ready, SemInv, SemTypeOK, ThreadTypeOK
<1>5. CASE t \in Waiters
  <2>1. call[t] = "take"
    BY <1>5, WaitersAre
  <2>2. Woken("ETIMEOUT")' = Woken("ETIMEOUT") \cup {t}
    BY <1>1, <1>2, <2>1 DEF Woken, Ready, SemInv, SemTypeOK, ThreadTypeOK
  <2> QED BY <1>1, <1>3, <1>4, <1>5, <2>2 DEF Tokens!GiveUp, Tokens!Without
<1>6. CASE t \notin Waiters
  <2>1. call[t] # "take"
    BY <1>2, <1>6 DEF SemInv, SemTypeOK
  <2>2. Woken("ETIMEOUT")' = Woken("ETIMEOUT")
    BY <1>1, <1>2, <2>1 DEF Woken, Ready, SemInv, SemTypeOK, ThreadTypeOK
  <2>3. \A p \in Ahead : p[1] # t /\ p[2] # t
    BY <1>6, AheadIs, WaitersAre, OrderPairs DEF Waiters
  <2> QED BY <1>1, <1>3, <1>4, <1>6, <2>2, <2>3 DEF abs
<1> QED BY <1>5, <1>6

\* Sleeping, waking up from it and a tick are nothing to the abstract semaphore.
LEMMA OthersTokens ==
  ASSUME SemInv,
         \/ TickPasses
         \/ \E t \in Threads : SleepReturns(t) \/ \E ticks \in Waits : Sleep(t, ticks)
         \/ UNCHANGED semVars
  PROVE  UNCHANGED abs
<1>1. CASE TickPasses
  BY <1>1 DEF TickPasses, TickIncrease, abs, Waiters, Ahead, Before, Woken, Ready
<1>2. ASSUME NEW t \in Threads, SleepReturns(t) PROVE UNCHANGED abs
  <2>1. /\ call[t] = "sleep" /\ call' = [call EXCEPT ![t] = "none"]
        /\ error' = [error EXCEPT ![t] = "EOK"] /\ UNCHANGED <<stat, value, waiting>>
    BY <1>2 DEF SleepReturns, Returns
  <2>2. UNCHANGED <<Woken("EOK"), Woken("ETIMEOUT")>>
    BY <2>1 DEF Woken, Ready, SemInv, SemTypeOK, ThreadTypeOK
  <2> QED BY <2>1, <2>2 DEF abs, Waiters, Ahead, Before
<1>3. ASSUME NEW t \in Threads, NEW ticks \in Waits, Sleep(t, ticks) PROVE UNCHANGED abs
  <2>1. /\ call[t] = "none" /\ call' = [call EXCEPT ![t] = "sleep"] /\ stat' = [stat EXCEPT ![t] = "suspended"]
        /\ error' = [error EXCEPT ![t] = "EOK"] /\ UNCHANGED <<value, waiting>>
    BY <1>3 DEF Sleep, SuspendFor, Calls
  <2>2. UNCHANGED <<Woken("EOK"), Woken("ETIMEOUT")>>
    BY <2>1 DEF Woken, Ready, SemInv, SemTypeOK, ThreadTypeOK
  <2> QED BY <2>1, <2>2 DEF abs, Waiters, Ahead, Before
<1>4. CASE UNCHANGED semVars
  BY <1>4 DEF semVars, abs, Waiters, Ahead, Before, Woken, Ready
<1> QED BY <1>1, <1>2, <1>3, <1>4

\* Every step is a step of the abstract semaphore, or none.
LEMMA StepTokens ==
  ASSUME SemInv, [SemNext]_semVars
  PROVE  [Tokens!Next]_(Tokens!queueVars)
<1>1. UNCHANGED abs <=> UNCHANGED Tokens!queueVars
  BY DEF abs, Tokens!queueVars
<1>2. CASE TickPasses \/ UNCHANGED semVars
  BY <1>1, <1>2, OthersTokens
<1>3. ASSUME NEW t \in Threads, TimeOut(t) PROVE Tokens!Next \/ UNCHANGED abs
  BY <1>3, TimeOutTokens DEF Tokens!Next
<1>4. ASSUME NEW t \in Threads, SemStep(t) PROVE Tokens!Next \/ UNCHANGED abs
  BY <1>4, TakeNowTokens, TakeWaitsTokens, TakeReturnsTokens, ReleaseTokens, OthersTokens
     DEF SemStep, Tokens!Next
<1> QED BY <1>1, <1>2, <1>3, <1>4 DEF SemNext

\* The semaphore of ipc.c implements the abstract one, whichever threads use it: no
\* token is lost or made up, the waiters are served by priority and then in turn,
\* and a take that times out has taken nothing.
THEOREM SemImplementsTokens == SemSpec => ImplementsTokens
<1>1. SemInv /\ [SemNext]_semVars => [Tokens!Next]_(Tokens!queueVars)
  BY StepTokens
<1> QED BY SemInvariant, InitTokens, <1>1, PTL DEF SemSpec, ImplementsTokens, Tokens!Spec
=============================================================================
