----------------------------- MODULE QueueProofs -----------------------------
(***************************************************************************)
(* What putting an element on a queue and taking one off preserves: that   *)
(* it is on the queue once, and the order of the queue.                    *)
(***************************************************************************)
EXTENDS Queues, SequenceTheorems, TLAPS

\* An element that is not on a queue is put at its tail.
LEMMA AppendQueue ==
    ASSUME NEW S, NEW q \in Seq(S), NEW t \in S, Inj(q), t \notin Range(q)
    PROVE  /\ Append(q, t) \in Seq(S)
           /\ Inj(Append(q, t))
           /\ Range(Append(q, t)) = Range(q) \cup {t}
<1> DEFINE r == Append(q, t)
<1>1. r \in Seq(S) /\ Len(r) = Len(q) + 1
  OBVIOUS
<1>2. /\ DOMAIN q = 1..Len(q) /\ DOMAIN r = 1..(Len(q) + 1)
      /\ \A i \in 1..Len(q) : r[i] = q[i]
      /\ r[Len(q) + 1] = t /\ Len(q) \in Nat
  BY <1>1
<1>3. \A i \in 1..Len(q) : q[i] # t
  BY <1>2 DEF Range
<1>4. Inj(r)
  BY <1>2, <1>3 DEF Inj
<1>5. Range(r) = Range(q) \cup {t}
  BY <1>2 DEF Range
<1> QED
  BY <1>1, <1>4, <1>5

\* An element is taken off its queue.
LEMMA WithoutQueue ==
    ASSUME NEW S, NEW q \in Seq(S), NEW t \in S, Inj(q), t \in Range(q)
    PROVE  /\ Without(q, t) \in Seq(S)
           /\ Inj(Without(q, t))
           /\ Range(Without(q, t)) = Range(q) \ {t}
<1> DEFINE n == CHOOSE i \in DOMAIN q : q[i] = t
           r == Without(q, t)
<1>1. n \in 1..Len(q) /\ q[n] = t /\ Len(q) \in Nat /\ DOMAIN q = 1..Len(q)
  BY DEF Range
<1> HIDE DEF n
<1>2. /\ r \in Seq(S) /\ Len(r) = Len(q) - 1 /\ DOMAIN r = 1..(Len(q) - 1)
      /\ \A i \in 1..(Len(q) - 1) : r[i] = IF i < n THEN q[i] ELSE q[i + 1]
  <2> DEFINE s1 == SubSeq(q, 1, n - 1)
             s2 == SubSeq(q, n + 1, Len(q))
  <2>1. r = s1 \o s2
    BY DEF Without, RemoveAt, n
  <2>2. s1 \in Seq(S) /\ Len(s1) = n - 1 /\ \A i \in 1..(n - 1) : s1[i] = q[i]
    BY <1>1
  <2>3. s2 \in Seq(S) /\ Len(s2) = Len(q) - n
        /\ \A i \in 1..(Len(q) - n) : s2[i] = q[n + i]
    <3>1. \A i \in (n + 1)..Len(q) : q[i] \in S
      BY <1>1
    <3>2. /\ s2 \in Seq(S)
          /\ Len(s2) = IF n + 1 =< Len(q) THEN Len(q) - (n + 1) + 1 ELSE 0
          /\ \A i \in 1..(Len(q) - (n + 1) + 1) : s2[i] = q[n + 1 + i - 1]
      <4>1. n + 1 \in Int /\ Len(q) \in Int
        BY <1>1
      <4> QED
        BY <3>1, <4>1, SubSeqProperties DEF s2
    <3> HIDE DEF s2
    <3>3. Len(s2) = Len(q) - n /\ Len(q) - (n + 1) + 1 = Len(q) - n
      <4>1. \A x, y \in Int : x =< y =>
               y - (x + 1) + 1 = y - x /\ (x + 1 =< y \/ y - x = 0)
        OBVIOUS
      <4>2. n \in Int /\ Len(q) \in Int /\ n =< Len(q)
        BY <1>1
      <4>3. Len(q) - (n + 1) + 1 = Len(q) - n /\ (n + 1 =< Len(q) \/ Len(q) - n = 0)
        BY <4>1, <4>2
      <4>4. Len(s2) = IF n + 1 =< Len(q) THEN Len(q) - (n + 1) + 1 ELSE 0
        BY <3>2
      <4> QED
        BY <4>3, <4>4
    <3>4. \A i \in 1..(Len(q) - n) : n + 1 + i - 1 = n + i
      BY <1>1
    <3> QED
      BY <3>2, <3>3, <3>4
  <2> HIDE DEF s1, s2, r
  <2>4. r \in Seq(S) /\ Len(r) = Len(q) - 1
    <3>1. r \in Seq(S) /\ Len(r) = Len(s1) + Len(s2)
      BY <2>1, <2>2, <2>3, ConcatProperties
    <3> QED
      BY <1>1, <2>2, <2>3, <3>1
  <2>5. \A i \in 1..(Len(q) - 1) : r[i] = IF i < n THEN q[i] ELSE q[i + 1]
    <3> TAKE i \in 1..(Len(q) - 1)
    <3>1. CASE i < n
      BY <1>1, <2>1, <2>2, <2>3, <3>1
    <3>2. CASE ~(i < n)
      <4>1. i - Len(s1) \in 1..Len(s2) /\ r[i] = s2[i - Len(s1)]
        BY <1>1, <2>1, <2>2, <2>3, <3>2
      <4>2. i - (n - 1) \in 1..(Len(q) - n) /\ n + (i - (n - 1)) = i + 1
        BY <1>1, <3>2
      <4> QED
        BY <2>2, <2>3, <3>2, <4>1, <4>2
    <3> QED
      BY <3>1, <3>2
  <2> QED
    BY <2>4, <2>5
<1> HIDE DEF r
<1>3. Inj(r)
  <2> SUFFICES ASSUME NEW i \in 1..(Len(q) - 1), NEW j \in 1..(Len(q) - 1), r[i] = r[j]
               PROVE  i = j
    BY <1>2 DEF Inj
  <2> DEFINE f(x) == IF x < n THEN x ELSE x + 1
  <2>1. f(i) \in 1..Len(q) /\ f(j) \in 1..Len(q) /\ r[i] = q[f(i)] /\ r[j] = q[f(j)]
    BY <1>1, <1>2
  <2>2. f(i) = f(j)
    BY <1>1, <2>1 DEF Inj
  <2> QED
    BY <1>1, <2>2
<1>4. Range(r) = Range(q) \ {t}
  <2>1. ASSUME NEW x \in Range(r) PROVE x \in Range(q) \ {t}
    <3>1. PICK i \in 1..(Len(q) - 1) : x = r[i]
      BY <1>2, <2>1 DEF Range
    <3> QED
      BY SMTT(30), <1>1, <1>2, <3>1 DEF Range, Inj
  <2>2. ASSUME NEW x \in Range(q) \ {t} PROVE x \in Range(r)
    <3>1. PICK i \in 1..Len(q) : x = q[i]
      BY <1>1 DEF Range
    <3>2. CASE i < n
      <4>1. i \in 1..(Len(q) - 1) /\ r[i] = x
        BY <1>1, <1>2, <3>1, <3>2
      <4> QED
        BY <1>2, <4>1 DEF Range
    <3>3. CASE i > n
      <4>1. i - 1 \in 1..(Len(q) - 1) /\ r[i - 1] = x
        BY <1>1, <1>2, <3>1, <3>3
      <4> QED
        BY <1>2, <4>1 DEF Range
    <3> QED
      BY <1>1, <3>1, <3>2, <3>3
  <2> QED
    BY <2>1, <2>2
<1> QED
  BY <1>2, <1>3, <1>4 DEF r

\* The first element is taken off its queue.
LEMMA TailQueue ==
    ASSUME NEW S, NEW q \in Seq(S), Inj(q), q # <<>>
    PROVE  /\ Head(q) \in Range(q) /\ Head(q) \in S
           /\ Tail(q) \in Seq(S)
           /\ Inj(Tail(q))
           /\ Range(Tail(q)) = Range(q) \ {Head(q)}
<1> DEFINE n == Len(q)
           r == Tail(q)
<1>1. n \in Nat \ {0} /\ DOMAIN q = 1..n /\ Head(q) = q[1] /\ 1 \in 1..n
  OBVIOUS
<1>2. /\ r \in Seq(S) /\ DOMAIN r = 1..(n - 1)
      /\ \A i \in 1..(n - 1) : r[i] = q[i + 1] /\ i + 1 \in 1..n /\ i + 1 # 1
  OBVIOUS
<1>3. Head(q) \in Range(q) /\ Head(q) \in S
  BY <1>1 DEF Range
<1> HIDE DEF n, r
<1>4. Inj(r)
  <2> SUFFICES ASSUME NEW i \in 1..(n - 1), NEW j \in 1..(n - 1), r[i] = r[j]
               PROVE  i = j
    BY <1>2 DEF Inj
  <2>1. q[i + 1] = q[j + 1] /\ i + 1 \in 1..n /\ j + 1 \in 1..n
    BY <1>2
  <2>2. i + 1 = j + 1
    BY <1>1, <2>1 DEF Inj
  <2> QED
    BY <1>1, <2>2
<1>5. ASSUME NEW x \in Range(r) PROVE x \in Range(q) \ {q[1]}
  <2>1. PICK i \in 1..(n - 1) : x = r[i]
    BY <1>2, <1>5 DEF Range
  <2>2. x = q[i + 1] /\ i + 1 \in 1..n /\ i + 1 # 1
    BY <1>2, <2>1
  <2>3. x # q[1]
    BY <1>1, <2>2 DEF Inj
  <2> QED
    BY <1>1, <2>2, <2>3 DEF Range
<1>6. ASSUME NEW x \in Range(q) \ {q[1]} PROVE x \in Range(r)
  <2>1. PICK i \in 1..n : x = q[i]
    BY <1>1 DEF Range
  <2>2. i - 1 \in 1..(n - 1) /\ (i - 1) + 1 = i
    BY <1>1, <1>6, <2>1
  <2> QED
    BY <1>2, <2>1, <2>2 DEF Range
<1> QED
  BY <1>1, <1>2, <1>3, <1>4, <1>5, <1>6 DEF r

\* Two queues with no common element are joined.
LEMMA ConcatQueue ==
    ASSUME NEW S, NEW a \in Seq(S), NEW b \in Seq(S), Inj(a), Inj(b),
           Range(a) \cap Range(b) = {}
    PROVE  a \o b \in Seq(S) /\ Inj(a \o b) /\ Range(a \o b) = Range(a) \cup Range(b)
<1> DEFINE r == a \o b
           m == Len(a)
           n == Len(b)
<1>1. /\ m \in Nat /\ n \in Nat /\ DOMAIN a = 1..m /\ DOMAIN b = 1..n
      /\ r \in Seq(S) /\ DOMAIN r = 1..(m + n)
      /\ \A i \in 1..(m + n) : r[i] = IF i =< m THEN a[i] ELSE b[i - m]
  BY ConcatProperties
<1> HIDE DEF r, m, n
<1>2. ASSUME NEW i \in 1..(m + n), NEW j \in 1..(m + n), r[i] = r[j]
      PROVE  i = j
  <2>1. CASE i =< m /\ j =< m
    BY <1>1, <1>2, <2>1 DEF Inj
  <2>2. CASE i > m /\ j > m
    <3>1. /\ i - m \in 1..n /\ j - m \in 1..n
          /\ b[i - m] = b[j - m]
      BY <1>1, <1>2, <2>2
    <3>2. i - m = j - m
      BY <1>1, <3>1 DEF Inj
    <3> QED
      BY <1>1, <3>2
  <2>3. ASSUME NEW x \in 1..(m + n), NEW y \in 1..(m + n), x =< m, y > m
        PROVE  r[x] # r[y]
    <3>1. x \in 1..m /\ y - m \in 1..n /\ ~(y =< m)
      BY <1>1, <2>3
    <3>3. r[x] = a[x]
      BY <1>1, <2>3
    <3>4. r[y] = b[y - m]
      BY <1>1, <3>1
    <3>2. r[x] \in Range(a) /\ r[y] \in Range(b)
      BY <1>1, <3>1, <3>3, <3>4 DEF Range
    <3> QED
      BY <3>2
  <2>4. (i =< m \/ i > m) /\ (j =< m \/ j > m)
    BY <1>1
  <2> QED
    BY <1>2, <2>1, <2>2, <2>3, <2>4
<1>3. Inj(r)
  BY <1>1, <1>2 DEF Inj
<1>4. Range(r) = Range(a) \cup Range(b)
  BY RangeConcatenation DEF r
<1> QED
  BY <1>1, <1>3, <1>4 DEF r

\* An element is put on a queue at position n.
LEMMA InsertPositions ==
    ASSUME NEW S, NEW q \in Seq(S), NEW t \in S, NEW n \in 1..Len(q)
    PROVE  /\ InsertAt(q, n, t) \in Seq(S)
           /\ DOMAIN InsertAt(q, n, t) = 1..(Len(q) + 1)
           /\ \A i \in 1..(Len(q) + 1) :
                 InsertAt(q, n, t)[i] = IF i < n THEN q[i]
                                        ELSE IF i = n THEN t ELSE q[i - 1]
<1> DEFINE s1 == SubSeq(q, 1, n - 1)
           s2 == SubSeq(q, n, Len(q))
           r1 == s1 \o <<t>>
           r == r1 \o s2
<1>1. Len(q) \in Nat /\ n \in Nat /\ 1 =< n /\ n =< Len(q) /\ DOMAIN q = 1..Len(q)
  OBVIOUS
<1>2. s1 \in Seq(S) /\ Len(s1) = n - 1 /\ \A i \in 1..(n - 1) : s1[i] = q[i]
  BY <1>1
<1>3. s2 \in Seq(S) /\ Len(s2) = Len(q) - n + 1
      /\ \A i \in 1..(Len(q) - n + 1) : s2[i] = q[n + i - 1]
  <2>1. \A i \in n..Len(q) : q[i] \in S
    BY <1>1
  <2>2. n \in Int /\ Len(q) \in Int
    BY <1>1
  <2>3. /\ s2 \in Seq(S)
        /\ Len(s2) = IF n =< Len(q) THEN Len(q) - n + 1 ELSE 0
        /\ \A i \in 1..(Len(q) - n + 1) : s2[i] = q[n + i - 1]
    BY <2>1, <2>2, SubSeqProperties
  <2> QED
    BY <1>1, <2>3
<1>4. InsertAt(q, n, t) = r
  BY DEF InsertAt
<1> HIDE DEF s1, s2
<1>5. /\ r1 \in Seq(S) /\ Len(r1) = n
      /\ \A i \in 1..n : r1[i] = IF i < n THEN q[i] ELSE t
  <2>1. <<t>> \in Seq(S) /\ Len(<<t>>) = 1 /\ <<t>>[1] = t
    OBVIOUS
  <2>2. /\ r1 \in Seq(S) /\ Len(r1) = (n - 1) + 1
        /\ \A i \in 1..((n - 1) + 1) : r1[i] = IF i =< n - 1 THEN s1[i]
                                               ELSE <<t>>[i - (n - 1)]
    <3>1. /\ s1 \o <<t>> \in Seq(S)
          /\ Len(s1 \o <<t>>) = Len(s1) + Len(<<t>>)
          /\ \A i \in 1..(Len(s1) + Len(<<t>>)) :
                (s1 \o <<t>>)[i] = IF i =< Len(s1) THEN s1[i] ELSE <<t>>[i - Len(s1)]
      BY <1>2, <2>1, ConcatProperties
    <3> QED
      BY <1>2, <2>1, <3>1
  <2>3. (n - 1) + 1 = n /\ n - (n - 1) = 1
    BY <1>1
  <2> HIDE DEF r1
  <2>4. ASSUME NEW i \in 1..n PROVE r1[i] = IF i < n THEN q[i] ELSE t
    <3>1. CASE i < n
      <4>1. i =< n - 1 /\ i \in 1..(n - 1)
        BY <1>1, <3>1
      <4> QED
        BY <1>2, <2>2, <2>3, <3>1, <4>1
    <3>2. CASE i = n
      <4>1. ~(i =< n - 1) /\ i \in 1..((n - 1) + 1) /\ i - (n - 1) = 1
        BY <1>1, <3>2
      <4> QED
        <5>1. r1[i] = <<t>>[i - (n - 1)]
          BY <2>2, <4>1
        <5>2. r1[i] = t
          BY <2>1, <4>1, <5>1
        <5>3. ~(i < n)
          BY <1>1, <3>2
        <5> QED
          BY <5>2, <5>3
    <3> QED
      BY <1>1, <3>1, <3>2
  <2> QED
    BY <2>2, <2>3, <2>4
<1> HIDE DEF r1
<1>6. /\ r \in Seq(S) /\ Len(r) = n + (Len(q) - n + 1)
      /\ \A i \in 1..(n + (Len(q) - n + 1)) : r[i] = IF i =< n THEN r1[i] ELSE s2[i - n]
  <2>1. /\ r1 \o s2 \in Seq(S)
        /\ Len(r1 \o s2) = Len(r1) + Len(s2)
        /\ \A i \in 1..(Len(r1) + Len(s2)) :
              (r1 \o s2)[i] = IF i =< Len(r1) THEN r1[i] ELSE s2[i - Len(r1)]
    BY <1>3, <1>5, ConcatProperties
  <2> QED
    BY <1>3, <1>5, <2>1 DEF r
<1> HIDE DEF r
<1>7. n + (Len(q) - n + 1) = Len(q) + 1
  BY <1>1
<1>8. ASSUME NEW i \in 1..(Len(q) + 1)
      PROVE  r[i] = IF i < n THEN q[i] ELSE IF i = n THEN t ELSE q[i - 1]
  <2>1. CASE i =< n
    <3>1. i \in 1..n /\ r[i] = r1[i]
      BY <1>1, <1>6, <1>7, <2>1
    <3> QED
      BY <1>1, <1>5, <2>1, <3>1
  <2>2. CASE ~(i =< n)
    <3>1. i - n \in 1..(Len(q) - n + 1) /\ n + (i - n) - 1 = i - 1
      BY <1>1, <2>2
    <3>2. r[i] = s2[i - n] /\ s2[i - n] = q[i - 1]
      BY <1>3, <1>6, <1>7, <2>2, <3>1
    <3> QED
      BY <1>1, <2>2, <3>2
  <2> QED
    BY <2>1, <2>2
<1>9. DOMAIN r = 1..(Len(q) + 1)
  BY <1>6, <1>7
<1> QED
  BY <1>4, <1>6, <1>8, <1>9

\* An element that is not on a queue is put at position n of it.
LEMMA InsertQueue ==
    ASSUME NEW S, NEW q \in Seq(S), NEW t \in S, Inj(q), t \notin Range(q),
           NEW n \in 1..Len(q)
    PROVE  /\ InsertAt(q, n, t) \in Seq(S)
           /\ Inj(InsertAt(q, n, t))
           /\ Range(InsertAt(q, n, t)) = Range(q) \cup {t}
<1> DEFINE r == InsertAt(q, n, t)
           m == Len(q)
<1>1. /\ m \in Nat /\ n \in 1..m /\ DOMAIN q = 1..m
      /\ r \in Seq(S) /\ DOMAIN r = 1..(m + 1)
      /\ \A i \in 1..(m + 1) : r[i] = IF i < n THEN q[i] ELSE IF i = n THEN t ELSE q[i - 1]
  BY InsertPositions
<1>2. \A i \in 1..m : q[i] # t
  BY <1>1 DEF Range
<1> HIDE DEF r, m
<1> DEFINE f(x) == IF x < n THEN x ELSE x - 1
<1>3. \A x \in (1..(m + 1)) \ {n} : f(x) \in 1..m /\ r[x] = q[f(x)]
  BY <1>1
<1>4. r[n] = t /\ n \in 1..(m + 1)
  BY <1>1
<1>5. ASSUME NEW i \in 1..(m + 1), NEW j \in 1..(m + 1), r[i] = r[j]
      PROVE  i = j
  <2>1. CASE i = n \/ j = n
    BY <1>2, <1>3, <1>4, <1>5, <2>1
  <2>2. CASE i # n /\ j # n
    <3>1. f(i) \in 1..m /\ f(j) \in 1..m /\ q[f(i)] = q[f(j)]
      BY <1>3, <1>5, <2>2
    <3>2. f(i) = f(j)
      BY <1>1, <3>1 DEF Inj
    <3> QED
      BY <1>1, <2>2, <3>2
  <2> QED
    BY <2>1, <2>2
<1>6. Inj(r)
  BY <1>1, <1>5 DEF Inj
<1>7. ASSUME NEW x \in Range(q) PROVE x \in Range(r)
  <2>1. PICK i \in 1..m : x = q[i]
    BY <1>1, <1>7 DEF Range
  <2>2. CASE i < n
    BY <1>1, <2>1, <2>2 DEF Range
  <2>3. CASE ~(i < n)
    <3>1. i + 1 \in 1..(m + 1) /\ ~(i + 1 < n) /\ i + 1 # n /\ (i + 1) - 1 = i
      BY <1>1, <2>3
    <3> QED
      BY <1>1, <2>1, <3>1 DEF Range
  <2> QED
    BY <2>2, <2>3
<1>8. ASSUME NEW x \in Range(r) PROVE x \in Range(q) \cup {t}
  <2>1. PICK i \in 1..(m + 1) : x = r[i]
    BY <1>1, <1>8 DEF Range
  <2>2. CASE i = n
    BY <1>4, <2>1, <2>2
  <2>3. CASE i # n
    <3>1. f(i) \in 1..m /\ x = q[f(i)]
      BY <1>3, <2>1, <2>3
    <3> QED
      BY <1>1, <3>1 DEF Range
  <2> QED
    BY <2>2, <2>3
<1>9. t \in Range(r)
  BY <1>1, <1>4 DEF Range
<1>10. Range(r) = Range(q) \cup {t}
  BY <1>7, <1>8, <1>9
<1> QED
  BY <1>1, <1>6, <1>10 DEF r

\* Queue s is sorted by the numbers that f gives to its elements.
SortedBy(s, f) == \A i, j \in DOMAIN s : i < j => f[s[i]] =< f[s[j]]

\* Where the elements of a queue are after one was taken off.
LEMMA WithoutPositions ==
    ASSUME NEW S, NEW q \in Seq(S), NEW t \in S, t \in Range(q)
    PROVE  \E n \in 1..Len(q) :
              /\ q[n] = t /\ DOMAIN Without(q, t) = 1..(Len(q) - 1)
              /\ \A i \in 1..(Len(q) - 1) :
                    Without(q, t)[i] = IF i < n THEN q[i] ELSE q[i + 1]
<1> DEFINE n == CHOOSE i \in DOMAIN q : q[i] = t
           r == Without(q, t)
           s1 == SubSeq(q, 1, n - 1)
           s2 == SubSeq(q, n + 1, Len(q))
<1>1. n \in 1..Len(q) /\ q[n] = t /\ Len(q) \in Nat /\ DOMAIN q = 1..Len(q)
  BY DEF Range
<1>2. r = s1 \o s2
  BY DEF Without, RemoveAt
<1> HIDE DEF n
<1>3. s1 \in Seq(S) /\ Len(s1) = n - 1 /\ \A i \in 1..(n - 1) : s1[i] = q[i]
  BY <1>1
<1>4. s2 \in Seq(S) /\ Len(s2) = Len(q) - n
      /\ \A i \in 1..(Len(q) - n) : s2[i] = q[n + i]
  <2>1. \A i \in (n + 1)..Len(q) : q[i] \in S
    BY <1>1
  <2>2. /\ s2 \in Seq(S)
        /\ Len(s2) = IF n + 1 =< Len(q) THEN Len(q) - (n + 1) + 1 ELSE 0
        /\ \A i \in 1..(Len(q) - (n + 1) + 1) : s2[i] = q[n + 1 + i - 1]
    <3>1. n + 1 \in Int /\ Len(q) \in Int
      BY <1>1
    <3> QED
      BY <2>1, <3>1, SubSeqProperties DEF s2
  <2> HIDE DEF s2
  <2>3. Len(s2) = Len(q) - n /\ Len(q) - (n + 1) + 1 = Len(q) - n
    <3>1. \A x, y \in Int : x =< y =>
             y - (x + 1) + 1 = y - x /\ (x + 1 =< y \/ y - x = 0)
      OBVIOUS
    <3>2. n \in Int /\ Len(q) \in Int /\ n =< Len(q)
      BY <1>1
    <3>3. Len(q) - (n + 1) + 1 = Len(q) - n /\ (n + 1 =< Len(q) \/ Len(q) - n = 0)
      BY <3>1, <3>2
    <3>4. Len(s2) = IF n + 1 =< Len(q) THEN Len(q) - (n + 1) + 1 ELSE 0
      BY <2>2
    <3> QED
      BY <3>3, <3>4
  <2>4. \A i \in 1..(Len(q) - n) : n + 1 + i - 1 = n + i
    BY <1>1
  <2> QED
    BY <2>2, <2>3, <2>4
<1> HIDE DEF s1, s2, r
<1>5. r \in Seq(S) /\ Len(r) = Len(q) - 1
  <2>1. r \in Seq(S) /\ Len(r) = Len(s1) + Len(s2)
    BY <1>2, <1>3, <1>4, ConcatProperties
  <2> QED
    BY <1>1, <1>3, <1>4, <2>1
<1>6. DOMAIN r = 1..(Len(q) - 1)
  BY <1>5
<1>7. \A i \in 1..(Len(q) - 1) : r[i] = IF i < n THEN q[i] ELSE q[i + 1]
  <2> TAKE i \in 1..(Len(q) - 1)
  <2>1. CASE i < n
    BY <1>1, <1>2, <1>3, <1>4, <2>1
  <2>2. CASE ~(i < n)
    <3>1. i - Len(s1) \in 1..Len(s2) /\ r[i] = s2[i - Len(s1)]
      BY <1>1, <1>2, <1>3, <1>4, <2>2
    <3>2. i - (n - 1) \in 1..(Len(q) - n) /\ n + (i - (n - 1)) = i + 1
      BY <1>1, <2>2
    <3> QED
      BY <1>3, <1>4, <2>2, <3>1, <3>2
  <2> QED
    BY <2>1, <2>2
<1> QED
  BY <1>1, <1>6, <1>7 DEF r

\* A queue stays sorted when an element is taken off,
LEMMA WithoutSorted ==
    ASSUME NEW S, NEW q \in Seq(S), NEW t \in S, t \in Range(q), NEW f, SortedBy(q, f)
    PROVE  SortedBy(Without(q, t), f)
<1> DEFINE r == Without(q, t)
           m == Len(q)
<1>1. PICK n \in 1..m : /\ DOMAIN r = 1..(m - 1)
                        /\ \A i \in 1..(m - 1) : r[i] = IF i < n THEN q[i] ELSE q[i + 1]
  BY WithoutPositions
<1>2. m \in Nat /\ DOMAIN q = 1..m
  OBVIOUS
<1> HIDE DEF r, m
<1> DEFINE g(i) == IF i < n THEN i ELSE i + 1
<1>3. \A i \in 1..(m - 1) : g(i) \in 1..m /\ r[i] = q[g(i)]
  BY <1>1, <1>2
<1>4. \A i, j \in 1..(m - 1) : i < j => g(i) < g(j)
  BY <1>1, <1>2
<1> HIDE DEF g
<1>5. \A i, j \in 1..(m - 1) : i < j => f[r[i]] =< f[r[j]]
  BY <1>2, <1>3, <1>4 DEF SortedBy
<1> QED
  BY <1>1, <1>5 DEF SortedBy, r

\* when one is put where it belongs,
LEMMA InsertSorted ==
    ASSUME NEW S, NEW q \in Seq(S), NEW t \in S, NEW n \in 1..Len(q),
           NEW f \in [S -> Int], SortedBy(q, f), f[t] =< f[q[n]],
           n > 1 => f[q[n - 1]] =< f[t]
    PROVE  SortedBy(InsertAt(q, n, t), f)
<1>0. q \in Seq(S) /\ t \in S /\ n \in 1..Len(q)
  OBVIOUS
<1> DEFINE r == InsertAt(q, n, t)
           m == Len(q)
<1>1. /\ r \in Seq(S) /\ DOMAIN r = 1..(m + 1)
      /\ \A i \in 1..(m + 1) : r[i] = IF i < n THEN q[i] ELSE IF i = n THEN t ELSE q[i - 1]
  BY <1>0, InsertPositions
<1>2. m \in Nat /\ DOMAIN q = 1..m /\ n \in 1..m /\ \A i \in 1..m : f[q[i]] \in Int
  OBVIOUS
<1> HIDE DEF r, m
<1>3. \A i \in 1..(n - 1) : f[q[i]] =< f[t]
  <2> TAKE i \in 1..(n - 1)
  <2>1. n > 1 /\ n - 1 \in 1..m /\ i \in 1..m /\ (i < n - 1 \/ i = n - 1)
    BY <1>2
  <2>2. f[q[i]] =< f[q[n - 1]]
    BY <1>2, <2>1 DEF SortedBy
  <2>3. f[t] \in Int
    OBVIOUS
  <2> QED
    BY <1>2, <2>1, <2>2, <2>3
<1>4. \A j \in n..m : f[t] =< f[q[j]]
  <2> TAKE j \in n..m
  <2>1. j \in 1..m /\ (n < j \/ n = j)
    BY <1>2
  <2>2. f[q[n]] =< f[q[j]]
    BY <1>2, <2>1 DEF SortedBy
  <2>3. f[t] \in Int
    OBVIOUS
  <2> QED
    BY <1>2, <2>1, <2>2, <2>3
<1>5. ASSUME NEW i \in 1..(m + 1), NEW j \in 1..(m + 1), i < j
      PROVE  f[r[i]] =< f[r[j]]
  <2>1. CASE i = n
    <3>1. r[i] = t /\ r[j] = q[j - 1] /\ j - 1 \in n..m
      BY <1>1, <1>2, <1>5, <2>1
    <3> QED
      BY <1>4, <3>1
  <2>2. CASE j = n
    <3>1. r[j] = t /\ r[i] = q[i] /\ i \in 1..(n - 1)
      BY <1>1, <1>2, <1>5, <2>2
    <3> QED
      BY <1>3, <3>1
  <2>3. CASE i # n /\ j # n
    <3>1. PICK x \in 1..m : r[i] = q[x] /\ ((x = i /\ i < n) \/ (x = i - 1 /\ i > n))
      <4>1. CASE i < n
        <5>1. i \in 1..m /\ r[i] = q[i]
          BY <1>1, <1>2, <4>1
        <5> QED
          BY <4>1, <5>1
      <4>2. CASE i > n
        <5>1. i - 1 \in 1..m /\ r[i] = q[i - 1]
          BY <1>1, <1>2, <4>2
        <5> QED
          BY <4>2, <5>1
      <4> QED
        BY <1>2, <2>3, <4>1, <4>2
    <3>2. PICK y \in 1..m : r[j] = q[y] /\ ((y = j /\ j < n) \/ (y = j - 1 /\ j > n))
      <4>1. CASE j < n
        <5>1. j \in 1..m /\ r[j] = q[j]
          BY <1>1, <1>2, <4>1
        <5> QED
          BY <4>1, <5>1
      <4>2. CASE j > n
        <5>1. j - 1 \in 1..m /\ r[j] = q[j - 1]
          BY <1>1, <1>2, <4>2
        <5> QED
          BY <4>2, <5>1
      <4> QED
        BY <1>2, <2>3, <4>1, <4>2
    <3>3. x < y
      BY <1>2, <1>5, <3>1, <3>2
    <3> QED
      BY <1>2, <3>1, <3>2, <3>3 DEF SortedBy
  <2> QED
    BY <2>1, <2>2, <2>3
<1> QED
  BY <1>1, <1>5 DEF SortedBy, r

\* or at the end,
LEMMA AppendSorted ==
    ASSUME NEW S, NEW q \in Seq(S), NEW t \in S, NEW f \in [S -> Int], SortedBy(q, f),
           q # <<>> => f[q[Len(q)]] =< f[t]
    PROVE  SortedBy(Append(q, t), f)
<1> DEFINE r == Append(q, t)
           m == Len(q)
<1>1. /\ m \in Nat /\ DOMAIN q = 1..m /\ DOMAIN r = 1..(m + 1)
      /\ \A i \in 1..m : r[i] = q[i] /\ f[q[i]] \in Int
      /\ r[m + 1] = t /\ f[t] \in Int /\ (m # 0 => q # <<>>)
  OBVIOUS
<1> HIDE DEF r, m
<1>2. ASSUME NEW i \in 1..(m + 1), NEW j \in 1..(m + 1), i < j
      PROVE  f[r[i]] =< f[r[j]]
  <2>1. CASE j < m + 1
    <3>1. i \in 1..m /\ j \in 1..m
      BY <1>1, <1>2, <2>1
    <3> QED
      BY <1>1, <1>2, <3>1 DEF SortedBy
  <2>2. CASE j = m + 1
    <3>1. i \in 1..m /\ m \in 1..m /\ (i < m \/ i = m) /\ m # 0
      BY <1>1, <1>2, <2>2
    <3>2. f[q[i]] =< f[q[m]]
      BY <1>1, <3>1 DEF SortedBy
    <3>3. f[q[m]] =< f[t]
      BY <1>1, <3>1
    <3> QED
      BY <1>1, <2>2, <3>1, <3>2, <3>3
  <2> QED
    BY <1>1, <2>1, <2>2
<1> QED
  BY <1>1, <1>2 DEF SortedBy, r, m

\* and when all numbers decrease by the same.
LEMMA ShiftSorted ==
    ASSUME NEW S, NEW q \in Seq(S), NEW f \in [S -> Int], SortedBy(q, f),
           NEW g, NEW n \in Int, \A u \in Range(q) : g[u] = f[u] - n
    PROVE  SortedBy(q, g)
<1> SUFFICES ASSUME NEW i \in DOMAIN q, NEW j \in DOMAIN q, i < j
             PROVE  g[q[i]] =< g[q[j]]
  BY DEF SortedBy
<1>1. q[i] \in Range(q) /\ q[j] \in Range(q)
  BY DEF Range
<1>2. f[q[i]] \in Int /\ f[q[j]] \in Int
  OBVIOUS
<1>3. f[q[i]] =< f[q[j]]
  BY DEF SortedBy
<1>4. g[q[i]] = f[q[i]] - n /\ g[q[j]] = f[q[j]] - n
  BY <1>1
<1> QED
  BY <1>2, <1>3, <1>4

\* The first element of a sorted queue has the least number.
LEMMA SortedHead ==
    ASSUME NEW S, NEW q \in Seq(S), NEW f \in [S -> Int], SortedBy(q, f), q # <<>>
    PROVE  Head(q) \in Range(q) /\ \A u \in Range(q) : f[Head(q)] =< f[u]
<1>1. 1 \in DOMAIN q /\ Head(q) = q[1] /\ DOMAIN q = 1..Len(q) /\ Len(q) \in Nat
  OBVIOUS
<1>2. Head(q) \in Range(q)
  BY <1>1 DEF Range
<1>3. ASSUME NEW u \in Range(q) PROVE f[Head(q)] =< f[u]
  <2>1. PICK i \in DOMAIN q : u = q[i]
    BY <1>3 DEF Range
  <2>2. f[q[1]] \in Int
    BY <1>1
  <2>3. 1 < i \/ 1 = i
    BY <1>1
  <2> QED
    BY <1>1, <2>1, <2>2, <2>3 DEF SortedBy
<1> QED
  BY <1>2, <1>3
=============================================================================
