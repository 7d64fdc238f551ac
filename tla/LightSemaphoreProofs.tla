------------------------ MODULE LightSemaphoreProofs ------------------------
(***************************************************************************)
(* The address arbiter, the light event and the light semaphore, for any   *)
(* threads, addresses and priorities.  The tree of the arbiter holds each  *)
(* sleeping thread once and in order, whoever uses it.  The value that a   *)
(* signal by waiting count stores tells what waiters are left.  No thread  *)
(* sleeps on an event that could be signaled without the kernel, and the   *)
(* word and the arbiter together implement Event.  No release of a light   *)
(* semaphore is lost on a sleeping thread.                                 *)
(***************************************************************************)
EXTENDS LightSemaphore, FiniteSetTheorems, TLAPS

\* Leaves are given to the SMT solver, then to Zenon, unless they name their prover.
USE SMTT(60), SMTT(61), ZenonT(60)

\* Each thread is in q once.
Distinct(q) == \A i, j \in 1..Len(q) : q[i] = q[j] => i = j

-----------------------------------------------------------------------------
(* Values.                                                                 *)

\* A value of the width of the word is itself; one that leaves it by less than
\* its range comes in at the other end.
LEMMA WrapRange ==
    ASSUME NEW n \in Int
    PROVE  /\ n \in Word => Wrap(n) = n
           /\ n >= HalfWord /\ n < 3 * HalfWord => Wrap(n) = n - 2 * HalfWord
           /\ n < -HalfWord /\ n >= -(3 * HalfWord) => Wrap(n) = n + 2 * HalfWord
<1> DEFINE m == 2 * HalfWord
<1> DEFINE k == n + HalfWord
<1>1. m \in Int /\ m > 0 /\ k \in Int
  BY WordAssumption
<1> HIDE DEF m, k
<1>2. /\ 0 <= k /\ k < m => k % m = k
      /\ m <= k /\ k < m + m => k % m = k - m
      /\ -m <= k /\ k < 0 => k % m = k + m
  BY <1>1
<1> QED BY <1>2, WordAssumption DEF Wrap, Word, m, k

LEMMA WrapWord ==
    ASSUME NEW n \in Int PROVE Wrap(n) \in Word
<1> DEFINE m == 2 * HalfWord
<1> DEFINE k == n + HalfWord
<1>1. m \in Int /\ m > 0 /\ k \in Int
  BY WordAssumption
<1> HIDE DEF m, k
<1>2. k % m \in 0..(m - 1)
  BY <1>1
<1> QED BY <1>2, WordAssumption DEF Wrap, Word, m, k

-----------------------------------------------------------------------------
(* Queues.                                                                 *)

LEMMA PartRight ==
    ASSUME NEW q \in Seq(Thread), NEW m \in Nat, NEW n \in Nat, 1 <= m, m <= n + 1, n <= Len(q)
    PROVE  /\ SubSeq(q, m, n) \in Seq(Thread) /\ Len(SubSeq(q, m, n)) = n - m + 1
           /\ \A i \in 1..(n - m + 1) : SubSeq(q, m, n)[i] = q[m + i - 1]
<1>1. m \in Int /\ n \in Int /\ \A i \in m..n : q[i] \in Thread
  OBVIOUS
<1>2. (IF m <= n THEN n - m + 1 ELSE 0) = n - m + 1
  OBVIOUS
<1>3. /\ SubSeq(q, m, n) \in Seq(Thread)
      /\ Len(SubSeq(q, m, n)) = IF m <= n THEN n - m + 1 ELSE 0
      /\ \A i \in 1..(n - m + 1) : SubSeq(q, m, n)[i] = q[m + i - 1]
  BY <1>1
<1> QED BY <1>2, <1>3

LEMMA ConcatRight ==
    ASSUME NEW a \in Seq(Thread), NEW b \in Seq(Thread)
    PROVE  /\ a \o b \in Seq(Thread) /\ Len(a \o b) = Len(a) + Len(b)
           /\ \A i \in 1..(Len(a) + Len(b)) :
                (a \o b)[i] = IF i <= Len(a) THEN a[i] ELSE b[i - Len(a)]
  OBVIOUS

\* t enters at place n + 1.
LEMMA JoinRight ==
    ASSUME NEW q \in Seq(Thread), NEW t \in Thread, NEW n \in 0..Len(q)
    PROVE  LET r == SubSeq(q, 1, n) \o <<t>> \o SubSeq(q, n + 1, Len(q))
           IN  /\ r \in Seq(Thread) /\ Len(r) = Len(q) + 1 /\ r[n + 1] = t
               /\ \A i \in 1..n : r[i] = q[i]
               /\ \A i \in (n + 1)..Len(q) : r[i + 1] = q[i]
<1>1. /\ Len(q) \in Nat /\ n \in Nat /\ 1 \in Nat /\ n + 1 \in Nat
      /\ 1 <= 1 /\ n <= Len(q) /\ 1 <= n + 1 /\ n + 1 <= Len(q) + 1 /\ Len(q) <= Len(q)
  OBVIOUS
<1>2. <<t>> \in Seq(Thread) /\ Len(<<t>>) = 1 /\ <<t>>[1] = t
  OBVIOUS
<1>a. PICK a : a = SubSeq(q, 1, n)
  BY Zenon
<1>3. a \in Seq(Thread) /\ Len(a) = n - 1 + 1 /\ \A i \in 1..(n - 1 + 1) : a[i] = q[1 + i - 1]
  BY ZenonT(60), <1>1, <1>a, PartRight
<1>4. Len(a) = n /\ \A i \in 1..n : a[i] = q[i]
  BY <1>1, <1>3
<1>b. PICK b : b = SubSeq(q, n + 1, Len(q))
  BY Zenon
<1>5. b \in Seq(Thread) /\ Len(b) = Len(q) - (n + 1) + 1
      /\ \A i \in 1..(Len(q) - (n + 1) + 1) : b[i] = q[(n + 1) + i - 1]
  BY ZenonT(60), <1>1, <1>b, PartRight
<1>6. Len(b) = Len(q) - n /\ \A i \in 1..(Len(q) - n) : b[i] = q[n + i]
  BY <1>1, <1>5
<1>c. PICK c : c = a \o <<t>>
  BY Zenon
<1>7. /\ c \in Seq(Thread) /\ Len(c) = Len(a) + Len(<<t>>)
      /\ \A i \in 1..(Len(a) + Len(<<t>>)) : c[i] = IF i <= Len(a) THEN a[i] ELSE <<t>>[i - Len(a)]
  BY ZenonT(60), <1>2, <1>3, <1>c, ConcatRight
<1>8. Len(c) = n + 1 /\ c[n + 1] = t /\ \A i \in 1..n : c[i] = q[i]
  BY <1>1, <1>2, <1>4, <1>7
<1>r. PICK r : r = c \o b
  BY Zenon
<1>9. /\ r \in Seq(Thread) /\ Len(r) = Len(c) + Len(b)
      /\ \A i \in 1..(Len(c) + Len(b)) : r[i] = IF i <= Len(c) THEN c[i] ELSE b[i - Len(c)]
  <2>1. b \in Seq(Thread) /\ c \in Seq(Thread)
    BY ZenonT(60), <1>5, <1>7
  <2> QED BY ZenonT(60), <2>1, <1>r, ConcatRight
<1>10. Len(r) = Len(q) + 1 /\ r[n + 1] = t /\ \A i \in 1..n : r[i] = q[i]
  <2>1. \A i \in 1..(n + 1) : i \in 1..(Len(c) + Len(b)) /\ i <= Len(c)
    BY <1>1, <1>6, <1>8
  <2>2. \A i \in 1..(n + 1) : r[i] = c[i]
    BY ZenonT(60), <1>9, <2>1
  <2>3. n + 1 \in 1..(n + 1) /\ \A i \in 1..n : i \in 1..(n + 1)
    BY <1>1
  <2>4. Len(r) = Len(q) + 1
    BY <1>1, <1>6, <1>8, <1>9
  <2> QED BY ZenonT(60), <1>8, <2>2, <2>3, <2>4
<1>11. ASSUME NEW i \in (n + 1)..Len(q) PROVE r[i + 1] = q[i]
  <2>1. i + 1 \in 1..(Len(c) + Len(b)) /\ ~(i + 1 <= Len(c)) /\ (i + 1) - Len(c) = i - n
    BY <1>1, <1>6, <1>8
  <2>2. i - n \in 1..(Len(q) - n) /\ n + (i - n) = i
    BY <1>1
  <2> QED BY <1>6, <1>9, <2>1, <2>2
<1> QED BY ZenonT(60), <1>a, <1>b, <1>c, <1>r, <1>9, <1>10, <1>11

LEMMA InsertRight ==
    ASSUME NEW q \in Seq(Thread), Distinct(q), NEW t \in Thread, ~Contains(q, t), NEW p
    PROVE  /\ Insert(q, t, p) \in Seq(Thread)
           /\ Distinct(Insert(q, t, p))
           /\ \A u : Contains(Insert(q, t, p), u) <=> Contains(q, u) \/ u = t
<1>b. PICK B : B = {i \in 1..Len(q) : priority[q[i]] <= p}
  BY Zenon
<1>n. PICK n : n = Cardinality(B)
  BY Zenon
<1>1. n \in 0..Len(q)
  <2>1. Len(q) \in Nat /\ Len(q) \in Int /\ 1 \in Int
    OBVIOUS
  <2>2. /\ IsFiniteSet(1..Len(q))
        /\ Cardinality(1..Len(q)) = IF 1 > Len(q) THEN 0 ELSE Len(q) - 1 + 1
    BY ZenonT(60), <2>1, FS_Interval
  <2>3. B \subseteq 1..Len(q)
    BY Zenon, <1>b
  <2>4. IsFiniteSet(B) /\ Cardinality(B) <= Cardinality(1..Len(q))
    BY ZenonT(60), <2>2, <2>3, FS_Subset
  <2>5. Cardinality(B) \in Nat
    BY ZenonT(60), <2>4, FS_CardinalityType
  <2> QED BY <1>n, <2>1, <2>2, <2>4, <2>5
<1>r. PICK r : r = SubSeq(q, 1, n) \o <<t>> \o SubSeq(q, n + 1, Len(q))
  BY Zenon
<1>2. Insert(q, t, p) = r
  BY ZenonT(60), <1>b, <1>n, <1>r DEF Insert
<1>3. /\ r \in Seq(Thread) /\ Len(r) = Len(q) + 1 /\ r[n + 1] = t
      /\ \A i \in 1..n : r[i] = q[i]
      /\ \A i \in (n + 1)..Len(q) : r[i + 1] = q[i]
  BY ZenonT(60), <1>1, <1>r, JoinRight
<1>4. \A k \in 1..Len(r) : \/ k = n + 1 /\ r[k] = t
                           \/ k <= n /\ k \in 1..Len(q) /\ r[k] = q[k]
                           \/ k > n + 1 /\ k - 1 \in 1..Len(q) /\ r[k] = q[k - 1]
  <2> TAKE k \in 1..Len(r)
  <2>1. k = n + 1 \/ k \in 1..n \/ k - 1 \in (n + 1)..Len(q)
    BY <1>1, <1>3
  <2>2. CASE k - 1 \in (n + 1)..Len(q)
    <3>1. r[(k - 1) + 1] = q[k - 1]
      BY ZenonT(60), <1>3, <2>2
    <3> QED BY <1>1, <2>2, <3>1
  <2> QED BY <1>1, <1>3, <2>1, <2>2
<1>5. \A k \in 1..Len(q) : q[k] # t
  BY ZenonT(60) DEF Contains
<1>6. Distinct(r)
  <2> SUFFICES ASSUME NEW i \in 1..Len(r), NEW j \in 1..Len(r), r[i] = r[j] PROVE i = j
    BY ZenonT(60) DEF Distinct
  <2>1. CASE r[i] = t
    <3>1. i = n + 1 /\ j = n + 1
      BY ZenonT(60), <2>1, <1>4, <1>5
    <3> QED BY ZenonT(60), <3>1
  <2>2. CASE r[i] # t
    <3>1. PICK k \in 1..Len(q) : r[i] = q[k] /\ ((i <= n /\ k = i) \/ (i > n + 1 /\ k = i - 1))
      BY ZenonT(60), <2>2, <1>4
    <3>2. PICK m \in 1..Len(q) : r[j] = q[m] /\ ((j <= n /\ m = j) \/ (j > n + 1 /\ m = j - 1))
      BY ZenonT(60), <2>2, <1>4
    <3>3. k = m
      BY ZenonT(60), <3>1, <3>2 DEF Distinct
    <3> QED BY <1>1, <3>1, <3>2, <3>3
  <2> QED BY ZenonT(60), <2>1, <2>2
<1>7. ASSUME NEW u, Contains(r, u) PROVE Contains(q, u) \/ u = t
  BY ZenonT(60), <1>4, <1>7 DEF Contains
<1>8. ASSUME NEW u, Contains(q, u) PROVE Contains(r, u)
  <2>1. PICK k \in 1..Len(q) : q[k] = u
    BY ZenonT(60), <1>8 DEF Contains
  <2>2. k \in 1..n \/ k \in (n + 1)..Len(q)
    BY <1>1
  <2>3. /\ k \in 1..n => k \in 1..Len(r) /\ r[k] = u
        /\ k \in (n + 1)..Len(q) => k + 1 \in 1..Len(r) /\ r[k + 1] = u
    BY <1>1, <1>3, <2>1
  <2> QED BY ZenonT(60), <2>2, <2>3 DEF Contains
<1>9. Contains(r, t)
  <2>1. n + 1 \in 1..Len(r)
    BY <1>1, <1>3
  <2> QED BY ZenonT(60), <1>3, <2>1 DEF Contains
<1> QED BY ZenonT(60), <1>2, <1>3, <1>6, <1>7, <1>8, <1>9

\* The thread at place n leaves.
LEMMA LeaveRight ==
    ASSUME NEW q \in Seq(Thread), NEW n \in 1..Len(q)
    PROVE  LET r == SubSeq(q, 1, n - 1) \o SubSeq(q, n + 1, Len(q))
           IN  /\ r \in Seq(Thread) /\ Len(r) = Len(q) - 1
               /\ \A i \in 1..(n - 1) : r[i] = q[i]
               /\ \A i \in n..(Len(q) - 1) : r[i] = q[i + 1]
<1>1. /\ Len(q) \in Nat /\ n \in Nat /\ 1 \in Nat /\ n - 1 \in Nat /\ n + 1 \in Nat
      /\ 1 <= 1 /\ n - 1 <= Len(q) /\ 1 <= (n - 1) + 1 /\ 1 <= n + 1 /\ n + 1 <= Len(q) + 1
      /\ Len(q) <= Len(q) /\ n <= Len(q) /\ 1 <= n
  OBVIOUS
<1>a. PICK a : a = SubSeq(q, 1, n - 1)
  BY Zenon
<1>2. a \in Seq(Thread) /\ Len(a) = (n - 1) - 1 + 1 /\ \A i \in 1..((n - 1) - 1 + 1) : a[i] = q[1 + i - 1]
  BY ZenonT(60), <1>1, <1>a, PartRight
<1>3. Len(a) = n - 1 /\ \A i \in 1..(n - 1) : a[i] = q[i]
  BY <1>1, <1>2
<1>b. PICK b : b = SubSeq(q, n + 1, Len(q))
  BY Zenon
<1>4. b \in Seq(Thread) /\ Len(b) = Len(q) - (n + 1) + 1
      /\ \A i \in 1..(Len(q) - (n + 1) + 1) : b[i] = q[(n + 1) + i - 1]
  BY ZenonT(60), <1>1, <1>b, PartRight
<1>5. Len(b) = Len(q) - n /\ \A i \in 1..(Len(q) - n) : b[i] = q[n + i]
  BY <1>1, <1>4
<1>r. PICK r : r = a \o b
  BY Zenon
<1>6. /\ r \in Seq(Thread) /\ Len(r) = Len(a) + Len(b)
      /\ \A i \in 1..(Len(a) + Len(b)) : r[i] = IF i <= Len(a) THEN a[i] ELSE b[i - Len(a)]
  <2>1. a \in Seq(Thread) /\ b \in Seq(Thread)
    BY ZenonT(60), <1>2, <1>4
  <2> QED BY ZenonT(60), <2>1, <1>r, ConcatRight
<1>7. Len(r) = Len(q) - 1
  BY <1>1, <1>3, <1>5, <1>6
<1>8. ASSUME NEW i \in 1..(n - 1) PROVE r[i] = q[i]
  <2>1. i \in 1..(Len(a) + Len(b)) /\ i <= Len(a)
    BY <1>1, <1>3, <1>5
  <2> QED BY ZenonT(60), <1>3, <1>6, <2>1
<1>9. ASSUME NEW i \in n..(Len(q) - 1) PROVE r[i] = q[i + 1]
  <2>1. i \in 1..(Len(a) + Len(b)) /\ ~(i <= Len(a)) /\ i - Len(a) = i - n + 1
    BY <1>1, <1>3, <1>5
  <2>2. i - n + 1 \in 1..(Len(q) - n) /\ n + (i - n + 1) = i + 1
    BY <1>1
  <2>3. r[i] = b[i - n + 1]
    BY ZenonT(60), <1>6, <2>1
  <2>4. b[i - n + 1] = q[n + (i - n + 1)]
    BY ZenonT(60), <1>5, <2>2
  <2> QED BY ZenonT(60), <2>2, <2>3, <2>4
<1> QED BY ZenonT(60), <1>a, <1>b, <1>r, <1>6, <1>7, <1>8, <1>9

LEMMA EraseRight ==
    ASSUME NEW q \in Seq(Thread), Distinct(q), NEW t \in Thread
    PROVE  /\ Erase(q, t) \in Seq(Thread)
           /\ Distinct(Erase(q, t))
           /\ \A u : Contains(Erase(q, t), u) <=> Contains(q, u) /\ u # t
<1>1. CASE ~Contains(q, t)
  BY ZenonT(60), <1>1 DEF Erase
<1>2. CASE Contains(q, t)
  <2>n. PICK n : n = CHOOSE j \in 1..Len(q) : q[j] = t
    BY Zenon
  <2>1. n \in 1..Len(q) /\ q[n] = t
    BY ZenonT(60), <1>2, <2>n DEF Contains
  <2>r. PICK r : r = SubSeq(q, 1, n - 1) \o SubSeq(q, n + 1, Len(q))
    BY Zenon
  <2>2. Erase(q, t) = r
    BY ZenonT(60), <1>2, <2>n, <2>r DEF Erase
  <2>3. /\ r \in Seq(Thread) /\ Len(r) = Len(q) - 1
        /\ \A i \in 1..(n - 1) : r[i] = q[i]
        /\ \A i \in n..(Len(q) - 1) : r[i] = q[i + 1]
    BY ZenonT(60), <2>1, <2>r, LeaveRight
  <2>4. \A k \in 1..Len(r) : \/ k < n /\ k \in 1..Len(q) /\ r[k] = q[k]
                             \/ k >= n /\ k + 1 \in 1..Len(q) /\ r[k] = q[k + 1]
    BY <2>1, <2>3
  <2>5. Distinct(r)
    <3> SUFFICES ASSUME NEW i \in 1..Len(r), NEW j \in 1..Len(r), r[i] = r[j] PROVE i = j
      BY ZenonT(60) DEF Distinct
    <3>1. PICK k \in 1..Len(q) : r[i] = q[k] /\ ((i < n /\ k = i) \/ (i >= n /\ k = i + 1))
      BY ZenonT(60), <2>4
    <3>2. PICK m \in 1..Len(q) : r[j] = q[m] /\ ((j < n /\ m = j) \/ (j >= n /\ m = j + 1))
      BY ZenonT(60), <2>4
    <3>3. k = m
      BY ZenonT(60), <3>1, <3>2 DEF Distinct
    <3> QED BY <2>1, <3>1, <3>2, <3>3
  <2>6. ASSUME NEW u, Contains(r, u) PROVE Contains(q, u) /\ u # t
    <3>1. PICK k \in 1..Len(r) : r[k] = u
      BY ZenonT(60), <2>6 DEF Contains
    <3>2. \/ k < n /\ k \in 1..Len(q) /\ r[k] = q[k]
          \/ k >= n /\ k + 1 \in 1..Len(q) /\ r[k] = q[k + 1]
      BY ZenonT(60), <2>4
    <3>3. PICK j \in 1..Len(q) : j # n /\ q[j] = u
      BY <2>1, <3>1, <3>2
    <3> QED BY ZenonT(60), <2>1, <3>3 DEF Contains, Distinct
  <2>7. ASSUME NEW u, Contains(q, u), u # t PROVE Contains(r, u)
    <3>1. PICK k \in 1..Len(q) : q[k] = u
      BY ZenonT(60), <2>7 DEF Contains
    <3>2. k # n
      BY ZenonT(60), <2>1, <2>7, <3>1
    <3>3. \/ k \in 1..(n - 1) /\ k \in 1..Len(r)
          \/ k - 1 \in n..(Len(q) - 1) /\ k - 1 \in 1..Len(r) /\ (k - 1) + 1 = k
      BY <2>1, <2>3, <3>2
    <3> QED BY ZenonT(60), <2>3, <3>1, <3>3 DEF Contains
  <2> QED BY ZenonT(60), <2>2, <2>3, <2>5, <2>6, <2>7
<1> QED BY <1>1, <1>2

LEMMA ExceptRight ==
    ASSUME NEW A, NEW S, NEW f \in [A -> S], NEW a, NEW x \in S
    PROVE  [f EXCEPT ![a] = x] \in [A -> S]
  BY ZenonT(60)

LEMMA EmptyRight ==
    ASSUME NEW t PROVE ~Contains(<<>>, t) /\ Erase(<<>>, t) = <<>>
  BY DEF Contains, Erase

\* The first n leave.
LEMMA DropRight ==
    ASSUME NEW q \in Seq(Thread), Distinct(q), NEW n \in 0..Len(q)
    PROVE  /\ SubSeq(q, n + 1, Len(q)) \in Seq(Thread)
           /\ Len(SubSeq(q, n + 1, Len(q))) = Len(q) - n
           /\ Distinct(SubSeq(q, n + 1, Len(q)))
           /\ \A u : Contains(SubSeq(q, n + 1, Len(q)), u) =>
                       Contains(q, u) /\ u \notin {q[i] : i \in 1..n}
<1>1. n \in Nat /\ n + 1 \in Nat /\ Len(q) \in Nat /\ 1 <= n + 1 /\ n + 1 <= Len(q) + 1 /\ Len(q) <= Len(q)
  OBVIOUS
<1>r. PICK r : r = SubSeq(q, n + 1, Len(q))
  BY Zenon
<1>2. r \in Seq(Thread) /\ Len(r) = Len(q) - (n + 1) + 1
      /\ \A i \in 1..(Len(q) - (n + 1) + 1) : r[i] = q[(n + 1) + i - 1]
  BY ZenonT(60), <1>1, <1>r, PartRight
<1>3. Len(r) = Len(q) - n /\ \A i \in 1..Len(r) : r[i] = q[n + i] /\ n + i \in 1..Len(q) /\ n + i \notin 1..n
  BY <1>1, <1>2
<1>4. Distinct(r)
  BY <1>1, <1>3 DEF Distinct
<1>5. ASSUME NEW u, Contains(r, u) PROVE Contains(q, u) /\ u \notin {q[i] : i \in 1..n}
  <2>1. PICK i \in 1..Len(r) : r[i] = u
    BY ZenonT(60), <1>5 DEF Contains
  <2>2. PICK j \in 1..Len(q) : j \notin 1..n /\ q[j] = u
    BY ZenonT(60), <1>3, <2>1
  <2>3. \A k \in 1..n : k \in 1..Len(q)
    BY <1>1
  <2> QED BY ZenonT(60), <2>2, <2>3 DEF Contains, Distinct
<1> QED BY ZenonT(60), <1>r, <1>2, <1>3, <1>4, <1>5

-----------------------------------------------------------------------------
(* The value a signal by waiting count stores.                             *)

\* What SignalAndModifyByWaitingCountIfEqual stores tells what waiters are left,
\* of every state that is well typed, whatever value and count it is given.
LEMMA NewValueRight ==
    ASSUME ArbiterTypeOK PROVE NewValueTells
<1> SUFFICES ASSUME NEW a \in Address, NEW value \in Value, NEW m \in Count
             PROVE  /\ NewValue(a, value, m) = value <=> Len(queue[a]) > NumWoken(a, m)
                    /\ NewValue(a, value, m) = Wrap(value + 1) <=> queue[a] = <<>>
  BY ZenonT(60) DEF NewValueTells
<1>1. value \in Int /\ m \in Int /\ HalfWord \in Int /\ HalfWord > 2 /\ value >= -HalfWord /\ value < HalfWord
  BY WordAssumption, CountAssumption, EventAssumption
<1>2. Len(queue[a]) \in Nat /\ (queue[a] = <<>> <=> Len(queue[a]) = 0)
  BY DEF ArbiterTypeOK
<1>3. /\ Wrap(value + 1) = value + 1 \/ Wrap(value + 1) = (value + 1) - 2 * HalfWord
      /\ Wrap(value - 1) = value - 1 \/ Wrap(value - 1) = value - 1 + 2 * HalfWord
      /\ Wrap(value - 2) = value - 2 \/ Wrap(value - 2) = value - 2 + 2 * HalfWord
  <2>1. value + 1 \in Int /\ value - 1 \in Int /\ value - 2 \in Int
    BY <1>1
  <2>2. /\ value + 1 \in Word \/ (value + 1 >= HalfWord /\ value + 1 < 3 * HalfWord)
        /\ value - 1 \in Word \/ (value - 1 < -HalfWord /\ value - 1 >= -(3 * HalfWord))
        /\ value - 2 \in Word \/ (value - 2 < -HalfWord /\ value - 2 >= -(3 * HalfWord))
    BY <1>1 DEF Word
  <2>3. Wrap(value + 1) = value + 1 \/ Wrap(value + 1) = (value + 1) - 2 * HalfWord
    BY ZenonT(60), <2>1, <2>2, WrapRange
  <2>4. Wrap(value - 1) = value - 1 \/ Wrap(value - 1) = value - 1 + 2 * HalfWord
    BY ZenonT(60), <2>1, <2>2, WrapRange
  <2>5. Wrap(value - 2) = value - 2 \/ Wrap(value - 2) = value - 2 + 2 * HalfWord
    BY ZenonT(60), <2>1, <2>2, WrapRange
  <2> QED BY ZenonT(60), <2>3, <2>4, <2>5
<1>4. /\ Wrap(value + 1) # value /\ Wrap(value - 1) # value /\ Wrap(value - 2) # value
      /\ Wrap(value - 1) # Wrap(value + 1) /\ Wrap(value - 2) # Wrap(value + 1)
  BY <1>1, <1>3
<1>f. PICK f : f = Followers(a, m)
  BY Zenon
<1>5. f = IF Len(queue[a]) - 1 > m THEN m + 1 ELSE Len(queue[a]) - 1
  BY ZenonT(60), <1>f DEF Followers
<1>w. PICK w : w = NumWoken(a, m)
  BY Zenon
<1>6. w = IF m <= 0 \/ m > Len(queue[a]) THEN Len(queue[a]) ELSE m
  BY ZenonT(60), <1>w DEF NumWoken
<1>7. NewValue(a, value, m) =
        IF queue[a] = <<>> THEN Wrap(value + 1)
        ELSE IF m <= 0 THEN Wrap(value - 2)
        ELSE IF f < m THEN Wrap(value - 1) ELSE value
  BY ZenonT(60), <1>f DEF NewValue
<1>8. Len(queue[a]) > w <=> queue[a] # <<>> /\ ~(m <= 0) /\ ~(f < m)
  BY <1>1, <1>2, <1>5, <1>6
<1> QED BY ZenonT(60), <1>w, <1>4, <1>7, <1>8

\* The more urgent threads are in front, of those of q with priorities pr.
Ordered(q, pr) == \A i, j \in 1..Len(q) : i <= j => pr[q[i]] <= pr[q[j]]

\* A set of places that has all places before each of its places is an interval.
LEMMA InitialPlaces ==
    ASSUME NEW k \in Nat, NEW B \in SUBSET (1..k), \A i \in B, j \in 1..k : j <= i => j \in B
    PROVE  /\ Cardinality(B) \in 0..k
           /\ \A i \in 1..k : i \in B <=> i <= Cardinality(B)
<1>1. ASSUME NEW m \in Nat PROVE IsFiniteSet(1..m) /\ Cardinality(1..m) = m
  <2>1. 1 \in Int /\ m \in Int
    OBVIOUS
  <2>2. IsFiniteSet(1..m) /\ Cardinality(1..m) = IF 1 > m THEN 0 ELSE m - 1 + 1
    BY ZenonT(60), <2>1, FS_Interval
  <2> QED BY <2>2
<1>2. IsFiniteSet(B) /\ Cardinality(B) <= k
  <2>1. IsFiniteSet(1..k) /\ Cardinality(1..k) = k
    BY ZenonT(60), <1>1
  <2>2. IsFiniteSet(B) /\ Cardinality(B) <= Cardinality(1..k)
    BY ZenonT(60), <2>1, FS_Subset
  <2> QED BY ZenonT(60), <2>1, <2>2
<1>n. PICK n : n = Cardinality(B)
  BY Zenon
<1>3. n \in Nat /\ n <= k
  BY <1>2, <1>n, FS_CardinalityType
<1>4. ASSUME NEW i \in B PROVE i <= n
  <2>1. 1..i \subseteq B
    OBVIOUS
  <2>2. Cardinality(1..i) <= Cardinality(B)
    BY ZenonT(60), <2>1, <1>2, FS_Subset
  <2> QED BY <1>1, <1>n, <2>2
<1>5. ASSUME NEW i \in 1..k, i <= n, i \notin B PROVE FALSE
  <2>1. i - 1 \in Nat /\ B \subseteq 1..(i - 1)
    BY <1>5
  <2>2. Cardinality(B) <= Cardinality(1..(i - 1))
    BY ZenonT(60), <2>1, <1>1, FS_Subset
  <2> QED BY <1>1, <1>3, <1>5, <1>n, <2>1, <2>2
<1> QED BY <1>3, <1>4, <1>5, <1>n

\* The priorities are pr once that of t is p.
Reset(pr, t, p) == pr[t] = p /\ \A u \in Thread : u # t => pr[u] = priority[u]

LEMMA InsertOrdered ==
    ASSUME NEW q \in Seq(Thread), priority \in [Thread -> Priority], Ordered(q, priority),
           NEW t \in Thread, ~Contains(q, t), NEW p \in Priority,
           NEW pr, Reset(pr, t, p)
    PROVE  Ordered(Insert(q, t, p), pr)
<1>b. PICK B : B = {i \in 1..Len(q) : priority[q[i]] <= p}
  BY Zenon
<1>n. PICK n : n = Cardinality(B)
  BY Zenon
<1>0. Len(q) \in Nat /\ p \in Nat /\ \A i \in 1..Len(q) : q[i] \in Thread /\ priority[q[i]] \in Nat
  <2>1. Len(q) \in Nat /\ \A i \in 1..Len(q) : q[i] \in Thread
    OBVIOUS
  <2>2. p \in Nat /\ \A u \in Thread : priority[u] \in Nat
    BY ZenonT(60), PriorityAssumption
  <2> QED BY ZenonT(60), <2>1, <2>2
<1>1. n \in 0..Len(q) /\ \A i \in 1..Len(q) : priority[q[i]] <= p <=> i <= n
  <2>1. B \in SUBSET (1..Len(q))
    BY Zenon, <1>b
  <2>2. \A i \in B, j \in 1..Len(q) : j <= i => j \in B
    <3> SUFFICES ASSUME NEW i \in B, NEW j \in 1..Len(q), j <= i PROVE priority[q[j]] <= p
      BY ZenonT(60), <1>b
    <3>1. i \in 1..Len(q) /\ priority[q[i]] <= p
      BY ZenonT(60), <1>b
    <3>2. priority[q[j]] <= priority[q[i]]
      BY ZenonT(60), <3>1 DEF Ordered
    <3> QED BY <1>0, <3>1, <3>2
  <2>3. Cardinality(B) \in 0..Len(q) /\ \A i \in 1..Len(q) : i \in B <=> i <= Cardinality(B)
    BY ZenonT(60), <1>0, <2>1, <2>2, InitialPlaces
  <2> QED BY ZenonT(60), <1>b, <1>n, <2>3
<1>r. PICK r : r = SubSeq(q, 1, n) \o <<t>> \o SubSeq(q, n + 1, Len(q))
  BY Zenon
<1>2. Insert(q, t, p) = r
  BY ZenonT(60), <1>b, <1>n, <1>r DEF Insert
<1>3. /\ r \in Seq(Thread) /\ Len(r) = Len(q) + 1 /\ r[n + 1] = t
      /\ \A i \in 1..n : r[i] = q[i]
      /\ \A i \in (n + 1)..Len(q) : r[i + 1] = q[i]
  BY ZenonT(60), <1>1, <1>r, JoinRight
<1>4. \A i \in 1..Len(q) : pr[q[i]] = priority[q[i]]
  BY ZenonT(60), <1>0 DEF Contains, Reset
<1>a. pr[t] = p
  BY Zenon DEF Reset
<1>5. \A k \in 1..n : k \in 1..Len(q) /\ pr[r[k]] = priority[q[k]]
  BY <1>1, <1>3, <1>4
<1>6. \A k \in (n + 2)..Len(r) : k - 1 \in 1..Len(q) /\ pr[r[k]] = priority[q[k - 1]]
  <2> TAKE k \in (n + 2)..Len(r)
  <2>1. k - 1 \in (n + 1)..Len(q) /\ k - 1 \in 1..Len(q) /\ (k - 1) + 1 = k
    BY <1>0, <1>1, <1>3
  <2>2. r[(k - 1) + 1] = q[k - 1]
    BY ZenonT(60), <1>3, <2>1
  <2>3. pr[q[k - 1]] = priority[q[k - 1]]
    BY ZenonT(60), <1>4, <2>1
  <2> QED BY <2>1, <2>2, <2>3
<1>7. \A i, j \in 1..Len(q) : i <= j => priority[q[i]] <= priority[q[j]]
  BY Zenon DEF Ordered
<1> SUFFICES ASSUME NEW i \in 1..Len(r), NEW j \in 1..Len(r), i <= j PROVE pr[r[i]] <= pr[r[j]]
  BY ZenonT(60), <1>2 DEF Ordered
<1>8. /\ i \in 1..n \/ i = n + 1 \/ i \in (n + 2)..Len(r)
      /\ j \in 1..n \/ j = n + 1 \/ j \in (n + 2)..Len(r)
  BY <1>0, <1>1, <1>3
<1>9. CASE j \in 1..n
  BY <1>5, <1>7, <1>8, <1>9, <1>0, <1>1
<1>10. CASE j = n + 1
  BY <1>a, <1>5, <1>8, <1>10, <1>0, <1>1, <1>3
<1>11. CASE j \in (n + 2)..Len(r)
  <2>1. j - 1 \in 1..Len(q) /\ ~(j - 1 <= n) /\ pr[r[j]] = priority[q[j - 1]]
    BY <1>6, <1>11, <1>1, <1>0
  <2>2. p <= priority[q[j - 1]]
    BY <2>1, <1>0, <1>1
  <2>3. CASE i \in 1..n
    BY <2>1, <2>2, <2>3, <1>5, <1>0, <1>1
  <2>4. CASE i = n + 1
    BY <1>a, <2>1, <2>2, <2>4, <1>3
  <2>5. CASE i \in (n + 2)..Len(r)
    <3>1. i - 1 \in 1..Len(q) /\ pr[r[i]] = priority[q[i - 1]] /\ i - 1 <= j - 1
      BY <1>6, <2>5
    <3> QED BY ZenonT(60), <2>1, <3>1, <1>7
  <2> QED BY <1>8, <2>3, <2>4, <2>5
<1> QED BY <1>8, <1>9, <1>10, <1>11

LEMMA EraseOrdered ==
    ASSUME NEW q \in Seq(Thread), NEW t \in Thread, NEW pr, Ordered(q, pr)
    PROVE  Ordered(Erase(q, t), pr)
<1>1. CASE ~Contains(q, t)
  BY ZenonT(60), <1>1 DEF Erase
<1>2. CASE Contains(q, t)
  <2>n. PICK n : n = CHOOSE j \in 1..Len(q) : q[j] = t
    BY Zenon
  <2>1. n \in 1..Len(q) /\ q[n] = t
    BY ZenonT(60), <1>2, <2>n DEF Contains
  <2>r. PICK r : r = SubSeq(q, 1, n - 1) \o SubSeq(q, n + 1, Len(q))
    BY Zenon
  <2>2. Erase(q, t) = r
    BY ZenonT(60), <1>2, <2>n, <2>r DEF Erase
  <2>3. /\ r \in Seq(Thread) /\ Len(r) = Len(q) - 1
        /\ \A i \in 1..(n - 1) : r[i] = q[i]
        /\ \A i \in n..(Len(q) - 1) : r[i] = q[i + 1]
    BY ZenonT(60), <2>1, <2>r, LeaveRight
  <2> SUFFICES ASSUME NEW i \in 1..Len(r), NEW j \in 1..Len(r), i <= j PROVE pr[r[i]] <= pr[r[j]]
    BY ZenonT(60), <2>2 DEF Ordered
  <2>4. \E k, m \in 1..Len(q) : k <= m /\ r[i] = q[k] /\ r[j] = q[m]
    <3>1. /\ i \in 1..(n - 1) \/ i \in n..(Len(q) - 1)
          /\ j \in 1..(n - 1) \/ j \in n..(Len(q) - 1)
          /\ {i, j} \subseteq 1..Len(q)
      BY <2>1, <2>3
    <3>2. CASE i \in 1..(n - 1) /\ j \in 1..(n - 1)
      BY <2>3, <3>1, <3>2
    <3>3. CASE i \in 1..(n - 1) /\ j \in n..(Len(q) - 1)
      <4>1. j + 1 \in 1..Len(q) /\ i <= j + 1
        BY <2>1, <3>3
      <4> QED BY ZenonT(60), <2>3, <3>1, <3>3, <4>1
    <3>4. CASE i \in n..(Len(q) - 1) /\ j \in n..(Len(q) - 1)
      <4>1. i + 1 \in 1..Len(q) /\ j + 1 \in 1..Len(q) /\ i + 1 <= j + 1
        BY <2>1, <3>4
      <4> QED BY ZenonT(60), <2>3, <3>4, <4>1
    <3> QED BY <2>1, <3>1, <3>2, <3>3, <3>4
  <2> QED BY ZenonT(60), <2>4 DEF Ordered
<1> QED BY <1>1, <1>2

LEMMA DropOrdered ==
    ASSUME NEW q \in Seq(Thread), NEW n \in 0..Len(q), NEW pr, Ordered(q, pr)
    PROVE  Ordered(SubSeq(q, n + 1, Len(q)), pr)
<1>1. n \in Nat /\ n + 1 \in Nat /\ Len(q) \in Nat /\ 1 <= n + 1 /\ n + 1 <= Len(q) + 1 /\ Len(q) <= Len(q)
  OBVIOUS
<1>r. PICK r : r = SubSeq(q, n + 1, Len(q))
  BY Zenon
<1>2. r \in Seq(Thread) /\ Len(r) = Len(q) - (n + 1) + 1
      /\ \A i \in 1..(Len(q) - (n + 1) + 1) : r[i] = q[(n + 1) + i - 1]
  BY ZenonT(60), <1>1, <1>r, PartRight
<1>3. \A i \in 1..Len(r) : r[i] = q[n + i] /\ n + i \in 1..Len(q)
  BY <1>1, <1>2
<1>4. \A i, j \in 1..Len(r) : i <= j => n + i <= n + j
  BY <1>1
<1> QED BY ZenonT(60), <1>r, <1>3, <1>4 DEF Ordered

\* Who is behind the first n stays.
LEMMA DropKeeps ==
    ASSUME NEW q \in Seq(Thread), NEW n \in 0..Len(q), NEW u, Contains(q, u), u \notin {q[i] : i \in 1..n}
    PROVE  Contains(SubSeq(q, n + 1, Len(q)), u)
<1>1. n \in Nat /\ n + 1 \in Nat /\ Len(q) \in Nat /\ 1 <= n + 1 /\ n + 1 <= Len(q) + 1 /\ Len(q) <= Len(q)
  OBVIOUS
<1>r. PICK r : r = SubSeq(q, n + 1, Len(q))
  BY Zenon
<1>2. r \in Seq(Thread) /\ Len(r) = Len(q) - (n + 1) + 1
      /\ \A i \in 1..(Len(q) - (n + 1) + 1) : r[i] = q[(n + 1) + i - 1]
  BY ZenonT(60), <1>1, <1>r, PartRight
<1>3. PICK k \in 1..Len(q) : q[k] = u
  BY Zenon DEF Contains
<1>4. ~(k \in 1..n)
  BY ZenonT(60), <1>3
<1>5. k - n \in 1..Len(r) /\ r[k - n] = q[k]
  BY <1>1, <1>2, <1>4
<1> QED BY ZenonT(60), <1>r, <1>3, <1>5 DEF Contains

-----------------------------------------------------------------------------
(* The tree.                                                               *)

Results == {"Success", "InvalidState", "TimedOut", "InvalidCurrentMemory", "Waiting",
            "TerminationRequested"}

\* The threads that wait are those in the tree, each in the part of one address,
\* and each part is in order.
Tree ==
    /\ ArbiterTypeOK
    /\ \A a \in Address : Distinct(queue[a]) /\ Ordered(queue[a], priority)
    /\ \A a, b \in Address, u \in Thread : Contains(queue[a], u) /\ Contains(queue[b], u) => a = b
    /\ \A u \in Thread : result[u] = "Waiting" <=> \E a \in Address : Contains(queue[a], u)

\* The parts of a state in which the tree is right, one address at a time.
LEMMA TreeAt ==
    ASSUME Tree, NEW a \in Address
    PROVE  /\ queue[a] \in Seq(Thread) /\ Distinct(queue[a]) /\ Ordered(queue[a], priority)
           /\ \A u \in Thread : Contains(queue[a], u) => result[u] = "Waiting"
  BY ZenonT(60) DEF Tree, ArbiterTypeOK

\* The threads in S leave the tree; thread t enters it at address b.
Leave(S) ==
    /\ \A a \in Address : /\ Distinct(queue'[a]) /\ Ordered(queue'[a], priority')
                          /\ \A u \in Thread : Contains(queue'[a], u) <=> Contains(queue[a], u) /\ u \notin S
    /\ \A u \in Thread : result'[u] = "Waiting" <=> result[u] = "Waiting" /\ u \notin S

Enter(t, b) ==
    /\ \A a \in Address : /\ Distinct(queue'[a]) /\ Ordered(queue'[a], priority')
                          /\ \A u \in Thread : Contains(queue'[a], u) <=> Contains(queue[a], u) \/ (u = t /\ a = b)
    /\ \A u \in Thread : result'[u] = "Waiting" <=> result[u] = "Waiting" \/ u = t

LEMMA TreeLeave ==
    ASSUME Tree, ArbiterTypeOK', NEW S, Leave(S)
    PROVE  Tree'
<1>1. ASSUME NEW a \in Address, NEW c \in Address, NEW u \in Thread,
             Contains(queue'[a], u), Contains(queue'[c], u)
      PROVE  a = c
  <2>1. Contains(queue[a], u) /\ Contains(queue[c], u)
    BY ZenonT(60), <1>1 DEF Leave
  <2> QED BY ZenonT(60), <2>1 DEF Tree
<1>2. ASSUME NEW u \in Thread
      PROVE  result'[u] = "Waiting" <=> \E a \in Address : Contains(queue'[a], u)
  <2>1. result[u] = "Waiting" <=> \E a \in Address : Contains(queue[a], u)
    BY ZenonT(60) DEF Tree
  <2>2. \A a \in Address : Contains(queue'[a], u) <=> Contains(queue[a], u) /\ u \notin S
    BY ZenonT(60) DEF Leave
  <2>3. result'[u] = "Waiting" <=> result[u] = "Waiting" /\ u \notin S
    BY ZenonT(60) DEF Leave
  <2> QED BY ZenonT(60), <2>1, <2>2, <2>3
<1>3. \A a \in Address : Distinct(queue'[a]) /\ Ordered(queue'[a], priority')
  BY ZenonT(60) DEF Leave
<1> QED BY ZenonT(60), <1>1, <1>2, <1>3 DEF Tree

LEMMA TreeEnter ==
    ASSUME Tree, ArbiterTypeOK', NEW t \in Thread, result[t] # "Waiting", NEW b \in Address, Enter(t, b)
    PROVE  Tree'
<1>0. \A a \in Address : ~Contains(queue[a], t)
  BY ZenonT(60), TreeAt
<1>1. ASSUME NEW a \in Address, NEW c \in Address, NEW u \in Thread,
             Contains(queue'[a], u), Contains(queue'[c], u)
      PROVE  a = c
  <2>1. /\ Contains(queue[a], u) \/ (u = t /\ a = b)
        /\ Contains(queue[c], u) \/ (u = t /\ c = b)
    BY ZenonT(60), <1>1 DEF Enter
  <2>2. Contains(queue[a], u) /\ Contains(queue[c], u) => a = c
    BY ZenonT(60) DEF Tree
  <2> QED BY ZenonT(60), <1>0, <2>1, <2>2
<1>2. ASSUME NEW u \in Thread
      PROVE  result'[u] = "Waiting" <=> \E a \in Address : Contains(queue'[a], u)
  <2>1. result[u] = "Waiting" <=> \E a \in Address : Contains(queue[a], u)
    BY ZenonT(60) DEF Tree
  <2>2. \A a \in Address : Contains(queue'[a], u) <=> Contains(queue[a], u) \/ (u = t /\ a = b)
    BY ZenonT(60) DEF Enter
  <2>3. result'[u] = "Waiting" <=> result[u] = "Waiting" \/ u = t
    BY ZenonT(60) DEF Enter
  <2> QED BY ZenonT(60), <2>1, <2>2, <2>3
<1>3. \A a \in Address : Distinct(queue'[a]) /\ Ordered(queue'[a], priority')
  BY ZenonT(60) DEF Enter
<1> QED BY ZenonT(60), <1>1, <1>2, <1>3 DEF Tree

\* Nothing moves in the tree.
LEMMA TreeQuiet ==
    ASSUME Tree, ArbiterTypeOK', queue' = queue, priority' = priority,
           \A u \in Thread : result'[u] = "Waiting" <=> result[u] = "Waiting"
    PROVE  Tree'
  BY ZenonT(60) DEF Tree

\* A thread that runs is answered.
LEMMA TreeAnswer ==
    ASSUME Tree, NEW t \in Thread, Running(t), NEW r \in Results \ {"Waiting"}, Answer(t, r)
    PROVE  Tree'
<1>1. /\ result' = [result EXCEPT ![t] = r] /\ word' = word /\ queue' = queue /\ priority' = priority
      /\ timer' = timer
  BY ZenonT(60) DEF Answer
<1>2. result \in [Thread -> Results]
  BY ZenonT(60) DEF Tree, ArbiterTypeOK, Results
<1>3. result' \in [Thread -> Results] /\ \A u \in Thread : result'[u] = "Waiting" <=> result[u] = "Waiting"
  BY <1>1, <1>2 DEF Running
<1>4. ArbiterTypeOK'
  BY ZenonT(60), <1>1, <1>3 DEF Tree, ArbiterTypeOK, Results
<1> QED BY ZenonT(60), <1>1, <1>3, <1>4, TreeQuiet

\* A thread that runs goes to sleep, or its time is over at once.
LEMMA TreeSleep ==
    ASSUME Tree, NEW t \in Thread, Running(t), NEW b \in Address, NEW timeout, Sleep(t, b, timeout),
           word' \in [Address -> Word]
    PROVE  Tree'
<1>1. /\ queue \in [Address -> Seq(Thread)] /\ priority \in [Thread -> Priority] /\ timer \subseteq Thread
      /\ result \in [Thread -> Results] /\ result[t] # "Waiting"
  BY ZenonT(60) DEF Tree, ArbiterTypeOK, Results, Running
<1>2. CASE timeout = "zero"
  <2>1. /\ result' = [result EXCEPT ![t] = "TimedOut"] /\ queue' = queue /\ timer' = timer /\ priority' = priority
    BY ZenonT(60), <1>2 DEF Sleep
  <2>2. result' \in [Thread -> Results] /\ \A u \in Thread : result'[u] = "Waiting" <=> result[u] = "Waiting"
    BY <1>1, <2>1 DEF Results
  <2>3. ArbiterTypeOK'
    BY ZenonT(60), <2>1, <2>2 DEF Tree, ArbiterTypeOK, Results
  <2> QED BY ZenonT(60), <2>1, <2>2, <2>3, TreeQuiet
<1>3. CASE timeout # "zero"
  <2>1. /\ queue' = [queue EXCEPT ![b] = Insert(@, t, priority[t])]
        /\ timer' = IF timeout = "finite" THEN timer \cup {t} ELSE timer
        /\ result' = [result EXCEPT ![t] = "Waiting"]
        /\ priority' = priority
    BY ZenonT(60), <1>3 DEF Sleep
  <2>2. ASSUME NEW a \in Address
        PROVE  /\ queue'[a] \in Seq(Thread) /\ Distinct(queue'[a]) /\ Ordered(queue'[a], priority)
               /\ \A u : Contains(queue'[a], u) <=> Contains(queue[a], u) \/ (u = t /\ a = b)
    <3>q. PICK q : q = queue[a]
      BY Zenon
    <3>1. q \in Seq(Thread) /\ Distinct(q) /\ Ordered(q, priority) /\ ~Contains(q, t)
      BY ZenonT(60), <1>1, <3>q, TreeAt
    <3>2. queue'[a] = IF a = b THEN Insert(q, t, priority[t]) ELSE q
      BY <1>1, <2>1, <3>q
    <3>3. /\ Insert(q, t, priority[t]) \in Seq(Thread) /\ Distinct(Insert(q, t, priority[t]))
          /\ \A u : Contains(Insert(q, t, priority[t]), u) <=> Contains(q, u) \/ u = t
      BY ZenonT(60), <3>1, InsertRight
    <3>4. priority[t] \in Priority
      BY <1>1
    <3>5. Ordered(Insert(q, t, priority[t]), priority)
      <4>1. Reset(priority, t, priority[t])
        BY Zenon DEF Reset
      <4> QED BY ZenonT(60), <1>1, <3>1, <3>4, <4>1, InsertOrdered
    <3> QED BY ZenonT(60), <3>q, <3>1, <3>2, <3>3, <3>5
  <2>3. queue' \in [Address -> Seq(Thread)]
    <3>r. PICK r : r = Insert(queue[b], t, priority[t])
      BY Zenon
    <3>1. queue' = [queue EXCEPT ![b] = r]
      BY ZenonT(60), <3>r, <2>1
    <3>2. queue'[b] = r
      BY <1>1, <3>1
    <3> QED BY ZenonT(60), <1>1, <2>2, <3>1, <3>2, ExceptRight
  <2>4. /\ result' \in [Thread -> Results] /\ timer' \subseteq Thread
        /\ \A u \in Thread : result'[u] = "Waiting" <=> result[u] = "Waiting" \/ u = t
    BY <1>1, <2>1 DEF Results
  <2>5. ArbiterTypeOK'
    BY ZenonT(60), <1>1, <2>1, <2>3, <2>4 DEF ArbiterTypeOK, Results
  <2>6. Enter(t, b)
    <3>1. \A a \in Address :
            /\ Distinct(queue'[a]) /\ Ordered(queue'[a], priority')
            /\ \A u \in Thread : Contains(queue'[a], u) <=> Contains(queue[a], u) \/ (u = t /\ a = b)
      <4>1. priority' = priority
        BY Zenon, <2>1
      <4> QED BY ZenonT(60), <4>1, <2>2
    <3> QED BY ZenonT(60), <3>1, <2>4 DEF Enter
  <2> QED BY ZenonT(60), <1>1, <2>5, <2>6, TreeEnter
<1> QED BY <1>2, <1>3

\* A wait that ends without a signal.
LEMMA TreeCancel ==
    ASSUME Tree, NEW t \in Thread, NEW r \in Results \ {"Waiting"}, CancelWait(t, r)
    PROVE  Tree'
<1>1. /\ queue \in [Address -> Seq(Thread)] /\ priority \in [Thread -> Priority] /\ timer \subseteq Thread
      /\ result \in [Thread -> Results] /\ word \in [Address -> Word]
  BY ZenonT(60) DEF Tree, ArbiterTypeOK, Results
<1>2. /\ queue' = [a \in Address |-> Erase(queue[a], t)] /\ timer' = timer \ {t}
      /\ result' = [result EXCEPT ![t] = r] /\ word' = word /\ priority' = priority
  BY ZenonT(60) DEF CancelWait
<1>3. ASSUME NEW a \in Address
      PROVE  /\ queue'[a] \in Seq(Thread) /\ Distinct(queue'[a]) /\ Ordered(queue'[a], priority)
             /\ \A u : Contains(queue'[a], u) <=> Contains(queue[a], u) /\ u # t
  <2>q. PICK q : q = queue[a]
    BY Zenon
  <2>1. q \in Seq(Thread) /\ Distinct(q) /\ Ordered(q, priority)
    BY ZenonT(60), <2>q, TreeAt
  <2>2. queue'[a] = Erase(q, t)
    BY ZenonT(60), <1>2, <2>q
  <2>3. /\ Erase(q, t) \in Seq(Thread) /\ Distinct(Erase(q, t))
        /\ \A u : Contains(Erase(q, t), u) <=> Contains(q, u) /\ u # t
    BY ZenonT(60), <2>1, EraseRight
  <2>4. Ordered(Erase(q, t), priority)
    BY ZenonT(60), <2>1, EraseOrdered
  <2> QED BY ZenonT(60), <2>q, <2>2, <2>3, <2>4
<1>4. queue' \in [Address -> Seq(Thread)]
  <2>1. queue' = [a \in Address |-> queue'[a]]
    BY <1>2
  <2> QED BY ZenonT(60), <1>3, <2>1
<1>5. /\ result' \in [Thread -> Results] /\ timer' \subseteq Thread
      /\ \A u \in Thread : result'[u] = "Waiting" <=> result[u] = "Waiting" /\ u # t
  BY <1>1, <1>2
<1>6. ArbiterTypeOK'
  BY ZenonT(60), <1>1, <1>2, <1>4, <1>5 DEF ArbiterTypeOK, Results
<1>7. Leave({t})
  <2>1. \A u : u \in {t} <=> u = t
    BY Zenon
  <2> QED BY ZenonT(60), <1>2, <1>3, <1>5, <2>1 DEF Leave
<1> QED BY ZenonT(60), <1>6, <1>7, TreeLeave

\* A change of priority, of a thread that sleeps or not.
LEMMA TreePriority ==
    ASSUME Tree, NEW t \in Thread, NEW p \in Priority, SetPriority(t, p)
    PROVE  Tree'
<1>1. /\ queue \in [Address -> Seq(Thread)] /\ priority \in [Thread -> Priority] /\ timer \subseteq Thread
      /\ result \in [Thread -> Results] /\ word \in [Address -> Word]
  BY ZenonT(60) DEF Tree, ArbiterTypeOK, Results
<1>2. /\ queue' = [a \in Address |-> IF Contains(queue[a], t) THEN Insert(Erase(queue[a], t), t, p)
                                       ELSE queue[a]]
      /\ priority' = [priority EXCEPT ![t] = p]
      /\ word' = word /\ timer' = timer /\ result' = result
  BY ZenonT(60) DEF SetPriority
<1>3. priority' \in [Thread -> Priority] /\ priority'[t] = p /\ \A u \in Thread : u # t => priority'[u] = priority[u]
  BY <1>1, <1>2
<1>4. ASSUME NEW a \in Address
      PROVE  /\ queue'[a] \in Seq(Thread) /\ Distinct(queue'[a]) /\ Ordered(queue'[a], priority')
             /\ \A u : Contains(queue'[a], u) <=> Contains(queue[a], u)
  <2>q. PICK q : q = queue[a]
    BY Zenon
  <2>e. PICK e : e = Erase(q, t)
    BY Zenon
  <2>1. q \in Seq(Thread) /\ Distinct(q) /\ Ordered(q, priority)
    BY ZenonT(60), <2>q, TreeAt
  <2>2. queue'[a] = IF Contains(q, t) THEN Insert(e, t, p) ELSE q
    BY ZenonT(60), <1>2, <2>q, <2>e
  <2>3. CASE Contains(q, t)
    <3>0. Ordered(e, priority)
      BY ZenonT(60), <2>e, <2>1, EraseOrdered
    <3>1. /\ e \in Seq(Thread) /\ Distinct(e)
          /\ \A u : Contains(e, u) <=> Contains(q, u) /\ u # t
      BY ZenonT(60), <2>e, <2>1, EraseRight
    <3>2. ~Contains(e, t)
      BY Zenon, <3>1
    <3>3. /\ Insert(e, t, p) \in Seq(Thread) /\ Distinct(Insert(e, t, p))
          /\ \A u : Contains(Insert(e, t, p), u) <=> Contains(e, u) \/ u = t
      BY ZenonT(60), <3>1, <3>2, InsertRight
    <3>4. Ordered(Insert(e, t, p), priority')
      <4>1. PICK pr : pr = priority'
        BY Zenon
      <4>2. Reset(pr, t, p)
        BY ZenonT(60), <1>3, <4>1 DEF Reset
      <4>3. priority \in [Thread -> Priority] /\ e \in Seq(Thread)
        BY Zenon, <1>1, <3>1
      <4>4. Ordered(Insert(e, t, p), pr)
        BY ZenonT(60), <3>0, <3>2, <4>2, <4>3, InsertOrdered
      <4> QED BY Zenon, <4>1, <4>4
    <3> QED BY ZenonT(60), <2>q, <2>2, <2>3, <3>1, <3>3, <3>4
  <2>4. CASE ~Contains(q, t)
    <3>1. \A i \in 1..Len(q) : q[i] \in Thread /\ priority'[q[i]] = priority[q[i]]
      <4>1. \A i \in 1..Len(q) : q[i] \in Thread
        BY <2>1
      <4> QED BY ZenonT(60), <1>3, <2>4, <4>1 DEF Contains
    <3>2. Ordered(q, priority')
      BY ZenonT(60), <2>1, <3>1 DEF Ordered
    <3> QED BY ZenonT(60), <2>q, <2>1, <2>2, <2>4, <3>2
  <2> QED BY Zenon, <2>3, <2>4
<1>5. queue' \in [Address -> Seq(Thread)]
  <2>1. queue' = [a \in Address |-> queue'[a]]
    BY <1>2
  <2> QED BY ZenonT(60), <1>4, <2>1
<1>6. ArbiterTypeOK'
  BY ZenonT(60), <1>1, <1>2, <1>3, <1>5 DEF ArbiterTypeOK, Results
<1>7. Leave({})
  <2>1. \A u : u \notin {}
    BY Zenon
  <2> QED BY ZenonT(60), <1>2, <1>4, <2>1 DEF Leave
<1> QED BY ZenonT(60), <1>6, <1>7, TreeLeave

\* A signal wakes the first threads of one address.
LEMMA TreeWake ==
    ASSUME Tree, NEW t \in Thread, Running(t), NEW b \in Address, NEW m \in Int, EndWaits(t, b, m),
           word' \in [Address -> Word]
    PROVE  Tree' /\ \A a \in Address : queue[a] = <<>> => queue'[a] = <<>>
<1>1. /\ queue \in [Address -> Seq(Thread)] /\ priority \in [Thread -> Priority] /\ timer \subseteq Thread
      /\ result \in [Thread -> Results] /\ result[t] # "Waiting"
  BY ZenonT(60) DEF Tree, ArbiterTypeOK, Results, Running
<1>q. PICK q : q = queue[b]
  BY Zenon
<1>n. PICK n : n = NumWoken(b, m)
  BY Zenon
<1>w. PICK W : W = {q[i] : i \in 1..n}
  BY Zenon
<1>2. q \in Seq(Thread) /\ Distinct(q) /\ Ordered(q, priority) /\ \A u \in Thread : Contains(q, u) => result[u] = "Waiting"
  BY ZenonT(60), <1>q, TreeAt
<1>3. n \in 0..Len(q)
  <2>1. Len(q) \in Nat
    BY <1>2
  <2>2. n = IF m <= 0 \/ m > Len(q) THEN Len(q) ELSE m
    BY ZenonT(60), <1>n, <1>q DEF NumWoken
  <2> QED BY <2>1, <2>2
<1>4. W \in SUBSET Thread /\ \A u \in W : Contains(q, u)
  <2>1. \A i \in 1..n : i \in 1..Len(q)
    BY <1>2, <1>3
  <2>2. \A i \in 1..Len(q) : q[i] \in Thread
    BY <1>2
  <2> QED BY ZenonT(60), <1>w, <2>1, <2>2 DEF Contains
<1>5. Woken(b, m) = W
  BY ZenonT(60), <1>q, <1>n, <1>w DEF Woken
<1>r. PICK r : r = SubSeq(q, n + 1, Len(q))
  BY Zenon
<1>6. /\ queue' = [queue EXCEPT ![b] = r] /\ timer' = timer \ W /\ priority' = priority
      /\ result' = [u \in Thread |-> IF u = t \/ u \in W THEN "Success" ELSE result[u]]
  <2>1. queue' = [queue EXCEPT ![b] = SubSeq(queue[b], NumWoken(b, m) + 1, Len(queue[b]))]
    BY DEF EndWaits
  <2> QED BY ZenonT(60), <2>1, <1>q, <1>n, <1>r, <1>5 DEF EndWaits
<1>7. /\ r \in Seq(Thread) /\ Distinct(r) /\ Ordered(r, priority)
      /\ \A u : Contains(r, u) <=> Contains(q, u) /\ u \notin W
  <2>1. /\ r \in Seq(Thread) /\ Distinct(r)
        /\ \A u : Contains(r, u) => Contains(q, u) /\ u \notin W
    BY ZenonT(60), <1>2, <1>3, <1>r, <1>w, DropRight
  <2>2. Ordered(r, priority)
    BY ZenonT(60), <1>2, <1>3, <1>r, DropOrdered
  <2>3. \A u : Contains(q, u) /\ u \notin W => Contains(r, u)
    BY ZenonT(60), <1>2, <1>3, <1>r, <1>w, DropKeeps
  <2> QED BY ZenonT(60), <2>1, <2>2, <2>3
<1>8. ASSUME NEW a \in Address
      PROVE  /\ Distinct(queue'[a]) /\ Ordered(queue'[a], priority)
             /\ \A u \in Thread : Contains(queue'[a], u) <=> Contains(queue[a], u) /\ u \notin W
  <2>1. queue'[a] = IF a = b THEN r ELSE queue[a]
    BY <1>1, <1>6
  <2>2. Distinct(queue[a]) /\ Ordered(queue[a], priority)
    BY ZenonT(60), TreeAt
  <2>3. a # b => \A u \in W : ~Contains(queue[a], u)
    BY ZenonT(60), <1>4, <1>q DEF Tree
  <2> QED BY ZenonT(60), <1>7, <1>q, <2>1, <2>2, <2>3
<1>9. queue' \in [Address -> Seq(Thread)]
  BY ZenonT(60), <1>1, <1>6, <1>7, ExceptRight
<1>10. /\ result' \in [Thread -> Results] /\ timer' \subseteq Thread
       /\ \A u \in Thread : result'[u] = "Waiting" <=> result[u] = "Waiting" /\ u \notin W
  BY <1>1, <1>6 DEF Results
<1>11. ArbiterTypeOK'
  BY ZenonT(60), <1>1, <1>6, <1>9, <1>10 DEF ArbiterTypeOK, Results
<1>12. Leave(W)
  BY ZenonT(60), <1>6, <1>8, <1>10 DEF Leave
<1>13. Tree'
  BY ZenonT(60), <1>11, <1>12, TreeLeave
<1>14. ASSUME NEW a \in Address, queue[a] = <<>> PROVE queue'[a] = <<>>
  <2>1. queue'[a] = IF a = b THEN r ELSE queue[a]
    BY <1>1, <1>6
  <2>2. q = <<>> => r = <<>>
    BY <1>r, <1>3
  <2> QED BY ZenonT(60), <1>14, <2>1, <2>2, <1>q
<1> QED BY ZenonT(60), <1>13, <1>14

\* A signal that finds the value or not, and a wait that finds it or not.
LEMMA TreeUpdate ==
    ASSUME Tree, NEW t \in Thread, Running(t), NEW b \in Address, NEW m \in Int, NEW value,
           NEW new \in Word, UpdateAndSignal(t, b, value, new, m)
    PROVE  Tree'
<1>1. word \in [Address -> Word] /\ \A r \in {"InvalidCurrentMemory", "InvalidState"} : r \in Results \ {"Waiting"}
  BY DEF Tree, ArbiterTypeOK, Results
<1>2. CASE Answer(t, "InvalidCurrentMemory") \/ Answer(t, "InvalidState")
  BY ZenonT(60), <1>1, <1>2, TreeAnswer
<1>3. CASE word' = [word EXCEPT ![b] = new] /\ EndWaits(t, b, m)
  <2>1. word' \in [Address -> Word]
    BY ZenonT(60), <1>1, <1>3, ExceptRight
  <2> QED BY ZenonT(60), <1>3, <2>1, TreeWake
<1> QED BY ZenonT(60), <1>2, <1>3 DEF UpdateAndSignal

LEMMA TreeTest ==
    ASSUME Tree, NEW t \in Thread, Running(t), NEW b \in Address, NEW value, NEW timeout,
           WaitIfEqual(t, b, value, timeout)
    PROVE  Tree'
<1>1. word \in [Address -> Word] /\ \A r \in {"InvalidCurrentMemory", "InvalidState"} : r \in Results \ {"Waiting"}
  BY DEF Tree, ArbiterTypeOK, Results
<1>2. CASE Answer(t, "InvalidCurrentMemory") \/ Answer(t, "InvalidState")
  BY ZenonT(60), <1>1, <1>2, TreeAnswer
<1>3. CASE Sleep(t, b, timeout) /\ word' = word
  <2>1. word' \in [Address -> Word]
    BY ZenonT(60), <1>1, <1>3
  <2> QED BY ZenonT(60), <1>3, <2>1, TreeSleep
<1> QED BY ZenonT(60), <1>2, <1>3 DEF WaitIfEqual

\* A call of a thread that runs.
LEMMA TreeCall ==
    ASSUME Tree, NEW t \in Thread, Running(t), NEW b \in Address, SystemCall(t, b)
    PROVE  Tree'
<1>1. word \in [Address -> Word] /\ \A r \in {"InvalidCurrentMemory", "InvalidState"} : r \in Results \ {"Waiting"}
  BY DEF Tree, ArbiterTypeOK, Results
<1>2. ASSUME NEW m \in Count, Signal(t, b, m) PROVE Tree'
  <2>1. m \in Int /\ EndWaits(t, b, m) /\ word' = word
    BY ZenonT(60), <1>2, CountAssumption DEF Signal
  <2> QED BY ZenonT(60), <1>1, <2>1, TreeWake
<1>3. ASSUME NEW m \in Count, NEW value \in Value, NEW new \in Word, UpdateAndSignal(t, b, value, new, m) PROVE Tree'
  <2>1. m \in Int
    BY ZenonT(60), CountAssumption
  <2> QED BY ZenonT(60), <1>3, <2>1, TreeUpdate
<1>4. \A n \in Int : Wrap(n) \in Word
  BY ZenonT(60), WrapWord
<1>5. ASSUME NEW m \in Count, NEW value \in Value, SignalAndIncrementIfEqual(t, b, value, m) PROVE Tree'
  <2>1. Wrap(value + 1) \in Word
    BY <1>4, WordAssumption
  <2> QED BY ZenonT(60), <1>3, <1>5, <2>1 DEF SignalAndIncrementIfEqual
<1>6. ASSUME NEW m \in Count, NEW value \in Value, SignalAndModifyByWaitingCountIfEqual(t, b, value, m) PROVE Tree'
  <2>1. value \in Word /\ value + 1 \in Int /\ value - 1 \in Int /\ value - 2 \in Int
    BY WordAssumption DEF Word
  <2>2. NewValue(b, value, m) \in Word
    BY ZenonT(60), <1>4, <2>1 DEF NewValue
  <2> QED BY ZenonT(60), <1>3, <1>6, <2>2 DEF SignalAndModifyByWaitingCountIfEqual
<1>7. ASSUME NEW value \in Value, NEW timeout, NEW decrement \in BOOLEAN, WaitIfLessThan(t, b, value, decrement, timeout)
      PROVE  Tree'
  <2>1. CASE Answer(t, "InvalidCurrentMemory") \/ Answer(t, "InvalidState")
    BY ZenonT(60), <1>1, <2>1, TreeAnswer
  <2>2. CASE Sleep(t, b, timeout) /\ word' = IF decrement THEN [word EXCEPT ![b] = Wrap(@ - 1)] ELSE word
    <3>1. word[b] \in Int
      BY <1>1 DEF Word
    <3>2. Wrap(word[b] - 1) \in Word
      BY <1>4, <3>1
    <3>3. word' \in [Address -> Word]
      BY ZenonT(60), <1>1, <2>2, <3>2, ExceptRight
    <3> QED BY ZenonT(60), <2>2, <3>3, TreeSleep
  <2> QED BY ZenonT(60), <1>7, <2>1, <2>2 DEF WaitIfLessThan
<1>8. ASSUME NEW value \in Value, NEW timeout, WaitIfEqual(t, b, value, timeout) PROVE Tree'
  BY ZenonT(60), <1>8, TreeTest
<1> QED BY ZenonT(60), <1>2, <1>5, <1>6, <1>7, <1>8 DEF SystemCall

LEMMA TreeNext ==
    ASSUME Tree, ArbiterNext(Address) PROVE Tree'
<1>1. ASSUME NEW t \in Thread, Running(t), NEW a \in Address, SystemCall(t, a) PROVE Tree'
  BY ZenonT(60), <1>1, TreeCall
<1>2. "TimedOut" \in Results \ {"Waiting"} /\ "TerminationRequested" \in Results \ {"Waiting"}
  BY DEF Results
<1>3. ASSUME NEW t \in Thread, TimeOut(t) \/ RequestTerminate(t) PROVE Tree'
  BY ZenonT(60), <1>2, <1>3, TreeCancel DEF TimeOut, RequestTerminate
<1>4. ASSUME NEW t \in Thread, NEW p \in Priority, SetPriority(t, p) PROVE Tree'
  BY ZenonT(60), <1>4, TreePriority
<1>5. ASSUME NEW a \in Address, NEW v \in Value, UserStore(a, v) PROVE Tree'
  <2>1. word' = [word EXCEPT ![a] = v] /\ queue' = queue /\ priority' = priority /\ timer' = timer /\ result' = result
    BY ZenonT(60), <1>5 DEF UserStore
  <2>2. word \in [Address -> Word] /\ v \in Word
    BY ZenonT(60), WordAssumption DEF Tree, ArbiterTypeOK, Word
  <2>3. word' \in [Address -> Word]
    BY ZenonT(60), <2>1, <2>2, ExceptRight
  <2>4. ArbiterTypeOK'
    BY ZenonT(60), <2>1, <2>3 DEF Tree, ArbiterTypeOK
  <2> QED BY ZenonT(60), <2>1, <2>4, TreeQuiet
<1>6. \A a \in Address \cap Accessible : a \in Address
  BY Zenon
<1> QED BY ZenonT(60), <1>1, <1>3, <1>4, <1>5, <1>6 DEF ArbiterNext

LEMMA TreeInit == ArbiterInit => Tree
<1> SUFFICES ASSUME ArbiterInit PROVE Tree
  OBVIOUS
<1>1. /\ queue = [a \in Address |-> <<>>] /\ priority \in [Thread -> Priority] /\ timer = {}
      /\ result = [t \in Thread |-> "Success"] /\ word \in [Address -> Value]
  BY ZenonT(60) DEF ArbiterInit
<1>2. word \in [Address -> Word]
  BY ZenonT(60), <1>1, WordAssumption DEF Word
<1>3. <<>> \in Seq(Thread) /\ 1..Len(<<>>) = {}
  OBVIOUS
<1>4. ArbiterTypeOK
  BY ZenonT(60), <1>1, <1>2, <1>3 DEF ArbiterTypeOK
<1>5. \A a \in Address : Distinct(queue[a]) /\ Ordered(queue[a], priority) /\ \A t : ~Contains(queue[a], t)
  BY ZenonT(60), <1>1, <1>3 DEF Distinct, Ordered, Contains
<1>6. \A t \in Thread : result[t] # "Waiting"
  BY <1>1
<1> QED BY ZenonT(60), <1>4, <1>5, <1>6 DEF Tree

\* A queue has no more threads than there are.
LEMMA QueueBound ==
    ASSUME NEW q \in Seq(Thread), Distinct(q)
    PROVE  Len(q) \in Nat /\ Cardinality(Thread) \in Nat /\ Len(q) <= Cardinality(Thread)
<1>1. 1 \in Int /\ Len(q) \in Int /\ Len(q) \in Nat /\ q \in [1..Len(q) -> Thread]
  OBVIOUS
<1>2. Cardinality(Thread) \in Nat
  BY ZenonT(60), ThreadAssumption, FS_CardinalityType
<1>3. IsFiniteSet(1..Len(q)) /\ Cardinality(1..Len(q)) = IF 1 > Len(q) THEN 0 ELSE Len(q) - 1 + 1
  BY ZenonT(60), <1>1, FS_Interval
<1>4. Cardinality(1..Len(q)) = Len(q)
  BY <1>1, <1>3
<1>5. ASSUME Cardinality(Thread) < Cardinality(1..Len(q)) PROVE FALSE
  <2>1. \E i, j \in 1..Len(q) : i # j /\ q[i] = q[j]
    BY ZenonT(60), <1>1, <1>3, <1>5, ThreadAssumption, FS_PigeonHole
  <2> QED BY ZenonT(60), <2>1 DEF Distinct
<1> QED BY <1>1, <1>2, <1>4, <1>5

LEMMA TreeIsOrdered ==
    ASSUME Tree PROVE TreeOrdered
<1>1. ASSUME NEW a \in Address, NEW i \in 1..(Len(queue[a]) - 1)
      PROVE  priority[queue[a][i]] <= priority[queue[a][i + 1]]
  <2>1. queue[a] \in Seq(Thread) /\ Ordered(queue[a], priority)
    BY ZenonT(60), TreeAt
  <2>2. i \in 1..Len(queue[a]) /\ i + 1 \in 1..Len(queue[a]) /\ i <= i + 1
    BY <2>1
  <2> QED BY ZenonT(60), <2>1, <2>2 DEF Ordered
<1>2. ASSUME NEW t \in Thread
      PROVE  Cardinality({p \in Address \X (1..Cardinality(Thread)) :
                            p[2] <= Len(queue[p[1]]) /\ queue[p[1]][p[2]] = t})
               = IF result[t] = "Waiting" THEN 1 ELSE 0
  <2>p. PICK P : P = {p \in Address \X (1..Cardinality(Thread)) :
                        p[2] <= Len(queue[p[1]]) /\ queue[p[1]][p[2]] = t}
    BY Zenon
  <2>1. ASSUME NEW p \in P
        PROVE  \E a \in Address : \E k \in 1..Len(queue[a]) : p = <<a, k>> /\ queue[a][k] = t
    <3>1. PICK a \in Address, k \in 1..Cardinality(Thread) : p = <<a, k>>
      BY <2>p
    <3>2. k <= Len(queue[a]) /\ queue[a][k] = t
      BY <2>p, <3>1
    <3>3. queue[a] \in Seq(Thread)
      BY ZenonT(60), TreeAt
    <3>4. k \in 1..Len(queue[a])
      BY <3>2, <3>3
    <3> QED BY ZenonT(60), <3>1, <3>2, <3>4
  <2>2. ASSUME NEW a \in Address, NEW k \in 1..Len(queue[a]), queue[a][k] = t PROVE <<a, k>> \in P
    <3>1. queue[a] \in Seq(Thread) /\ Distinct(queue[a])
      BY ZenonT(60), TreeAt
    <3>2. Len(queue[a]) \in Nat /\ Cardinality(Thread) \in Nat /\ Len(queue[a]) <= Cardinality(Thread)
      BY ZenonT(60), <3>1, QueueBound
    <3>3. k \in 1..Cardinality(Thread) /\ k <= Len(queue[a])
      BY <3>2
    <3> QED BY <2>2, <2>p, <3>3
  <2>3. CASE result[t] = "Waiting"
    <3>1. PICK b \in Address : Contains(queue[b], t)
      BY ZenonT(60), <2>3 DEF Tree
    <3>2. PICK m \in 1..Len(queue[b]) : queue[b][m] = t
      BY ZenonT(60), <3>1 DEF Contains
    <3>3. ASSUME NEW p \in P PROVE p = <<b, m>>
      <4>0. PICK a \in Address : \E k \in 1..Len(queue[a]) : p = <<a, k>> /\ queue[a][k] = t
        BY ZenonT(60), <2>1
      <4>1. PICK k \in 1..Len(queue[a]) : p = <<a, k>> /\ queue[a][k] = t
        BY ZenonT(60), <4>0
      <4>2. Contains(queue[a], t)
        BY ZenonT(60), <4>1 DEF Contains
      <4>3. a = b
        BY ZenonT(60), <3>1, <4>2 DEF Tree
      <4>4. Distinct(queue[b])
        BY ZenonT(60), TreeAt
      <4>5. k = m
        BY ZenonT(60), <3>2, <4>1, <4>3, <4>4 DEF Distinct
      <4> QED BY ZenonT(60), <4>1, <4>3, <4>5
    <3>4. P = {<<b, m>>}
      <4>1. <<b, m>> \in P
        BY ZenonT(60), <2>2, <3>2
      <4> QED BY ZenonT(60), <3>3, <4>1
    <3>5. Cardinality(P) = 1
      BY ZenonT(60), <3>4, FS_Singleton
    <3> QED BY ZenonT(60), <2>p, <2>3, <3>5
  <2>4. CASE result[t] # "Waiting"
    <3>1. \A p \in P : FALSE
      BY ZenonT(60), <2>1, <2>4, TreeAt DEF Contains
    <3>2. P = {}
      BY Zenon, <3>1
    <3>3. Cardinality(P) = 0
      BY ZenonT(60), <3>2, FS_EmptySet
    <3> QED BY ZenonT(60), <2>p, <2>4, <3>3
  <2> QED BY Zenon, <2>3, <2>4
<1> QED BY ZenonT(60), <1>1, <1>2 DEF TreeOrdered

LEMMA TreeInvariant == ArbiterSpec => []Tree
<1>1. Tree /\ [ArbiterNext(Address)]_arbiterVars => Tree'
  <2>1. ASSUME Tree, UNCHANGED arbiterVars PROVE Tree'
    <3>1. word' = word /\ queue' = queue /\ priority' = priority /\ timer' = timer /\ result' = result
      BY Zenon, <2>1 DEF arbiterVars
    <3>2. ArbiterTypeOK'
      BY ZenonT(60), <2>1, <3>1 DEF Tree, ArbiterTypeOK
    <3> QED BY ZenonT(60), <2>1, <3>1, <3>2, TreeQuiet
  <2> QED BY ZenonT(60), <2>1, TreeNext
<1> QED BY <1>1, TreeInit, PTL DEF ArbiterSpec

\* Whatever the calls, timeouts, terminations and changes of priority of a
\* process's threads, the tree of the arbiter has every sleeping thread once
\* and no other, and the part for each address is in the order of priority.
THEOREM TreeInOrder == ArbiterSpec => []TreeOrdered
<1>1. Tree => TreeOrdered
  BY Zenon, TreeIsOrdered
<1> QED BY <1>1, TreeInvariant, PTL

-----------------------------------------------------------------------------
(* The tree, below the code of the event and of the semaphore.             *)

LEMMA EventWordIs == EventWord \in Address /\ {NoWaiter, Waiter, Signaled} \subseteq Word
<1>1. EventWord \in Address
  BY ZenonT(60), EventAssumption, AddressAssumption
<1>2. {NoWaiter, Waiter, Signaled} \subseteq Word
  BY WordAssumption, EventAssumption DEF NoWaiter, Waiter, Signaled, Word
<1> QED BY <1>1, <1>2

\* What the value of the word becomes.
LEMMA SmallWraps == Wrap(Waiter + 1) = Signaled /\ Wrap(Waiter - 1) = NoWaiter /\ Waiter \in Word
                    /\ Signaled \in Word /\ NoWaiter \in Word
<1>1. /\ HalfWord \in Int /\ HalfWord > 2 /\ Waiter + 1 = 2 /\ Waiter - 1 = 0 /\ Waiter = 1 /\ Signaled = 2
      /\ NoWaiter = 0
  BY WordAssumption, EventAssumption DEF Waiter, Signaled, NoWaiter
<1>2. 2 \in Word /\ 0 \in Word /\ 1 \in Word /\ 2 \in Int /\ 0 \in Int
  BY <1>1 DEF Word
<1> QED BY ZenonT(60), <1>1, <1>2, WrapRange

\* A step of a thread's own code writes the word, and leaves the kernel alone.
LEMMA TreeStore ==
    ASSUME Tree, NEW v \in {NoWaiter, Waiter, Signaled}, word' \in {word, [word EXCEPT ![EventWord] = v]},
           queue' = queue, priority' = priority, timer' = timer, result' = result
    PROVE  Tree'
<1>1. word \in [Address -> Word]
  BY ZenonT(60) DEF Tree, ArbiterTypeOK
<1>2. word' \in [Address -> Word]
  BY ZenonT(60), <1>1, EventWordIs, ExceptRight
<1>3. ArbiterTypeOK'
  BY ZenonT(60), <1>2 DEF Tree, ArbiterTypeOK
<1> QED BY ZenonT(60), <1>3, TreeQuiet

LEMMA TreeSwap ==
    ASSUME Tree, NEW t, NEW x, NEW v \in {NoWaiter, Waiter, Signaled}, NEW k, NEW l, CompareAndSwap(t, x, v, k, l)
    PROVE  Tree'
<1>1. /\ queue' = queue /\ priority' = priority /\ timer' = timer /\ result' = result
      /\ word' = word \/ word' = [word EXCEPT ![EventWord] = v]
  BY ZenonT(60) DEF CompareAndSwap
<1> QED BY ZenonT(60), <1>1, TreeStore

LEMMA TreeSame ==
    ASSUME Tree, UNCHANGED arbiterVars PROVE Tree'
<1>1. word' = word /\ queue' = queue /\ priority' = priority /\ timer' = timer /\ result' = result
  BY Zenon DEF arbiterVars
<1>2. ArbiterTypeOK'
  BY ZenonT(60), <1>1 DEF Tree, ArbiterTypeOK
<1> QED BY ZenonT(60), <1>1, <1>2, TreeQuiet

LEMMA TreeForget ==
    ASSUME Tree, NEW t \in Thread, Running(t), Forget(t) PROVE Tree'
<1>1. "Success" \in Results \ {"Waiting"}
  BY DEF Results
<1> QED BY ZenonT(60), <1>1, TreeAnswer DEF Forget

LEMMA TreeSignalStep ==
    ASSUME Tree, NEW t \in Thread, SignalStep(t) PROVE Tree'
<1>1. ASSUME SignalLoad(t) PROVE Tree'
  BY ZenonT(60), <1>1, TreeSame DEF SignalLoad
<1>2. ASSUME SetSignaled(t) PROVE Tree'
  <2>1. Signaled \in {NoWaiter, Waiter, Signaled}
    BY Zenon
  <2> QED BY ZenonT(60), <1>2, <2>1, TreeSwap DEF SetSignaled
<1>3. ASSUME SignalCall(t) PROVE Tree'
  <2>1. Running(t)
    BY Zenon, <1>3 DEF SignalCall, At
  <2>2. 1 \in Int /\ -1 \in Int /\ Waiter + 1 \in Int /\ Waiter - 1 \in Int /\ Waiter - 2 \in Int
    BY DEF Waiter
  <2>3. Wrap(Waiter + 1) \in Word /\ NewValue(EventWord, Waiter, 1) \in Word
    BY ZenonT(60), <2>2, WrapWord, EventWordIs DEF NewValue
  <2>4. \/ UpdateAndSignal(t, EventWord, Waiter, NewValue(EventWord, Waiter, 1), 1)
        \/ UpdateAndSignal(t, EventWord, Waiter, Wrap(Waiter + 1), -1)
    BY ZenonT(60), <1>3 DEF SignalCall, SignalAndModifyByWaitingCountIfEqual, SignalAndIncrementIfEqual
  <2> QED BY ZenonT(60), <2>1, <2>2, <2>3, <2>4, EventWordIs, TreeUpdate
<1>4. ASSUME SignalReturn(t) PROVE Tree'
  BY ZenonT(60), <1>4, TreeForget DEF SignalReturn, At
<1> QED BY ZenonT(60), <1>1, <1>2, <1>3, <1>4 DEF SignalStep

LEMMA TreeWaitStep ==
    ASSUME Tree, NEW t \in Thread, WaitStep(t) PROVE Tree'
<1>1. ASSUME WaitLoad(t) PROVE Tree'
  BY ZenonT(60), <1>1, TreeSame DEF WaitLoad
<1>2. ASSUME SetWaiter(t) PROVE Tree'
  <2>1. Waiter \in {NoWaiter, Waiter, Signaled}
    BY Zenon
  <2> QED BY ZenonT(60), <1>2, <2>1, TreeSwap DEF SetWaiter
<1>3. ASSUME WaitCall(t) PROVE Tree'
  <2>1. Running(t)
    BY Zenon, <1>3 DEF WaitCall, At
  <2>2. PICK timeout : WaitIfEqual(t, EventWord, Waiter, timeout)
    BY ZenonT(60), <1>3 DEF WaitCall
  <2> QED BY ZenonT(60), <2>1, <2>2, EventWordIs, TreeTest
<1>4. ASSUME WaitReturn(t) PROVE Tree'
  BY ZenonT(60), <1>4, TreeForget DEF WaitReturn, At
<1>5. ASSUME Take(t) PROVE Tree'
  <2>1. /\ queue' = queue /\ priority' = priority /\ timer' = timer /\ result' = result
        /\ word' = word \/ word' = [word EXCEPT ![EventWord] = NoWaiter]
    BY ZenonT(60), <1>5 DEF Take
  <2>2. NoWaiter \in {NoWaiter, Waiter, Signaled}
    BY Zenon
  <2> QED BY ZenonT(60), <2>1, <2>2, TreeStore
<1> QED BY ZenonT(60), <1>1, <1>2, <1>3, <1>4, <1>5 DEF WaitStep

\* A timeout, a change of priority or the end of a thread.
LEMMA TreeOthers ==
    ASSUME Tree, NEW t \in Thread, TimeOut(t) \/ RequestTerminate(t) \/ \E p \in Priority : SetPriority(t, p)
    PROVE  Tree'
<1>1. "TimedOut" \in Results \ {"Waiting"} /\ "TerminationRequested" \in Results \ {"Waiting"}
  BY DEF Results
<1>2. ASSUME TimeOut(t) \/ RequestTerminate(t) PROVE Tree'
  BY ZenonT(60), <1>1, <1>2, TreeCancel DEF TimeOut, RequestTerminate
<1>3. ASSUME NEW p \in Priority, SetPriority(t, p) PROVE Tree'
  BY ZenonT(60), <1>3, TreePriority
<1> QED BY ZenonT(60), <1>2, <1>3

LEMMA TreeEvent ==
    ASSUME Tree, [Next]_vars PROVE Tree'
<1>1. ASSUME NEW t \in Thread, BeginSignal(t) \/ BeginWait(t) PROVE Tree'
  BY ZenonT(60), <1>1, TreeSame DEF BeginSignal, BeginWait
<1>2. ASSUME NEW t \in Thread, Clear(t) PROVE Tree'
  <2>1. NoWaiter \in {NoWaiter, Waiter, Signaled}
    BY Zenon
  <2> QED BY ZenonT(60), <1>2, <2>1, TreeSwap DEF Clear
<1>3. ASSUME NEW t \in Thread, Others(t) PROVE Tree'
  BY ZenonT(60), <1>3, TreeOthers DEF Others
<1>4. ASSUME UNCHANGED vars PROVE Tree'
  <2>1. UNCHANGED arbiterVars
    BY ZenonT(60), <1>4 DEF vars, arbiterVars
  <2> QED BY Zenon, <2>1, TreeSame
<1> QED BY ZenonT(60), <1>1, <1>2, <1>3, <1>4, TreeSignalStep, TreeWaitStep DEF Next

\* The threads of a process that uses a light event sleep in order, each once.
THEOREM EventTreeInOrder == Spec => []TreeOrdered
<1>1. Init => Tree
  BY ZenonT(60), TreeInit DEF Init
<1>2. Tree /\ [Next]_vars => Tree'
  BY Zenon, TreeEvent
<1>3. Tree => TreeOrdered
  BY Zenon, TreeIsOrdered
<1> QED BY <1>1, <1>2, <1>3, PTL DEF Spec

-----------------------------------------------------------------------------
(* The light semaphore.                                                    *)

SLabels == InWait \cup {"idle", "waitReturn", "signalLoad", "setSignaled", "signalCall",
                        "signalReturn", "cleared"}
Kinds == {"none", "acquire", "timedAcquire"}
Early == {"signalLoad", "setSignaled"}
Pending == {"signalLoad", "setSignaled", "signalCall"}

SInv == Tree /\ SemaphoreTypeOK /\ SleepersAnnounced /\ Announced

\* Thread t goes to label l ...
Moves(t, l) ==
    /\ pc' = [pc EXCEPT ![t] = l] /\ l \in SLabels /\ l # "take"
    /\ autoClear' = autoClear /\ timed' \subseteq Thread
    /\ count' \in 0..MaxCount /\ acquiring' \in [Thread -> Kinds]

\* ... and the units that are left are announced, or about to be.
Announces(t, l) ==
    /\ state' \in {NoWaiter, Waiter, Signaled}
    /\ \/ state' = Signaled
       \/ count' = 0
       \/ l \in Early
       \/ state' = Waiter /\ l \in Pending
       \/ /\ count > 0 /\ (state' = state \/ state = NoWaiter)
          /\ state = NoWaiter => pc[t] \notin Early
          /\ state' = Waiter => pc[t] \notin Pending

LEMMA SParts ==
    ASSUME SInv
    PROVE  /\ Tree /\ ~autoClear /\ state \in {NoWaiter, Waiter, Signaled}
           /\ pc \in [Thread -> SLabels] /\ (\A t \in Thread : pc[t] # "take")
           /\ timed \subseteq Thread /\ count \in 0..MaxCount /\ acquiring \in [Thread -> Kinds]
           /\ (queue[EventWord] # <<>> => state = Waiter)
  BY ZenonT(60) DEF SInv, SemaphoreTypeOK, SleepersAnnounced, Announced, SLabels, Kinds

LEMMA SKeeps ==
    ASSUME SInv, Track, Tree', NEW t \in Thread, NEW l, Moves(t, l), Announces(t, l),
           queue'[EventWord] # <<>> => state' = Waiter
    PROVE  SInv'
<1>1. pc \in [Thread -> SLabels] /\ pc' = [pc EXCEPT ![t] = l] /\ l \in SLabels /\ l # "take"
  BY ZenonT(60), SParts DEF Moves
<1>2. pc' \in [Thread -> SLabels] /\ pc'[t] = l /\ \A u \in Thread : u # t => pc'[u] = pc[u]
  BY <1>1
<1>3. SemaphoreTypeOK'
  <2>1. overlap' \subseteq Thread
    BY DEF Track
  <2>2. autoClear' \in BOOLEAN
    BY ZenonT(60) DEF SInv, SemaphoreTypeOK, Moves
  <2>3. ArbiterTypeOK'
    BY ZenonT(60) DEF Tree
  <2> QED BY ZenonT(60), <1>2, <2>1, <2>2, <2>3 DEF SemaphoreTypeOK, SLabels, Moves, Kinds
<1>4. SleepersAnnounced'
  BY ZenonT(60) DEF SleepersAnnounced
<1>5. ~autoClear' /\ state' \in {NoWaiter, Waiter, Signaled} /\ \A u \in Thread : pc'[u] # "take"
  BY ZenonT(60), <1>1, <1>2, SParts DEF Moves, Announces
<1>6. NoWaiter # Signaled /\ Waiter # Signaled /\ NoWaiter # Waiter /\ Early \subseteq Pending
  BY DEF NoWaiter, Waiter, Signaled, Early, Pending
<1>7. /\ count > 0 /\ state = NoWaiter => \E u \in Thread : pc[u] \in Early
      /\ count > 0 /\ state = Waiter => \E u \in Thread : pc[u] \in Pending
  BY ZenonT(60) DEF SInv, Announced, Early, Pending
<1>8. count' > 0 => count' # 0
  OBVIOUS
<1>9. ASSUME count' > 0, state' = NoWaiter PROVE \E u \in Thread : pc'[u] \in Early
  <2>1. \/ l \in Early
        \/ count > 0 /\ state = NoWaiter /\ pc[t] \notin Early
    BY ZenonT(60), <1>6, <1>8, <1>9 DEF Announces
  <2>2. CASE l \in Early
    BY ZenonT(60), <1>2, <2>2
  <2>3. CASE count > 0 /\ state = NoWaiter /\ pc[t] \notin Early
    BY ZenonT(60), <1>2, <1>7, <2>3
  <2> QED BY ZenonT(60), <2>1, <2>2, <2>3
<1>10. ASSUME count' > 0, state' = Waiter PROVE \E u \in Thread : pc'[u] \in Pending
  <2>1. \/ l \in Pending
        \/ count > 0 /\ (state = Waiter \/ state = NoWaiter) /\ pc[t] \notin Pending
    BY ZenonT(60), <1>6, <1>8, <1>10 DEF Announces
  <2>2. CASE l \in Pending
    BY ZenonT(60), <1>2, <2>2
  <2>3. CASE count > 0 /\ (state = Waiter \/ state = NoWaiter) /\ pc[t] \notin Pending
    <3>1. \E u \in Thread : pc[u] \in Pending
      BY ZenonT(60), <1>6, <1>7, <2>3
    <3> QED BY ZenonT(60), <1>2, <2>3, <3>1
  <2> QED BY ZenonT(60), <2>1, <2>2, <2>3
<1>11. Announced'
  BY ZenonT(60), <1>5, <1>9, <1>10 DEF Announced, Early, Pending
<1> QED BY ZenonT(60), <1>3, <1>4, <1>11 DEF SInv

\* What a compare-and-swap does to the word.
Swapped(t, x, v, k, l) ==
    /\ queue' = queue /\ autoClear' = autoClear
    /\ state = x => state' = v /\ pc' = [pc EXCEPT ![t] = k]
    /\ state # x => state' = state /\ pc' = [pc EXCEPT ![t] = l]

LEMMA SwapState ==
    ASSUME SInv, NEW t, NEW x, NEW v, NEW k, NEW l, CompareAndSwap(t, x, v, k, l)
    PROVE  Swapped(t, x, v, k, l)
<1>1. word \in [Address -> Word]
  BY ZenonT(60), SParts DEF Tree, ArbiterTypeOK
<1>2. ASSUME state = x PROVE state' = v /\ pc' = [pc EXCEPT ![t] = k]
  <2>1. word' = [word EXCEPT ![EventWord] = v] /\ pc' = [pc EXCEPT ![t] = k]
    BY ZenonT(60), <1>2 DEF CompareAndSwap, Goto
  <2>2. word'[EventWord] = v
    BY <1>1, <2>1, EventWordIs
  <2> QED BY Zenon, <2>1, <2>2 DEF state
<1>3. ASSUME state # x PROVE state' = state /\ pc' = [pc EXCEPT ![t] = l]
  <2>1. word' = word /\ pc' = [pc EXCEPT ![t] = l]
    BY ZenonT(60), <1>3 DEF CompareAndSwap, Goto
  <2> QED BY Zenon, <2>1 DEF state
<1>4. queue' = queue /\ autoClear' = autoClear
  BY ZenonT(60) DEF CompareAndSwap
<1> QED BY ZenonT(60), <1>2, <1>3, <1>4 DEF Swapped

\* The kernel and the word are left alone.
LEMMA SameState ==
    ASSUME UNCHANGED arbiterVars PROVE queue' = queue /\ state' = state /\ result' = result
  BY ZenonT(60) DEF arbiterVars, state

LEMMA SAcquire ==
    ASSUME SInv, Track, NEW t \in Thread, NEW kind \in {"acquire", "timedAcquire"}, Acquire(t, kind)
    PROVE  SInv'
<1>1. pc[t] = "idle" /\ pc \in [Thread -> SLabels] /\ acquiring \in [Thread -> Kinds] /\ count \in 0..MaxCount
      /\ timed \subseteq Thread /\ Tree /\ ~autoClear
  BY ZenonT(60), SParts DEF Acquire, At
<1>2. CASE count > 0
  <2>1. /\ count' = count - 1 /\ acquiring' = [acquiring EXCEPT ![t] = "none"]
        /\ UNCHANGED arbiterVars /\ UNCHANGED codeVars
    BY <1>2 DEF Acquire
  <2>2. pc' = pc /\ timed' = timed /\ autoClear' = autoClear
    BY ZenonT(60), <2>1 DEF codeVars
  <2>3. Moves(t, "idle")
    <3>1. pc' = [pc EXCEPT ![t] = "idle"]
      BY <1>1, <2>2
    <3>2. "idle" \in SLabels /\ "idle" # "take"
      BY DEF SLabels
    <3>3. count' \in 0..MaxCount /\ acquiring' \in [Thread -> Kinds]
      BY <1>1, <1>2, <2>1, MaxCountAssumption DEF Kinds
    <3> QED BY ZenonT(60), <1>1, <2>2, <3>1, <3>2, <3>3 DEF Moves
  <2>4. pc[t] \notin Early /\ pc[t] \notin Pending
    BY <1>1 DEF Early, Pending
  <2>5. Announces(t, "idle")
    BY ZenonT(60), <1>2, <2>1, <2>4, SameState, SParts DEF Announces
  <2> QED BY ZenonT(60), <1>1, <2>1, <2>3, <2>5, SameState, SParts, TreeSame, SKeeps
<1>3. CASE count = 0
  <2>1. /\ acquiring' = [acquiring EXCEPT ![t] = kind] /\ count' = count /\ timed' = timed
        /\ CompareAndSwap(t, Signaled, NoWaiter, "cleared", "cleared")
    BY <1>3 DEF Acquire
  <2>2. /\ queue' = queue /\ autoClear' = autoClear /\ pc' = [pc EXCEPT ![t] = "cleared"]
        /\ state = Signaled => state' = NoWaiter
        /\ state # Signaled => state' = state
    <3>1. Swapped(t, Signaled, NoWaiter, "cleared", "cleared")
      BY ZenonT(60), <2>1, SwapState
    <3> QED BY ZenonT(60), <3>1 DEF Swapped
  <2>3. Moves(t, "cleared")
    <3>1. "cleared" \in SLabels /\ "cleared" # "take"
      BY DEF SLabels
    <3>2. acquiring' \in [Thread -> Kinds]
      BY <1>1, <2>1 DEF Kinds
    <3> QED BY ZenonT(60), <1>1, <2>1, <2>2, <3>1, <3>2 DEF Moves
  <2>4. Announces(t, "cleared")
    <3>1. state' \in {NoWaiter, Waiter, Signaled}
      BY ZenonT(60), <2>2, SParts
    <3> QED BY ZenonT(60), <1>3, <2>1, <3>1 DEF Announces
  <2>5. Tree'
    <3>1. NoWaiter \in {NoWaiter, Waiter, Signaled}
      BY Zenon
    <3> QED BY ZenonT(60), <1>1, <2>1, <3>1, TreeSwap
  <2>6. queue'[EventWord] # <<>> => state' = Waiter
    <3>1. Waiter # Signaled
      BY DEF Waiter, Signaled
    <3> QED BY ZenonT(60), <2>2, <3>1, SParts
  <2> QED BY ZenonT(60), <2>3, <2>4, <2>5, <2>6, SKeeps
<1>4. count > 0 \/ count = 0
  BY <1>1, MaxCountAssumption
<1> QED BY Zenon, <1>2, <1>3, <1>4

LEMMA SAcquireWait ==
    ASSUME SInv, Track, NEW t \in Thread, AcquireWait(t) PROVE SInv'
<1>1. pc[t] = "cleared" /\ pc \in [Thread -> SLabels] /\ acquiring \in [Thread -> Kinds] /\ count \in 0..MaxCount
      /\ timed \subseteq Thread /\ Tree
  BY ZenonT(60), SParts DEF AcquireWait, At
<1>2. count' = count /\ UNCHANGED arbiterVars /\ autoClear' = autoClear
  BY ZenonT(60) DEF AcquireWait
<1>3. PICK l \in {"waitLoad", "idle"} : pc' = [pc EXCEPT ![t] = l]
  BY DEF AcquireWait, Goto
<1>4. timed' \subseteq Thread /\ acquiring' \in [Thread -> Kinds]
  BY <1>1 DEF AcquireWait, Kinds
<1>5. Moves(t, l)
  <2>1. l \in SLabels /\ l # "take"
    BY <1>3 DEF SLabels, InWait
  <2> QED BY ZenonT(60), <1>1, <1>2, <1>3, <1>4, <2>1 DEF Moves
<1>6. Announces(t, l)
  <2>1. pc[t] \notin Early /\ pc[t] \notin Pending
    BY <1>1 DEF Early, Pending
  <2>2. count > 0 \/ count = 0
    BY <1>1, MaxCountAssumption
  <2> QED BY ZenonT(60), <1>2, <2>1, <2>2, SameState, SParts DEF Announces
<1> QED BY ZenonT(60), <1>1, <1>2, <1>5, <1>6, SameState, SParts, TreeSame, SKeeps

LEMMA SRelease ==
    ASSUME SInv, Track, NEW t \in Thread, NEW n \in 1..MaxCount, Release(t, n) PROVE SInv'
<1>1. pc \in [Thread -> SLabels] /\ acquiring \in [Thread -> Kinds] /\ count \in 0..MaxCount
      /\ timed \subseteq Thread /\ Tree
  BY ZenonT(60), SParts
<1>2. /\ count + n <= MaxCount /\ count' = count + n /\ pc' = [pc EXCEPT ![t] = "signalLoad"]
      /\ acquiring' = acquiring /\ UNCHANGED arbiterVars /\ autoClear' = autoClear /\ timed' = timed
  BY ZenonT(60) DEF Release, Goto
<1>3. count' \in 0..MaxCount /\ "signalLoad" \in SLabels /\ "signalLoad" # "take" /\ "signalLoad" \in Early
  BY <1>1, <1>2, MaxCountAssumption DEF SLabels, Early
<1>4. Moves(t, "signalLoad")
  BY ZenonT(60), <1>1, <1>2, <1>3 DEF Moves
<1>5. Announces(t, "signalLoad")
  BY ZenonT(60), <1>2, <1>3, SameState, SParts DEF Announces
<1> QED BY ZenonT(60), <1>1, <1>2, <1>4, <1>5, SameState, SParts, TreeSame, SKeeps

\* A step after which the semaphore is as before, and that leaves timed in its type.
LEMMA SQuiet ==
    ASSUME SInv, UNCHANGED semaphoreVars, NEW t \in Thread, NEW l \in SLabels, l # "take",
           pc' = [pc EXCEPT ![t] = l], autoClear' = autoClear, timed' \in {timed, timed \ {t}}
    PROVE  /\ Moves(t, l) /\ count' = count /\ (count = 0 \/ count > 0)
           /\ (state' = state /\ pc[t] \notin Pending => Announces(t, l))
<1>1. acquiring \in [Thread -> Kinds] /\ count \in 0..MaxCount /\ timed \subseteq Thread
  BY ZenonT(60), SParts
<1>2. count' = count /\ acquiring' = acquiring
  BY Zenon DEF semaphoreVars
<1>3. timed' \subseteq Thread
  BY <1>1
<1>4. count = 0 \/ count > 0
  BY <1>1, MaxCountAssumption
<1>5. pc[t] \notin Pending => pc[t] \notin Early
  BY DEF Early, Pending
<1>6. state' = state /\ pc[t] \notin Pending => Announces(t, l)
  BY ZenonT(60), <1>2, <1>4, <1>5, SParts DEF Announces
<1>7. Moves(t, l)
  BY ZenonT(60), <1>1, <1>2, <1>3 DEF Moves
<1> QED BY ZenonT(60), <1>2, <1>4, <1>6, <1>7

LEMMA SSignalStep ==
    ASSUME SInv, Track, NEW t \in Thread, SignalStep(t), UNCHANGED semaphoreVars
    PROVE  SInv'
<1>1. Tree /\ Tree' /\ ~autoClear /\ (queue[EventWord] # <<>> => state = Waiter)
  BY ZenonT(60), SParts, TreeSignalStep
<1>2. /\ NoWaiter # Signaled /\ Waiter # Signaled /\ NoWaiter # Waiter
      /\ \A l \in {"idle", "setSignaled", "signalLoad", "signalCall", "signalReturn"} : l \in SLabels /\ l # "take"
      /\ "setSignaled" \in Early /\ "signalLoad" \in Early /\ "signalCall" \in Pending
      /\ "signalReturn" \notin Pending /\ "signalCall" \notin Early
  BY DEF NoWaiter, Waiter, Signaled, SLabels, Early, Pending
<1>3. ASSUME SignalLoad(t) PROVE SInv'
  <2>1. UNCHANGED arbiterVars /\ autoClear' = autoClear /\ timed' = timed
    BY ZenonT(60), <1>3 DEF SignalLoad
  <2>2. PICK l \in {"setSignaled", "signalCall", "idle"} :
          /\ pc' = [pc EXCEPT ![t] = l] /\ (l = "signalCall" => state = Waiter) /\ (l = "idle" => state = Signaled)
    BY <1>3 DEF SignalLoad, Goto
  <2>3. Moves(t, l)
    BY ZenonT(60), <1>2, <2>1, <2>2, SQuiet
  <2>4. state' = state /\ queue' = queue
    BY Zenon, <2>1, SameState
  <2>5. Announces(t, l)
    <3>1. state' \in {NoWaiter, Waiter, Signaled}
      BY ZenonT(60), <2>4, SParts
    <3>2. state' = Signaled \/ l \in Early \/ (state' = Waiter /\ l \in Pending)
      BY ZenonT(60), <1>2, <2>2, <2>4
    <3> QED BY ZenonT(60), <3>1, <3>2 DEF Announces
  <2> QED BY ZenonT(60), <1>1, <2>3, <2>4, <2>5, SKeeps
<1>4. ASSUME SetSignaled(t) PROVE SInv'
  <2>1. CompareAndSwap(t, NoWaiter, Signaled, "idle", "signalLoad") /\ timed' = timed
    BY ZenonT(60), <1>4 DEF SetSignaled
  <2>2. /\ queue' = queue /\ autoClear' = autoClear
        /\ state = NoWaiter => state' = Signaled /\ pc' = [pc EXCEPT ![t] = "idle"]
        /\ state # NoWaiter => state' = state /\ pc' = [pc EXCEPT ![t] = "signalLoad"]
    <3>1. Swapped(t, NoWaiter, Signaled, "idle", "signalLoad")
      BY ZenonT(60), <2>1, SwapState
    <3> QED BY ZenonT(60), <3>1 DEF Swapped
  <2>3. PICK l \in {"idle", "signalLoad"} : /\ pc' = [pc EXCEPT ![t] = l]
                                            /\ state' = Signaled \/ (l = "signalLoad" /\ state' = state)
    BY ZenonT(60), <2>2
  <2>4. Moves(t, l)
    BY ZenonT(60), <1>2, <2>1, <2>2, <2>3, SQuiet
  <2>5. Announces(t, l)
    <3>1. state' \in {NoWaiter, Waiter, Signaled}
      BY ZenonT(60), <2>3, SParts
    <3> QED BY ZenonT(60), <1>2, <2>3, <3>1 DEF Announces
  <2>6. queue'[EventWord] # <<>> => state' = Waiter
    BY ZenonT(60), <1>1, <1>2, <2>2
  <2> QED BY ZenonT(60), <1>1, <2>4, <2>5, <2>6, SKeeps
<1>5. ASSUME SignalCall(t) PROVE SInv'
  <2>1. /\ pc[t] = "signalCall" /\ UpdateAndSignal(t, EventWord, Waiter, Wrap(Waiter + 1), -1)
        /\ pc' = [pc EXCEPT ![t] = "signalReturn"] /\ autoClear' = autoClear /\ timed' = timed
    BY ZenonT(60), <1>1, <1>5 DEF SignalCall, At, Goto, SignalAndIncrementIfEqual
  <2>2. Moves(t, "signalReturn") /\ count' = count /\ (count = 0 \/ count > 0)
    BY ZenonT(60), <1>2, <2>1, SQuiet
  <2>3. CASE state # Waiter
    <3>1. queue' = queue /\ word' = word
      BY ZenonT(60), <2>1, <2>3, EventWordIs DEF UpdateAndSignal, Answer, state
    <3>2. state' = state
      BY Zenon, <3>1 DEF state
    <3>3. Announces(t, "signalReturn")
      BY ZenonT(60), <1>2, <2>1, <2>2, <2>3, <3>2, SParts DEF Announces
    <3> QED BY ZenonT(60), <1>1, <2>2, <3>1, <3>2, <3>3, SKeeps
  <2>4. CASE state = Waiter
    <3>1. word' = [word EXCEPT ![EventWord] = Signaled] /\ EndWaits(t, EventWord, -1)
      BY ZenonT(60), <2>1, <2>4, SmallWraps, EventAssumption DEF UpdateAndSignal, state
    <3>2. word \in [Address -> Word] /\ queue \in [Address -> Seq(Thread)]
      BY ZenonT(60), <1>1 DEF Tree, ArbiterTypeOK
    <3>3. word'[EventWord] = Signaled
      BY <3>1, <3>2, EventWordIs
    <3>4. state' = Signaled
      BY Zenon, <3>3 DEF state
    <3>5. NumWoken(EventWord, -1) = Len(queue[EventWord])
      BY DEF NumWoken
    <3>6. queue' = [queue EXCEPT ![EventWord] = SubSeq(queue[EventWord], Len(queue[EventWord]) + 1, Len(queue[EventWord]))]
      BY ZenonT(60), <3>1, <3>5 DEF EndWaits
    <3>7. PICK q \in Seq(Thread) : q = queue[EventWord]
      BY <3>2, EventWordIs
    <3>8. SubSeq(q, Len(q) + 1, Len(q)) = <<>>
      BY <3>7
    <3>9. queue'[EventWord] = <<>>
      BY <3>2, <3>6, <3>7, <3>8, EventWordIs
    <3>10. Announces(t, "signalReturn")
      BY ZenonT(60), <3>4 DEF Announces
    <3> QED BY ZenonT(60), <1>1, <2>2, <3>9, <3>10, SKeeps
  <2> QED BY Zenon, <2>3, <2>4
<1>6. ASSUME SignalReturn(t) PROVE SInv'
  <2>1. PICK l \in {"signalLoad", "idle"} : pc' = [pc EXCEPT ![t] = l]
    BY ZenonT(60), <1>6 DEF SignalReturn, Goto
  <2>2. /\ pc[t] = "signalReturn" /\ word' = word /\ queue' = queue /\ autoClear' = autoClear /\ timed' = timed
    BY ZenonT(60), <1>6 DEF SignalReturn, At, Forget, Answer
  <2>3. state' = state
    BY Zenon, <2>2 DEF state
  <2>4. Moves(t, l) /\ Announces(t, l)
    BY ZenonT(60), <1>2, <2>1, <2>2, <2>3, SQuiet
  <2> QED BY ZenonT(60), <1>1, <2>2, <2>3, <2>4, SKeeps
<1> QED BY ZenonT(60), <1>3, <1>4, <1>5, <1>6 DEF SignalStep

LEMMA SWaitStep ==
    ASSUME SInv, Track, NEW t \in Thread, WaitStep(t), UNCHANGED semaphoreVars
    PROVE  SInv'
<1>1. /\ Tree /\ Tree' /\ ~autoClear /\ (queue[EventWord] # <<>> => state = Waiter) /\ pc[t] # "take"
      /\ state \in {NoWaiter, Waiter, Signaled}
  BY ZenonT(60), SParts, TreeWaitStep
<1>2. /\ NoWaiter # Signaled /\ Waiter # Signaled /\ NoWaiter # Waiter
      /\ \A l \in {"idle", "setWaiter", "waitLoad", "waitCall", "waitReturn"} : l \in SLabels /\ l # "take"
      /\ \A l \in {"setWaiter", "waitLoad", "waitCall", "waitReturn"} : l \notin Pending /\ l \notin Early
  BY DEF NoWaiter, Waiter, Signaled, SLabels, Early, Pending, InWait
<1>3. ASSUME WaitLoad(t) PROVE SInv'
  <2>1. UNCHANGED arbiterVars /\ autoClear' = autoClear /\ pc[t] = "waitLoad" /\ timed' \in {timed, timed \ {t}}
    BY ZenonT(60), <1>3 DEF WaitLoad, At, ReturnFromWait
  <2>2. PICK l \in {"setWaiter", "waitCall", "idle"} : pc' = [pc EXCEPT ![t] = l]
    BY ZenonT(60), <1>1, <1>3 DEF WaitLoad, Goto, ReturnFromWait
  <2>3. state' = state /\ queue' = queue
    BY Zenon, <2>1, SameState
  <2>4. Moves(t, l) /\ Announces(t, l)
    BY ZenonT(60), <1>2, <2>1, <2>2, <2>3, SQuiet
  <2> QED BY ZenonT(60), <1>1, <2>3, <2>4, SKeeps
<1>4. ASSUME SetWaiter(t) PROVE SInv'
  <2>1. CompareAndSwap(t, NoWaiter, Waiter, "waitCall", "waitLoad") /\ timed' = timed /\ pc[t] = "setWaiter"
    BY ZenonT(60), <1>4 DEF SetWaiter, At
  <2>2. /\ queue' = queue /\ autoClear' = autoClear
        /\ state = NoWaiter => state' = Waiter /\ pc' = [pc EXCEPT ![t] = "waitCall"]
        /\ state # NoWaiter => state' = state /\ pc' = [pc EXCEPT ![t] = "waitLoad"]
    <3>1. Swapped(t, NoWaiter, Waiter, "waitCall", "waitLoad")
      BY ZenonT(60), <2>1, SwapState
    <3> QED BY ZenonT(60), <3>1 DEF Swapped
  <2>3. PICK l \in {"waitCall", "waitLoad"} : pc' = [pc EXCEPT ![t] = l]
    BY ZenonT(60), <2>2
  <2>4. Moves(t, l) /\ count' = count /\ (count = 0 \/ count > 0)
    BY ZenonT(60), <1>2, <2>1, <2>2, <2>3, SQuiet
  <2>5. Announces(t, l)
    <3>1. state' \in {NoWaiter, Waiter, Signaled} /\ (state' = state \/ state = NoWaiter)
      BY ZenonT(60), <1>1, <2>2
    <3> QED BY ZenonT(60), <1>2, <2>1, <2>4, <3>1 DEF Announces
  <2>6. queue'[EventWord] # <<>> => state' = Waiter
    BY ZenonT(60), <1>1, <2>2
  <2> QED BY ZenonT(60), <1>1, <2>4, <2>5, <2>6, SKeeps
<1>5. ASSUME WaitCall(t) PROVE SInv'
  <2>1. /\ pc[t] = "waitCall" /\ pc' = [pc EXCEPT ![t] = "waitReturn"] /\ autoClear' = autoClear /\ timed' = timed
    BY ZenonT(60), <1>5 DEF WaitCall, At, Goto
  <2>2. PICK timeout : WaitIfEqual(t, EventWord, Waiter, timeout)
    BY ZenonT(60), <1>5 DEF WaitCall
  <2>3. word' = word /\ (state # Waiter => queue' = queue)
    BY ZenonT(60), <2>2 DEF WaitIfEqual, Answer, state
  <2>4. state' = state
    BY Zenon, <2>3 DEF state
  <2>5. Moves(t, "waitReturn") /\ Announces(t, "waitReturn")
    BY ZenonT(60), <1>2, <2>1, <2>4, SQuiet
  <2> QED BY ZenonT(60), <1>1, <2>3, <2>4, <2>5, SKeeps
<1>6. ASSUME WaitReturn(t) PROVE SInv'
  <2>1. PICK l \in {"waitLoad", "idle"} : pc' = [pc EXCEPT ![t] = l]
    BY ZenonT(60), <1>6 DEF WaitReturn, ReturnFromWait, Goto
  <2>2. /\ pc[t] = "waitReturn" /\ word' = word /\ queue' = queue /\ autoClear' = autoClear
        /\ timed' \in {timed, timed \ {t}}
    BY ZenonT(60), <1>6 DEF WaitReturn, ReturnFromWait, At, Forget, Answer
  <2>3. state' = state
    BY Zenon, <2>2 DEF state
  <2>4. Moves(t, l) /\ Announces(t, l)
    BY ZenonT(60), <1>2, <2>1, <2>2, <2>3, SQuiet
  <2> QED BY ZenonT(60), <1>1, <2>2, <2>3, <2>4, SKeeps
<1> QED BY ZenonT(60), <1>1, <1>3, <1>4, <1>5, <1>6 DEF WaitStep, Take, At

\* A timeout changes neither the code's state nor the word.
LEMMA STimeOut ==
    ASSUME SInv, Track, NEW t \in Thread, TimeOut(t), UNCHANGED <<codeVars, semaphoreVars>>
    PROVE  SInv'
<1>1. Tree /\ (queue[EventWord] # <<>> => state = Waiter) /\ pc \in [Thread -> SLabels] /\ pc[t] # "take"
  BY ZenonT(60), SParts
<1>2. /\ word' = word /\ queue' = [a \in Address |-> Erase(queue[a], t)] /\ pc' = pc /\ autoClear' = autoClear
      /\ timed' = timed /\ UNCHANGED semaphoreVars
  BY ZenonT(60) DEF TimeOut, CancelWait, codeVars
<1>3. state' = state /\ pc' = [pc EXCEPT ![t] = pc[t]] /\ pc[t] \in SLabels
  <2>1. state' = state
    BY Zenon, <1>2 DEF state
  <2> QED BY <1>1, <1>2, <2>1
<1>4. queue'[EventWord] # <<>> => state' = Waiter
  <2>1. queue'[EventWord] = Erase(queue[EventWord], t)
    BY ZenonT(60), <1>2, EventWordIs
  <2>2. queue[EventWord] = <<>> => queue'[EventWord] = <<>>
    BY ZenonT(60), <2>1, EmptyRight
  <2> QED BY ZenonT(60), <1>1, <1>3, <2>2
<1>5. Moves(t, pc[t]) /\ count' = count /\ (count = 0 \/ count > 0)
                      /\ (pc[t] \notin Pending => Announces(t, pc[t]))
  BY ZenonT(60), <1>1, <1>2, <1>3, SQuiet
<1>6. CASE pc[t] \notin Pending
  BY ZenonT(60), <1>4, <1>5, <1>6, <1>1, TreeOthers, SKeeps
<1>7. CASE pc[t] \in Early
  <2>1. Announces(t, pc[t])
    BY ZenonT(60), <1>3, <1>7, SParts DEF Announces
  <2> QED BY ZenonT(60), <1>4, <1>5, <2>1, <1>1, TreeOthers, SKeeps
<1>8. CASE pc[t] = "signalCall"
  <2>1. pc[t] \in Pending /\ pc[t] \notin Early
    BY <1>8 DEF Pending, Early
  <2>2. state = Waiter \/ state # Waiter
    BY Zenon
  <2>3. Announces(t, pc[t])
    BY ZenonT(60), <1>3, <1>5, <2>1, <2>2, SParts DEF Announces
  <2> QED BY ZenonT(60), <1>4, <1>5, <2>3, <1>1, TreeOthers, SKeeps
<1> QED BY Zenon, <1>6, <1>7, <1>8 DEF Pending, Early

LEMMA SInvNext ==
    ASSUME SInv, [SemaphoreNext]_<<vars, semaphoreVars>> PROVE SInv'
<1>1. ASSUME SemaphoreNext PROVE SInv'
  <2>1. Track
    BY Zenon, <1>1 DEF SemaphoreNext
  <2>2. PICK t \in Thread :
           \/ \E kind \in {"acquire", "timedAcquire"} : Acquire(t, kind)
           \/ AcquireWait(t)
           \/ \E n \in 1..MaxCount : Release(t, n)
           \/ WaitStep(t) /\ UNCHANGED semaphoreVars
           \/ SignalStep(t) /\ UNCHANGED semaphoreVars
           \/ TimeOut(t) /\ UNCHANGED <<codeVars, semaphoreVars>>
    BY Zenon, <1>1 DEF SemaphoreNext
  <2>3. CASE \E kind \in {"acquire", "timedAcquire"} : Acquire(t, kind)
    BY ZenonT(60), <2>1, <2>3, SAcquire
  <2>4. CASE \E n \in 1..MaxCount : Release(t, n)
    BY ZenonT(60), <2>1, <2>4, SRelease
  <2>5. CASE TimeOut(t) /\ UNCHANGED <<codeVars, semaphoreVars>>
    BY ZenonT(60), <2>1, <2>5, STimeOut
  <2> QED BY ZenonT(60), <2>1, <2>2, <2>3, <2>4, <2>5, SAcquireWait, SWaitStep, SSignalStep
<1>2. ASSUME UNCHANGED <<vars, semaphoreVars>> PROVE SInv'
  <2>1. /\ word' = word /\ queue' = queue /\ priority' = priority /\ timer' = timer /\ result' = result
        /\ autoClear' = autoClear /\ pc' = pc /\ timed' = timed /\ overlap' = overlap
        /\ count' = count /\ acquiring' = acquiring
    BY ZenonT(60), <1>2 DEF vars, arbiterVars, codeVars, semaphoreVars
  <2>2. Tree'
    BY ZenonT(60), <2>1, TreeSame DEF SInv, arbiterVars
  <2>3. state' = state
    BY Zenon, <2>1 DEF state
  <2>4. SemaphoreTypeOK'
    BY ZenonT(60), <2>1, <2>2 DEF SInv, SemaphoreTypeOK, Tree
  <2>5. SleepersAnnounced' /\ Announced'
    BY ZenonT(60), <2>1, <2>3 DEF SInv, SleepersAnnounced, Announced
  <2> QED BY Zenon, <2>2, <2>4, <2>5 DEF SInv
<1> QED BY Zenon, <1>1, <1>2

LEMMA SInvInit == SemaphoreInit => SInv
<1> SUFFICES ASSUME SemaphoreInit PROVE SInv
  OBVIOUS
<1>1. Tree
  BY ZenonT(60), TreeInit DEF SemaphoreInit, Init
<1>2. /\ count \in 0..MaxCount /\ acquiring = [t \in Thread |-> "none"] /\ ~autoClear /\ autoClear \in BOOLEAN
      /\ state = (IF count > 0 THEN Signaled ELSE NoWaiter) /\ pc = [t \in Thread |-> "idle"]
      /\ timed = {} /\ overlap = {} /\ queue = [a \in Address |-> <<>>]
  BY ZenonT(60) DEF SemaphoreInit, Init, ArbiterInit
<1>3. acquiring \in [Thread -> Kinds] /\ pc \in [Thread -> SLabels] /\ \A t \in Thread : pc[t] # "take"
  BY <1>2 DEF Kinds, SLabels
<1>4. queue[EventWord] = <<>> /\ NoWaiter # Waiter /\ NoWaiter # Signaled /\ Waiter # Signaled
  BY <1>2, EventWordIs DEF NoWaiter, Waiter, Signaled
<1>5. ArbiterTypeOK
  BY ZenonT(60), <1>1 DEF Tree
<1>6. SemaphoreTypeOK
  BY ZenonT(60), <1>2, <1>3, <1>5 DEF SemaphoreTypeOK, Kinds, SLabels
<1>7. SleepersAnnounced
  BY ZenonT(60), <1>4 DEF SleepersAnnounced
<1>8. Announced
  BY ZenonT(60), <1>2, <1>3, <1>4 DEF Announced
<1> QED BY Zenon, <1>1, <1>6, <1>7, <1>8 DEF SInv

\* The states of a semaphore are well-formed, whatever its users do: the count stays
\* between zero and its maximum.
THEOREM SemaphoreTyped == SemaphoreSpec => []SemaphoreTypeOK
<1>1. SInv => SemaphoreTypeOK
  BY Zenon DEF SInv
<1> QED BY <1>1, SInvInit, SInvNext, PTL DEF SemaphoreSpec

\* A release is never lost on a sleeping thread: while ReleaseLightSemaphore has left
\* a unit in the count and a thread sleeps in AcquireLightSemaphore, some releasing
\* thread is still before its signal, for any number of threads and any count.
THEOREM ReleaseNeverLost == SemaphoreSpec => []ReleaseReachesSleepers
<1>1. SInv => ReleaseReachesSleepers
  BY ZenonT(60) DEF SInv, Announced, SleepersAnnounced, ReleaseReachesSleepers
<1> QED BY <1>1, SInvInit, SInvNext, PTL DEF SemaphoreSpec

\* The semaphore uses its event so that a thread sleeps only while the word tells
\* every signal to enter the kernel.
THEOREM SemaphoreSleepersAnnounced == SemaphoreSpec => []SleepersAnnounced
<1>1. SInv => SleepersAnnounced
  BY Zenon DEF SInv
<1> QED BY <1>1, SInvInit, SInvNext, PTL DEF SemaphoreSpec

\* The threads of a process that uses a light semaphore sleep in order, each once.
THEOREM SemaphoreTreeInOrder == SemaphoreSpec => []TreeOrdered
<1>1. SInv => TreeOrdered
  BY Zenon, TreeIsOrdered DEF SInv
<1> QED BY <1>1, SInvInit, SInvNext, PTL DEF SemaphoreSpec

-----------------------------------------------------------------------------
(* The light event: its inductive invariant.                               *)

Labels == InWait \cup {"idle", "waitReturn", "signalLoad", "setSignaled", "signalCall", "signalReturn"}

\* Who is in a queue sleeps, in the wait of the event, and only those in a timed
\* wait have a timeout.
Sleeping ==
    /\ \A a \in Address : /\ Distinct(queue[a])
                          /\ \A t \in Thread : Contains(queue[a], t) => result[t] = "Waiting"
                          /\ a # EventWord => queue[a] = <<>>
    /\ \A t \in Thread : result[t] = "Waiting" => pc[t] = "waitReturn"
    /\ \A t \in timer : t \in timed /\ result[t] = "Waiting"

\* The history is of waits, and has every wait there is while it is signaled.
Overlapping ==
    \A t \in Thread : /\ t \in overlap => Call(t) \in {"wait", "timedWait"}
                      /\ Call(t) \in {"wait", "timedWait"} /\ state = Signaled => t \in overlap

\* The word of an event that does not clear itself leaves 1 by a signal only, so
\* a wait that finds it is no longer 1 was signaled.
LookedAt ==
    \A t \in Thread :
        /\ pc[t] = "take" => autoClear
        /\ ~autoClear /\ pc[t] = "waitCall" /\ result[t] # "TerminationRequested" =>
             state = Waiter \/ t \in overlap
        /\ ~autoClear /\ pc[t] = "waitReturn" /\ result[t] = "InvalidState" => t \in overlap

IInv == TypeOK /\ Sleeping /\ SleepersAnnounced /\ Overlapping /\ LookedAt

\* What the users of the event see.
LEMMA SeenIs ==
    ASSUME NEW label, NEW r, NEW isTimed
    PROVE  /\ r = "TerminationRequested" => Seen(label, r, isTimed) = "dead"
           /\ r # "TerminationRequested" /\ label \in InWait =>
                Seen(label, r, isTimed) = IF isTimed THEN "timedWait" ELSE "wait"
           /\ label = "waitReturn" /\ r \in {"Waiting", "InvalidState"} =>
                Seen(label, r, isTimed) = IF isTimed THEN "timedWait" ELSE "wait"
           /\ label = "waitReturn" /\ r = "Success" => Seen(label, r, isTimed) = "done"
           /\ label = "waitReturn" /\ r = "TimedOut" => Seen(label, r, isTimed) = "gaveUp"
           /\ label = "waitReturn" /\ r = "InvalidCurrentMemory" => Seen(label, r, isTimed) = "none"
           /\ r # "TerminationRequested" /\ label \in {"signalLoad", "setSignaled", "signalCall"} =>
                Seen(label, r, isTimed) = "signal"
           /\ label = "signalReturn" /\ r = "InvalidState" => Seen(label, r, isTimed) = "signal"
           /\ label = "signalReturn" /\ r \notin {"InvalidState", "TerminationRequested"} =>
                Seen(label, r, isTimed) = "none"
           /\ r # "TerminationRequested" /\ label = "idle" => Seen(label, r, isTimed) = "none"
  BY DEF Seen, InWait, WaitResult

\* Nothing but thread t moves.
Local(t) == \A u \in Thread : u # t => /\ pc'[u] = pc[u] /\ result'[u] = result[u]
                                       /\ (u \in timed') = (u \in timed)

\* Those in W but no other thread beside t move, to what.
LEMMA StepMaps ==
    ASSUME NEW t \in Thread, NEW W, Track, autoClear' = autoClear,
           \A u \in Thread : u # t => Call(u)' = IF u \in W THEN "done" ELSE Call(u)
    PROVE  E!Step(t, Call(t)', W)
<1>1. \A u \in Thread : Call(u)' = IF u = t THEN Call(t)' ELSE IF u \in W THEN "done" ELSE Call(u)
  BY Zenon
<1>2. [u \in Thread |-> Call(u)]' = [u \in Thread |-> IF u = t THEN Call(t)' ELSE IF u \in W THEN "done"
                                                      ELSE [v \in Thread |-> Call(v)][u]]
  BY <1>1
<1>3. overlap' = {u \in Thread : [v \in Thread |-> Call(v)]'[u] \in E!Waits
                                 /\ (u \in overlap \/ (state = Signaled)')}
  BY DEF Track, E!Waits
<1> QED BY <1>2, <1>3 DEF E!Step

LEMMA LocalCalls ==
    ASSUME NEW t \in Thread, Local(t)
    PROVE  \A u \in Thread : u # t => Call(u)' = Call(u)
  BY ZenonT(60) DEF Local, Call

\* A step of one thread that no user of the event sees.
LEMMA StutterMaps ==
    ASSUME IInv, Track, autoClear' = autoClear, \A u \in Thread : Call(u)' = Call(u),
           (state = Signaled)' = (state = Signaled)
    PROVE  UNCHANGED E!eventVars
<1>1. [u \in Thread |-> Call(u)]' = [u \in Thread |-> Call(u)]
  BY Zenon
<1>2. overlap \subseteq Thread
  BY DEF IInv, TypeOK
<1>3. overlap' = overlap
  BY <1>2 DEF IInv, Overlapping, Track
<1> QED BY <1>1, <1>3 DEF E!eventVars

LEMMA OverlapKeeps ==
    ASSUME Track PROVE Overlapping'
  BY DEF Track, Overlapping

-----------------------------------------------------------------------------
(* Steps of a thread that runs, which leave the queues alone.              *)

Quiet(t) ==
    /\ Running(t) /\ UNCHANGED <<queue, priority, timer, autoClear>>
    /\ word' \in [Address -> Word] /\ (state = Waiter => state' = Waiter)
    /\ \E l \in Labels : pc' = [pc EXCEPT ![t] = l]
    /\ \E r \in Results \ {"Waiting"} : result' = [result EXCEPT ![t] = r]
    /\ timed' \in {timed, timed \cup {t}, timed \ {t}}

\* What thread t knows of the word when it has looked at it.
Looked(t) ==
    /\ pc'[t] = "take" => autoClear
    /\ ~autoClear /\ pc'[t] = "waitCall" => state' = Waiter
    /\ ~autoClear /\ pc'[t] = "waitReturn" /\ result'[t] = "InvalidState" => t \in overlap'

LEMMA QuietLocal ==
    ASSUME TypeOK, NEW t \in Thread, Quiet(t)
    PROVE  Local(t)
  BY DEF Quiet, Local, TypeOK, ArbiterTypeOK

\* A thread that does not move still knows what it knew.
LEMMA LookedStays ==
    ASSUME IInv, Track, NEW u \in Thread, pc'[u] = pc[u], result'[u] = result[u], Call(u)' = Call(u),
           ~autoClear /\ state = Waiter => state' \in {Waiter, Signaled}
    PROVE  /\ pc'[u] = "take" => autoClear
           /\ ~autoClear /\ pc'[u] = "waitCall" /\ result'[u] # "TerminationRequested" =>
                state' = Waiter \/ u \in overlap'
           /\ ~autoClear /\ pc'[u] = "waitReturn" /\ result'[u] = "InvalidState" => u \in overlap'
<1>1. /\ pc[u] = "take" => autoClear
      /\ ~autoClear /\ pc[u] = "waitCall" /\ result[u] # "TerminationRequested" =>
           state = Waiter \/ u \in overlap
      /\ ~autoClear /\ pc[u] = "waitReturn" /\ result[u] = "InvalidState" => u \in overlap
  BY ZenonT(60) DEF IInv, LookedAt
<1>2. /\ pc[u] = "waitCall" /\ result[u] # "TerminationRequested" => Call(u) \in {"wait", "timedWait"}
      /\ pc[u] = "waitReturn" /\ result[u] = "InvalidState" => Call(u) \in {"wait", "timedWait"}
  BY SeenIs DEF Call, InWait
<1>3. Call(u) \in {"wait", "timedWait"} /\ (u \in overlap \/ state' = Signaled) => u \in overlap'
  BY DEF Track
<1> QED BY <1>1, <1>2, <1>3

\* A step that gives no thread but t another place keeps what the others know.
LEMMA LookedKeeps ==
    ASSUME IInv, Track, NEW t \in Thread, Local(t), Looked(t), autoClear' = autoClear,
           ~autoClear /\ state = Waiter => state' \in {Waiter, Signaled}
    PROVE  LookedAt'
<1> SUFFICES ASSUME NEW u \in Thread
             PROVE  /\ pc'[u] = "take" => autoClear'
                    /\ ~autoClear' /\ pc'[u] = "waitCall" /\ result'[u] # "TerminationRequested" =>
                         state' = Waiter \/ u \in overlap'
                    /\ ~autoClear' /\ pc'[u] = "waitReturn" /\ result'[u] = "InvalidState" => u \in overlap'
  BY ZenonT(60) DEF LookedAt
<1>1. CASE u = t
  BY ZenonT(60), <1>1 DEF Looked
<1>2. CASE u # t
  <2>1. pc'[u] = pc[u] /\ result'[u] = result[u] /\ Call(u)' = Call(u)
    BY ZenonT(60), <1>2, LocalCalls DEF Local
  <2> QED BY ZenonT(60), <2>1, LookedStays
<1> QED BY <1>1, <1>2

LEMMA QuietKeeps ==
    ASSUME IInv, Track, NEW t \in Thread, Quiet(t), Looked(t)
    PROVE  IInv'
<1>0. TypeOK /\ Local(t)
  BY ZenonT(60), QuietLocal DEF IInv
<1>1. TypeOK'
  <2>1. word' \in [Address -> Word] /\ UNCHANGED <<queue, priority, timer, autoClear>>
    BY ZenonT(60) DEF Quiet
  <2>2. pc' \in [Thread -> Labels] /\ result' \in [Thread -> Results]
    BY <1>0 DEF Quiet, TypeOK, ArbiterTypeOK, Labels, Results
  <2>3. timed' \subseteq Thread
    BY <1>0 DEF Quiet, TypeOK
  <2>4. overlap' \subseteq Thread
    BY DEF Track
  <2> QED BY <1>0, <2>1, <2>2, <2>3, <2>4 DEF TypeOK, ArbiterTypeOK, Labels, Results
<1>2. Sleeping'
  <2>1. result[t] # "Waiting" /\ result'[t] # "Waiting"
    BY <1>0 DEF Quiet, Running, TypeOK, ArbiterTypeOK
  <2>2. UNCHANGED <<queue, timer>>
    BY ZenonT(60) DEF Quiet
  <2>3. \A a \in Address : /\ Distinct(queue[a])
                           /\ \A u \in Thread : Contains(queue[a], u) => result[u] = "Waiting"
                           /\ a # EventWord => queue[a] = <<>>
    BY ZenonT(60) DEF IInv, Sleeping
  <2>4. ASSUME NEW a \in Address
        PROVE  /\ Distinct(queue[a])' /\ \A u \in Thread : Contains(queue[a], u)' => result'[u] = "Waiting"
               /\ a # EventWord => queue'[a] = <<>>
    <3>1. queue'[a] = queue[a]
      BY Zenon, <2>2
    <3>2. Distinct(queue[a]') /\ \A u \in Thread : Contains(queue[a]', u) => result'[u] = "Waiting"
      BY ZenonT(60), <1>0, <2>1, <2>3, <3>1 DEF Local
    <3> QED BY ZenonT(60), <2>3, <3>1, <3>2 DEF Distinct, Contains
  <2>5. \A u \in Thread : result'[u] = "Waiting" => pc'[u] = "waitReturn"
    BY ZenonT(60), <1>0, <2>1 DEF IInv, Sleeping, Local
  <2>6. \A u \in timer' : u \in timed' /\ result'[u] = "Waiting"
    BY <1>0, <2>1, <2>2 DEF IInv, Sleeping, Local, TypeOK, ArbiterTypeOK
  <2> QED BY ZenonT(60), <2>4, <2>5, <2>6 DEF Sleeping
<1>3. SleepersAnnounced'
  BY ZenonT(60) DEF IInv, SleepersAnnounced, Quiet
<1>4. Overlapping'
  BY ZenonT(60), OverlapKeeps
<1>5. LookedAt'
  <2>1. autoClear' = autoClear /\ (state = Waiter => state' = Waiter)
    BY ZenonT(60) DEF Quiet
  <2> QED BY ZenonT(60), <1>0, <2>1, LookedKeeps
<1> QED BY ZenonT(60), <1>1, <1>2, <1>3, <1>4, <1>5 DEF IInv

Timing(t) == timed' \in {timed, timed \cup {t}, timed \ {t}}

LEMMA QuietCode ==
    ASSUME TypeOK, NEW t \in Thread, Running(t), UNCHANGED arbiterVars, autoClear' = autoClear,
           NEW l \in Labels, Goto(t, l), Timing(t)
    PROVE  Quiet(t) /\ pc'[t] = l /\ result'[t] = result[t] /\ state' = state
<1>1. result[t] \in Results \ {"Waiting"} /\ result' = [result EXCEPT ![t] = result[t]]
  BY DEF arbiterVars, Running, TypeOK, ArbiterTypeOK, Results
<1>2. word' \in [Address -> Word] /\ state' = state /\ UNCHANGED <<queue, priority, timer, result>>
  BY DEF arbiterVars, TypeOK, ArbiterTypeOK, state
<1>3. pc' = [pc EXCEPT ![t] = l] /\ pc'[t] = l
  BY DEF Goto, TypeOK
<1> QED BY ZenonT(60), <1>1, <1>2, <1>3 DEF Quiet, Timing

LEMMA QuietAnswer ==
    ASSUME TypeOK, NEW t \in Thread, Running(t), NEW r \in Results \ {"Waiting"}, Answer(t, r),
           autoClear' = autoClear, NEW l \in Labels, Goto(t, l), Timing(t)
    PROVE  Quiet(t) /\ pc'[t] = l /\ result'[t] = r /\ state' = state
<1>1. result' = [result EXCEPT ![t] = r] /\ UNCHANGED <<word, queue, priority, timer>>
  BY ZenonT(60) DEF Answer
<1>2. word' \in [Address -> Word] /\ state' = state /\ result'[t] = r
  BY <1>1 DEF TypeOK, ArbiterTypeOK, state
<1>3. pc' = [pc EXCEPT ![t] = l] /\ pc'[t] = l
  BY DEF Goto, TypeOK
<1> QED BY ZenonT(60), <1>1, <1>2, <1>3 DEF Quiet, Timing

LEMMA QuietStore ==
    ASSUME TypeOK, NEW t \in Thread, Running(t), autoClear' = autoClear,
           UNCHANGED <<queue, priority, timer, result>>,
           NEW v \in {NoWaiter, Waiter, Signaled}, word' = [word EXCEPT ![EventWord] = v], state # Waiter,
           NEW l \in Labels, Goto(t, l), Timing(t)
    PROVE  Quiet(t) /\ pc'[t] = l /\ result'[t] = result[t] /\ state' = v
<1>1. result[t] \in Results \ {"Waiting"} /\ result' = [result EXCEPT ![t] = result[t]]
  BY DEF Running, TypeOK, ArbiterTypeOK, Results
<1>2. word' \in [Address -> Word] /\ state' = v
  BY EventAssumption, AddressAssumption, WordAssumption
  DEF TypeOK, ArbiterTypeOK, state, NoWaiter, Waiter, Signaled, Word
<1>3. pc' = [pc EXCEPT ![t] = l] /\ pc'[t] = l
  BY DEF Goto, TypeOK
<1> QED BY ZenonT(60), <1>1, <1>2, <1>3 DEF Quiet, Timing

\* What a step is to the users of the event.
Maps == E!EventNext \/ UNCHANGED E!eventVars

LEMMA QuietStutters ==
    ASSUME IInv, Track, NEW t \in Thread, Quiet(t), Looked(t), Call(t)' = Call(t),
           (state = Signaled)' = (state = Signaled)
    PROVE  IInv' /\ Maps
<1>1. TypeOK /\ autoClear' = autoClear
  BY ZenonT(60) DEF IInv, Quiet
<1>2. \A u \in Thread : Call(u)' = Call(u)
  BY ZenonT(60), <1>1, QuietLocal, LocalCalls
<1>3. UNCHANGED E!eventVars
  BY ZenonT(60), <1>1, <1>2, StutterMaps
<1>4. IInv'
  BY ZenonT(60), QuietKeeps
<1> QED BY ZenonT(60), <1>3, <1>4 DEF Maps

LEMMA QuietMaps ==
    ASSUME IInv, Track, NEW t \in Thread, Quiet(t), Looked(t)
    PROVE  IInv' /\ E!Step(t, Call(t)', {})
<1>1. TypeOK /\ autoClear' = autoClear
  BY ZenonT(60) DEF IInv, Quiet
<1>2. \A u \in Thread : u # t => Call(u)' = Call(u)
  BY ZenonT(60), <1>1, QuietLocal, LocalCalls
<1>3. \A u \in Thread : u # t => Call(u)' = IF u \in {} THEN "done" ELSE Call(u)
  BY ZenonT(60), <1>2
<1>4. E!Step(t, Call(t)', {})
  BY ZenonT(60), <1>1, <1>3, StepMaps
<1>5. IInv'
  BY ZenonT(60), QuietKeeps
<1> QED BY ZenonT(60), <1>4, <1>5

\* The call of a thread, as Event has it.
LEMMA CallIs ==
    ASSUME NEW t \in Thread
    PROVE  [u \in Thread |-> Call(u)][t] = Call(t)
  OBVIOUS

LEMMA BeginSignalKeeps ==
    ASSUME IInv, Track, NEW t \in Thread, BeginSignal(t)
    PROVE  IInv' /\ Maps
<1>1. /\ TypeOK /\ Running(t) /\ pc[t] = "idle" /\ Goto(t, "signalLoad") /\ UNCHANGED arbiterVars
      /\ autoClear' = autoClear /\ Timing(t) /\ "signalLoad" \in Labels
  BY ZenonT(60) DEF IInv, BeginSignal, At, Timing, Labels
<1>2. Quiet(t) /\ pc'[t] = "signalLoad" /\ result'[t] = result[t] /\ state' = state
  BY ZenonT(60), <1>1, QuietCode
<1>3. Looked(t)
  BY <1>2 DEF Looked
<1>4. Call(t) = "none" /\ Call(t)' = "signal"
  BY <1>1, <1>2, SeenIs DEF Call, Running
<1>5. IInv' /\ E!Step(t, Call(t)', {})
  BY ZenonT(60), <1>2, <1>3, QuietMaps
<1>6. E!Begin(t)
  BY ZenonT(60), <1>2, <1>4, <1>5, CallIs DEF E!Begin
<1> QED BY ZenonT(60), <1>5, <1>6 DEF Maps, E!EventNext

LEMMA SignalLoadKeeps ==
    ASSUME IInv, Track, NEW t \in Thread, SignalLoad(t)
    PROVE  IInv' /\ Maps
<1>1. /\ TypeOK /\ Running(t) /\ pc[t] = "signalLoad" /\ UNCHANGED arbiterVars
      /\ autoClear' = autoClear /\ Timing(t)
  BY ZenonT(60) DEF IInv, SignalLoad, At, Timing
<1>2. CASE Goto(t, "setSignaled") \/ Goto(t, "signalCall")
  <2>1. PICK l \in {"setSignaled", "signalCall"} : Goto(t, l)
    BY ZenonT(60), <1>2
  <2>2. l \in Labels
    BY DEF Labels
  <2>3. Quiet(t) /\ pc'[t] = l /\ result'[t] = result[t] /\ state' = state
    BY ZenonT(60), <1>1, <2>1, <2>2, QuietCode
  <2>4. Looked(t)
    BY <2>3 DEF Looked
  <2>5. Call(t)' = Call(t)
    BY <1>1, <2>3, SeenIs DEF Call, Running
  <2> QED BY ZenonT(60), <2>3, <2>4, <2>5, QuietStutters
<1>3. CASE state = Signaled /\ Goto(t, "idle")
  <2>1. "idle" \in Labels
    BY DEF Labels
  <2>2. Quiet(t) /\ pc'[t] = "idle" /\ result'[t] = result[t] /\ state' = state
    BY ZenonT(60), <1>1, <1>3, <2>1, QuietCode
  <2>3. Looked(t)
    BY <2>2 DEF Looked
  <2>4. Call(t) = "signal" /\ Call(t)' = "none"
    BY <1>1, <2>2, SeenIs DEF Call, Running
  <2>5. IInv' /\ E!Step(t, Call(t)', {})
    BY ZenonT(60), <2>2, <2>3, QuietMaps
  <2>6. E!Set(t)
    <3>1. {} \in SUBSET {u \in Thread : [v \in Thread |-> Call(v)][u] \in E!Waits /\ ~autoClear}
      OBVIOUS
    <3> QED BY ZenonT(60), <1>3, <2>2, <2>4, <2>5, <3>1, CallIs DEF E!Set
  <2> QED BY ZenonT(60), <2>5, <2>6 DEF Maps, E!EventNext
<1> QED BY ZenonT(60), <1>2, <1>3 DEF SignalLoad

LEMMA SetSignaledKeeps ==
    ASSUME IInv, Track, NEW t \in Thread, SetSignaled(t)
    PROVE  IInv' /\ Maps
<1>1. /\ TypeOK /\ Running(t) /\ pc[t] = "setSignaled" /\ UNCHANGED <<queue, priority, timer, result>>
      /\ autoClear' = autoClear /\ Timing(t) /\ "idle" \in Labels /\ "signalLoad" \in Labels
  BY ZenonT(60) DEF IInv, SetSignaled, At, Timing, CompareAndSwap, Labels
<1>2. CASE state = NoWaiter
  <2>1. word' = [word EXCEPT ![EventWord] = Signaled] /\ Goto(t, "idle")
    BY ZenonT(60), <1>2 DEF SetSignaled, CompareAndSwap
  <2>2. state # Waiter
    BY <1>2 DEF NoWaiter, Waiter
  <2>3. Quiet(t) /\ pc'[t] = "idle" /\ result'[t] = result[t] /\ state' = Signaled
    BY ZenonT(60), <1>1, <2>1, <2>2, QuietStore
  <2>4. Looked(t)
    BY <2>3 DEF Looked
  <2>5. Call(t) = "signal" /\ Call(t)' = "none"
    BY <1>1, <2>3, SeenIs DEF Call, Running
  <2>6. IInv' /\ E!Step(t, Call(t)', {})
    BY ZenonT(60), <2>3, <2>4, QuietMaps
  <2>7. E!Set(t)
    <3>1. {} \in SUBSET {u \in Thread : [v \in Thread |-> Call(v)][u] \in E!Waits /\ ~autoClear}
      OBVIOUS
    <3> QED BY ZenonT(60), <2>3, <2>5, <2>6, <3>1, CallIs DEF E!Set
  <2> QED BY ZenonT(60), <2>6, <2>7 DEF Maps, E!EventNext
<1>3. CASE state # NoWaiter
  <2>1. UNCHANGED arbiterVars /\ Goto(t, "signalLoad")
    BY ZenonT(60), <1>3 DEF SetSignaled, CompareAndSwap, arbiterVars
  <2>2. Quiet(t) /\ pc'[t] = "signalLoad" /\ result'[t] = result[t] /\ state' = state
    BY ZenonT(60), <1>1, <2>1, QuietCode
  <2>3. Looked(t)
    BY <2>2 DEF Looked
  <2>4. Call(t)' = Call(t)
    BY <1>1, <2>2, SeenIs DEF Call, Running
  <2> QED BY ZenonT(60), <2>2, <2>3, <2>4, QuietStutters
<1> QED BY <1>2, <1>3

LEMMA SignalReturnKeeps ==
    ASSUME IInv, Track, NEW t \in Thread, SignalReturn(t)
    PROVE  IInv' /\ Maps
<1>1. /\ TypeOK /\ Running(t) /\ pc[t] = "signalReturn" /\ Forget(t)
      /\ autoClear' = autoClear /\ Timing(t)
  BY ZenonT(60) DEF IInv, SignalReturn, At, Timing
<1>2. PICK l : l = IF result[t] = "InvalidState" THEN "signalLoad" ELSE "idle"
  BY Zenon
<1>3. l \in Labels /\ Goto(t, l) /\ "Success" \in Results \ {"Waiting"} /\ Answer(t, "Success")
  BY ZenonT(60), <1>1, <1>2 DEF Labels, SignalReturn, Forget, Results
<1>4. Quiet(t) /\ pc'[t] = l /\ result'[t] = "Success" /\ state' = state
  BY ZenonT(60), <1>1, <1>3, QuietAnswer
<1>5. Looked(t)
  BY <1>2, <1>4 DEF Looked
<1>6. Call(t)' = Call(t)
  BY <1>1, <1>2, <1>4, SeenIs DEF Call, Running
<1> QED BY ZenonT(60), <1>4, <1>5, <1>6, QuietStutters

LEMMA BeginWaitKeeps ==
    ASSUME IInv, Track, NEW t \in Thread, BeginWait(t)
    PROVE  IInv' /\ Maps
<1>1. /\ TypeOK /\ Running(t) /\ pc[t] = "idle" /\ Goto(t, "waitLoad") /\ UNCHANGED arbiterVars
      /\ autoClear' = autoClear /\ Timing(t) /\ "waitLoad" \in Labels /\ "waitLoad" \in InWait
  BY ZenonT(60) DEF IInv, BeginWait, At, Timing, Labels, InWait
<1>2. Quiet(t) /\ pc'[t] = "waitLoad" /\ result'[t] = result[t] /\ state' = state
  BY ZenonT(60), <1>1, QuietCode
<1>3. Looked(t)
  BY <1>2 DEF Looked
<1>4. Call(t) = "none" /\ Call(t)' \in {"wait", "timedWait"}
  BY <1>1, <1>2, SeenIs DEF Call, Running
<1>5. IInv' /\ E!Step(t, Call(t)', {})
  BY ZenonT(60), <1>2, <1>3, QuietMaps
<1>6. E!Begin(t)
  BY ZenonT(60), <1>2, <1>4, <1>5, CallIs DEF E!Begin, E!Waits
<1> QED BY ZenonT(60), <1>5, <1>6 DEF Maps, E!EventNext

\* What the users of the event see of the thread that moves, before and after.
LEMMA CallCases ==
    ASSUME NEW t \in Thread
    PROVE  /\ result[t] = "TerminationRequested" => Call(t) = "dead"
           /\ pc[t] \in InWait /\ result[t] # "TerminationRequested" =>
                Call(t) = IF t \in timed THEN "timedWait" ELSE "wait"
           /\ pc[t] = "waitReturn" /\ result[t] \in {"Waiting", "InvalidState"} =>
                Call(t) = IF t \in timed THEN "timedWait" ELSE "wait"
           /\ pc[t] = "waitReturn" /\ result[t] = "Success" => Call(t) = "done"
           /\ pc[t] = "waitReturn" /\ result[t] = "TimedOut" => Call(t) = "gaveUp"
  BY DEF Call, Seen, InWait, WaitResult

LEMMA CallNext ==
    ASSUME NEW t \in Thread
    PROVE  /\ result'[t] = "TerminationRequested" => Call(t)' = "dead"
           /\ pc'[t] \in InWait /\ result'[t] # "TerminationRequested" =>
                Call(t)' = IF t \in timed' THEN "timedWait" ELSE "wait"
           /\ pc'[t] = "waitReturn" /\ result'[t] \in {"Waiting", "InvalidState"} =>
                Call(t)' = IF t \in timed' THEN "timedWait" ELSE "wait"
           /\ pc'[t] = "waitReturn" /\ result'[t] = "Success" => Call(t)' = "done"
           /\ pc'[t] = "waitReturn" /\ result'[t] = "TimedOut" => Call(t)' = "gaveUp"
  BY DEF Call, Seen, InWait, WaitResult

LEMMA ReturnTimes ==
    ASSUME NEW t \in Thread, ReturnFromWait(t)
    PROVE  Goto(t, "idle") /\ Timing(t) /\ "idle" \in Labels
  BY ZenonT(60) DEF ReturnFromWait, Timing, Labels


LEMMA WaitStays ==
    ASSUME NEW t \in Thread, pc[t] \in InWait, pc'[t] \in InWait, result'[t] = result[t],
           result[t] # "TerminationRequested", timed' = timed
    PROVE  Call(t)' = Call(t)
<1>1. Call(t) = IF t \in timed THEN "timedWait" ELSE "wait"
  BY ZenonT(60), CallCases
<1>2. Call(t)' = IF t \in timed' THEN "timedWait" ELSE "wait"
  BY ZenonT(60), CallNext
<1> QED BY ZenonT(60), <1>1, <1>2

LEMMA WaitLoadKeeps ==
    ASSUME IInv, Track, NEW t \in Thread, WaitLoad(t)
    PROVE  IInv' /\ Maps
<1>1. /\ TypeOK /\ Running(t) /\ pc[t] = "waitLoad" /\ UNCHANGED arbiterVars /\ autoClear' = autoClear
  BY ZenonT(60) DEF IInv, WaitLoad, At
<1>2. ASSUME NEW l \in {"setWaiter", "waitCall", "take"}, Goto(t, l), UNCHANGED timed,
             l = "take" => autoClear, l = "waitCall" => state = Waiter
      PROVE  IInv' /\ Maps
  <2>1. l \in Labels /\ l \in InWait /\ Timing(t)
    BY ZenonT(60), <1>2 DEF Labels, InWait, Timing
  <2>2. Quiet(t) /\ pc'[t] = l /\ result'[t] = result[t] /\ state' = state
    BY ZenonT(60), <1>1, <1>2, <2>1, QuietCode
  <2>3. Looked(t)
    BY <1>2, <2>2 DEF Looked
  <2>4. Call(t)' = Call(t)
    <3>1. "waitLoad" \in InWait /\ result[t] # "TerminationRequested"
      BY <1>1 DEF InWait, Running
    <3> QED BY ZenonT(60), <1>1, <1>2, <2>1, <2>2, <3>1, WaitStays
  <2> QED BY ZenonT(60), <2>2, <2>3, <2>4, QuietStutters
<1>3. CASE state = Signaled /\ ~autoClear /\ ReturnFromWait(t)
  <2>1. Quiet(t) /\ pc'[t] = "idle" /\ result'[t] = result[t] /\ state' = state
    BY ZenonT(60), <1>1, <1>3, ReturnTimes, QuietCode
  <2>2. Looked(t)
    BY <2>1 DEF Looked
  <2>3. Call(t) \in {"wait", "timedWait"} /\ Call(t)' = "none"
    BY <1>1, <2>1, SeenIs DEF Call, Running, InWait
  <2>4. IInv' /\ E!Step(t, Call(t)', {})
    BY ZenonT(60), <2>1, <2>2, QuietMaps
  <2>5. E!Take(t)
    BY ZenonT(60), <1>3, <2>1, <2>3, <2>4, CallIs DEF E!Take, E!Waits
  <2> QED BY ZenonT(60), <2>4, <2>5 DEF Maps, E!EventNext
<1>4. \/ Goto(t, "setWaiter") /\ UNCHANGED timed
      \/ state = Waiter /\ Goto(t, "waitCall") /\ UNCHANGED timed
      \/ autoClear /\ Goto(t, "take") /\ UNCHANGED timed
      \/ state = Signaled /\ ~autoClear /\ ReturnFromWait(t)
  BY ZenonT(60) DEF WaitLoad
<1> QED BY <1>2, <1>3, <1>4

LEMMA SetWaiterKeeps ==
    ASSUME IInv, Track, NEW t \in Thread, SetWaiter(t)
    PROVE  IInv' /\ Maps
<1>1. /\ TypeOK /\ Running(t) /\ pc[t] = "setWaiter" /\ UNCHANGED <<queue, priority, timer, result, timed>>
      /\ autoClear' = autoClear /\ Timing(t) /\ "waitCall" \in Labels /\ "waitLoad" \in Labels
  BY ZenonT(60) DEF IInv, SetWaiter, At, Timing, CompareAndSwap, Labels, InWait
<1>2. "setWaiter" \in InWait /\ "waitCall" \in InWait /\ "waitLoad" \in InWait
      /\ result[t] # "TerminationRequested"
  BY <1>1 DEF InWait, Running
<1>3. CASE state = NoWaiter
  <2>1. word' = [word EXCEPT ![EventWord] = Waiter] /\ Goto(t, "waitCall")
    BY ZenonT(60), <1>3 DEF SetWaiter, CompareAndSwap
  <2>2. state # Waiter /\ Waiter # Signaled /\ NoWaiter # Signaled
    BY <1>3 DEF NoWaiter, Waiter, Signaled
  <2>3. Quiet(t) /\ pc'[t] = "waitCall" /\ result'[t] = result[t] /\ state' = Waiter
    BY ZenonT(60), <1>1, <2>1, <2>2, QuietStore
  <2>4. Looked(t)
    BY <2>3 DEF Looked
  <2>5. Call(t)' = Call(t)
    BY ZenonT(60), <1>1, <1>2, <2>3, WaitStays
  <2> QED BY ZenonT(60), <1>3, <2>2, <2>3, <2>4, <2>5, QuietStutters
<1>4. CASE state # NoWaiter
  <2>1. UNCHANGED arbiterVars /\ Goto(t, "waitLoad")
    BY ZenonT(60), <1>4 DEF SetWaiter, CompareAndSwap, arbiterVars
  <2>2. Quiet(t) /\ pc'[t] = "waitLoad" /\ result'[t] = result[t] /\ state' = state
    BY ZenonT(60), <1>1, <2>1, QuietCode
  <2>3. Looked(t)
    BY <2>2 DEF Looked
  <2>4. Call(t)' = Call(t)
    BY ZenonT(60), <1>1, <1>2, <2>2, WaitStays
  <2> QED BY ZenonT(60), <2>2, <2>3, <2>4, QuietStutters
<1> QED BY <1>3, <1>4

LEMMA TakeKeeps ==
    ASSUME IInv, Track, NEW t \in Thread, Take(t)
    PROVE  IInv' /\ Maps
<1>1. /\ TypeOK /\ Running(t) /\ pc[t] = "take" /\ UNCHANGED <<queue, priority, timer, result>>
      /\ autoClear' = autoClear
  BY ZenonT(60) DEF IInv, Take, At
<1>2. autoClear /\ "take" \in InWait /\ "waitLoad" \in InWait /\ "waitLoad" \in Labels
      /\ result[t] # "TerminationRequested"
  BY <1>1 DEF IInv, LookedAt, InWait, Running, Labels
<1>3. CASE state = Signaled
  <2>1. word' = [word EXCEPT ![EventWord] = NoWaiter] /\ ReturnFromWait(t)
    BY ZenonT(60), <1>3 DEF Take
  <2>2. state # Waiter /\ NoWaiter # Signaled
    BY <1>3 DEF NoWaiter, Waiter, Signaled
  <2>3. Quiet(t) /\ pc'[t] = "idle" /\ result'[t] = result[t] /\ state' = NoWaiter
    BY ZenonT(60), <1>1, <2>1, <2>2, ReturnTimes, QuietStore
  <2>4. Looked(t)
    BY <2>3 DEF Looked
  <2>5. Call(t) \in {"wait", "timedWait"} /\ Call(t)' = "none"
    BY <1>1, <1>2, <2>3, SeenIs DEF Call
  <2>6. IInv' /\ E!Step(t, Call(t)', {})
    BY ZenonT(60), <2>3, <2>4, QuietMaps
  <2>7. E!Take(t)
    BY ZenonT(60), <1>2, <1>3, <2>2, <2>3, <2>5, <2>6, CallIs DEF E!Take, E!Waits
  <2> QED BY ZenonT(60), <2>6, <2>7 DEF Maps, E!EventNext
<1>4. CASE state # Signaled
  <2>1. UNCHANGED arbiterVars /\ Goto(t, "waitLoad") /\ UNCHANGED timed /\ Timing(t)
    BY ZenonT(60), <1>4 DEF Take, arbiterVars, Timing
  <2>2. Quiet(t) /\ pc'[t] = "waitLoad" /\ result'[t] = result[t] /\ state' = state
    BY ZenonT(60), <1>1, <1>2, <2>1, QuietCode
  <2>3. Looked(t)
    BY <2>2 DEF Looked
  <2>4. Call(t)' = Call(t)
    BY ZenonT(60), <1>1, <1>2, <2>1, <2>2, WaitStays
  <2> QED BY ZenonT(60), <2>2, <2>3, <2>4, QuietStutters
<1> QED BY <1>3, <1>4

LEMMA ClearKeeps ==
    ASSUME IInv, Track, NEW t \in Thread, Clear(t)
    PROVE  IInv' /\ Maps
<1>1. /\ TypeOK /\ Running(t) /\ pc[t] = "idle" /\ UNCHANGED <<queue, priority, timer, result>>
      /\ autoClear' = autoClear /\ Timing(t) /\ "idle" \in Labels
  BY ZenonT(60) DEF IInv, Clear, At, Timing, CompareAndSwap, Labels
<1>2. CASE state = Signaled
  <2>1. word' = [word EXCEPT ![EventWord] = NoWaiter] /\ Goto(t, "idle")
    BY ZenonT(60), <1>2 DEF Clear, CompareAndSwap
  <2>2. state # Waiter /\ NoWaiter # Signaled
    BY <1>2 DEF NoWaiter, Waiter, Signaled
  <2>3. Quiet(t) /\ pc'[t] = "idle" /\ result'[t] = result[t] /\ state' = NoWaiter
    BY ZenonT(60), <1>1, <2>1, <2>2, QuietStore
  <2>4. Looked(t)
    BY <2>3 DEF Looked
  <2>5. Call(t) = "none" /\ Call(t)' = "none"
    BY <1>1, <2>3, SeenIs DEF Call, Running
  <2>6. IInv' /\ E!Step(t, Call(t)', {})
    BY ZenonT(60), <2>3, <2>4, QuietMaps
  <2>7. E!Clear(t)
    BY ZenonT(60), <2>2, <2>3, <2>5, <2>6, CallIs DEF E!Clear
  <2> QED BY ZenonT(60), <2>6, <2>7 DEF Maps, E!EventNext
<1>3. CASE state # Signaled
  <2>1. UNCHANGED arbiterVars /\ Goto(t, "idle")
    BY ZenonT(60), <1>3 DEF Clear, CompareAndSwap, arbiterVars
  <2>2. Quiet(t) /\ pc'[t] = "idle" /\ result'[t] = result[t] /\ state' = state
    BY ZenonT(60), <1>1, <2>1, QuietCode
  <2>3. Looked(t)
    BY <2>2 DEF Looked
  <2>4. Call(t)' = Call(t)
    BY <1>1, <2>2, SeenIs DEF Call, Running
  <2> QED BY ZenonT(60), <2>2, <2>3, <2>4, QuietStutters
<1> QED BY <1>2, <1>3

LEMMA WaitReturnKeeps ==
    ASSUME IInv, Track, NEW t \in Thread, WaitReturn(t)
    PROVE  IInv' /\ Maps
<1>1. /\ TypeOK /\ Running(t) /\ pc[t] = "waitReturn" /\ Answer(t, "Success")
      /\ autoClear' = autoClear /\ "Success" \in Results \ {"Waiting"}
  BY ZenonT(60) DEF IInv, WaitReturn, At, Forget, Results
<1>2. CASE result[t] = "InvalidState" /\ autoClear
  <2>1. Goto(t, "waitLoad") /\ UNCHANGED timed /\ Timing(t) /\ "waitLoad" \in Labels
    BY ZenonT(60), <1>2 DEF WaitReturn, Timing, Labels, InWait
  <2>2. Quiet(t) /\ pc'[t] = "waitLoad" /\ result'[t] = "Success" /\ state' = state
    BY ZenonT(60), <1>1, <2>1, QuietAnswer
  <2>3. Looked(t)
    BY <2>2 DEF Looked
  <2>4. Call(t)' = Call(t)
    <3>1. "waitLoad" \in InWait /\ "Success" # "TerminationRequested"
      BY DEF InWait
    <3>2. Call(t) = IF t \in timed THEN "timedWait" ELSE "wait"
      BY ZenonT(60), <1>1, <1>2, CallCases
    <3>3. Call(t)' = IF t \in timed' THEN "timedWait" ELSE "wait"
      BY ZenonT(60), <2>2, <3>1, CallNext
    <3> QED BY ZenonT(60), <2>1, <3>2, <3>3
  <2> QED BY ZenonT(60), <2>2, <2>3, <2>4, QuietStutters
<1>3. CASE ~(result[t] = "InvalidState" /\ autoClear)
  <2>1. ReturnFromWait(t)
    BY ZenonT(60), <1>3 DEF WaitReturn
  <2>2. Quiet(t) /\ pc'[t] = "idle" /\ result'[t] = "Success" /\ state' = state
    BY ZenonT(60), <1>1, <2>1, ReturnTimes, QuietAnswer
  <2>3. Looked(t)
    BY <2>2 DEF Looked
  <2>4. Call(t)' = "none"
    BY <2>2, SeenIs DEF Call
  <2>5. IInv' /\ E!Step(t, Call(t)', {})
    BY ZenonT(60), <2>2, <2>3, QuietMaps
  <2>6. CASE result[t] = "InvalidState"
    <3>1. Call(t) \in {"wait", "timedWait"}
      BY <1>1, <2>6, SeenIs DEF Call
    <3>2. ~autoClear /\ t \in overlap
      BY ZenonT(60), <1>1, <1>3, <2>6 DEF IInv, LookedAt
    <3>3. E!Take(t)
      BY ZenonT(60), <2>2, <2>4, <2>5, <3>1, <3>2, CallIs DEF E!Take, E!Waits
    <3> QED BY ZenonT(60), <2>5, <3>3 DEF Maps, E!EventNext
  <2>7. CASE result[t] = "Success"
    <3>1. Call(t) = "done"
      BY <1>1, <2>7, SeenIs DEF Call
    <3>2. E!Leave(t)
      BY ZenonT(60), <2>2, <2>4, <2>5, <3>1, CallIs DEF E!Leave
    <3> QED BY ZenonT(60), <2>5, <3>2 DEF Maps, E!EventNext
  <2>8. CASE result[t] = "TimedOut"
    <3>1. Call(t) = "gaveUp"
      BY <1>1, <2>8, SeenIs DEF Call
    <3>2. E!Leave(t)
      BY ZenonT(60), <2>2, <2>4, <2>5, <3>1, CallIs DEF E!Leave
    <3> QED BY ZenonT(60), <2>5, <3>2 DEF Maps, E!EventNext
  <2>9. CASE result[t] = "InvalidCurrentMemory"
    <3>1. Call(t) = "none"
      BY <1>1, <2>9, SeenIs DEF Call
    <3> QED BY ZenonT(60), <2>2, <2>3, <2>4, <3>1, QuietStutters
  <2>10. result[t] \in {"InvalidState", "Success", "TimedOut", "InvalidCurrentMemory"}
    BY <1>1 DEF Running, TypeOK, ArbiterTypeOK
  <2> QED BY <2>6, <2>7, <2>8, <2>9, <2>10
<1> QED BY <1>2, <1>3

-----------------------------------------------------------------------------
(* Steps that change the queues for thread t only.                         *)

Queueing(t) ==
    /\ UNCHANGED <<word, autoClear>>
    /\ queue' \in [Address -> Seq(Thread)] /\ priority' \in [Thread -> Priority]
    /\ result' \in [Thread -> Results] /\ pc' \in [Thread -> Labels]
    /\ timer' \subseteq Thread /\ timed' \subseteq Thread
    /\ \A a \in Address :
         /\ Distinct(queue'[a])
         /\ \A u \in Thread : Contains(queue'[a], u) =>
              IF u = t THEN result'[t] = "Waiting" ELSE Contains(queue[a], u)
         /\ a # EventWord => queue'[a] = <<>>
    /\ result'[t] = "Waiting" => pc'[t] = "waitReturn"
    /\ \A u \in timer' : IF u = t THEN t \in timed' /\ result'[t] = "Waiting" ELSE u \in timer
    /\ queue'[EventWord] # <<>> => state = Waiter

LEMMA QueueingKeeps ==
    ASSUME IInv, Track, NEW t \in Thread, Queueing(t), Local(t), LookedAt'
    PROVE  IInv'
<1>1. /\ UNCHANGED <<word, autoClear>>
      /\ queue' \in [Address -> Seq(Thread)] /\ priority' \in [Thread -> Priority]
      /\ result' \in [Thread -> Results] /\ pc' \in [Thread -> Labels]
      /\ timer' \subseteq Thread /\ timed' \subseteq Thread
  BY ZenonT(60) DEF Queueing
<1>2. state' = state
  BY ZenonT(60), <1>1 DEF state
<1>3. TypeOK'
  <2>1. overlap' \subseteq Thread
    BY DEF Track
  <2>2. word' \in [Address -> Word] /\ autoClear' \in BOOLEAN
    BY ZenonT(60), <1>1 DEF IInv, TypeOK, ArbiterTypeOK
  <2> QED BY ZenonT(60), <1>1, <2>1, <2>2 DEF TypeOK, ArbiterTypeOK, Labels, Results
<1>4. Sleeping'
  <2>1. ASSUME NEW a \in Address
        PROVE  /\ Distinct(queue[a])' /\ \A u \in Thread : Contains(queue[a], u)' => result'[u] = "Waiting"
               /\ a # EventWord => queue'[a] = <<>>
    <3>1. /\ Distinct(queue'[a])
          /\ \A u \in Thread : Contains(queue'[a], u) =>
               IF u = t THEN result'[t] = "Waiting" ELSE Contains(queue[a], u)
          /\ a # EventWord => queue'[a] = <<>>
      BY ZenonT(60) DEF Queueing
    <3>2. \A u \in Thread : Contains(queue[a], u) => result[u] = "Waiting"
      BY ZenonT(60) DEF IInv, Sleeping
    <3>3. \A u \in Thread : Contains(queue'[a], u) => result'[u] = "Waiting"
      BY ZenonT(60), <3>1, <3>2 DEF Local
    <3> QED BY ZenonT(60), <3>1, <3>3 DEF Distinct, Contains
  <2>2. \A u \in Thread : result'[u] = "Waiting" => pc'[u] = "waitReturn"
    BY ZenonT(60) DEF IInv, Sleeping, Local, Queueing
  <2>3. \A u \in timer' : u \in timed' /\ result'[u] = "Waiting"
    <3>1. \A u \in timer' : IF u = t THEN t \in timed' /\ result'[t] = "Waiting" ELSE u \in timer
      BY ZenonT(60) DEF Queueing
    <3>2. \A u \in timer : u \in timed /\ result[u] = "Waiting"
      BY ZenonT(60) DEF IInv, Sleeping
    <3> QED BY <1>1, <3>1, <3>2 DEF Local
  <2> QED BY ZenonT(60), <2>1, <2>2, <2>3 DEF Sleeping
<1>5. SleepersAnnounced'
  BY ZenonT(60), <1>2 DEF SleepersAnnounced, Queueing
<1> QED BY ZenonT(60), <1>3, <1>4, <1>5, OverlapKeeps DEF IInv

\* Thread t goes to sleep.
LEMMA SleepKeeps ==
    ASSUME IInv, Track, NEW t \in Thread, Running(t), pc[t] = "waitCall", Goto(t, "waitReturn"),
           UNCHANGED <<word, autoClear, timed>>, state = Waiter,
           NEW timeout, timeout \in {"finite", "none"}, timeout = "finite" => t \in timed,
           Sleep(t, EventWord, timeout)
    PROVE  IInv' /\ Maps
<1>1. /\ queue \in [Address -> Seq(Thread)] /\ priority \in [Thread -> Priority] /\ timer \subseteq Thread
      /\ result \in [Thread -> Results] /\ pc \in [Thread -> Labels] /\ timed \subseteq Thread
  BY ZenonT(60) DEF IInv, TypeOK, ArbiterTypeOK, Results, Labels
<1>2. /\ queue' = [queue EXCEPT ![EventWord] = Insert(@, t, priority[t])]
      /\ timer' = IF timeout = "finite" THEN timer \cup {t} ELSE timer
      /\ result' = [result EXCEPT ![t] = "Waiting"]
      /\ priority' = priority
  BY DEF Sleep
<1>3. pc' = [pc EXCEPT ![t] = "waitReturn"]
  BY ZenonT(60) DEF Goto
<1>4. pc'[t] = "waitReturn" /\ result'[t] = "Waiting" /\ Local(t)
  BY <1>1, <1>2, <1>3 DEF Local
<1>5. EventWord \in Address
  BY EventAssumption, AddressAssumption
<1>6. ASSUME NEW a \in Address
      PROVE  /\ queue'[a] \in Seq(Thread) /\ Distinct(queue'[a])
             /\ \A u \in Thread : Contains(queue'[a], u) => Contains(queue[a], u) \/ u = t
             /\ a # EventWord => queue'[a] = <<>>
  <2>1. /\ queue[a] \in Seq(Thread) /\ Distinct(queue[a]) /\ ~Contains(queue[a], t)
        /\ a # EventWord => queue[a] = <<>>
    BY ZenonT(60), <1>1 DEF IInv, Sleeping, Running
  <2>2. queue'[a] = IF a = EventWord THEN Insert(queue[a], t, priority[t]) ELSE queue[a]
    BY <1>1, <1>2
  <2>3. /\ Insert(queue[a], t, priority[t]) \in Seq(Thread)
        /\ Distinct(Insert(queue[a], t, priority[t]))
        /\ \A u : Contains(Insert(queue[a], t, priority[t]), u) <=> Contains(queue[a], u) \/ u = t
    BY ZenonT(60), <2>1, InsertRight
  <2> QED BY ZenonT(60), <2>1, <2>2, <2>3
<1>7. Queueing(t)
  <2>1. queue' \in [Address -> Seq(Thread)]
    <3>r. PICK r : r = Insert(queue[EventWord], t, priority[t])
      BY Zenon
    <3>1. queue' = [queue EXCEPT ![EventWord] = r]
      BY ZenonT(60), <3>r, <1>2
    <3>2. queue'[EventWord] = r
      BY <1>1, <1>5, <3>1
    <3> QED BY ZenonT(60), <1>1, <1>5, <1>6, <3>1, <3>2, ExceptRight
  <2>2. /\ priority' \in [Thread -> Priority] /\ result' \in [Thread -> Results]
        /\ pc' \in [Thread -> Labels] /\ timer' \subseteq Thread /\ timed' \subseteq Thread
    BY <1>1, <1>2, <1>3 DEF Results, Labels
  <2>3. \A u \in timer' : IF u = t THEN t \in timed' /\ result'[t] = "Waiting" ELSE u \in timer
    <3>1. t \in timer => t \in timed
      BY ZenonT(60) DEF IInv, Sleeping
    <3> QED BY <1>2, <1>4, <3>1
  <2> QED BY ZenonT(60), <1>4, <1>6, <2>1, <2>2, <2>3 DEF Queueing
<1>8. LookedAt'
  <2>1. Looked(t)
    BY <1>4 DEF Looked
  <2>2. autoClear' = autoClear /\ (~autoClear /\ state = Waiter => state' \in {Waiter, Signaled})
    BY ZenonT(60) DEF state
  <2> QED BY ZenonT(60), <1>4, <2>1, <2>2, LookedKeeps
<1>9. Call(t)' = Call(t)
  <2>1. "waitCall" \in InWait /\ result[t] # "TerminationRequested"
    BY DEF InWait, Running
  <2>2. Call(t) = IF t \in timed THEN "timedWait" ELSE "wait"
    BY ZenonT(60), <2>1, CallCases
  <2>3. Call(t)' = IF t \in timed' THEN "timedWait" ELSE "wait"
    BY ZenonT(60), <1>4, CallNext
  <2> QED BY ZenonT(60), <2>2, <2>3
<1>10. UNCHANGED E!eventVars
  <2>1. \A u \in Thread : Call(u)' = Call(u)
    BY ZenonT(60), <1>4, <1>9, LocalCalls
  <2>2. (state = Signaled)' = (state = Signaled)
    BY ZenonT(60) DEF state
  <2> QED BY ZenonT(60), <2>1, <2>2, StutterMaps
<1> QED BY ZenonT(60), <1>4, <1>7, <1>8, <1>10, QueueingKeeps DEF Maps

LEMMA WaitCallKeeps ==
    ASSUME IInv, Track, NEW t \in Thread, WaitCall(t)
    PROVE  IInv' /\ Maps
<1>1. /\ TypeOK /\ Running(t) /\ pc[t] = "waitCall" /\ Goto(t, "waitReturn")
      /\ autoClear' = autoClear /\ timed' = timed /\ Timing(t) /\ "waitReturn" \in Labels
  BY ZenonT(60) DEF IInv, WaitCall, At, Timing, Labels
<1>2. PICK timeout : /\ timeout \in IF t \in timed THEN {"zero", "finite"} ELSE {"none"}
                     /\ WaitIfEqual(t, EventWord, Waiter, timeout)
  BY ZenonT(60) DEF WaitCall
<1>3. Call(t) = IF t \in timed THEN "timedWait" ELSE "wait"
  <2>1. "waitCall" \in InWait /\ result[t] # "TerminationRequested"
    BY <1>1 DEF InWait, Running
  <2> QED BY ZenonT(60), <1>1, <2>1, CallCases
<1>4. CASE state # Waiter /\ Answer(t, "InvalidState")
  <2>0. "InvalidState" \in Results \ {"Waiting"}
    BY DEF Results
  <2>1. Quiet(t) /\ pc'[t] = "waitReturn" /\ result'[t] = "InvalidState" /\ state' = state
    BY ZenonT(60), <1>1, <1>4, <2>0, QuietAnswer
  <2>2. Call(t)' = IF t \in timed' THEN "timedWait" ELSE "wait"
    BY ZenonT(60), <2>1, CallNext
  <2>3. Looked(t)
    <3>1. ~autoClear => t \in overlap
      BY ZenonT(60), <1>1, <1>4 DEF IInv, LookedAt, Running
    <3>2. Call(t)' \in {"wait", "timedWait"}
      BY ZenonT(60), <2>2
    <3>3. ~autoClear => t \in overlap'
      BY <3>1, <3>2 DEF Track
    <3> QED BY <2>1, <3>3 DEF Looked
  <2> QED BY ZenonT(60), <1>1, <1>3, <2>1, <2>2, <2>3, QuietStutters
<1>5. CASE state = Waiter /\ Sleep(t, EventWord, timeout) /\ word' = word
  <2>1. CASE timeout = "zero"
    <3>1. t \in timed
      BY <1>2, <2>1
    <3>2. Answer(t, "TimedOut") /\ "TimedOut" \in Results \ {"Waiting"}
      BY ZenonT(60), <1>5, <2>1 DEF Sleep, Answer, Results
    <3>3. Quiet(t) /\ pc'[t] = "waitReturn" /\ result'[t] = "TimedOut" /\ state' = state
      BY ZenonT(60), <1>1, <3>2, QuietAnswer
    <3>4. Looked(t)
      BY <3>3 DEF Looked
    <3>5. Call(t) = "timedWait" /\ Call(t)' = "gaveUp"
      BY ZenonT(60), <1>3, <3>1, <3>3, CallNext
    <3>6. IInv' /\ E!Step(t, Call(t)', {})
      BY ZenonT(60), <3>3, <3>4, QuietMaps
    <3>7. E!GiveUp(t)
      BY ZenonT(60), <3>3, <3>5, <3>6, CallIs DEF E!GiveUp
    <3> QED BY ZenonT(60), <3>6, <3>7 DEF Maps, E!EventNext
  <2>2. CASE timeout # "zero"
    <3>1. timeout \in {"finite", "none"} /\ (timeout = "finite" => t \in timed)
      BY <1>2, <2>2
    <3> QED BY ZenonT(60), <1>1, <1>5, <3>1, SleepKeeps
  <2> QED BY <2>1, <2>2
<1> QED BY ZenonT(60), <1>2, <1>4, <1>5, EventAssumption DEF WaitIfEqual, state

\* Thread t leaves the queues.
LEMMA CancelKeeps ==
    ASSUME IInv, Track, NEW t \in Thread, NEW r \in Results \ {"Waiting"}, CancelWait(t, r),
           autoClear' = autoClear, NEW l \in Labels, Goto(t, l), timed' \in {timed, timed \ {t}},
           l # "take", l # "waitCall", r # "InvalidState"
    PROVE  /\ IInv' /\ E!Step(t, Call(t)', {}) /\ state' = state
           /\ pc'[t] = l /\ result'[t] = r
<1>1. /\ queue \in [Address -> Seq(Thread)] /\ priority \in [Thread -> Priority] /\ timer \subseteq Thread
      /\ result \in [Thread -> Results] /\ pc \in [Thread -> Labels] /\ timed \subseteq Thread
  BY ZenonT(60) DEF IInv, TypeOK, ArbiterTypeOK, Results, Labels
<1>2. /\ queue' = [a \in Address |-> Erase(queue[a], t)]
      /\ timer' = timer \ {t}
      /\ result' = [result EXCEPT ![t] = r]
      /\ word' = word /\ priority' = priority
  BY ZenonT(60) DEF CancelWait
<1>3. pc' = [pc EXCEPT ![t] = l]
  BY ZenonT(60) DEF Goto
<1>4. pc'[t] = l /\ result'[t] = r /\ Local(t)
  BY <1>1, <1>2, <1>3 DEF Local
<1>5. ASSUME NEW a \in Address
      PROVE  /\ queue'[a] \in Seq(Thread) /\ Distinct(queue'[a])
             /\ \A u : Contains(queue'[a], u) <=> Contains(queue[a], u) /\ u # t
             /\ queue[a] = <<>> => queue'[a] = <<>>
             /\ a # EventWord => queue'[a] = <<>>
  <2>1. queue[a] \in Seq(Thread) /\ Distinct(queue[a]) /\ (a # EventWord => queue[a] = <<>>)
    BY ZenonT(60), <1>1 DEF IInv, Sleeping
  <2>2. queue'[a] = Erase(queue[a], t)
    BY ZenonT(60), <1>2
  <2>3. /\ Erase(queue[a], t) \in Seq(Thread) /\ Distinct(Erase(queue[a], t))
        /\ \A u : Contains(Erase(queue[a], t), u) <=> Contains(queue[a], u) /\ u # t
    BY ZenonT(60), <2>1, EraseRight
  <2> QED BY ZenonT(60), <2>1, <2>2, <2>3, EmptyRight
<1>6. queue'[EventWord] # <<>> => state = Waiter
  <2>1. EventWord \in Address
    BY EventAssumption, AddressAssumption
  <2>2. queue[EventWord] = <<>> => queue'[EventWord] = <<>>
    BY ZenonT(60), <1>5, <2>1
  <2> QED BY ZenonT(60), <2>2 DEF IInv, SleepersAnnounced
<1>7. Queueing(t)
  <2>1. queue' \in [Address -> Seq(Thread)]
    <3>1. queue' = [a \in Address |-> queue'[a]]
      BY <1>2
    <3> QED BY ZenonT(60), <1>5, <3>1
  <2>2. /\ priority' \in [Thread -> Priority] /\ result' \in [Thread -> Results]
        /\ pc' \in [Thread -> Labels] /\ timer' \subseteq Thread /\ timed' \subseteq Thread
    BY <1>1, <1>2, <1>3
  <2>3. \A u \in timer' : u # t /\ u \in timer
    BY ZenonT(60), <1>2
  <2> QED BY ZenonT(60), <1>2, <1>4, <1>5, <1>6, <2>1, <2>2, <2>3 DEF Queueing
<1>8. LookedAt'
  <2>1. Looked(t)
    BY <1>4 DEF Looked
  <2>2. ~autoClear /\ state = Waiter => state' \in {Waiter, Signaled}
    BY ZenonT(60), <1>2 DEF state
  <2> QED BY ZenonT(60), <1>4, <2>1, <2>2, LookedKeeps
<1>9. E!Step(t, Call(t)', {})
  <2>1. \A u \in Thread : u # t => Call(u)' = IF u \in {} THEN "done" ELSE Call(u)
    BY ZenonT(60), <1>4, LocalCalls
  <2> QED BY ZenonT(60), <2>1, StepMaps
<1>10. state' = state
  BY ZenonT(60), <1>2 DEF state
<1> QED BY ZenonT(60), <1>4, <1>7, <1>8, <1>9, <1>10, QueueingKeeps

LEMMA TimeOutKeeps ==
    ASSUME IInv, Track, NEW t \in Thread, TimeOut(t), UNCHANGED codeVars
    PROVE  IInv' /\ Maps
<1>1. CancelWait(t, "TimedOut") /\ autoClear' = autoClear /\ timed' = timed /\ pc' = pc
  BY ZenonT(60) DEF TimeOut, codeVars
<1>2. t \in timed /\ result[t] = "Waiting" /\ pc[t] = "waitReturn"
  BY ZenonT(60) DEF IInv, Sleeping, TimeOut
<1>3. "TimedOut" \in Results \ {"Waiting"} /\ "waitReturn" \in Labels
  BY DEF Results, Labels
<1>4. Goto(t, "waitReturn")
  BY <1>1, <1>2 DEF Goto, IInv, TypeOK
<1>5. /\ IInv' /\ E!Step(t, Call(t)', {}) /\ state' = state
      /\ pc'[t] = "waitReturn" /\ result'[t] = "TimedOut"
  <2>1. "waitReturn" # "take" /\ "waitReturn" # "waitCall" /\ "TimedOut" # "InvalidState"
    OBVIOUS
  <2> QED BY ZenonT(60), <1>1, <1>3, <1>4, <2>1, CancelKeeps
<1>6. Call(t) = "timedWait" /\ Call(t)' = "gaveUp"
  BY ZenonT(60), <1>2, <1>5, CallCases, CallNext
<1>7. E!GiveUp(t)
  BY ZenonT(60), <1>5, <1>6, CallIs DEF E!GiveUp
<1> QED BY ZenonT(60), <1>5, <1>7 DEF Maps, E!EventNext

LEMMA RequestTerminateKeeps ==
    ASSUME IInv, Track, NEW t \in Thread, RequestTerminate(t), ReturnFromWait(t), autoClear' = autoClear
    PROVE  IInv' /\ Maps
<1>1. /\ CancelWait(t, "TerminationRequested") /\ Goto(t, "idle") /\ timed' \in {timed, timed \ {t}}
      /\ "TerminationRequested" \in Results \ {"Waiting"} /\ "idle" \in Labels
  BY ZenonT(60) DEF RequestTerminate, ReturnFromWait, Results, Labels
<1>2. /\ IInv' /\ E!Step(t, Call(t)', {}) /\ state' = state
      /\ pc'[t] = "idle" /\ result'[t] = "TerminationRequested"
  <2>1. "idle" # "take" /\ "idle" # "waitCall" /\ "TerminationRequested" # "InvalidState"
    OBVIOUS
  <2> QED BY ZenonT(60), <1>1, <2>1, CancelKeeps
<1>3. Call(t)' = "dead"
  BY ZenonT(60), <1>2, CallNext
<1>4. E!End(t)
  BY ZenonT(60), <1>2, <1>3 DEF E!End
<1> QED BY ZenonT(60), <1>2, <1>4 DEF Maps, E!EventNext

LEMMA SetPriorityKeeps ==
    ASSUME IInv, Track, NEW t \in Thread, NEW p \in Priority, SetPriority(t, p), UNCHANGED codeVars
    PROVE  IInv' /\ Maps
<1>1. /\ queue \in [Address -> Seq(Thread)] /\ priority \in [Thread -> Priority] /\ timer \subseteq Thread
      /\ result \in [Thread -> Results] /\ pc \in [Thread -> Labels] /\ timed \subseteq Thread
  BY ZenonT(60) DEF IInv, TypeOK, ArbiterTypeOK, Results, Labels
<1>2. /\ queue' = [a \in Address |-> IF Contains(queue[a], t) THEN Insert(Erase(queue[a], t), t, p)
                                       ELSE queue[a]]
      /\ priority' = [priority EXCEPT ![t] = p]
      /\ UNCHANGED <<word, timer, result, pc, timed, autoClear>>
  BY ZenonT(60) DEF SetPriority, codeVars
<1>3. Local(t) /\ state' = state
  BY ZenonT(60), <1>2 DEF Local, state
<1>4. ASSUME NEW a \in Address
      PROVE  /\ queue'[a] \in Seq(Thread) /\ Distinct(queue'[a])
             /\ \A u : Contains(queue'[a], u) => Contains(queue[a], u)
             /\ queue[a] = <<>> => queue'[a] = <<>>
             /\ a # EventWord => queue'[a] = <<>>
  <2>1. queue[a] \in Seq(Thread) /\ Distinct(queue[a]) /\ (a # EventWord => queue[a] = <<>>)
    BY ZenonT(60), <1>1 DEF IInv, Sleeping
  <2>q. PICK q : q = Erase(queue[a], t)
    BY Zenon
  <2>2. q \in Seq(Thread) /\ Distinct(q) /\ \A u : Contains(q, u) <=> Contains(queue[a], u) /\ u # t
    BY ZenonT(60), <2>q, <2>1, EraseRight
  <2>3. ~Contains(q, t)
    BY ZenonT(60), <2>2
  <2>4. /\ Insert(q, t, p) \in Seq(Thread) /\ Distinct(Insert(q, t, p))
        /\ \A u : Contains(Insert(q, t, p), u) <=> Contains(q, u) \/ u = t
    BY ZenonT(60), <2>2, <2>3, InsertRight
  <2>5. queue'[a] = IF Contains(queue[a], t) THEN Insert(q, t, p) ELSE queue[a]
    BY ZenonT(60), <1>2, <2>q
  <2>6. queue[a] = <<>> => queue'[a] = <<>>
    BY ZenonT(60), <2>5, EmptyRight
  <2> QED BY ZenonT(60), <2>1, <2>2, <2>4, <2>5, <2>6
<1>5. queue'[EventWord] # <<>> => state = Waiter
  <2>1. EventWord \in Address
    BY EventAssumption, AddressAssumption
  <2> QED BY ZenonT(60), <1>4, <2>1 DEF IInv, SleepersAnnounced
<1>6. Queueing(t)
  <2>1. queue' \in [Address -> Seq(Thread)]
    <3>1. queue' = [a \in Address |-> queue'[a]]
      BY <1>2
    <3> QED BY ZenonT(60), <1>4, <3>1
  <2>2. priority' \in [Thread -> Priority]
    BY <1>1, <1>2
  <2>3. \A u \in Thread : /\ result[u] = "Waiting" => pc[u] = "waitReturn"
                          /\ \A a \in Address : Contains(queue[a], u) => result[u] = "Waiting"
    BY ZenonT(60) DEF IInv, Sleeping
  <2>4. \A u \in timer : u \in timed /\ result[u] = "Waiting"
    BY ZenonT(60) DEF IInv, Sleeping
  <2>5. \A a \in Address : /\ Distinct(queue'[a])
                           /\ \A u \in Thread : Contains(queue'[a], u) =>
                                IF u = t THEN result'[t] = "Waiting" ELSE Contains(queue[a], u)
                           /\ a # EventWord => queue'[a] = <<>>
    BY ZenonT(60), <1>2, <1>4, <2>3
  <2>6. \A u \in timer' : IF u = t THEN t \in timed' /\ result'[t] = "Waiting" ELSE u \in timer
    BY ZenonT(60), <1>2, <2>4
  <2> QED BY ZenonT(60), <1>1, <1>2, <1>5, <2>1, <2>2, <2>3, <2>5, <2>6 DEF Queueing
<1>7. \A u \in Thread : Call(u)' = Call(u)
  BY ZenonT(60), <1>2 DEF Call
<1>8. UNCHANGED E!eventVars
  BY ZenonT(60), <1>2, <1>3, <1>7, StutterMaps
<1>9. LookedAt'
  <2>1. ~autoClear /\ state = Waiter => state' \in {Waiter, Signaled}
    BY ZenonT(60), <1>3
  <2>2. \A u \in Thread : pc'[u] = pc[u] /\ result'[u] = result[u] /\ Call(u)' = Call(u)
    BY ZenonT(60), <1>2, <1>7
  <2>3. autoClear' = autoClear
    BY ZenonT(60), <1>2
  <2> QED BY ZenonT(60), <2>1, <2>2, <2>3, LookedStays DEF LookedAt
<1> QED BY ZenonT(60), <1>3, <1>6, <1>8, <1>9, QueueingKeeps DEF Maps

-----------------------------------------------------------------------------
(* The signal of a word that has waiters.                                  *)

\* Thread t stores v and wakes the first n of the queue, those in W.
Wake(t, n, v, W) ==
    /\ Running(t) /\ pc[t] = "signalCall" /\ Goto(t, "signalReturn")
    /\ autoClear' = autoClear /\ timed' = timed /\ priority' = priority
    /\ n \in 0..Len(queue[EventWord]) /\ W = {queue[EventWord][i] : i \in 1..n}
    /\ v \in Word /\ word' = [word EXCEPT ![EventWord] = v]
    /\ queue' = [queue EXCEPT ![EventWord] = SubSeq(@, n + 1, Len(@))]
    /\ timer' = timer \ W
    /\ result' = [u \in Thread |-> IF u = t \/ u \in W THEN "Success" ELSE result[u]]
    /\ v = Waiter \/ n = Len(queue[EventWord])
    /\ ~autoClear => v = Signaled

LEMMA WakeKeeps ==
    ASSUME IInv, Track, NEW t \in Thread, NEW n, NEW v, NEW W, Wake(t, n, v, W)
    PROVE  /\ IInv' /\ E!Step(t, "none", W) /\ state' = v /\ Call(t) = "signal"
           /\ W \subseteq {u \in Thread : Call(u) \in {"wait", "timedWait"}}
<1>1. /\ queue \in [Address -> Seq(Thread)] /\ priority \in [Thread -> Priority] /\ timer \subseteq Thread
      /\ result \in [Thread -> Results] /\ pc \in [Thread -> Labels] /\ timed \subseteq Thread
      /\ word \in [Address -> Word] /\ autoClear \in BOOLEAN
  BY ZenonT(60) DEF IInv, TypeOK, ArbiterTypeOK, Results, Labels
<1>2. /\ autoClear' = autoClear /\ timed' = timed /\ priority' = priority /\ timer' = timer \ W
      /\ pc' = [pc EXCEPT ![t] = "signalReturn"] /\ pc[t] = "signalCall"
      /\ result' = [u \in Thread |-> IF u = t \/ u \in W THEN "Success" ELSE result[u]]
      /\ result[t] # "Waiting" /\ result[t] # "TerminationRequested"
  BY ZenonT(60) DEF Wake, Goto, Running
<1>3. /\ n \in 0..Len(queue[EventWord]) /\ W = {queue[EventWord][i] : i \in 1..n}
      /\ v \in Word /\ word' = [word EXCEPT ![EventWord] = v]
      /\ queue' = [queue EXCEPT ![EventWord] = SubSeq(@, n + 1, Len(@))]
      /\ v = Waiter \/ n = Len(queue[EventWord])
      /\ ~autoClear => v = Signaled
  BY ZenonT(60) DEF Wake
<1>4. EventWord \in Address
  BY EventAssumption, AddressAssumption
<1>q. PICK q : q = queue[EventWord]
  BY Zenon
<1>r. PICK r : r = SubSeq(q, n + 1, Len(q))
  BY Zenon
<1>5. q \in Seq(Thread) /\ Distinct(q) /\ n \in 0..Len(q) /\ W = {q[i] : i \in 1..n}
  BY ZenonT(60), <1>q, <1>1, <1>3, <1>4 DEF IInv, Sleeping
<1>6. r \in Seq(Thread) /\ Len(r) = Len(q) - n /\ Distinct(r)
      /\ \A u : Contains(r, u) => Contains(q, u) /\ u \notin W
  BY ZenonT(60), <1>r, <1>5, DropRight
<1>7. \A u \in Thread : Contains(q, u) => result[u] = "Waiting" /\ pc[u] = "waitReturn"
  BY ZenonT(60), <1>q, <1>4 DEF IInv, Sleeping
<1>8. \A u \in W : u \in Thread /\ Contains(q, u)
  <2>1. \A i \in 1..n : i \in 1..Len(q) /\ q[i] \in Thread
    BY <1>5
  <2> QED BY ZenonT(60), <1>5, <2>1 DEF Contains
<1>9. \A u \in W : u \in Thread /\ u # t /\ result[u] = "Waiting" /\ pc[u] = "waitReturn"
  BY ZenonT(60), <1>2, <1>7, <1>8
<1>10. \A u \in Thread : /\ pc'[u] = IF u = t THEN "signalReturn" ELSE pc[u]
                         /\ result'[u] = IF u = t \/ u \in W THEN "Success" ELSE result[u]
  BY <1>1, <1>2
<1>11. state' = v /\ queue'[EventWord] = r /\ \A a \in Address : a # EventWord => queue'[a] = queue[a]
  BY <1>q, <1>r, <1>1, <1>3, <1>4 DEF state
<1>12. ASSUME NEW u \in Thread, u # t, u \notin W
       PROVE  pc'[u] = pc[u] /\ result'[u] = result[u] /\ Call(u)' = Call(u)
  BY ZenonT(60), <1>2, <1>10, <1>12 DEF Call
<1>13. ASSUME NEW u \in W
       PROVE  /\ pc'[u] = "waitReturn" /\ result'[u] = "Success"
              /\ Call(u) \in {"wait", "timedWait"} /\ Call(u)' = "done"
  <2>1. u \in Thread /\ u # t /\ result[u] = "Waiting" /\ pc[u] = "waitReturn"
    BY ZenonT(60), <1>9
  <2>2. pc'[u] = "waitReturn" /\ result'[u] = "Success"
    BY ZenonT(60), <1>10, <2>1
  <2> QED BY ZenonT(60), <2>1, <2>2, CallCases, CallNext
<1>14. pc'[t] = "signalReturn" /\ result'[t] = "Success" /\ Call(t) = "signal" /\ Call(t)' = "none"
  <2>1. pc'[t] = "signalReturn" /\ result'[t] = "Success"
    BY ZenonT(60), <1>10
  <2> QED BY <1>2, <2>1, SeenIs DEF Call
<1>15. TypeOK'
  <2>1. word' \in [Address -> Word] /\ autoClear' \in BOOLEAN
    BY ZenonT(60), <1>1, <1>2, <1>3, ExceptRight
  <2>2. queue' \in [Address -> Seq(Thread)]
    <3>1. queue' = [queue EXCEPT ![EventWord] = r]
      BY ZenonT(60), <1>q, <1>r, <1>3
    <3> QED BY ZenonT(60), <1>1, <1>6, <3>1, ExceptRight
  <2>3. pc' \in [Thread -> Labels] /\ result' \in [Thread -> Results]
    BY <1>1, <1>2 DEF Labels, Results
  <2>4. timer' \subseteq Thread /\ timed' \subseteq Thread /\ priority' \in [Thread -> Priority]
    BY ZenonT(60), <1>1, <1>2
  <2>5. overlap' \subseteq Thread
    BY DEF Track
  <2> QED BY ZenonT(60), <2>1, <2>2, <2>3, <2>4, <2>5 DEF TypeOK, ArbiterTypeOK, Labels, Results
<1>16. Sleeping'
  <2>1. ASSUME NEW a \in Address
        PROVE  /\ Distinct(queue[a])' /\ \A u \in Thread : Contains(queue[a], u)' => result'[u] = "Waiting"
               /\ a # EventWord => queue'[a] = <<>>
    <3>1. Distinct(queue[a]) /\ (a # EventWord => queue[a] = <<>>)
      BY ZenonT(60) DEF IInv, Sleeping
    <3>2. Distinct(queue'[a]) /\ \A u \in Thread : Contains(queue'[a], u) => u # t /\ u \notin W /\ result[u] = "Waiting"
      <4>1. CASE a = EventWord
        BY ZenonT(60), <4>1, <1>2, <1>6, <1>7, <1>11
      <4>2. CASE a # EventWord
        <5>1. queue'[a] = queue[a]
          BY ZenonT(60), <4>2, <1>11
        <5>2. \A u : ~Contains(queue[a], u)
          BY ZenonT(60), <4>2, <3>1, EmptyRight
        <5> QED BY ZenonT(60), <3>1, <5>1, <5>2
      <4> QED BY <4>1, <4>2
    <3>3. \A u \in Thread : Contains(queue'[a], u) => result'[u] = "Waiting"
      BY ZenonT(60), <1>10, <3>2
    <3> QED BY ZenonT(60), <1>11, <3>1, <3>2, <3>3 DEF Distinct, Contains
  <2>2. ASSUME NEW u \in Thread, result'[u] = "Waiting" PROVE pc'[u] = "waitReturn"
    <3>1. u # t /\ u \notin W
      BY <1>13, <1>14, <2>2
    <3> QED BY ZenonT(60), <1>12, <2>2, <3>1 DEF IInv, Sleeping
  <2>3. ASSUME NEW u \in timer' PROVE u \in timed' /\ result'[u] = "Waiting"
    <3>1. u \in timer /\ u \notin W /\ u \in Thread
      BY ZenonT(60), <1>1, <1>2
    <3>2. u \in timed /\ result[u] = "Waiting"
      BY ZenonT(60), <3>1 DEF IInv, Sleeping
    <3>3. u # t
      BY ZenonT(60), <1>2, <3>2
    <3> QED BY ZenonT(60), <1>2, <1>12, <3>1, <3>2, <3>3
  <2> QED BY ZenonT(60), <2>1, <2>2, <2>3 DEF Sleeping
<1>17. SleepersAnnounced'
  <2>1. n = Len(q) => r = <<>>
    BY <1>5, <1>6
  <2> QED BY ZenonT(60), <1>q, <1>3, <1>11, <2>1 DEF SleepersAnnounced
<1>18. LookedAt'
  <2>1. ~autoClear /\ state = Waiter => state' \in {Waiter, Signaled}
    BY ZenonT(60), <1>3, <1>11
  <2> SUFFICES ASSUME NEW u \in Thread
               PROVE  /\ pc'[u] = "take" => autoClear'
                      /\ ~autoClear' /\ pc'[u] = "waitCall" /\ result'[u] # "TerminationRequested" =>
                           state' = Waiter \/ u \in overlap'
                      /\ ~autoClear' /\ pc'[u] = "waitReturn" /\ result'[u] = "InvalidState" => u \in overlap'
    BY ZenonT(60) DEF LookedAt
  <2>2. CASE u = t
    BY <1>14, <2>2
  <2>3. CASE u \in W
    BY <1>13, <2>3
  <2>4. CASE u # t /\ u \notin W
    BY ZenonT(60), <1>2, <1>12, <2>1, <2>4, LookedStays
  <2> QED BY <2>2, <2>3, <2>4
<1>19. E!Step(t, Call(t)', W)
  <2>1. \A u \in Thread : u # t => Call(u)' = IF u \in W THEN "done" ELSE Call(u)
    BY ZenonT(60), <1>12, <1>13
  <2> QED BY ZenonT(60), <1>2, <2>1, StepMaps
<1>20. IInv'
  BY ZenonT(60), <1>15, <1>16, <1>17, <1>18, OverlapKeeps DEF IInv
<1> QED BY ZenonT(60), <1>9, <1>11, <1>13, <1>14, <1>19, <1>20

LEMMA SignalCallKeeps ==
    ASSUME IInv, Track, NEW t \in Thread, SignalCall(t)
    PROVE  IInv' /\ Maps
<1>1. /\ TypeOK /\ Running(t) /\ pc[t] = "signalCall" /\ Goto(t, "signalReturn")
      /\ autoClear' = autoClear /\ timed' = timed /\ Timing(t) /\ "signalReturn" \in Labels
  BY ZenonT(60) DEF IInv, SignalCall, At, Timing, Labels
<1>q. PICK q : q = queue[EventWord]
  BY Zenon
<1>2. q \in Seq(Thread) /\ Len(q) \in Nat /\ (q = <<>> <=> Len(q) = 0)
  <2>1. q \in Seq(Thread)
    BY <1>q, <1>1, EventAssumption, AddressAssumption DEF TypeOK, ArbiterTypeOK
  <2> QED BY <2>1
<1>3. CASE Answer(t, "InvalidState")
  <2>1. "InvalidState" \in Results \ {"Waiting"}
    BY DEF Results
  <2>2. Quiet(t) /\ pc'[t] = "signalReturn" /\ result'[t] = "InvalidState" /\ state' = state
    BY ZenonT(60), <1>1, <1>3, <2>1, QuietAnswer
  <2>3. Looked(t)
    BY <2>2 DEF Looked
  <2>4. Call(t)' = Call(t)
    BY <1>1, <2>2, SeenIs DEF Call, Running
  <2> QED BY ZenonT(60), <2>2, <2>3, <2>4, QuietStutters
<1>4. ASSUME NEW n, NEW m, NEW v, n = NumWoken(EventWord, m), n \in 0..Len(q), v \in Word,
             v = Waiter \/ n = Len(q), ~autoClear => v = Signaled,
             word' = [word EXCEPT ![EventWord] = v], EndWaits(t, EventWord, m)
      PROVE  Wake(t, n, v, {q[i] : i \in 1..n})
  BY ZenonT(60), <1>q, <1>1, <1>4 DEF Wake, EndWaits, Woken
<1>5. CASE autoClear
  <2>1. \/ Answer(t, "InvalidState")
        \/ /\ state = Waiter /\ EndWaits(t, EventWord, 1)
           /\ word' = [word EXCEPT ![EventWord] = NewValue(EventWord, Waiter, 1)]
    BY ZenonT(60), <1>5, EventAssumption
    DEF SignalCall, SignalAndModifyByWaitingCountIfEqual, UpdateAndSignal, state
  <2>n. PICK n : n = NumWoken(EventWord, 1)
    BY Zenon
  <2>v. PICK v : v = NewValue(EventWord, Waiter, 1)
    BY Zenon
  <2>2. n = IF 1 <= 0 \/ 1 > Len(q) THEN Len(q) ELSE 1
    BY ZenonT(60), <1>q, <2>n DEF NumWoken
  <2>f. PICK f : f = Followers(EventWord, 1)
    BY Zenon
  <2>3. f = IF Len(q) - 1 > 1 THEN 1 + 1 ELSE Len(q) - 1
    BY ZenonT(60), <1>q, <2>f DEF Followers
  <2>4. v = IF q = <<>> THEN Signaled ELSE IF 1 <= 0 THEN Wrap(Waiter - 2)
            ELSE IF f < 1 THEN NoWaiter ELSE Waiter
    BY ZenonT(60), <1>q, <2>f, <2>v, SmallWraps DEF NewValue
  <2>5. CASE /\ state = Waiter /\ EndWaits(t, EventWord, 1)
             /\ word' = [word EXCEPT ![EventWord] = v]
    <3>1. CASE q = <<>>
      <4>1. n = 0 /\ n \in 0..Len(q) /\ n = Len(q) /\ v = Signaled
        BY <1>2, <2>2, <2>4, <3>1
      <4>2. {q[i] : i \in 1..n} = {}
        BY <4>1
      <4>3. Wake(t, n, v, {q[i] : i \in 1..n})
        BY ZenonT(60), <1>4, <1>5, <2>n, <2>5, <4>1, SmallWraps
      <4>4. IInv' /\ E!Step(t, "none", {}) /\ state' = Signaled /\ Call(t) = "signal"
        BY ZenonT(60), <4>1, <4>2, <4>3, WakeKeeps
      <4>5. {} \in SUBSET {u \in Thread : [w \in Thread |-> Call(w)][u] \in E!Waits /\ ~autoClear}
        OBVIOUS
      <4>6. E!Set(t)
        BY ZenonT(60), <4>4, <4>5, CallIs DEF E!Set
      <4> QED BY ZenonT(60), <4>4, <4>6 DEF Maps, E!EventNext
    <3>2. CASE q # <<>>
      <4>1. n = 1 /\ n \in 0..Len(q) /\ v \in {NoWaiter, Waiter} /\ (v = Waiter \/ n = Len(q))
        <5>m. PICK m : m = Len(q)
          BY Zenon
        <5>1. /\ m \in Nat /\ m # 0 /\ f = IF m - 1 > 1 THEN 1 + 1 ELSE m - 1
              /\ n = IF 1 <= 0 \/ 1 > m THEN m ELSE 1
          BY ZenonT(60), <5>m, <1>2, <2>2, <2>3, <3>2
        <5>2. n = 1 /\ n \in 0..m /\ (~(f < 1) \/ n = m) /\ ~(1 <= 0)
          BY <5>1
        <5> QED BY ZenonT(60), <5>m, <5>2, <2>4, <3>2
      <4>2. {q[i] : i \in 1..n} = {q[1]}
        BY <4>1
      <4>3. Wake(t, n, v, {q[i] : i \in 1..n})
        BY ZenonT(60), <1>4, <1>5, <2>n, <2>5, <4>1, SmallWraps
      <4>4. /\ IInv' /\ E!Step(t, "none", {q[1]}) /\ state' = v /\ Call(t) = "signal"
            /\ {q[1]} \subseteq {u \in Thread : Call(u) \in {"wait", "timedWait"}}
        BY ZenonT(60), <4>2, <4>3, WakeKeeps
      <4>5. state # Signaled /\ state' # Signaled
        BY <2>5, <4>1, <4>4 DEF NoWaiter, Waiter, Signaled
      <4>6. q[1] \in Thread /\ Call(q[1]) \in {"wait", "timedWait"}
        BY ZenonT(60), <4>4
      <4>7. E!Pass(t)
        BY ZenonT(60), <1>5, <4>4, <4>5, <4>6, CallIs DEF E!Pass, E!Waits
      <4> QED BY ZenonT(60), <4>4, <4>7 DEF Maps, E!EventNext
    <3> QED BY <3>1, <3>2
  <2> QED BY ZenonT(60), <1>3, <2>v, <2>1, <2>5
<1>6. CASE ~autoClear
  <2>1. \/ Answer(t, "InvalidState")
        \/ /\ state = Waiter /\ EndWaits(t, EventWord, -1)
           /\ word' = [word EXCEPT ![EventWord] = Wrap(Waiter + 1)]
    BY ZenonT(60), <1>6, EventAssumption DEF SignalCall, SignalAndIncrementIfEqual, UpdateAndSignal, state
  <2>n. PICK n : n = NumWoken(EventWord, -1)
    BY Zenon
  <2>2. n = IF -1 <= 0 \/ -1 > Len(q) THEN Len(q) ELSE -1
    BY ZenonT(60), <1>q, <2>n DEF NumWoken
  <2>3. n \in 0..Len(q) /\ n = Len(q)
    BY <1>2, <2>2
  <2>4. CASE EndWaits(t, EventWord, -1) /\ word' = [word EXCEPT ![EventWord] = Signaled]
    <3>w. PICK W : W = {q[i] : i \in 1..n}
      BY Zenon
    <3>1. Wake(t, n, Signaled, W)
      BY ZenonT(60), <3>w, <1>4, <2>n, <2>3, <2>4, SmallWraps
    <3>2. /\ IInv' /\ E!Step(t, "none", W) /\ state' = Signaled /\ Call(t) = "signal"
          /\ W \subseteq {u \in Thread : Call(u) \in {"wait", "timedWait"}}
      BY ZenonT(60), <3>1, WakeKeeps
    <3>3. W \in SUBSET {u \in Thread : [w \in Thread |-> Call(w)][u] \in E!Waits /\ ~autoClear}
      BY ZenonT(60), <1>6, <3>2, CallIs DEF E!Waits
    <3>4. E!Set(t)
      BY ZenonT(60), <3>2, <3>3, CallIs DEF E!Set
    <3> QED BY ZenonT(60), <3>2, <3>4 DEF Maps, E!EventNext
  <2> QED BY ZenonT(60), <1>3, <2>1, <2>4, SmallWraps
<1> QED BY <1>5, <1>6

-----------------------------------------------------------------------------
(* The theorems.                                                           *)

LEMMA InitRight ==
    ASSUME Init PROVE IInv /\ E!EventInit
<1>1. /\ word \in [Address -> Value] /\ queue = [a \in Address |-> <<>>] /\ priority \in [Thread -> Priority]
      /\ timer = {} /\ result = [t \in Thread |-> "Success"] /\ autoClear \in BOOLEAN
      /\ pc = [t \in Thread |-> "idle"] /\ timed = {} /\ overlap = {}
  BY ZenonT(60) DEF Init, ArbiterInit
<1>2. TypeOK
  <2>1. word \in [Address -> Word]
    <3>1. Value \subseteq Word
      BY WordAssumption DEF Word
    <3>2. word \in [Address -> Value]
      BY ZenonT(60), <1>1
    <3> HIDE DEF Word
    <3> QED BY <3>1, <3>2
  <2>2. queue \in [Address -> Seq(Thread)]
    BY <1>1
  <2>3. result \in [Thread -> Results] /\ pc \in [Thread -> Labels]
    BY <1>1 DEF Results, Labels
  <2> QED BY <1>1, <2>1, <2>2, <2>3 DEF TypeOK, ArbiterTypeOK, Results, Labels
<1>3. \A t \in Thread : pc[t] = "idle" /\ result[t] = "Success" /\ Call(t) = "none"
  BY <1>1, SeenIs DEF Call
<1>4. \A a \in Address : queue[a] = <<>> /\ Distinct(<<>>)
  BY <1>1 DEF Distinct
<1>5. Sleeping
  BY ZenonT(60), <1>1, <1>3, <1>4, EmptyRight DEF Sleeping
<1>6. SleepersAnnounced
  BY <1>4, EventAssumption, AddressAssumption DEF SleepersAnnounced
<1>7. Overlapping /\ LookedAt
  BY <1>1, <1>3 DEF Overlapping, LookedAt
<1>8. E!EventInit
  <2>1. [t \in Thread |-> Call(t)] = [t \in Thread |-> "none"]
    BY ZenonT(60), <1>3
  <2>2. (state = Signaled) \in BOOLEAN
    OBVIOUS
  <2> QED BY ZenonT(60), <1>1, <2>1, <2>2 DEF E!EventInit
<1> QED BY ZenonT(60), <1>2, <1>5, <1>6, <1>7, <1>8 DEF IInv

LEMMA NextRight ==
    ASSUME IInv, [Next]_vars PROVE IInv' /\ Maps
<1>1. CASE Next
  <2>1. Track
    BY ZenonT(60), <1>1 DEF Next
  <2>2. PICK t \in Thread : BeginSignal(t) \/ SignalStep(t) \/ BeginWait(t) \/ WaitStep(t) \/ Clear(t) \/ Others(t)
    BY ZenonT(60), <1>1 DEF Next
  <2>3. CASE BeginSignal(t) \/ SignalStep(t)
    BY ZenonT(60), <2>1, <2>3, BeginSignalKeeps, SignalLoadKeeps, SetSignaledKeeps, SignalCallKeeps,
       SignalReturnKeeps DEF SignalStep
  <2>4. CASE BeginWait(t) \/ WaitStep(t)
    BY ZenonT(60), <2>1, <2>4, BeginWaitKeeps, WaitLoadKeeps, SetWaiterKeeps, WaitCallKeeps,
       WaitReturnKeeps, TakeKeeps DEF WaitStep
  <2>5. CASE Clear(t) \/ Others(t)
    BY ZenonT(60), <2>1, <2>5, ClearKeeps, TimeOutKeeps, SetPriorityKeeps, RequestTerminateKeeps DEF Others
  <2> QED BY <2>2, <2>3, <2>4, <2>5
<1>2. CASE UNCHANGED vars
  <2>1. /\ UNCHANGED <<word, queue, priority, timer, result>>
        /\ UNCHANGED <<autoClear, pc, timed, overlap>>
    BY ZenonT(60), <1>2 DEF vars
  <2>2. TypeOK' /\ SleepersAnnounced'
    BY ZenonT(60), <2>1 DEF IInv, TypeOK, ArbiterTypeOK, SleepersAnnounced, state
  <2>3. Sleeping'
    BY ZenonT(60), <2>1 DEF IInv, Sleeping, Distinct, Contains
  <2>4. \A t \in Thread : Call(t)' = Call(t)
    BY ZenonT(60), <2>1 DEF Call
  <2>5. Overlapping' /\ LookedAt'
    BY ZenonT(60), <2>1, <2>4 DEF IInv, Overlapping, LookedAt, state
  <2>6. UNCHANGED E!eventVars
    <3>1. [t \in Thread |-> Call(t)]' = [t \in Thread |-> Call(t)]
      BY ZenonT(60), <2>4
    <3> QED BY ZenonT(60), <2>1, <3>1 DEF E!eventVars, state
  <2> QED BY ZenonT(60), <2>2, <2>3, <2>5, <2>6 DEF IInv, Maps
<1> QED BY ZenonT(60), <1>1, <1>2

\* The code of the light event keeps the inductive invariant.
THEOREM Invariant == Spec => []IInv
  BY InitRight, NextRight, PTL DEF Spec

\* Every variable of the event and of the arbiter has its type.
THEOREM TypeCorrect == Spec => []TypeOK
<1>1. IInv => TypeOK
  BY ZenonT(60) DEF IInv
<1> QED BY <1>1, Invariant, PTL

\* The word is 1 while threads sleep on the event: every Signal goes to the
\* kernel and finds them, through any interleaving of the loads, the
\* compare-and-swaps and the system calls.
THEOREM SleepersAreAnnounced == Spec => []SleepersAnnounced
<1>1. IInv => SleepersAnnounced
  BY ZenonT(60) DEF IInv
<1> QED BY <1>1, Invariant, PTL

\* What SignalAndModifyByWaitingCountIfEqual stores tells the waiters that are
\* left, for any number of waiters, any count and any value of the word's width.
THEOREM NewValueIsRight == Spec => []NewValueTells
<1>1. IInv => NewValueTells
  BY ZenonT(60), NewValueRight DEF IInv, TypeOK
<1> QED BY <1>1, Invariant, PTL

\* Signal, Wait, TimedWait and Clear of InternalLightEventImpl, over the address
\* arbiter, implement the event: a signal lets a wait through or leaves the
\* event signaled, and no wait returns without a signal.
THEOREM Refinement == Spec => ImplementsEvent
<1>1. Init => E!EventInit
  BY ZenonT(60), InitRight
<1>2. IInv /\ [Next]_vars => [E!EventNext]_E!eventVars
  BY ZenonT(60), NextRight DEF Maps
<1> QED BY <1>1, <1>2, Invariant, PTL DEF Spec, ImplementsEvent, E!EventSpec

=============================================================================
