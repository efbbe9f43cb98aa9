---------------------------- MODULE TaskTimerProofs ----------------------------
(***************************************************************************)
(* Theorems about TaskTimer, for any number of timers, dates, counts and   *)
(* intervals: its types, that timers fire neither early nor too often, that *)
(* every handler is closed exactly once, that without removals no dead node *)
(* is used although the timer thread inserts without the mutex, and that   *)
(* until an insertion overtakes it the list is sorted, its head fires      *)
(* first and the thread does not sleep past it.                            *)
(***************************************************************************)
EXTENDS TaskTimer, SequenceTheorems, WellFoundedInduction, TLAPS

-------------------------------------------------------------------------------
(* The invariant. *)

\* No element twice.
Distinct(s) == \A j, k \in DOMAIN s : s[j] = s[k] => j = k

Has(s, i) == \E k \in DOMAIN s : s[k] = i

\* The user has registered timer i and not yet put it into the list.
Coming(i) == upc \in {"search", "insert"} /\ i = registered

MutexInv == m_mutex <=> upc \in {"search", "insert", "signal"}

\* Where the timer thread is, seen from its list of timers to put back.
BackInv ==
  /\ tpc = "insert" => tmp_lst # << >>
  /\ tpc \notin {"process", "repush", "insert"} => tmp_lst = << >>
  /\ upc = "destroyed" => tpc \in {"leaving", "gone"} /\ m_lstHanders = << >>

\* A timer is in one place at most, and in none when it is closed.
PlaceInv ==
  /\ Distinct(m_lstHanders) /\ Distinct(tmp_lst)
  /\ \A i \in Timers : Has(m_lstHanders, i) => ~Has(tmp_lst, i)
  /\ \A i \in Timers :
       Has(m_lstHanders, i) \/ Has(tmp_lst, i) => i <= registered /\ closed[i] = 0 /\ ~Coming(i)
  /\ upc \in {"search", "insert"} => registered \in Timers /\ closed[registered] = 0
  /\ \A i \in Timers : closed[i] <= 1 /\ (i > registered => closed[i] = 0 /\ fired[i] = 0)

\* A timer is in no place only when it is closed.
NoneLost ==
  ~crashed \/ upc = "destroyed" =>
    \A i \in Timers :
      i <= registered =>
        closed[i] = 1 \/ Has(m_lstHanders, i) \/ Has(tmp_lst, i) \/ Coming(i)

\* Without removals an iterator stays good until it is used.
IteratorInv ==
  "cancel" \notin env =>
    /\ tpc = "insert" => titer \in {End, PushFront} \/ Has(m_lstHanders, titer)
    /\ upc = "insert" => uiter \in {End, PushFront} \/ Has(m_lstHanders, uiter)

\* What has been done of what was ordered.
OrderInv ==
  \A i \in Timers :
    i <= registered =>
      /\ fired[i] + mLeftCount[i] = asked[i]
      /\ fired[i] <= Calls(asked[i])
      /\ closed[i] = 0 => /\ fired[i] = 0 \/ mLeftCount[i] >= 1
                          /\ mExpire_Date[i] = first[i] + fired[i] * mInterval[i]
      /\ fired[i] > 0 => clock >= first[i] + (fired[i] - 1) * mInterval[i]

TimerInv ==
  TypeInv /\ MutexInv /\ BackInv /\ PlaceInv /\ NoneLost /\ IteratorInv /\ OrderInv /\ NeverUndefined

-------------------------------------------------------------------------------
(* Sequences. *)

LEMMA EmptyHas == Distinct(<< >>) /\ \A i : ~Has(<< >>, i)
BY DEF Distinct, Has

LEMMA HeadHas ==
  ASSUME NEW T, NEW s \in Seq(T), s # << >>
  PROVE  Has(s, Head(s)) /\ Head(s) \in T
BY DEF Has

LEMMA HasIn ==
  ASSUME NEW T, NEW s \in Seq(T), NEW i, Has(s, i)
  PROVE  i \in T
BY DEF Has

LEMMA AppendHas ==
  ASSUME NEW T, NEW s \in Seq(T), NEW i \in T
  PROVE  /\ Append(s, i) \in Seq(T)
         /\ \A j : Has(Append(s, i), j) <=> Has(s, j) \/ j = i
         /\ Distinct(s) /\ ~Has(s, i) => Distinct(Append(s, i))
<1>1. /\ Append(s, i) \in Seq(T) /\ Len(Append(s, i)) = Len(s) + 1
      /\ Append(s, i)[Len(s) + 1] = i /\ \A k \in 1 .. Len(s) : Append(s, i)[k] = s[k]
  OBVIOUS
<1>2. DOMAIN s = 1 .. Len(s) /\ DOMAIN Append(s, i) = 1 .. Len(s) + 1 /\ Len(s) \in Nat
  BY <1>1
<1> QED
  BY <1>1, <1>2 DEF Has, Distinct

LEMMA TailHas ==
  ASSUME NEW T, NEW s \in Seq(T), s # << >>, Distinct(s)
  PROVE  /\ Tail(s) \in Seq(T) /\ Distinct(Tail(s))
         /\ \A j : Has(Tail(s), j) <=> Has(s, j) /\ j # Head(s)
<1>1. /\ Tail(s) \in Seq(T) /\ Len(Tail(s)) = Len(s) - 1 /\ Len(s) \in Nat \ {0}
      /\ (\A k \in 1 .. Len(s) - 1 : Tail(s)[k] = s[k + 1]) /\ Head(s) = s[1]
  OBVIOUS
<1>2. DOMAIN s = 1 .. Len(s) /\ DOMAIN Tail(s) = 1 .. Len(s) - 1
  BY <1>1
<1>3. Distinct(Tail(s))
  BY <1>1, <1>2 DEF Distinct
<1>4. ASSUME NEW j, Has(Tail(s), j) PROVE Has(s, j) /\ j # Head(s)
  <2>1. PICK k \in 1 .. Len(s) - 1 : s[k + 1] = j
    BY <1>1, <1>2, <1>4 DEF Has
  <2> QED
    BY <1>1, <1>2, <2>1 DEF Has, Distinct
<1>5. ASSUME NEW j, Has(s, j), j # Head(s) PROVE Has(Tail(s), j)
  <2>1. PICK k \in 1 .. Len(s) : s[k] = j
    BY <1>2, <1>5 DEF Has
  <2>2. k - 1 \in 1 .. Len(s) - 1 /\ Tail(s)[k - 1] = j
    BY <1>1, <1>5, <2>1
  <2> QED
    BY <1>2, <2>2 DEF Has
<1> QED
  BY <1>1, <1>3, <1>4, <1>5

\* The elements of a sequence with i put before the k-th.
LEMMA InsertAtElements ==
  ASSUME NEW T, NEW s \in Seq(T), NEW i \in T, NEW k \in 1 .. Len(s)
  PROVE  /\ InsertAt(s, k, i) \in Seq(T) /\ Len(InsertAt(s, k, i)) = Len(s) + 1
         /\ \A n \in 1 .. Len(s) + 1 :
              InsertAt(s, k, i)[n] = IF n < k THEN s[n] ELSE IF n = k THEN i ELSE s[n - 1]
<1> DEFINE a == SubSeq(s, 1, k - 1)
           b == SubSeq(s, k, Len(s))
<1>1. a \in Seq(T) /\ Len(a) = k - 1 /\ \A n \in 1 .. k - 1 : a[n] = s[n]
  BY SubSeqProperties
<1>2. b \in Seq(T) /\ Len(b) = Len(s) - k + 1 /\ \A n \in 1 .. Len(s) - k + 1 : b[n] = s[k + n - 1]
  BY SubSeqProperties
<1>3. a \o << i >> \in Seq(T) /\ Len(a \o << i >>) = k
      /\ \A n \in 1 .. k : (a \o << i >>)[n] = IF n < k THEN s[n] ELSE i
  <2> HIDE DEF a
  <2>1. << i >> \in Seq(T) /\ Len(<< i >>) = 1 /\ << i >>[1] = i
    OBVIOUS
  <2>2. /\ a \o << i >> \in Seq(T) /\ Len(a \o << i >>) = Len(a) + 1
        /\ \A n \in 1 .. Len(a) + 1 : (a \o << i >>)[n] = IF n <= Len(a) THEN a[n] ELSE << i >>[n - Len(a)]
    BY <1>1, <2>1, ConcatProperties
  <2> QED
    BY <1>1, <2>1, <2>2
<1>4. InsertAt(s, k, i) = (a \o << i >>) \o b
  BY DEF InsertAt
<1> DEFINE c == a \o << i >>
<1> HIDE DEF a, b, c
<1>5. c \in Seq(T) /\ Len(c) = k /\ \A n \in 1 .. k : c[n] = IF n < k THEN s[n] ELSE i
  BY <1>3 DEF c
<1>6. /\ c \o b \in Seq(T) /\ Len(c \o b) = Len(c) + Len(b)
      /\ \A n \in 1 .. Len(c) + Len(b) : (c \o b)[n] = IF n <= Len(c) THEN c[n] ELSE b[n - Len(c)]
  BY <1>2, <1>5, ConcatProperties
<1>7. ASSUME NEW n \in 1 .. Len(s) + 1
      PROVE  (c \o b)[n] = IF n < k THEN s[n] ELSE IF n = k THEN i ELSE s[n - 1]
  <2> k \in Nat /\ Len(s) \in Nat /\ n \in Nat
    OBVIOUS
  <2>1. CASE n <= k
    BY <1>2, <1>5, <1>6, <2>1
  <2>2. CASE n > k
    <3>1. n - k \in 1 .. Len(s) - k + 1 /\ k + (n - k) - 1 = n - 1
      BY <2>2
    <3>2. b[n - k] = s[n - 1]
      BY <1>2, <3>1
    <3> QED
      BY <1>2, <1>5, <1>6, <2>2, <3>2
  <2>3. n <= k \/ n > k
    OBVIOUS
  <2> QED
    BY <2>1, <2>2, <2>3
<1>8. InsertAt(s, k, i) = c \o b
  BY <1>4 DEF c
<1>9. Len(c \o b) = Len(s) + 1
  BY <1>2, <1>5, <1>6
<1> QED
  BY <1>6, <1>7, <1>8, <1>9

LEMMA InsertAtHas ==
  ASSUME NEW T, NEW s \in Seq(T), NEW i \in T, NEW k \in 1 .. Len(s)
  PROVE  /\ InsertAt(s, k, i) \in Seq(T)
         /\ \A j : Has(InsertAt(s, k, i), j) <=> Has(s, j) \/ j = i
         /\ Distinct(s) /\ ~Has(s, i) => Distinct(InsertAt(s, k, i))
<1> DEFINE r == InsertAt(s, k, i)
<1>1. r \in Seq(T) /\ Len(r) = Len(s) + 1 /\ Len(s) \in Nat
      /\ \A n \in 1 .. Len(s) + 1 : r[n] = IF n < k THEN s[n] ELSE IF n = k THEN i ELSE s[n - 1]
  BY InsertAtElements
<1> HIDE DEF r
<1>2. DOMAIN s = 1 .. Len(s) /\ DOMAIN r = 1 .. Len(s) + 1
  BY <1>1
<1>3. ASSUME NEW j, Has(r, j) PROVE Has(s, j) \/ j = i
  <2>1. PICK n \in 1 .. Len(s) + 1 : r[n] = j
    BY <1>2, <1>3 DEF Has
  <2>2. CASE n < k
    BY <1>1, <1>2, <2>1, <2>2 DEF Has
  <2>3. CASE n = k
    BY <1>1, <2>1, <2>3
  <2>4. CASE n > k
    <3>1. n - 1 \in 1 .. Len(s) /\ s[n - 1] = j
      BY <1>1, <2>1, <2>4
    <3> QED
      BY <1>2, <3>1 DEF Has
  <2> QED
    BY <2>2, <2>3, <2>4
<1>4. ASSUME NEW j, Has(s, j) \/ j = i PROVE Has(r, j)
  <2>1. CASE j = i
    BY <1>1, <1>2, <2>1 DEF Has
  <2>2. CASE Has(s, j)
    <3>1. PICK n \in 1 .. Len(s) : s[n] = j
      BY <1>2, <2>2 DEF Has
    <3>2. CASE n < k
      BY <1>1, <1>2, <3>1, <3>2 DEF Has
    <3>3. CASE n >= k
      <4>1. n + 1 \in 1 .. Len(s) + 1 /\ r[n + 1] = s[n]
        BY <1>1, <3>3
      <4> QED
        BY <1>2, <3>1, <4>1 DEF Has
    <3> QED
      BY <3>2, <3>3
  <2> QED
    BY <1>4, <2>1, <2>2
<1>5. ASSUME Distinct(s), ~Has(s, i) PROVE Distinct(r)
  <2> SUFFICES ASSUME NEW m \in 1 .. Len(s) + 1, NEW n \in 1 .. Len(s) + 1, r[m] = r[n], m < n
               PROVE  FALSE
    BY <1>1, <1>2 DEF Distinct
  <2>1. \A p \in 1 .. Len(s) : s[p] # i
    BY <1>2, <1>5 DEF Has
  <2>2. \A p, q \in 1 .. Len(s) : s[p] = s[q] => p = q
    BY <1>2, <1>5 DEF Distinct
  <2>3. CASE n < k
    BY <1>1, <2>2, <2>3
  <2>4. CASE n = k
    BY <1>1, <2>1, <2>4
  <2>5. CASE m = k
    <3>1. n - 1 \in 1 .. Len(s) /\ r[n] = s[n - 1] /\ r[m] = i
      BY <1>1, <2>5
    <3> QED
      BY <2>1, <3>1
  <2>6. CASE m < k /\ n > k
    <3>1. n - 1 \in 1 .. Len(s) /\ m \in 1 .. Len(s) /\ r[n] = s[n - 1] /\ r[m] = s[m] /\ m # n - 1
      BY <1>1, <2>6
    <3> QED
      BY <2>2, <3>1
  <2>7. CASE m > k
    <3>1. n - 1 \in 1 .. Len(s) /\ m - 1 \in 1 .. Len(s) /\ r[n] = s[n - 1] /\ r[m] = s[m - 1]
          /\ m - 1 # n - 1
      BY <1>1, <2>7
    <3> QED
      BY <2>2, <3>1
  <2> QED
    BY <2>3, <2>4, <2>5, <2>6, <2>7
<1> QED
  BY <1>1, <1>3, <1>4, <1>5 DEF r

\* The elements of a sequence without the k-th.
LEMMA RemoveAtElements ==
  ASSUME NEW T, NEW s \in Seq(T), NEW k \in 1 .. Len(s)
  PROVE  /\ RemoveAt(s, k) \in Seq(T) /\ Len(RemoveAt(s, k)) = Len(s) - 1
         /\ \A n \in 1 .. Len(s) - 1 : RemoveAt(s, k)[n] = IF n < k THEN s[n] ELSE s[n + 1]
<1> DEFINE a == SubSeq(s, 1, k - 1)
           b == SubSeq(s, k + 1, Len(s))
           r == RemoveAt(s, k)
<1>1. a \in Seq(T) /\ Len(a) = k - 1 /\ \A n \in 1 .. k - 1 : a[n] = s[n]
  BY SubSeqProperties
<1>2. b \in Seq(T) /\ Len(b) = Len(s) - k /\ \A n \in 1 .. Len(s) - k : b[n] = s[k + n]
  BY SubSeqProperties
<1>3. r = a \o b
  BY DEF RemoveAt
<1> HIDE DEF a, b
<1>4. /\ a \o b \in Seq(T) /\ Len(a \o b) = Len(a) + Len(b)
      /\ \A n \in 1 .. Len(a) + Len(b) : (a \o b)[n] = IF n <= Len(a) THEN a[n] ELSE b[n - Len(a)]
  BY <1>1, <1>2, ConcatProperties
<1>5. ASSUME NEW n \in 1 .. Len(s) - 1, n >= k
      PROVE  n - (k - 1) \in 1 .. Len(s) - k /\ b[n - (k - 1)] = s[n + 1]
  <2>1. n - (k - 1) \in 1 .. Len(s) - k /\ k + (n - (k - 1)) = n + 1
    BY <1>5
  <2> QED
    BY <1>2, <2>1
<1> HIDE DEF r
<1>6. r \in Seq(T) /\ Len(r) = Len(s) - 1
      /\ \A n \in 1 .. Len(s) - 1 : r[n] = IF n < k THEN s[n] ELSE s[n + 1]
  BY <1>1, <1>2, <1>3, <1>4, <1>5
<1> QED
  BY <1>6 DEF r

LEMMA RemoveAtHas ==
  ASSUME NEW T, NEW s \in Seq(T), NEW k \in 1 .. Len(s), Distinct(s)
  PROVE  /\ RemoveAt(s, k) \in Seq(T) /\ Distinct(RemoveAt(s, k))
         /\ \A j : Has(RemoveAt(s, k), j) <=> Has(s, j) /\ j # s[k]
<1> DEFINE r == RemoveAt(s, k)
<1>1. Len(s) \in Nat
  OBVIOUS
<1>2. r \in Seq(T) /\ Len(r) = Len(s) - 1
      /\ \A n \in 1 .. Len(s) - 1 : r[n] = IF n < k THEN s[n] ELSE s[n + 1]
  BY RemoveAtElements
<1> HIDE DEF r
<1>3. DOMAIN s = 1 .. Len(s) /\ DOMAIN r = 1 .. Len(s) - 1
  BY <1>1, <1>2
<1>4. Distinct(r)
  <2>1. \A p, q \in 1 .. Len(s) : s[p] = s[q] => p = q
    BY <1>3 DEF Distinct
  <2> QED
    BY <1>1, <1>2, <1>3, <2>1 DEF Distinct
<1>5. ASSUME NEW j, Has(r, j) PROVE Has(s, j) /\ j # s[k]
  <2>1. PICK n \in 1 .. Len(s) - 1 : r[n] = j
    BY <1>3, <1>5 DEF Has
  <2>2. \A p, q \in 1 .. Len(s) : s[p] = s[q] => p = q
    BY <1>3 DEF Distinct
  <2>3. PICK m \in 1 .. Len(s) : m # k /\ s[m] = j
    BY <1>1, <1>2, <2>1
  <2> QED
    BY <1>3, <2>2, <2>3 DEF Has
<1>6. ASSUME NEW j, Has(s, j), j # s[k] PROVE Has(r, j)
  <2>1. PICK n \in 1 .. Len(s) : s[n] = j
    BY <1>3, <1>6 DEF Has
  <2>2. CASE n < k
    BY <1>1, <1>2, <1>3, <2>1, <2>2 DEF Has
  <2>3. CASE n > k
    <3>1. n - 1 \in 1 .. Len(s) - 1 /\ r[n - 1] = s[n]
      BY <1>1, <1>2, <2>3
    <3> QED
      BY <1>3, <2>1, <3>1 DEF Has
  <2> QED
    BY <1>6, <2>1, <2>2, <2>3
<1> QED
  BY <1>2, <1>4, <1>5, <1>6 DEF r

LEMMA MinIn ==
  ASSUME NEW S, S \subseteq Nat, S # {}
  PROVE  Min(S) \in S /\ \A n \in S : Min(S) =< n
<1> DEFINE R == { ss \in Nat \X Nat : ss[1] < ss[2] }
<1>1. IsWellFoundedOn(R, Nat)
  BY NatLessThanWellFounded DEF OpToRel
<1>2. \A x, y \in Nat : ~(<< y, x >> \in R) => x =< y
  OBVIOUS
<1> HIDE DEF R
<1>3. \E x \in S : \A y \in S : ~(<< y, x >> \in R)
  BY <1>1, WFMin
<1>4. \E x \in S : \A y \in S : x =< y
  BY <1>2, <1>3
<1> QED
  BY <1>4 DEF Min

LEMMA PrependHas ==
  ASSUME NEW T, NEW s \in Seq(T), NEW i \in T
  PROVE  /\ << i >> \o s \in Seq(T)
         /\ \A j : Has(<< i >> \o s, j) <=> Has(s, j) \/ j = i
         /\ Distinct(s) /\ ~Has(s, i) => Distinct(<< i >> \o s)
<1> DEFINE h == << i >>
           r == h \o s
<1>1. h \in Seq(T) /\ Len(h) = 1 /\ h[1] = i
  OBVIOUS
<1> HIDE DEF h
<1>2. /\ r \in Seq(T) /\ Len(r) = 1 + Len(s)
      /\ \A n \in 1 .. 1 + Len(s) : r[n] = IF n <= 1 THEN h[n] ELSE s[n - 1]
  <2>1. /\ r \in Seq(T) /\ Len(r) = Len(h) + Len(s)
        /\ \A n \in 1 .. Len(h) + Len(s) : r[n] = IF n <= Len(h) THEN h[n] ELSE s[n - Len(h)]
    BY <1>1, ConcatProperties
  <2> HIDE DEF r
  <2> QED
    BY <1>1, <2>1
<1> HIDE DEF r
<1>3. Len(s) \in Nat /\ DOMAIN s = 1 .. Len(s) /\ DOMAIN r = 1 .. 1 + Len(s)
  BY <1>2
<1>4. r[1] = i /\ 1 \in 1 .. 1 + Len(s)
  BY <1>1, <1>2, <1>3
<1>5. \A n \in 1 .. Len(s) : n + 1 \in 1 .. 1 + Len(s) /\ r[n + 1] = s[n]
  BY <1>2, <1>3
<1>6. \A n \in 1 .. 1 + Len(s) : n = 1 \/ (n - 1 \in 1 .. Len(s) /\ r[n] = s[n - 1])
  BY <1>2, <1>3
<1>7. ASSUME NEW j PROVE Has(r, j) <=> Has(s, j) \/ j = i
  <2>1. ASSUME Has(r, j) PROVE Has(s, j) \/ j = i
    <3>1. PICK n \in 1 .. 1 + Len(s) : r[n] = j
      BY <1>3, <2>1 DEF Has
    <3> QED
      BY <1>3, <1>4, <1>6, <3>1 DEF Has
  <2>2. ASSUME Has(s, j) PROVE Has(r, j)
    <3>1. PICK n \in 1 .. Len(s) : s[n] = j
      BY <1>3, <2>2 DEF Has
    <3> QED
      BY <1>3, <1>5, <3>1 DEF Has
  <2>3. Has(r, i)
    BY <1>3, <1>4 DEF Has
  <2> QED
    BY <2>1, <2>2, <2>3
<1>8. ASSUME Distinct(s), ~Has(s, i) PROVE Distinct(r)
  <2>1. \A m \in 1 .. Len(s) : s[m] # i
    BY <1>3, <1>8 DEF Has
  <2>2. \A m, n \in 1 .. Len(s) : s[m] = s[n] => m = n
    BY <1>3, <1>8 DEF Distinct
  <2> SUFFICES ASSUME NEW m \in 1 .. 1 + Len(s), NEW n \in 1 .. 1 + Len(s), r[m] = r[n]
               PROVE  m = n
    BY <1>3 DEF Distinct
  <2>3. CASE m = 1
    BY <1>4, <1>6, <2>1, <2>3
  <2>4. CASE n = 1
    BY <1>4, <1>6, <2>1, <2>4
  <2>5. CASE m # 1 /\ n # 1
    <3>1. m - 1 \in 1 .. Len(s) /\ n - 1 \in 1 .. Len(s) /\ s[m - 1] = s[n - 1]
      BY <1>6, <2>5
    <3>2. m - 1 = n - 1
      BY <2>2, <3>1
    <3> QED
      BY <1>3, <3>2
  <2> QED
    BY <2>3, <2>4, <2>5
<1> QED
  BY <1>2, <1>7, <1>8 DEF r, h

-------------------------------------------------------------------------------
(* pushTimer. *)

LEMMA ValidHas ==
  ASSUME NEW it PROVE Valid(it) <=> it \in {End, PushFront} \/ Has(m_lstHanders, it)
BY DEF Valid, ToSet, Has

\* The search ends at the front, at the end or at a timer of the list.
LEMMA SearchGood ==
  ASSUME TypeInv, NEW i \in Timers
  PROVE  /\ Search(i) \in {End, PushFront} \/ Has(m_lstHanders, Search(i))
         /\ Search(i) \in Timers \cup {End, PushFront}
<1> DEFINE later == { k \in DOMAIN m_lstHanders : mExpire_Date[m_lstHanders[k]] >= mExpire_Date[i] }
<1>1. m_lstHanders \in Seq(Timers)
  BY DEF TypeInv
<1>2. DOMAIN m_lstHanders \subseteq Nat
  BY <1>1
<1>3. CASE later # {} /\ m_lstHanders # << >>
  <2>1. Min(later) \in later
    BY <1>2, <1>3, MinIn
  <2>2. Search(i) = m_lstHanders[Min(later)]
    BY <1>3 DEF Search
  <2>3. Has(m_lstHanders, Search(i))
    BY <2>1, <2>2 DEF Has
  <2> QED
    BY <1>1, <2>3, HasIn
<1>4. CASE later = {} \/ m_lstHanders = << >>
  <2>1. Search(i) \in {End, PushFront}
    BY <1>4 DEF Search
  <2> QED
    BY <2>1
<1> QED
  BY <1>3, <1>4

LEMMA InsertedHas ==
  ASSUME m_lstHanders \in Seq(Timers), NEW i \in Timers, NEW it, Valid(it)
  PROVE  /\ Inserted(i, it) \in Seq(Timers)
         /\ \A j : Has(Inserted(i, it), j) <=> Has(m_lstHanders, j) \/ j = i
         /\ Distinct(m_lstHanders) /\ ~Has(m_lstHanders, i) => Distinct(Inserted(i, it))
<1>1. CASE it = PushFront
  BY <1>1, PrependHas DEF Inserted
<1>2. CASE it = End /\ it # PushFront
  BY <1>2, AppendHas DEF Inserted
<1>3. CASE it \notin {End, PushFront}
  <2> DEFINE k == CHOOSE n \in DOMAIN m_lstHanders : m_lstHanders[n] = it
  <2>1. k \in DOMAIN m_lstHanders
    BY <1>3, ValidHas DEF Has
  <2>2. k \in 1 .. Len(m_lstHanders)
    BY <2>1
  <2>3. Inserted(i, it) = InsertAt(m_lstHanders, k, i)
    BY <1>3 DEF Inserted
  <2> HIDE DEF k
  <2> QED
    BY <2>2, <2>3, InsertAtHas
<1> QED
  BY <1>1, <1>2, <1>3

-------------------------------------------------------------------------------
(* The initial state and the steps that touch no timer. *)

\* The type invariant in parts that the provers take one at a time.
SeqTypes == m_lstHanders \in Seq(Timers) /\ tmp_lst \in Seq(Timers)
FunTypes ==
  /\ mExpire_Date \in [ Timers -> Nat ] /\ mLeftCount \in [ Timers -> Int ]
  /\ mInterval \in [ Timers -> Nat ]
  /\ first \in [ Timers -> Nat ] /\ asked \in [ Timers -> Int ]
  /\ fired \in [ Timers -> Nat ] /\ closed \in [ Timers -> Nat ]
FlagTypes ==
  /\ m_bExit \in BOOLEAN /\ m_bSignaled \in BOOLEAN /\ m_mutex \in BOOLEAN
  /\ overtaken \in BOOLEAN /\ crashed \in BOOLEAN
PlaceTypes ==
  /\ env \in Envs
  /\ tpc \in {"test", "process", "repush", "insert", "wait", "presleep", "asleep", "woken",
              "exit", "leaving", "gone"}
  /\ titer \in Timers \cup {End, PushFront} /\ uiter \in Timers \cup {End, PushFront}
  /\ upc \in {"idle", "search", "insert", "signal", "awaiting", "destroyed"}
NumTypes ==
  /\ clock \in 0 .. MaxTime /\ now \in 0 .. MaxTime /\ nextsec \in Int /\ deadline \in Nat
  /\ registered \in 0 .. MaxTimers

LEMMA TypeParts ==
  ASSUME TypeInv PROVE SeqTypes /\ FunTypes /\ FlagTypes /\ PlaceTypes /\ NumTypes
<1>1. SeqTypes BY DEF TypeInv, SeqTypes
<1>2. FunTypes BY DEF TypeInv, FunTypes
<1>3. FlagTypes BY DEF TypeInv, FlagTypes
<1>4. PlaceTypes BY DEF TypeInv, PlaceTypes
<1>5. NumTypes BY DEF TypeInv, NumTypes
<1> QED
  BY <1>1, <1>2, <1>3, <1>4, <1>5

LEMMA PartsType ==
  ASSUME SeqTypes', FunTypes', FlagTypes', PlaceTypes', NumTypes' PROVE TypeInv'
BY DEF TypeInv, SeqTypes, FunTypes, FlagTypes, PlaceTypes, NumTypes

LEMMA InitInv ==
  ASSUME Init PROVE TimerInv
<1> USE TaskTimerAssumption
<1>1. TypeInv
  <2>1. m_lstHanders \in Seq(Timers) /\ tmp_lst \in Seq(Timers)
    BY DEF Init
  <2>2. /\ mExpire_Date \in [ Timers -> Nat ] /\ mLeftCount \in [ Timers -> Int ]
        /\ mInterval \in [ Timers -> Nat ]
        /\ first \in [ Timers -> Nat ] /\ asked \in [ Timers -> Int ]
        /\ fired \in [ Timers -> Nat ] /\ closed \in [ Timers -> Nat ]
    BY DEF Init
  <2>3. clock \in 0 .. MaxTime /\ now \in 0 .. MaxTime /\ registered \in 0 .. MaxTimers
        /\ nextsec \in Int /\ deadline \in Nat
    BY DEF Init
  <2>4. /\ m_bExit \in BOOLEAN /\ m_bSignaled \in BOOLEAN /\ m_mutex \in BOOLEAN
        /\ overtaken \in BOOLEAN /\ crashed \in BOOLEAN
    BY DEF Init
  <2>5. /\ env \in Envs /\ tpc = "test" /\ upc = "idle"
        /\ titer \in Timers \cup {End, PushFront} /\ uiter \in Timers \cup {End, PushFront}
    BY DEF Init
  <2> QED
    BY <2>1, <2>2, <2>3, <2>4, <2>5 DEF TypeInv
<1>2. MutexInv /\ BackInv /\ NeverUndefined
  BY DEF Init, MutexInv, BackInv, NeverUndefined
<1>3. PlaceInv
  BY EmptyHas DEF Init, PlaceInv, Coming
<1>4. NoneLost /\ IteratorInv /\ OrderInv
  BY DEF Init, NoneLost, IteratorInv, OrderInv, Timers
<1> QED
  BY <1>1, <1>2, <1>3, <1>4 DEF TimerInv

\* Nothing about the timers is disturbed by a step that moves no timer.
LEMMA QuietStep ==
  ASSUME TimerInv, ~crashed,
         UNCHANGED << env, m_lstHanders, timerVars, tmp_lst, registered, historyVars >>,
         clock' \in Nat, clock' >= clock,
         upc' \in {"search", "insert"} <=> upc \in {"search", "insert"},
         upc' = "destroyed" <=> upc = "destroyed"
  PROVE  PlaceInv' /\ NoneLost' /\ OrderInv' /\ NeverUndefined'
<1> USE DEF TimerInv, timerVars, historyVars
<1>1. PlaceInv'
  BY DEF PlaceInv, Coming, Has, Distinct
<1>2. NoneLost'
  BY DEF NoneLost, Coming, Has
<1>3. OrderInv'
  <2> SUFFICES ASSUME NEW i \in Timers, i <= registered
               PROVE  fired[i] > 0 => clock' >= first[i] + (fired[i] - 1) * mInterval[i]
    BY DEF OrderInv
  <2> DEFINE due == first[i] + (fired[i] - 1) * mInterval[i]
  <2>0. fired[i] \in Nat /\ first[i] \in Nat /\ mInterval[i] \in Nat
    BY DEF TypeInv
  <2>1. due \in Int
    BY <2>0
  <2>2. fired[i] > 0 => clock >= due
    BY DEF OrderInv
  <2>3. clock \in Nat
    BY TaskTimerAssumption DEF TypeInv
  <2> HIDE DEF due
  <2>4. fired[i] > 0 => clock' >= due
    BY <2>1, <2>2, <2>3
  <2> QED
    BY <2>4 DEF due
<1>4. NeverUndefined'
  BY DEF NeverUndefined
<1> QED
  BY <1>1, <1>2, <1>3, <1>4

LEMMA TickStep ==
  ASSUME TimerInv, ~crashed, Tick PROVE TimerInv'
<1> USE DEF TimerInv
<1>1. TypeInv'
  <2>1. SeqTypes'
    BY TaskTimerAssumption, TypeParts DEF SeqTypes, Tick, timerVars, conditionVars, threadVars, userVars, historyVars
  <2>2. FunTypes'
    BY TaskTimerAssumption, TypeParts DEF FunTypes, Tick, timerVars, conditionVars, threadVars, userVars, historyVars
  <2>3. FlagTypes'
    BY TaskTimerAssumption, TypeParts DEF FlagTypes, Tick, timerVars, conditionVars, threadVars, userVars, historyVars
  <2>4. PlaceTypes'
    BY TaskTimerAssumption, TypeParts DEF PlaceTypes, Tick, timerVars, conditionVars, threadVars, userVars, historyVars
  <2>5. NumTypes'
    BY TaskTimerAssumption, TypeParts DEF NumTypes, Tick, timerVars, conditionVars, threadVars, userVars, historyVars
  <2> QED
    BY <2>1, <2>2, <2>3, <2>4, <2>5, PartsType
<1>2. clock' \in Nat /\ clock' >= clock
  BY TaskTimerAssumption DEF Tick, TypeInv
<1>3. MutexInv' /\ BackInv' /\ IteratorInv'
  BY DEF Tick, MutexInv, BackInv, IteratorInv, Has, timerVars, conditionVars, threadVars, userVars
<1>4. PlaceInv' /\ NoneLost' /\ OrderInv' /\ NeverUndefined'
  BY <1>2, QuietStep DEF Tick, threadVars, userVars
<1> QED
  BY <1>1, <1>3, <1>4

\* The steps of the timer thread that touch no timer.
ThreadQuiet == RunTest \/ ProcessEnd \/ RepushSearch \/ RepushEnd \/ WaitTest \/ Sleep \/ WakeUp \/ Leave

LEMMA ThreadQuietFrame ==
  ASSUME TimerInv, ThreadQuiet
  PROVE  /\ UNCHANGED << env, clock, m_lstHanders, timerVars, m_bExit, m_mutex, tmp_lst, userVars, historyVars >>
         /\ tpc \notin {"insert", "gone"} /\ (tpc = "leaving" <=> tpc' = "gone")
         /\ tpc' = "insert" => tmp_lst # << >>
         /\ tpc' \notin {"process", "repush", "insert"} => tmp_lst = << >>
         /\ tpc' = "insert" => RepushSearch
<1> USE DEF TimerInv, BackInv, conditionVars, threadVars
<1>1. CASE RunTest BY <1>1 DEF RunTest
<1>2. CASE ProcessEnd BY <1>2 DEF ProcessEnd
<1>3. CASE RepushSearch BY <1>3 DEF RepushSearch
<1>4. CASE RepushEnd BY <1>4 DEF RepushEnd
<1>5. CASE WaitTest BY <1>5 DEF WaitTest
<1>6. CASE Sleep BY <1>6 DEF Sleep
<1>7. CASE WakeUp BY <1>7 DEF WakeUp
<1>8. CASE Leave BY <1>8 DEF Leave
<1> QED
  BY <1>1, <1>2, <1>3, <1>4, <1>5, <1>6, <1>7, <1>8 DEF ThreadQuiet

LEMMA ThreadQuietType ==
  ASSUME TimerInv, ThreadQuiet PROVE TypeInv'
<1> USE DEF conditionVars, threadVars
<1>0. TypeInv
  BY DEF TimerInv
<1> DEFINE Labels == {"test", "process", "repush", "insert", "wait", "presleep", "asleep", "woken",
                      "exit", "leaving", "gone"}
           Good == /\ tpc' \in Labels /\ m_bSignaled' \in BOOLEAN
                   /\ now' \in 0 .. MaxTime /\ nextsec' \in Int /\ deadline' \in Nat
                   /\ titer' \in Timers \cup {End, PushFront}
           Old == /\ tpc \in Labels /\ m_bSignaled \in BOOLEAN
                  /\ now \in 0 .. MaxTime /\ nextsec \in Int /\ deadline \in Nat
                  /\ titer \in Timers \cup {End, PushFront}
                  /\ clock \in 0 .. MaxTime /\ MaxTime \in Nat
<1>o. Old
  BY <1>0, TaskTimerAssumption DEF TypeInv
<1>1. ASSUME RunTest PROVE Good
  BY <1>o, <1>1 DEF RunTest
<1>2. ASSUME ProcessEnd PROVE Good
  <2>1. nextsec' \in Int /\ now' \in 0 .. MaxTime
    <3>1. CASE m_lstHanders = << >>
      BY <1>o, <1>2, <3>1 DEF ProcessEnd
    <3>2. CASE m_lstHanders # << >>
      <4>1. Head(m_lstHanders) \in Timers
        BY <1>0, <3>2, HeadHas DEF TypeInv
      <4>2. mExpire_Date[Head(m_lstHanders)] \in Nat
        BY <1>0, <4>1 DEF TypeInv
      <4> QED
        BY <1>o, <1>2, <3>2, <4>2 DEF ProcessEnd
    <3> QED
      BY <3>1, <3>2
  <2> QED
    BY <1>o, <1>2, <2>1 DEF ProcessEnd
<1>3. ASSUME RepushSearch PROVE Good
  <2>1. Head(tmp_lst) \in Timers
    BY <1>0, <1>3, HeadHas DEF RepushSearch, TypeInv
  <2>2. titer' \in Timers \cup {End, PushFront}
    BY <1>0, <1>3, <2>1, SearchGood DEF RepushSearch
  <2> QED
    BY <1>o, <1>3, <2>2 DEF RepushSearch
<1>4. ASSUME RepushEnd PROVE Good
  BY <1>o, <1>4 DEF RepushEnd
<1>5. ASSUME WaitTest PROVE Good
  <2>1. deadline' \in Nat
    BY <1>o, <1>5 DEF WaitTest
  <2>2. m_bSignaled' \in BOOLEAN /\ tpc' \in Labels
    BY <1>o, <1>5 DEF WaitTest
  <2> QED
    BY <1>o, <1>5, <2>1, <2>2 DEF WaitTest
<1>6. ASSUME Sleep PROVE Good
  BY <1>o, <1>6 DEF Sleep
<1>7. ASSUME WakeUp PROVE Good
  BY <1>o, <1>7 DEF WakeUp
<1>8. ASSUME Leave PROVE Good
  BY <1>o, <1>8 DEF Leave
<1> HIDE DEF Good, Old
<1>9. Good
  BY <1>1, <1>2, <1>3, <1>4, <1>5, <1>6, <1>7, <1>8 DEF ThreadQuiet
<1> QED
  <2>1. SeqTypes'
    BY <1>0, <1>9, ThreadQuietFrame, TypeParts DEF SeqTypes, Good, timerVars, userVars, historyVars
  <2>2. FunTypes'
    BY <1>0, <1>9, ThreadQuietFrame, TypeParts DEF FunTypes, Good, timerVars, userVars, historyVars
  <2>3. FlagTypes'
    BY <1>0, <1>9, ThreadQuietFrame, TypeParts DEF FlagTypes, Good, timerVars, userVars, historyVars
  <2>4. PlaceTypes'
    BY <1>0, <1>9, ThreadQuietFrame, TypeParts DEF PlaceTypes, Good, timerVars, userVars, historyVars
  <2>5. NumTypes'
    BY <1>0, <1>9, ThreadQuietFrame, TypeParts DEF NumTypes, Good, timerVars, userVars, historyVars
  <2> QED
    BY <2>1, <2>2, <2>3, <2>4, <2>5, PartsType

LEMMA ThreadQuietStep ==
  ASSUME TimerInv, ~crashed, ThreadQuiet PROVE TimerInv'
<1> USE DEF TimerInv
<1>1. TypeInv' /\ clock \in Nat
  <2>1. TypeInv'
    BY ThreadQuietType
  <2>2. clock \in Nat
    BY TaskTimerAssumption DEF TypeInv
  <2> QED
    BY <2>1, <2>2
<1>2. MutexInv'
  BY ThreadQuietFrame DEF MutexInv, userVars
<1>3. BackInv'
  BY ThreadQuietFrame DEF BackInv, userVars
<1>4. IteratorInv'
  <2>1. tpc' = "insert" => titer' \in {End, PushFront} \/ Has(m_lstHanders, titer')
    <3> SUFFICES ASSUME tpc' = "insert"
                 PROVE  titer' \in {End, PushFront} \/ Has(m_lstHanders, titer')
      OBVIOUS
    <3>1. RepushSearch
      BY ThreadQuietFrame
    <3>2. Head(tmp_lst) \in Timers
      BY <3>1, HeadHas DEF RepushSearch, TypeInv
    <3> QED
      BY <3>1, <3>2, SearchGood DEF RepushSearch
  <2> QED
    BY <2>1, ThreadQuietFrame DEF IteratorInv, Has, userVars
<1>5. PlaceInv' /\ NoneLost' /\ OrderInv' /\ NeverUndefined'
  BY <1>1, ThreadQuietFrame, QuietStep DEF userVars
<1> QED
  BY <1>1, <1>2, <1>3, <1>4, <1>5

\* The steps of the user that touch no timer.
LEMMA UserQuietStep ==
  ASSUME TimerInv, ~crashed, RegisterFound \/ stop PROVE TimerInv'
<1> USE DEF TimerInv
<1> DEFINE Same == UNCHANGED << env, clock, m_lstHanders, timerVars, m_mutex, threadVars, registered, historyVars >>
<1>1. Same
  BY DEF RegisterFound, stop, userVars, conditionVars
<1>2. clock \in Nat
  BY TaskTimerAssumption DEF TypeInv
<1>3. CASE RegisterFound
  <2>1. registered \in Timers
    BY <1>3 DEF RegisterFound, PlaceInv
  <2>2. (uiter' \in {End, PushFront} \/ Has(m_lstHanders, uiter')) /\ uiter' \in Timers \cup {End, PushFront}
    BY <1>3, <2>1, SearchGood DEF RegisterFound
  <2>3. TypeInv'
    <3>1. SeqTypes'
      BY <1>3, <2>2, TypeParts DEF SeqTypes, RegisterFound, timerVars, conditionVars, threadVars, historyVars
    <3>2. FunTypes'
      BY <1>3, <2>2, TypeParts DEF FunTypes, RegisterFound, timerVars, conditionVars, threadVars, historyVars
    <3>3. FlagTypes'
      BY <1>3, <2>2, TypeParts DEF FlagTypes, RegisterFound, timerVars, conditionVars, threadVars, historyVars
    <3>4. PlaceTypes'
      BY <1>3, <2>2, TypeParts DEF PlaceTypes, RegisterFound, timerVars, conditionVars, threadVars, historyVars
    <3>5. NumTypes'
      BY <1>3, <2>2, TypeParts DEF NumTypes, RegisterFound, timerVars, conditionVars, threadVars, historyVars
    <3> QED
      BY <3>1, <3>2, <3>3, <3>4, <3>5, PartsType
  <2>4. MutexInv' /\ BackInv' /\ upc = "search" /\ upc' = "insert"
    BY <1>3 DEF RegisterFound, MutexInv, BackInv, conditionVars, threadVars
  <2>5. IteratorInv'
    BY <1>3, <2>2 DEF RegisterFound, IteratorInv, Has, threadVars
  <2>6. PlaceInv' /\ NoneLost' /\ OrderInv' /\ NeverUndefined'
    BY <1>1, <1>2, <2>4, QuietStep DEF threadVars
  <2> QED
    BY <2>3, <2>4, <2>5, <2>6
<1>4. CASE stop
  <2>1. TypeInv'
    <3>1. SeqTypes'
      BY <1>4, TypeParts DEF SeqTypes, stop, timerVars, conditionVars, threadVars, historyVars
    <3>2. FunTypes'
      BY <1>4, TypeParts DEF FunTypes, stop, timerVars, conditionVars, threadVars, historyVars
    <3>3. FlagTypes'
      BY <1>4, TypeParts DEF FlagTypes, stop, timerVars, conditionVars, threadVars, historyVars
    <3>4. PlaceTypes'
      BY <1>4, TypeParts DEF PlaceTypes, stop, timerVars, conditionVars, threadVars, historyVars
    <3>5. NumTypes'
      BY <1>4, TypeParts DEF NumTypes, stop, timerVars, conditionVars, threadVars, historyVars
    <3> QED
      BY <3>1, <3>2, <3>3, <3>4, <3>5, PartsType
  <2>2. MutexInv' /\ BackInv' /\ upc = "idle" /\ upc' = "awaiting"
    BY <1>4 DEF stop, MutexInv, BackInv, threadVars
  <2>3. IteratorInv'
    BY <1>4 DEF stop, IteratorInv, Has, threadVars
  <2>4. PlaceInv' /\ NoneLost' /\ OrderInv' /\ NeverUndefined'
    BY <1>1, <1>2, <2>2, QuietStep DEF threadVars
  <2> QED
    BY <2>1, <2>2, <2>3, <2>4
<1> QED
  BY <1>3, <1>4

LEMMA RegisterSignalStep ==
  ASSUME TimerInv, ~crashed, RegisterSignal PROVE TimerInv'
<1> USE DEF TimerInv
<1>1. TypeInv' /\ clock \in Nat
  <2>1. clock \in Nat
    BY TaskTimerAssumption DEF TypeInv
  <2>2. m_mutex' \in BOOLEAN /\ upc' = "idle"
    BY DEF RegisterSignal
  <2>3. tpc' \in {"test", "process", "repush", "insert", "wait", "presleep", "asleep", "woken",
                  "exit", "leaving", "gone"}
    BY DEF RegisterSignal, TypeInv
  <2>4. TypeInv'
    <3>1. SeqTypes'
      BY <2>2, <2>3, TypeParts DEF SeqTypes, RegisterSignal, timerVars, historyVars
    <3>2. FunTypes'
      BY <2>2, <2>3, TypeParts DEF FunTypes, RegisterSignal, timerVars, historyVars
    <3>3. FlagTypes'
      BY <2>2, <2>3, TypeParts DEF FlagTypes, RegisterSignal, timerVars, historyVars
    <3>4. PlaceTypes'
      BY <2>2, <2>3, TypeParts DEF PlaceTypes, RegisterSignal, timerVars, historyVars
    <3>5. NumTypes'
      BY <2>2, <2>3, TypeParts DEF NumTypes, RegisterSignal, timerVars, historyVars
    <3> QED
      BY <3>1, <3>2, <3>3, <3>4, <3>5, PartsType
  <2> QED
    BY <2>1, <2>4
<1>2. MutexInv' /\ upc = "signal" /\ upc' = "idle"
  BY DEF RegisterSignal, MutexInv
<1>4. BackInv'
  BY DEF RegisterSignal, BackInv
<1>5. IteratorInv'
  BY DEF RegisterSignal, IteratorInv, Has
<1>6. PlaceInv' /\ NoneLost' /\ OrderInv' /\ NeverUndefined'
  BY <1>1, <1>2, QuietStep DEF RegisterSignal
<1> QED
  BY <1>1, <1>2, <1>4, <1>5, <1>6

-------------------------------------------------------------------------------
(* The steps that move a timer. *)

\* The head of the list is called; it is closed, or kept to be put back.
LEMMA ProcessHeadStep ==
  ASSUME TimerInv, ~crashed, ProcessHead PROVE TimerInv'
<1> USE DEF TimerInv
<1> DEFINE i == Head(m_lstHanders)
<1>1. PICK ret \in {-1, 0} : Fire(i, ret)
  BY DEF ProcessHead
<1>2. TypeInv /\ i \in Timers /\ Has(m_lstHanders, i)
  BY HeadHas DEF ProcessHead, TypeInv
<1>3. /\ i <= registered /\ closed[i] = 0 /\ ~Has(tmp_lst, i)
      /\ \A j \in Timers : closed[j] <= 1 /\ (j > registered => closed[j] = 0 /\ fired[j] = 0)
  BY <1>2 DEF PlaceInv
<1>4. (fired[i] = 0 \/ mLeftCount[i] >= 1) /\ mExpire_Date[i] = first[i] + fired[i] * mInterval[i]
      /\ fired[i] + mLeftCount[i] = asked[i]
  BY <1>2, <1>3 DEF OrderInv
<1>5. /\ upc \notin {"search", "insert", "signal", "destroyed"} /\ tpc = "process"
      /\ mExpire_Date[i] <= clock /\ m_lstHanders' = Tail(m_lstHanders) /\ m_lstHanders # << >>
  BY DEF ProcessHead, MutexInv, BackInv
<1>6. /\ UNCHANGED << env, clock, mInterval, m_bExit, m_bSignaled, m_mutex, tpc, titer, deadline, upc, uiter,
                      registered, first, asked, overtaken, crashed >>
      /\ now' = clock /\ nextsec' = mExpire_Date[i] - clock
  BY DEF ProcessHead, conditionVars, userVars
<1>7. fired' = [ fired EXCEPT ![i] = @ + 1 ] /\ mLeftCount' = [ mLeftCount EXCEPT ![i] = @ - 1 ]
  BY <1>1 DEF Fire
<1>8. \/ /\ closed' = [ closed EXCEPT ![i] = @ + 1 ] /\ UNCHANGED << mExpire_Date, tmp_lst >>
      \/ /\ mExpire_Date' = [ mExpire_Date EXCEPT ![i] = @ + mInterval[i] ]
         /\ tmp_lst' = Append(tmp_lst, i) /\ closed' = closed /\ mLeftCount[i] - 1 > 0
  <2>1. mLeftCount[i] \in Int
    BY <1>2 DEF TypeInv
  <2> QED
    BY <1>1, <2>1 DEF Fire
<1> HIDE DEF i
<1>9. /\ m_lstHanders \in Seq(Timers) /\ tmp_lst \in Seq(Timers)
      /\ Distinct(m_lstHanders) /\ Distinct(tmp_lst)
  BY <1>2 DEF PlaceInv, TypeInv
<1>10. /\ m_lstHanders' \in Seq(Timers) /\ Distinct(m_lstHanders')
       /\ \A j : Has(m_lstHanders', j) <=> Has(m_lstHanders, j) /\ j # i
  BY <1>5, <1>9, TailHas DEF i
<1>11. /\ Append(tmp_lst, i) \in Seq(Timers) /\ Distinct(Append(tmp_lst, i))
       /\ \A j : Has(Append(tmp_lst, i), j) <=> Has(tmp_lst, j) \/ j = i
  BY <1>2, <1>3, <1>9, AppendHas
<1>12. TypeInv'
  <2>1. mLeftCount' \in [ Timers -> Int ] /\ fired' \in [ Timers -> Nat ]
    <3>1. mLeftCount \in [ Timers -> Int ] /\ fired \in [ Timers -> Nat ]
      BY <1>2 DEF TypeInv
    <3>2. mLeftCount[i] - 1 \in Int /\ fired[i] + 1 \in Nat
      BY <1>2, <1>4, <3>1
    <3> QED
      BY <1>7, <3>1, <3>2
  <2>2. closed' \in [ Timers -> Nat ] /\ mExpire_Date' \in [ Timers -> Nat ] /\ tmp_lst' \in Seq(Timers)
    <3>1. /\ closed \in [ Timers -> Nat ] /\ mExpire_Date \in [ Timers -> Nat ]
          /\ mInterval \in [ Timers -> Nat ]
      BY <1>2 DEF TypeInv
    <3>2. closed[i] + 1 \in Nat /\ mExpire_Date[i] + mInterval[i] \in Nat
      BY <1>2, <3>1
    <3> QED
      BY <1>8, <1>9, <1>11, <3>1, <3>2
  <2>3. now' \in 0 .. MaxTime /\ nextsec' \in Int
    <3>1. mExpire_Date[i] \in Nat /\ clock \in 0 .. MaxTime /\ MaxTime \in Nat
      BY <1>2, TaskTimerAssumption DEF TypeInv
    <3> QED
      BY <1>6, <3>1
  <2>4. /\ m_bExit' \in BOOLEAN /\ m_bSignaled' \in BOOLEAN /\ m_mutex' \in BOOLEAN
        /\ overtaken' \in BOOLEAN /\ crashed' \in BOOLEAN
    BY <1>2, <1>6 DEF TypeInv
  <2> QED
    <3>1. SeqTypes' BY <1>10, <2>2 DEF SeqTypes
    <3>2. FunTypes' BY <1>2, <1>6, <2>1, <2>2, TypeParts DEF FunTypes
    <3>3. FlagTypes' BY <2>4 DEF FlagTypes
    <3>4. PlaceTypes' BY <1>2, <1>6, TypeParts DEF PlaceTypes
    <3>5. NumTypes' BY <1>2, <1>6, <2>3, TypeParts DEF NumTypes
    <3> QED
      BY <3>1, <3>2, <3>3, <3>4, <3>5, PartsType
<1>13. /\ closed'[i] \in {0, 1} /\ fired'[i] = fired[i] + 1
       /\ \A j \in Timers : j # i => closed'[j] = closed[j] /\ fired'[j] = fired[j]
       /\ \A j \in Timers : j # i => mLeftCount'[j] = mLeftCount[j] /\ mExpire_Date'[j] = mExpire_Date[j]
  BY <1>2, <1>3, <1>7, <1>8 DEF TypeInv
<1>14. \/ closed'[i] = 1 /\ tmp_lst' = tmp_lst
       \/ closed'[i] = 0 /\ tmp_lst' = Append(tmp_lst, i) /\ mLeftCount'[i] >= 1
          /\ mExpire_Date'[i] = mExpire_Date[i] + mInterval[i]
  BY <1>2, <1>3, <1>7, <1>8 DEF TypeInv
<1>15. PlaceInv'
  <2>1. Distinct(tmp_lst') /\ \A j : Has(tmp_lst', j) => Has(tmp_lst, j) \/ (j = i /\ closed'[i] = 0)
    BY <1>9, <1>11, <1>14
  <2>2. \A j \in Timers : Has(m_lstHanders', j) => ~Has(tmp_lst', j)
    BY <1>10, <2>1 DEF PlaceInv
  <2>3. \A j \in Timers : Has(m_lstHanders', j) \/ Has(tmp_lst', j) =>
                            j <= registered' /\ closed'[j] = 0 /\ ~Coming(j)'
    BY <1>3, <1>5, <1>6, <1>10, <1>13, <2>1 DEF PlaceInv, Coming
  <2>4. \A j \in Timers : closed'[j] <= 1 /\ (j > registered' => closed'[j] = 0 /\ fired'[j] = 0)
    <3> SUFFICES ASSUME NEW j \in Timers
                 PROVE  closed'[j] <= 1 /\ (j > registered => closed'[j] = 0 /\ fired'[j] = 0)
      BY <1>6
    <3>1. CASE j = i
      <4>1. registered \in Int /\ j \in Int
        BY <1>2 DEF TypeInv, Timers
      <4> QED
        BY <1>3, <1>13, <3>1, <4>1
    <3>2. CASE j # i
      BY <1>3, <1>13, <3>2
    <3> QED
      BY <3>1, <3>2
  <2> QED
    BY <1>5, <1>6, <1>10, <2>1, <2>2, <2>3, <2>4 DEF PlaceInv
<1>16. NoneLost'
  <2> SUFFICES ASSUME NEW j \in Timers, j <= registered
               PROVE  closed'[j] = 1 \/ Has(m_lstHanders', j) \/ Has(tmp_lst', j)
    BY <1>6 DEF NoneLost
  <2>1. closed[j] = 1 \/ Has(m_lstHanders, j) \/ Has(tmp_lst, j)
    BY <1>5 DEF NoneLost, Coming
  <2>2. CASE j = i
    BY <1>11, <1>14, <2>2
  <2>3. CASE j # i
    BY <1>10, <1>11, <1>13, <1>14, <2>1, <2>3
  <2> QED
    BY <2>2, <2>3
<1>17. OrderInv'
  <2> SUFFICES ASSUME NEW j \in Timers, j <= registered
               PROVE  /\ fired'[j] + mLeftCount'[j] = asked[j]
                      /\ fired'[j] <= Calls(asked[j])
                      /\ closed'[j] = 0 => /\ fired'[j] = 0 \/ mLeftCount'[j] >= 1
                                           /\ mExpire_Date'[j] = first[j] + fired'[j] * mInterval[j]
                      /\ fired'[j] > 0 => clock >= first[j] + (fired'[j] - 1) * mInterval[j]
    BY <1>6 DEF OrderInv
  <2>1. CASE j = i
    <3>1. fired'[i] = fired[i] + 1 /\ mLeftCount'[i] = mLeftCount[i] - 1
      BY <1>2, <1>7 DEF TypeInv
    <3>2. fired[i] \in Nat /\ mLeftCount[i] \in Int /\ asked[i] \in Int /\ first[i] \in Nat /\ mInterval[i] \in Nat
      BY <1>2 DEF TypeInv
    <3>3. (fired[i] + 1) * mInterval[i] = fired[i] * mInterval[i] + mInterval[i]
          /\ fired[i] * mInterval[i] \in Nat
      BY <3>2
    <3>4. fired'[i] + mLeftCount'[i] = asked[i]
      BY <1>4, <3>1, <3>2
    <3>5. fired'[i] - 1 = fired[i]
      BY <3>1, <3>2
    <3>6. clock >= first[i] + (fired'[i] - 1) * mInterval[i]
      BY <1>4, <1>5, <3>5
    <3>7. closed'[i] = 0 => /\ mLeftCount'[i] >= 1
                            /\ mExpire_Date'[i] = first[i] + fired'[i] * mInterval[i]
      BY <1>4, <1>14, <3>1, <3>2, <3>3
    <3>8. fired'[i] <= Calls(asked[i])
      <4>1. CASE fired[i] = 0
        BY <3>1, <3>2, <4>1 DEF Calls
      <4>2. CASE mLeftCount[i] >= 1
        <5>1. fired[i] + 1 <= asked[i] /\ 1 <= asked[i]
          BY <1>4, <3>2, <4>2
        <5> QED
          BY <3>1, <3>2, <5>1 DEF Calls
      <4> QED
        BY <1>4, <4>1, <4>2
    <3> QED
      BY <2>1, <3>4, <3>6, <3>7, <3>8
  <2>2. CASE j # i
    BY <1>13, <2>2 DEF OrderInv
  <2> QED
    BY <2>1, <2>2
<1>18. MutexInv' /\ BackInv' /\ IteratorInv' /\ NeverUndefined'
  BY <1>5, <1>6 DEF MutexInv, BackInv, IteratorInv, NeverUndefined
<1> QED
  BY <1>12, <1>15, <1>16, <1>17, <1>18

LEMMA Insertion ==
  ASSUME TimerInv, NEW i \in Timers, ~Has(m_lstHanders, i), NEW it, Insert(i, it)
  PROVE  /\ m_lstHanders' \in Seq(Timers) /\ Distinct(m_lstHanders')
         /\ m_bSignaled' = TRUE /\ crashed' \in BOOLEAN
         /\ crashed' <=> ~(it \in {End, PushFront} \/ Has(m_lstHanders, it))
         /\ \A j : Has(m_lstHanders', j) <=> Has(m_lstHanders, j) \/ (~crashed' /\ j = i)
<1>1. m_lstHanders \in Seq(Timers) /\ Distinct(m_lstHanders)
  BY DEF TimerInv, TypeInv, PlaceInv
<1>2. m_bSignaled' = TRUE /\ crashed' \in BOOLEAN /\ (crashed' <=> ~Valid(it))
  BY DEF Insert, Valid
<1>3. CASE Valid(it)
  <2>1. m_lstHanders' = Inserted(i, it)
    BY <1>3 DEF Insert
  <2> QED
    BY <1>1, <1>2, <1>3, <2>1, InsertedHas, ValidHas
<1>4. CASE ~Valid(it)
  <2>1. m_lstHanders' = m_lstHanders
    BY <1>4 DEF Insert
  <2> QED
    BY <1>1, <1>2, <1>4, <2>1, ValidHas
<1> QED
  BY <1>3, <1>4

LEMMA RepushInsertStep ==
  ASSUME TimerInv, ~crashed, RepushInsert PROVE TimerInv'
<1> USE DEF TimerInv
<1> DEFINE i == Head(tmp_lst)
<1>1. /\ tpc = "insert" /\ Insert(i, titer) /\ tmp_lst' = Tail(tmp_lst) /\ titer' = End /\ tpc' = "repush"
      /\ UNCHANGED << env, clock, mExpire_Date, mLeftCount, mInterval, m_bExit, m_mutex, now, nextsec, deadline,
                      upc, uiter, registered, first, asked, fired, closed >>
      /\ overtaken' \in BOOLEAN
  <2>1. overtaken' \in BOOLEAN
    BY DEF RepushInsert, TypeInv, Overlap
  <2> QED
    BY <2>1 DEF RepushInsert, timerVars, userVars
<1>2. tmp_lst # << >> /\ upc # "destroyed"
  BY <1>1 DEF BackInv
<1>3. tmp_lst \in Seq(Timers) /\ Distinct(tmp_lst) /\ i \in Timers /\ Has(tmp_lst, i)
  BY <1>2, HeadHas DEF TypeInv, PlaceInv
<1>4. ~Has(m_lstHanders, i) /\ i <= registered /\ closed[i] = 0 /\ ~Coming(i)
  BY <1>3 DEF PlaceInv
<1>5. /\ tmp_lst' \in Seq(Timers) /\ Distinct(tmp_lst')
      /\ \A j : Has(tmp_lst', j) <=> Has(tmp_lst, j) /\ j # i
  BY <1>1, <1>2, <1>3, TailHas
<1> HIDE DEF i
<1>6. /\ m_lstHanders' \in Seq(Timers) /\ Distinct(m_lstHanders')
      /\ m_bSignaled' = TRUE /\ crashed' \in BOOLEAN
      /\ crashed' <=> ~(titer \in {End, PushFront} \/ Has(m_lstHanders, titer))
      /\ \A j : Has(m_lstHanders', j) <=> Has(m_lstHanders, j) \/ (~crashed' /\ j = i)
  BY <1>1, <1>3, <1>4, Insertion
<1>7. TypeInv'
  <2>1. SeqTypes'
    BY <1>1, <1>5, <1>6, TypeParts DEF SeqTypes
  <2>2. FunTypes'
    BY <1>1, <1>5, <1>6, TypeParts DEF FunTypes
  <2>3. FlagTypes'
    BY <1>1, <1>5, <1>6, TypeParts DEF FlagTypes
  <2>4. PlaceTypes'
    BY <1>1, <1>5, <1>6, TypeParts DEF PlaceTypes
  <2>5. NumTypes'
    BY <1>1, <1>5, <1>6, TypeParts DEF NumTypes
  <2> QED
    BY <2>1, <2>2, <2>3, <2>4, <2>5, PartsType
<1>8. PlaceInv'
  <2>1. \A j \in Timers : Has(m_lstHanders', j) => ~Has(tmp_lst', j)
    BY <1>5, <1>6 DEF PlaceInv
  <2>2. \A j \in Timers : Has(m_lstHanders', j) \/ Has(tmp_lst', j) =>
                            j <= registered' /\ closed'[j] = 0 /\ ~Coming(j)'
    BY <1>1, <1>4, <1>5, <1>6 DEF PlaceInv, Coming
  <2>3. \A j \in Timers : closed'[j] <= 1 /\ (j > registered' => closed'[j] = 0 /\ fired'[j] = 0)
    BY <1>1 DEF PlaceInv
  <2>4. upc' \in {"search", "insert"} => registered' \in Timers /\ closed'[registered'] = 0
    BY <1>1 DEF PlaceInv
  <2> QED
    BY <1>5, <1>6, <2>1, <2>2, <2>3, <2>4 DEF PlaceInv
<1>9. NoneLost'
  <2> SUFFICES ASSUME ~crashed', NEW j \in Timers, j <= registered
               PROVE  closed[j] = 1 \/ Has(m_lstHanders', j) \/ Has(tmp_lst', j) \/ Coming(j)'
    BY <1>1, <1>2 DEF NoneLost
  <2>1. closed[j] = 1 \/ Has(m_lstHanders, j) \/ Has(tmp_lst, j) \/ Coming(j)
    BY DEF NoneLost
  <2>2. Coming(j)' <=> Coming(j)
    BY <1>1 DEF Coming
  <2> QED
    BY <1>5, <1>6, <2>1, <2>2
<1>10. OrderInv'
  BY <1>1 DEF OrderInv
<1>11. NeverUndefined' /\ IteratorInv'
  BY <1>1, <1>6 DEF IteratorInv, NeverUndefined
<1>12. MutexInv' /\ BackInv'
  BY <1>1, <1>2 DEF MutexInv, BackInv
<1> QED
  BY <1>7, <1>8, <1>9, <1>10, <1>11, <1>12

LEMMA RegisterInsertStep ==
  ASSUME TimerInv, ~crashed, RegisterInsert PROVE TimerInv'
<1> USE DEF TimerInv
<1>1. /\ upc = "insert" /\ Insert(registered, uiter) /\ uiter' = End /\ upc' = "signal"
      /\ UNCHANGED << env, clock, mExpire_Date, mLeftCount, mInterval, m_bExit, m_mutex, tpc, tmp_lst, now, nextsec,
                      titer, deadline, registered, first, asked, fired, closed >>
      /\ overtaken' \in BOOLEAN
  <2>1. overtaken' \in BOOLEAN
    BY DEF RegisterInsert, TypeInv, Overlap
  <2> QED
    BY <2>1 DEF RegisterInsert, timerVars, threadVars
<1>2. registered \in Timers /\ closed[registered] = 0 /\ Coming(registered)
  BY <1>1 DEF PlaceInv, Coming
<1>3. ~Has(m_lstHanders, registered) /\ ~Has(tmp_lst, registered)
  BY <1>2 DEF PlaceInv
<1>4. /\ m_lstHanders' \in Seq(Timers) /\ Distinct(m_lstHanders')
      /\ m_bSignaled' = TRUE /\ crashed' \in BOOLEAN
      /\ crashed' <=> ~(uiter \in {End, PushFront} \/ Has(m_lstHanders, uiter))
      /\ \A j : Has(m_lstHanders', j) <=> Has(m_lstHanders, j) \/ (~crashed' /\ j = registered)
  BY <1>1, <1>2, <1>3, Insertion
<1>5. TypeInv'
  <2>1. SeqTypes'
    BY <1>1, <1>4, TypeParts DEF SeqTypes
  <2>2. FunTypes'
    BY <1>1, <1>4, TypeParts DEF FunTypes
  <2>3. FlagTypes'
    BY <1>1, <1>4, TypeParts DEF FlagTypes
  <2>4. PlaceTypes'
    BY <1>1, <1>4, TypeParts DEF PlaceTypes
  <2>5. NumTypes'
    BY <1>1, <1>4, TypeParts DEF NumTypes
  <2> QED
    BY <2>1, <2>2, <2>3, <2>4, <2>5, PartsType
<1>6. tmp_lst' = tmp_lst /\ \A j : Has(tmp_lst', j) <=> Has(tmp_lst, j)
  BY <1>1
<1>7. PlaceInv'
  <2>1. \A j \in Timers : Has(m_lstHanders', j) => ~Has(tmp_lst', j)
    BY <1>3, <1>4, <1>6 DEF PlaceInv
  <2>2. \A j \in Timers : Has(m_lstHanders', j) \/ Has(tmp_lst', j) =>
                            j <= registered' /\ closed'[j] = 0 /\ ~Coming(j)'
    <3>1. registered <= registered
      BY <1>2 DEF Timers
    <3> QED
      BY <1>1, <1>2, <1>4, <1>6, <3>1 DEF PlaceInv, Coming
  <2>3. \A j \in Timers : closed'[j] <= 1 /\ (j > registered' => closed'[j] = 0 /\ fired'[j] = 0)
    BY <1>1 DEF PlaceInv
  <2> QED
    BY <1>1, <1>4, <1>6, <2>1, <2>2, <2>3 DEF PlaceInv
<1>8. NoneLost'
  <2> SUFFICES ASSUME ~crashed', NEW j \in Timers, j <= registered
               PROVE  closed[j] = 1 \/ Has(m_lstHanders', j) \/ Has(tmp_lst, j)
    BY <1>1, <1>6 DEF NoneLost
  <2> QED
    BY <1>4 DEF NoneLost, Coming
<1>9. OrderInv'
  BY <1>1 DEF OrderInv
<1>10. NeverUndefined' /\ IteratorInv'
  BY <1>1, <1>4 DEF IteratorInv, NeverUndefined
<1>11. MutexInv' /\ BackInv'
  BY <1>1 DEF MutexInv, BackInv
<1> QED
  BY <1>5, <1>7, <1>8, <1>9, <1>10, <1>11

LEMMA RemoveStep ==
  ASSUME TimerInv, ~crashed, NEW i \in Timers, removeTimer(i) PROVE TimerInv'
<1> USE DEF TimerInv
<1>1. /\ upc = "idle" /\ "cancel" \in env /\ closed' = [ closed EXCEPT ![i] = @ + 1 ]
      /\ UNCHANGED << env, clock, mExpire_Date, mLeftCount, mInterval, m_bExit, m_bSignaled, m_mutex, tpc, tmp_lst,
                      now, nextsec, titer, deadline, upc, uiter, registered, first, asked, fired, overtaken, crashed >>
  BY DEF removeTimer, timerVars, conditionVars, threadVars, userVars
<1>2. PICK k \in DOMAIN m_lstHanders : m_lstHanders[k] = i /\ m_lstHanders' = RemoveAt(m_lstHanders, k)
  BY DEF removeTimer
<1>3. m_lstHanders \in Seq(Timers) /\ Distinct(m_lstHanders) /\ k \in 1 .. Len(m_lstHanders) /\ Has(m_lstHanders, i)
  <2>1. m_lstHanders \in Seq(Timers)
    BY DEF TypeInv
  <2>2. k \in 1 .. Len(m_lstHanders)
    BY <1>2, <2>1
  <2>3. Has(m_lstHanders, i)
    BY <1>2 DEF Has
  <2> QED
    BY <2>1, <2>2, <2>3 DEF PlaceInv
<1>4. /\ m_lstHanders' \in Seq(Timers) /\ Distinct(m_lstHanders')
      /\ \A j : Has(m_lstHanders', j) <=> Has(m_lstHanders, j) /\ j # i
  BY <1>2, <1>3, RemoveAtHas
<1>5. i <= registered /\ closed[i] = 0 /\ ~Has(tmp_lst, i)
  BY <1>3 DEF PlaceInv
<1>6. closed \in [ Timers -> Nat ]
  BY DEF TypeInv
<1>7. closed' \in [ Timers -> Nat ] /\ closed'[i] = 1 /\ \A j \in Timers : j # i => closed'[j] = closed[j]
  BY <1>1, <1>5, <1>6
<1>8. TypeInv'
  <2>1. SeqTypes'
    BY <1>1, <1>4, <1>7, TypeParts DEF SeqTypes
  <2>2. FunTypes'
    BY <1>1, <1>4, <1>7, TypeParts DEF FunTypes
  <2>3. FlagTypes'
    BY <1>1, <1>4, <1>7, TypeParts DEF FlagTypes
  <2>4. PlaceTypes'
    BY <1>1, <1>4, <1>7, TypeParts DEF PlaceTypes
  <2>5. NumTypes'
    BY <1>1, <1>4, <1>7, TypeParts DEF NumTypes
  <2> QED
    BY <2>1, <2>2, <2>3, <2>4, <2>5, PartsType
<1>9. PlaceInv'
  <2>1. \A j \in Timers : Has(m_lstHanders', j) => ~Has(tmp_lst', j)
    BY <1>1, <1>4 DEF PlaceInv
  <2>2. \A j \in Timers : Has(m_lstHanders', j) \/ Has(tmp_lst', j) =>
                            j <= registered' /\ closed'[j] = 0 /\ ~Coming(j)'
    BY <1>1, <1>4, <1>5, <1>7 DEF PlaceInv, Coming
  <2>3. \A j \in Timers : closed'[j] <= 1 /\ (j > registered' => closed'[j] = 0 /\ fired'[j] = 0)
    <3> SUFFICES ASSUME NEW j \in Timers
                 PROVE  closed'[j] <= 1 /\ (j > registered => closed'[j] = 0 /\ fired[j] = 0)
      BY <1>1
    <3>1. CASE j = i
      <4>1. registered \in Int /\ j \in Int
        BY DEF TypeInv, Timers
      <4> QED
        BY <1>5, <1>7, <3>1, <4>1
    <3>2. CASE j # i
      BY <1>7, <3>2 DEF PlaceInv
    <3> QED
      BY <3>1, <3>2
  <2> QED
    BY <1>1, <1>4, <2>1, <2>2, <2>3 DEF PlaceInv
<1>10. NoneLost'
  <2> SUFFICES ASSUME NEW j \in Timers, j <= registered
               PROVE  closed'[j] = 1 \/ Has(m_lstHanders', j) \/ Has(tmp_lst, j)
    BY <1>1 DEF NoneLost
  <2>1. closed[j] = 1 \/ Has(m_lstHanders, j) \/ Has(tmp_lst, j)
    BY <1>1 DEF NoneLost, Coming
  <2> QED
    BY <1>4, <1>7, <2>1
<1>11. OrderInv'
  BY <1>1, <1>7 DEF OrderInv
<1>12. MutexInv' /\ BackInv' /\ IteratorInv' /\ NeverUndefined'
  BY <1>1 DEF MutexInv, BackInv, IteratorInv, NeverUndefined
<1> QED
  BY <1>8, <1>9, <1>10, <1>11, <1>12

LEMMA RegisterSearchStep ==
  ASSUME TimerInv, ~crashed, NEW d \in Dates, NEW c \in Counts, NEW s \in Intervals, RegisterSearch(d, c, s)
  PROVE  TimerInv'
<1> USE DEF TimerInv
<1> DEFINE i == registered + 1
<1>1. d \in Nat /\ c \in Int /\ s \in Nat /\ MaxTimers \in Nat
  BY TaskTimerAssumption
<1>2. /\ registered \in 0 .. MaxTimers /\ registered < MaxTimers
      /\ upc = "idle" /\ upc' = "search" /\ m_mutex' = TRUE /\ registered' = i
      /\ mExpire_Date' = [ mExpire_Date EXCEPT ![i] = d ] /\ mLeftCount' = [ mLeftCount EXCEPT ![i] = c ]
      /\ mInterval' = [ mInterval EXCEPT ![i] = s ]
      /\ first' = [ first EXCEPT ![i] = d ] /\ asked' = [ asked EXCEPT ![i] = c ]
      /\ UNCHANGED << env, clock, m_lstHanders, m_bExit, m_bSignaled, tpc, tmp_lst, now, nextsec, titer, deadline,
                      uiter, fired, closed, overtaken, crashed >>
  BY DEF RegisterSearch, TypeInv, threadVars
<1>3. i \in Timers /\ i \in 0 .. MaxTimers /\ \A j \in Timers : j <= registered' <=> j <= registered \/ j = i
  BY <1>1, <1>2 DEF Timers
<1>4. \A j \in Timers : j <= registered => j # i
  BY <1>2 DEF Timers
<1>5. registered' = i /\ ~(i <= registered) /\ i > registered
  BY <1>2
<1> HIDE DEF i
<1>6. closed[i] = 0 /\ fired[i] = 0 /\ ~Has(m_lstHanders, i) /\ ~Has(tmp_lst, i)
  BY <1>3, <1>5 DEF PlaceInv
<1>7. TypeInv'
  <2>1. /\ mExpire_Date' \in [ Timers -> Nat ] /\ mLeftCount' \in [ Timers -> Int ]
        /\ mInterval' \in [ Timers -> Nat ] /\ first' \in [ Timers -> Nat ] /\ asked' \in [ Timers -> Int ]
    BY <1>1, <1>2, <1>3 DEF TypeInv
  <2>2. m_mutex' \in BOOLEAN
    BY <1>2
  <2>3. SeqTypes' BY <1>2, TypeParts DEF SeqTypes
  <2>4. FunTypes' BY <1>2, <2>1, TypeParts DEF FunTypes
  <2>5. FlagTypes' BY <1>2, <2>2, TypeParts DEF FlagTypes
  <2>6. PlaceTypes' BY <1>2, TypeParts DEF PlaceTypes
  <2>7. NumTypes' BY <1>2, <1>3, TypeParts DEF NumTypes
  <2> QED
    BY <2>3, <2>4, <2>5, <2>6, <2>7, PartsType
<1>8. PlaceInv'
  <2>1. \A j \in Timers : Has(m_lstHanders', j) \/ Has(tmp_lst', j) =>
                            j <= registered' /\ closed'[j] = 0 /\ ~Coming(j)'
    BY <1>2, <1>3, <1>4, <1>5 DEF PlaceInv, Coming
  <2>2. \A j \in Timers : j > registered' => j > registered
    BY <1>2, <1>5 DEF Timers, i
  <2>3. \A j \in Timers : closed'[j] <= 1 /\ (j > registered' => closed'[j] = 0 /\ fired'[j] = 0)
    BY <1>2, <2>2 DEF PlaceInv
  <2>4. registered' \in Timers /\ closed'[registered'] = 0
    BY <1>2, <1>3, <1>5, <1>6
  <2> QED
    BY <1>2, <2>1, <2>3, <2>4 DEF PlaceInv
<1>9. NoneLost'
  <2> SUFFICES ASSUME NEW j \in Timers, j <= registered'
               PROVE  closed[j] = 1 \/ Has(m_lstHanders, j) \/ Has(tmp_lst, j) \/ Coming(j)'
    BY <1>2 DEF NoneLost
  <2>1. CASE j = i
    BY <1>2, <1>5, <2>1 DEF Coming
  <2>2. CASE j # i
    BY <1>2, <1>3, <2>2 DEF NoneLost, Coming
  <2> QED
    BY <2>1, <2>2
<1>10. OrderInv'
  <2> SUFFICES ASSUME NEW j \in Timers, j <= registered'
               PROVE  /\ fired[j] + mLeftCount'[j] = asked'[j]
                      /\ fired[j] <= Calls(asked'[j])
                      /\ closed[j] = 0 => /\ fired[j] = 0 \/ mLeftCount'[j] >= 1
                                          /\ mExpire_Date'[j] = first'[j] + fired[j] * mInterval'[j]
                      /\ fired[j] > 0 => clock >= first'[j] + (fired[j] - 1) * mInterval'[j]
    BY <1>2 DEF OrderInv
  <2>1. CASE j = i
    <3>1. mLeftCount'[j] = c /\ asked'[j] = c /\ mExpire_Date'[j] = d /\ first'[j] = d /\ mInterval'[j] = s
      BY <1>2, <2>1 DEF TypeInv
    <3>2. fired[j] = 0 /\ 0 * s = 0
      BY <1>1, <1>6, <2>1
    <3> QED
      BY <1>1, <3>1, <3>2 DEF Calls
  <2>2. CASE j # i
    <3>1. /\ mLeftCount'[j] = mLeftCount[j] /\ asked'[j] = asked[j] /\ mExpire_Date'[j] = mExpire_Date[j]
          /\ first'[j] = first[j] /\ mInterval'[j] = mInterval[j]
      BY <1>2, <2>2 DEF TypeInv
    <3> QED
      BY <1>3, <2>2, <3>1 DEF OrderInv
  <2> QED
    BY <2>1, <2>2
<1>11. MutexInv' /\ BackInv' /\ NeverUndefined' /\ IteratorInv'
  BY <1>2 DEF MutexInv, BackInv, NeverUndefined, IteratorInv
<1> QED
  BY <1>7, <1>8, <1>9, <1>10, <1>11

LEMMA DestroyStep ==
  ASSUME TimerInv, ~crashed, Destroy PROVE TimerInv'
<1> USE DEF TimerInv
<1>1. /\ upc = "awaiting" /\ tpc \in {"leaving", "gone"} /\ upc' = "destroyed" /\ m_lstHanders' = << >>
      /\ (crashed' <=> tpc = "leaving") /\ crashed' \in BOOLEAN
      /\ UNCHANGED << env, clock, mExpire_Date, mLeftCount, mInterval, m_bExit, m_bSignaled, m_mutex, tpc, tmp_lst,
                      now, nextsec, titer, deadline, uiter, registered, first, asked, fired, overtaken >>
  BY DEF Destroy, timerVars, conditionVars, threadVars
<1>2. tmp_lst = << >> /\ \A j : ~Has(tmp_lst, j) /\ ~Has(m_lstHanders', j)
  BY <1>1, EmptyHas DEF BackInv
<1>3. /\ closed' = [ i \in Timers |-> IF Has(m_lstHanders, i) THEN closed[i] + 1 ELSE closed[i] ]
  <2>1. \A i : i \in ToSet(m_lstHanders) <=> Has(m_lstHanders, i)
    BY DEF ToSet, Has
  <2> QED
    BY <2>1 DEF Destroy
<1>4. \A i \in Timers : Has(m_lstHanders, i) => closed[i] = 0 /\ i <= registered
  BY DEF PlaceInv
<1>5. closed \in [ Timers -> Nat ]
  BY DEF TypeInv
<1>6. closed' \in [ Timers -> Nat ]
      /\ \A i \in Timers : closed'[i] = IF Has(m_lstHanders, i) THEN 1 ELSE closed[i]
  BY <1>3, <1>4, <1>5
<1>7. TypeInv'
  <2>1. SeqTypes'
    BY <1>1, <1>6, TypeParts DEF SeqTypes
  <2>2. FunTypes'
    BY <1>1, <1>6, TypeParts DEF FunTypes
  <2>3. FlagTypes'
    BY <1>1, <1>6, TypeParts DEF FlagTypes
  <2>4. PlaceTypes'
    BY <1>1, <1>6, TypeParts DEF PlaceTypes
  <2>5. NumTypes'
    BY <1>1, <1>6, TypeParts DEF NumTypes
  <2> QED
    BY <2>1, <2>2, <2>3, <2>4, <2>5, PartsType
<1>8. PlaceInv'
  <2>1. \A i \in Timers : closed'[i] <= 1 /\ (i > registered' => closed'[i] = 0 /\ fired'[i] = 0)
    <3> SUFFICES ASSUME NEW i \in Timers
                 PROVE  closed'[i] <= 1 /\ (i > registered => closed'[i] = 0 /\ fired[i] = 0)
      BY <1>1
    <3>1. registered \in Int /\ i \in Int
      BY DEF TypeInv, Timers
    <3>2. CASE Has(m_lstHanders, i)
      BY <1>4, <1>6, <3>1, <3>2
    <3>3. CASE ~Has(m_lstHanders, i)
      BY <1>6, <3>3 DEF PlaceInv
    <3> QED
      BY <3>2, <3>3
  <2>2. Distinct(m_lstHanders') /\ Distinct(tmp_lst')
    BY <1>1, <1>2, EmptyHas
  <2> QED
    BY <1>1, <1>2, <2>1, <2>2 DEF PlaceInv
<1>9. NoneLost'
  <2> SUFFICES ASSUME NEW i \in Timers, i <= registered PROVE closed'[i] = 1
    BY <1>1 DEF NoneLost
  <2>1. closed[i] = 1 \/ Has(m_lstHanders, i)
    BY <1>1, <1>2 DEF NoneLost, Coming
  <2> QED
    BY <1>6, <2>1
<1>10. OrderInv'
  <2>1. \A i \in Timers : closed'[i] = 0 => closed[i] = 0
    BY <1>6
  <2> QED
    BY <1>1, <2>1 DEF OrderInv
<1>11. MutexInv' /\ BackInv' /\ IteratorInv' /\ NeverUndefined'
  BY <1>1 DEF MutexInv, BackInv, IteratorInv, NeverUndefined
<1> QED
  BY <1>7, <1>8, <1>9, <1>10, <1>11

-------------------------------------------------------------------------------
(* The theorems. *)

LEMMA StepInv ==
  ASSUME TimerInv, [Next]_vars PROVE TimerInv'
<1>1. CASE UNCHANGED vars
  <2>1. UNCHANGED << env, clock, m_lstHanders, mExpire_Date, mLeftCount, mInterval, m_bExit, m_bSignaled, m_mutex,
                     tpc, tmp_lst, now, nextsec, titer, deadline, upc, uiter, registered,
                     first, asked, fired, closed, overtaken, crashed >>
    BY <1>1 DEF vars, timerVars, conditionVars, threadVars, userVars, historyVars
  <2>2. TypeInv'
    <3> TypeInv
      BY DEF TimerInv
    <3>1. SeqTypes'
      BY <2>1, TypeParts DEF SeqTypes
    <3>2. FunTypes'
      BY <2>1, TypeParts DEF FunTypes
    <3>3. FlagTypes'
      BY <2>1, TypeParts DEF FlagTypes
    <3>4. PlaceTypes'
      BY <2>1, TypeParts DEF PlaceTypes
    <3>5. NumTypes'
      BY <2>1, TypeParts DEF NumTypes
    <3> QED
      BY <3>1, <3>2, <3>3, <3>4, <3>5, PartsType
  <2>3. MutexInv' /\ BackInv' BY <2>1 DEF TimerInv, MutexInv, BackInv
  <2>4. PlaceInv' BY <2>1 DEF TimerInv, PlaceInv, Coming
  <2>5. NoneLost' BY <2>1 DEF TimerInv, NoneLost, Coming
  <2>6. IteratorInv' BY <2>1 DEF TimerInv, IteratorInv
  <2>7. OrderInv' BY <2>1 DEF TimerInv, OrderInv
  <2>8. NeverUndefined' BY <2>1 DEF TimerInv, NeverUndefined
  <2> QED
    BY <2>2, <2>3, <2>4, <2>5, <2>6, <2>7, <2>8 DEF TimerInv
<1>2. CASE ~crashed /\ Tick
  BY <1>2, TickStep
<1>3. CASE ~crashed /\ TimerThread
  <2>1. ProcessHead \/ RepushInsert \/ ThreadQuiet
    BY <1>3 DEF TimerThread, ThreadQuiet
  <2> QED
    BY <1>3, <2>1, ProcessHeadStep, RepushInsertStep, ThreadQuietStep
<1>4. CASE ~crashed /\ User
  <2>1. CASE UserCall
    BY <1>4, <2>1, UserQuietStep, RegisterInsertStep, RegisterSignalStep, DestroyStep DEF UserCall
  <2>2. CASE \E d \in Dates, c \in Counts, s \in Intervals : RegisterSearch(d, c, s)
    BY <1>4, <2>2, RegisterSearchStep
  <2>3. CASE \E i \in Timers : removeTimer(i)
    BY <1>4, <2>3, RemoveStep
  <2>4. CASE stop
    BY <1>4, <2>4, UserQuietStep
  <2> QED
    BY <1>4, <2>1, <2>2, <2>3, <2>4 DEF User
<1> QED
  BY <1>1, <1>2, <1>3, <1>4 DEF Next

LEMMA Inductive == Spec => []TimerInv
<1>1. Init => TimerInv
  BY InitInv
<1>2. TimerInv /\ [Next]_vars => TimerInv'
  BY StepInv
<1> QED
  BY <1>1, <1>2, PTL DEF Spec

\* The service's variables keep their types; in particular no timer that is
\* called again has calls left below zero.
THEOREM TimerTypeCorrect == Spec => []TypeInv
<1>1. TimerInv => TypeInv
  BY DEF TimerInv
<1> QED
  BY <1>1, Inductive, PTL

\* process_timeout calls a handler no more often than registerTimer was asked to,
\* or once for a count below one, and never before its date, whatever the interleaving.
THEOREM TimersFireAsOrdered == Spec => []FiresAsOrdered
<1>1. TimerInv => FiresAsOrdered
  <2> SUFFICES ASSUME TimerInv, NEW i \in 1 .. registered
               PROVE  /\ fired[i] <= Calls(asked[i])
                      /\ fired[i] > 0 => clock >= first[i] + (fired[i] - 1) * mInterval[i]
    BY DEF FiresAsOrdered
  <2>1. i \in Timers /\ i <= registered
    BY TaskTimerAssumption DEF TimerInv, TypeInv, Timers
  <2>2. fired[i] <= Calls(asked[i])
    BY <2>1 DEF TimerInv, OrderInv
  <2>3. fired[i] > 0 => clock >= first[i] + (fired[i] - 1) * mInterval[i]
    BY <2>1 DEF TimerInv, OrderInv
  <2> QED
    BY <2>2, <2>3
<1> QED
  BY <1>1, Inductive, PTL

\* Every handler is deleted once: not while it is in the list or on its way back
\* into it, and by the end of the service at the latest.
THEOREM HandlersClosedOnce == Spec => []ClosedOnce
<1>1. TimerInv => ClosedOnce
  <2> SUFFICES ASSUME TimerInv PROVE ClosedOnce
    OBVIOUS
  <2> USE DEF TimerInv
  <2>1. \A i : (i \in ToSet(m_lstHanders) <=> Has(m_lstHanders, i)) /\ (i \in ToSet(tmp_lst) <=> Has(tmp_lst, i))
    BY DEF ToSet, Has
  <2>2. \A i : Has(m_lstHanders, i) \/ Has(tmp_lst, i) => i \in Timers
    BY HasIn DEF TypeInv
  <2>3. \A i \in ToSet(m_lstHanders) \cup ToSet(tmp_lst) : closed[i] = 0
    BY <2>1, <2>2 DEF PlaceInv
  <2>4. ASSUME upc = "destroyed", NEW i \in 1 .. registered PROVE closed[i] = 1
    <3>1. i \in Timers /\ i <= registered
      BY TaskTimerAssumption DEF TypeInv, Timers
    <3>2. m_lstHanders = << >> /\ tmp_lst = << >> /\ ~Coming(i)
      BY <2>4 DEF BackInv, Coming
    <3> QED
      BY <2>4, <3>1, <3>2, EmptyHas DEF NoneLost
  <2> QED
    BY <2>3, <2>4 DEF ClosedOnce, PlaceInv
<1> QED
  BY <1>1, Inductive, PTL

\* Where no timer is removed, the search and the insertion without the mutex
\* never meet a dead iterator.
THEOREM NoDeadIterator == Spec => []NeverUndefined
<1>1. TimerInv => NeverUndefined
  BY DEF TimerInv
<1> QED
  BY <1>1, Inductive, PTL

-------------------------------------------------------------------------------
(* The order of the list.  A search finds the place of a timer; the place  *)
(* stays right while timers are taken out of the list, and goes wrong only *)
(* when another one is put in between search and insertion, which is what  *)
(* overtaken records.                                                      *)

\* a stands before b in s.
Before(s, a, b) == \E j, k \in DOMAIN s : j < k /\ s[j] = a /\ s[k] = b

\* The list s is sorted by the dates d.
InOrder(s, d) == \A a, b \in Timers : Before(s, a, b) => d[a] <= d[b]

\* Where the iterator it says, timer i belongs.
Fits(s, d, i, it) ==
  /\ it = PushFront => s = << >>
  /\ it = End => \A a \in Timers : Has(s, a) => d[a] <= d[i]
  /\ \A a \in Timers : Before(s, a, it) => d[a] <= d[i]
  /\ Has(s, it) => d[i] <= d[it]

SortInv ==
  ~overtaken =>
    /\ InOrder(m_lstHanders, mExpire_Date)
    /\ tpc = "insert" => Fits(m_lstHanders, mExpire_Date, Head(tmp_lst), titer)
    /\ upc = "insert" => Fits(m_lstHanders, mExpire_Date, registered, uiter)

LEMMA BeforeHas ==
  ASSUME NEW s, NEW a, NEW b, Before(s, a, b)
  PROVE  Has(s, a) /\ Has(s, b)
BY DEF Before, Has

LEMMA TailBefore ==
  ASSUME NEW T, NEW s \in Seq(T), s # << >>, NEW a, NEW b, Before(Tail(s), a, b)
  PROVE  Before(s, a, b)
<1>1. /\ Len(s) \in Nat \ {0} /\ DOMAIN s = 1 .. Len(s) /\ DOMAIN Tail(s) = 1 .. Len(s) - 1
      /\ \A k \in 1 .. Len(s) - 1 : Tail(s)[k] = s[k + 1]
  OBVIOUS
<1>2. PICK j, k \in 1 .. Len(s) - 1 : j < k /\ Tail(s)[j] = a /\ Tail(s)[k] = b
  BY <1>1 DEF Before
<1>3. j + 1 \in 1 .. Len(s) /\ k + 1 \in 1 .. Len(s) /\ j + 1 < k + 1 /\ s[j + 1] = a /\ s[k + 1] = b
  BY <1>1, <1>2
<1> QED
  BY <1>1, <1>3 DEF Before

LEMMA RemoveAtBefore ==
  ASSUME NEW T, NEW s \in Seq(T), NEW k \in 1 .. Len(s), NEW a, NEW b, Before(RemoveAt(s, k), a, b)
  PROVE  Before(s, a, b)
<1> DEFINE r == RemoveAt(s, k)
           at(n) == IF n < k THEN n ELSE n + 1
<1>0. Len(s) \in Nat /\ Before(r, a, b)
  OBVIOUS
<1>1. /\ r \in Seq(T) /\ Len(r) = Len(s) - 1
      /\ \A n \in 1 .. Len(s) - 1 : r[n] = IF n < k THEN s[n] ELSE s[n + 1]
  BY RemoveAtElements
<1> HIDE DEF r
<1>2. DOMAIN s = 1 .. Len(s) /\ DOMAIN r = 1 .. Len(s) - 1
  BY <1>0, <1>1
<1>3. PICK m, n \in 1 .. Len(s) - 1 : m < n /\ r[m] = a /\ r[n] = b
  BY <1>0, <1>2 DEF Before
<1>4. at(m) \in 1 .. Len(s) /\ at(n) \in 1 .. Len(s) /\ at(m) < at(n)
  BY <1>0, <1>3
<1>5. s[at(m)] = a /\ s[at(n)] = b
  BY <1>0, <1>1, <1>3
<1> QED
  BY <1>2, <1>4, <1>5 DEF Before

LEMMA AppendBefore ==
  ASSUME NEW T, NEW s \in Seq(T), NEW i \in T, NEW a, NEW b, Before(Append(s, i), a, b)
  PROVE  Before(s, a, b) \/ (Has(s, a) /\ b = i)
<1> DEFINE r == Append(s, i)
<1>1. /\ Len(s) \in Nat /\ DOMAIN s = 1 .. Len(s) /\ DOMAIN r = 1 .. Len(s) + 1
      /\ r[Len(s) + 1] = i /\ \A k \in 1 .. Len(s) : r[k] = s[k]
  OBVIOUS
<1>2. Before(r, a, b)
  OBVIOUS
<1> HIDE DEF r
<1>3. PICK m, n \in 1 .. Len(s) + 1 : m < n /\ r[m] = a /\ r[n] = b
  BY <1>1, <1>2 DEF Before
<1>4. m \in 1 .. Len(s) /\ s[m] = a
  BY <1>1, <1>3
<1>5. n \in 1 .. Len(s) \/ n = Len(s) + 1
  BY <1>1, <1>3
<1> QED
  BY <1>1, <1>3, <1>4, <1>5 DEF Before, Has

LEMMA InsertAtBefore ==
  ASSUME NEW T, NEW s \in Seq(T), NEW i \in T, NEW k \in 1 .. Len(s), NEW a, NEW b
  PROVE  Before(InsertAt(s, k, i), a, b) =>
           \/ Before(s, a, b)
           \/ b = i /\ Before(s, a, s[k])
           \/ a = i /\ (b = s[k] \/ Before(s, s[k], b))
<1> DEFINE r == InsertAt(s, k, i)
<1>1. /\ r \in Seq(T) /\ Len(r) = Len(s) + 1 /\ Len(s) \in Nat
      /\ \A n \in 1 .. Len(s) + 1 : r[n] = IF n < k THEN s[n] ELSE IF n = k THEN i ELSE s[n - 1]
  BY InsertAtElements
<1> SUFFICES ASSUME Before(r, a, b)
             PROVE  \/ Before(s, a, b)
                    \/ b = i /\ Before(s, a, s[k])
                    \/ a = i /\ (b = s[k] \/ Before(s, s[k], b))
  OBVIOUS
<1> HIDE DEF r
<1>2. DOMAIN s = 1 .. Len(s) /\ DOMAIN r = 1 .. Len(s) + 1
  BY <1>1
<1>3. PICK m, n \in 1 .. Len(s) + 1 : m < n /\ r[m] = a /\ r[n] = b
  BY <1>2 DEF Before
<1>4. CASE n < k
  <2>1. m \in 1 .. Len(s) /\ n \in 1 .. Len(s) /\ s[m] = a /\ s[n] = b
    BY <1>1, <1>3, <1>4
  <2> QED
    BY <1>2, <1>3, <2>1 DEF Before
<1>5. CASE n = k
  <2>1. m \in 1 .. Len(s) /\ s[m] = a /\ m < k /\ b = i
    BY <1>1, <1>3, <1>5
  <2> QED
    BY <1>2, <2>1 DEF Before
<1>6. CASE n > k /\ m < k
  <2>1. m \in 1 .. Len(s) /\ n - 1 \in 1 .. Len(s) /\ m < n - 1 /\ s[m] = a /\ s[n - 1] = b
    BY <1>1, <1>3, <1>6
  <2> QED
    BY <1>2, <2>1 DEF Before
<1>7. CASE n > k /\ m = k
  <2>1. n - 1 \in 1 .. Len(s) /\ s[n - 1] = b /\ a = i /\ (n - 1 = k \/ k < n - 1)
    BY <1>1, <1>3, <1>7
  <2> QED
    BY <1>2, <2>1 DEF Before
<1>8. CASE n > k /\ m > k
  <2>1. m - 1 \in 1 .. Len(s) /\ n - 1 \in 1 .. Len(s) /\ m - 1 < n - 1 /\ s[m - 1] = a /\ s[n - 1] = b
    BY <1>1, <1>3, <1>8
  <2> QED
    BY <1>2, <2>1 DEF Before
<1> QED
  BY <1>1, <1>3, <1>4, <1>5, <1>6, <1>7, <1>8

\* Where the search stops, the timer belongs.
LEMMA SearchFits ==
  ASSUME TypeInv, Distinct(m_lstHanders), NEW i \in Timers
  PROVE  Fits(m_lstHanders, mExpire_Date, i, Search(i))
<1> DEFINE s == m_lstHanders
           d == mExpire_Date
           later == { k \in DOMAIN s : d[s[k]] >= d[i] }
<1>1. /\ s \in Seq(Timers) /\ Len(s) \in Nat /\ DOMAIN s = 1 .. Len(s)
      /\ d \in [ Timers -> Nat ]
  <2>1. s \in Seq(Timers) /\ d \in [ Timers -> Nat ]
    BY DEF TypeInv
  <2> QED
    BY <2>1
<1>2. \A k \in DOMAIN s : s[k] \in Timers /\ d[s[k]] \in Nat
  BY <1>1
<1>3. d[i] \in Nat /\ End \notin Timers /\ PushFront \notin Timers /\ End # PushFront
  BY <1>1 DEF Timers, End, PushFront
<1>4. \A a \in {End, PushFront} : ~Has(s, a)
  BY <1>2, <1>3 DEF Has
<1>5. CASE s = << >>
  <2>1. Search(i) = PushFront
    BY <1>5 DEF Search
  <2>2. \A a : ~Has(s, a)
    BY <1>5, EmptyHas
  <2> QED
    BY <1>3, <1>5, <2>1, <2>2, BeforeHas DEF Fits
<1>6. CASE s # << >> /\ later = {}
  <2>1. Search(i) = End
    BY <1>6 DEF Search
  <2>2. \A a \in Timers : Has(s, a) => d[a] <= d[i]
    <3> SUFFICES ASSUME NEW k \in DOMAIN s PROVE d[s[k]] <= d[i]
      BY DEF Has
    <3>1. ~(d[s[k]] >= d[i])
      BY <1>6
    <3> QED
      BY <1>2, <1>3, <3>1
  <2> QED
    BY <1>3, <1>4, <2>1, <2>2, BeforeHas DEF Fits
<1>7. CASE s # << >> /\ later # {}
  <2> DEFINE m == Min(later)
  <2>1. later \subseteq Nat
    BY <1>1
  <2>2. m \in later /\ \A k \in later : m <= k
    BY <1>7, <2>1, MinIn
  <2>3. Search(i) = s[m]
    BY <1>7 DEF Search
  <2> HIDE DEF m
  <2>4. m \in DOMAIN s /\ d[s[m]] >= d[i]
    BY <2>2
  <2>5. ASSUME NEW a \in Timers, Before(s, a, s[m]) PROVE d[a] <= d[i]
    <3>1. PICK j, k \in DOMAIN s : j < k /\ s[j] = a /\ s[k] = s[m]
      BY <2>5 DEF Before
    <3>2. k = m
      BY <2>4, <3>1 DEF Distinct
    <3>3. j \notin later
      BY <1>1, <2>1, <2>2, <2>4, <3>1, <3>2
    <3>4. ~(d[s[j]] >= d[i])
      BY <3>3
    <3> QED
      BY <1>2, <1>3, <3>1, <3>4
  <2>6. s[m] \in Timers /\ d[i] <= d[s[m]]
    BY <1>2, <1>3, <2>4
  <2> QED
    BY <1>3, <2>3, <2>5, <2>6 DEF Fits
<1> QED
  BY <1>5, <1>6, <1>7

\* The insertion of a timer where it belongs keeps the order.
LEMMA InsertedInOrder ==
  ASSUME TypeInv, Distinct(m_lstHanders), NEW i \in Timers, NEW it, Valid(it),
         InOrder(m_lstHanders, mExpire_Date), Fits(m_lstHanders, mExpire_Date, i, it)
  PROVE  InOrder(Inserted(i, it), mExpire_Date)
<1> DEFINE s == m_lstHanders
           d == mExpire_Date
           r == Inserted(i, it)
<1>1. s \in Seq(Timers) /\ d \in [ Timers -> Nat ]
  BY DEF TypeInv
<1> SUFFICES ASSUME NEW a \in Timers, NEW b \in Timers, Before(r, a, b)
             PROVE  d[a] <= d[b]
  BY DEF InOrder
<1>2. d[a] \in Nat /\ d[b] \in Nat /\ d[i] \in Nat
  BY <1>1
<1>3. Before(s, a, b) => d[a] <= d[b]
  BY DEF InOrder
<1>4. CASE it = PushFront
  <2>1. r = << i >> \o << >>
    BY <1>4 DEF Inserted, Fits
  <2>2. r = << i >>
    BY <2>1
  <2>3. DOMAIN r = {1}
    BY <2>2
  <2> QED
    BY <2>3 DEF Before
<1>5. CASE it = End /\ it # PushFront
  <2>1. r = Append(s, i)
    BY <1>5 DEF Inserted
  <2>2. Before(s, a, b) \/ (Has(s, a) /\ b = i)
    BY <1>1, <2>1, AppendBefore
  <2> QED
    BY <1>3, <1>5, <2>2 DEF Fits
<1>6. CASE it \notin {End, PushFront}
  <2> DEFINE k == CHOOSE n \in DOMAIN s : s[n] = it
  <2>1. Has(s, it)
    BY <1>6, ValidHas
  <2>2. k \in DOMAIN s /\ s[k] = it
    BY <2>1 DEF Has
  <2>3. k \in 1 .. Len(s)
    BY <1>1, <2>2
  <2>4. r = InsertAt(s, k, i)
    BY <1>6 DEF Inserted
  <2> HIDE DEF k
  <2>5. it \in Timers
    BY <1>1, <2>1, HasIn
  <2>6. d[i] <= d[it] /\ d[it] \in Nat /\ (Before(s, a, it) => d[a] <= d[i])
    BY <1>1, <2>1, <2>5 DEF Fits
  <2>7. Before(s, it, b) => d[it] <= d[b]
    BY <2>5 DEF InOrder
  <2>8. \/ Before(s, a, b)
        \/ b = i /\ Before(s, a, it)
        \/ a = i /\ (b = it \/ Before(s, it, b))
    BY <1>1, <2>2, <2>3, <2>4, InsertAtBefore
  <2> HIDE DEF r, s, d
  <2> QED
    BY <1>2, <1>3, <2>6, <2>7, <2>8
<1> QED
  BY <1>4, <1>5, <1>6

\* What is in order, and where a timer belongs, stays so while timers are taken
\* out and only the dates of others change.
LEMMA FewerInOrder ==
  ASSUME NEW s, NEW r, NEW d, NEW e, InOrder(s, d),
         \A a, b : Before(r, a, b) => Before(s, a, b),
         \A a : Has(r, a) => e[a] = d[a]
  PROVE  InOrder(r, e)
BY BeforeHas DEF InOrder

LEMMA FewerFits ==
  ASSUME NEW s, NEW r, NEW d, NEW e, NEW i, NEW it, Fits(s, d, i, it),
         \A a, b : Before(r, a, b) => Before(s, a, b),
         \A a : Has(r, a) => Has(s, a) /\ e[a] = d[a],
         s = << >> => r = << >>,
         e[i] = d[i]
  PROVE  Fits(r, e, i, it)
BY BeforeHas DEF Fits

\* The steps that leave list and dates alone, and begin no insertion.
LEMMA SortQuiet ==
  ASSUME SortInv, UNCHANGED << m_lstHanders, mExpire_Date, tmp_lst, registered, overtaken >>,
         tpc' = "insert" => tpc = "insert" /\ titer' = titer,
         upc' = "insert" => upc = "insert" /\ uiter' = uiter
  PROVE  SortInv'
BY DEF SortInv

LEMMA SortThread ==
  ASSUME TimerInv, SortInv, TimerThread PROVE SortInv'
<1> USE DEF userVars, timerVars, conditionVars, historyVars
<1>1. CASE RunTest \/ ProcessEnd \/ RepushEnd \/ WaitTest \/ Sleep \/ WakeUp \/ Leave
  <2>1. UNCHANGED << m_lstHanders, mExpire_Date, tmp_lst, registered, overtaken, upc, uiter >>
    BY <1>1 DEF RunTest, ProcessEnd, RepushEnd, WaitTest, Sleep, WakeUp, Leave
  <2>2. tpc' # "insert"
    BY <1>1 DEF RunTest, ProcessEnd, RepushEnd, WaitTest, Sleep, WakeUp, Leave
  <2> QED
    BY <2>1, <2>2, SortQuiet
<1>2. CASE ProcessHead
  <2> DEFINE i == Head(m_lstHanders)
  <2>1. /\ m_lstHanders \in Seq(Timers) /\ m_lstHanders # << >> /\ Distinct(m_lstHanders)
        /\ m_lstHanders' = Tail(m_lstHanders)
    BY <1>2 DEF ProcessHead, TimerInv, TypeInv, PlaceInv
  <2>2. /\ tpc = "process" /\ tpc' = tpc /\ upc \notin {"search", "insert", "signal"} /\ upc' = upc
        /\ overtaken' = overtaken
    BY <1>2 DEF ProcessHead, TimerInv, MutexInv
  <2>3. mExpire_Date' = mExpire_Date \/ mExpire_Date' = [ mExpire_Date EXCEPT ![i] = @ + mInterval[i] ]
    BY <1>2 DEF ProcessHead, Fire
  <2>4. \A a : Has(m_lstHanders', a) => Has(m_lstHanders, a) /\ a # i
    BY <2>1, TailHas
  <2>5. \A a : Has(m_lstHanders', a) => mExpire_Date'[a] = mExpire_Date[a]
    <3> SUFFICES ASSUME NEW a, Has(m_lstHanders', a) PROVE mExpire_Date'[a] = mExpire_Date[a]
      OBVIOUS
    <3>1. a \in Timers /\ a # i
      BY <2>1, <2>4, HasIn
    <3>2. mExpire_Date \in [ Timers -> Nat ]
      BY DEF TimerInv, TypeInv
    <3> QED
      BY <2>3, <3>1, <3>2
  <2>6. \A a, b : Before(m_lstHanders', a, b) => Before(m_lstHanders, a, b)
    BY <2>1, TailBefore
  <2>7. ~overtaken => InOrder(m_lstHanders', mExpire_Date')
    BY <2>5, <2>6, FewerInOrder DEF SortInv
  <2> QED
    BY <2>2, <2>7 DEF SortInv
<1>3. CASE RepushSearch
  <2>1. /\ UNCHANGED << m_lstHanders, mExpire_Date, tmp_lst, registered, overtaken, upc, uiter >>
        /\ titer' = Search(Head(tmp_lst)) /\ tmp_lst # << >>
    BY <1>3 DEF RepushSearch
  <2>2. Head(tmp_lst) \in Timers
    BY <2>1, HeadHas DEF TimerInv, TypeInv
  <2>3. Fits(m_lstHanders, mExpire_Date, Head(tmp_lst), titer')
    BY <2>1, <2>2, SearchFits DEF TimerInv, PlaceInv
  <2> QED
    BY <2>1, <2>3 DEF SortInv
<1>4. CASE RepushInsert
  <2> DEFINE i == Head(tmp_lst)
  <2>1. /\ tpc = "insert" /\ tpc' = "repush" /\ Insert(i, titer)
        /\ UNCHANGED << mExpire_Date, upc, uiter, registered >>
        /\ (~overtaken' => ~overtaken /\ upc # "insert")
    BY <1>4 DEF RepushInsert, Overlap
  <2>2. i \in Timers
    BY <2>1, HeadHas DEF TimerInv, TypeInv, BackInv
  <2>3. ~overtaken => InOrder(m_lstHanders', mExpire_Date)
    <3>1. CASE Valid(titer)
      BY <2>1, <2>2, <3>1, InsertedInOrder DEF Insert, SortInv, TimerInv, PlaceInv
    <3>2. CASE ~Valid(titer)
      BY <2>1, <3>2 DEF Insert, SortInv
    <3> QED
      BY <3>1, <3>2
  <2> QED
    BY <2>1, <2>3 DEF SortInv
<1> QED
  BY <1>1, <1>2, <1>3, <1>4 DEF TimerThread

LEMMA SortUser ==
  ASSUME TimerInv, SortInv, User PROVE SortInv'
<1> USE DEF threadVars, userVars, timerVars, conditionVars, historyVars
<1>1. CASE RegisterSignal \/ stop
  <2>1. UNCHANGED << m_lstHanders, mExpire_Date, tmp_lst, registered, overtaken, titer >>
    BY <1>1 DEF RegisterSignal, stop
  <2>2. upc' # "insert" /\ (tpc' = "insert" => tpc = "insert")
    BY <1>1 DEF RegisterSignal, stop
  <2> QED
    BY <2>1, <2>2, SortQuiet
<1>2. CASE RegisterFound
  <2>1. /\ UNCHANGED << m_lstHanders, mExpire_Date, tmp_lst, registered, overtaken, tpc, titer >>
        /\ upc = "search" /\ uiter' = Search(registered)
    BY <1>2 DEF RegisterFound
  <2>2. Fits(m_lstHanders, mExpire_Date, registered, uiter')
    BY <2>1, SearchFits DEF TimerInv, PlaceInv
  <2> QED
    BY <2>1, <2>2 DEF SortInv
<1>3. CASE RegisterInsert
  <2>1. /\ upc = "insert" /\ upc' = "signal" /\ Insert(registered, uiter) /\ registered \in Timers
        /\ UNCHANGED << mExpire_Date, tpc, titer, tmp_lst, registered >>
        /\ (~overtaken' => ~overtaken /\ tpc # "insert")
    BY <1>3 DEF RegisterInsert, Overlap, TimerInv, PlaceInv
  <2>2. ~overtaken => InOrder(m_lstHanders', mExpire_Date)
    <3>1. CASE Valid(uiter)
      BY <2>1, <3>1, InsertedInOrder DEF Insert, SortInv, TimerInv, PlaceInv
    <3>2. CASE ~Valid(uiter)
      BY <2>1, <3>2 DEF Insert, SortInv
    <3> QED
      BY <3>1, <3>2
  <2> QED
    BY <2>1, <2>2 DEF SortInv
<1>4. ASSUME NEW d \in Dates, NEW c \in Counts, NEW n \in Intervals, RegisterSearch(d, c, n)
      PROVE  SortInv'
  <2> DEFINE i == registered + 1
  <2>1. /\ mExpire_Date' = [ mExpire_Date EXCEPT ![i] = d ] /\ upc' = "search"
        /\ UNCHANGED << m_lstHanders, tpc, titer, tmp_lst, overtaken >>
    BY <1>4 DEF RegisterSearch
  <2>2. registered \in Nat /\ ~(i <= registered)
    BY TaskTimerAssumption DEF TimerInv, TypeInv
  <2>3. \A a \in Timers : a # i => mExpire_Date'[a] = mExpire_Date[a]
    BY <2>1 DEF TimerInv, TypeInv
  <2> HIDE DEF i
  <2>4. \A a : Has(m_lstHanders, a) \/ Has(tmp_lst, a) => a \in Timers /\ a # i
    <3>1. \A a : Has(m_lstHanders, a) \/ Has(tmp_lst, a) => a \in Timers
      BY HasIn DEF TimerInv, TypeInv
    <3> QED
      BY <2>2, <3>1 DEF TimerInv, PlaceInv
  <2>5. ~overtaken => InOrder(m_lstHanders', mExpire_Date')
    BY <2>1, <2>3, <2>4, FewerInOrder DEF SortInv
  <2>6. ~overtaken /\ tpc = "insert" => Fits(m_lstHanders', mExpire_Date', Head(tmp_lst'), titer')
    <3> SUFFICES ASSUME ~overtaken, tpc = "insert"
                 PROVE  Fits(m_lstHanders, mExpire_Date', Head(tmp_lst), titer)
      BY <2>1
    <3>1. Has(tmp_lst, Head(tmp_lst))
      BY HeadHas DEF TimerInv, TypeInv, BackInv
    <3>2. mExpire_Date'[Head(tmp_lst)] = mExpire_Date[Head(tmp_lst)]
      BY <2>3, <2>4, <3>1
    <3>3. Fits(m_lstHanders, mExpire_Date, Head(tmp_lst), titer)
      BY DEF SortInv
    <3> QED
      BY <2>3, <2>4, <3>2, <3>3, FewerFits
  <2> QED
    BY <2>1, <2>5, <2>6 DEF SortInv
<1>5. ASSUME NEW i \in Timers, removeTimer(i) PROVE SortInv'
  <2>1. /\ upc = "idle"
        /\ UNCHANGED << mExpire_Date, tpc, titer, tmp_lst, upc, uiter, registered, overtaken >>
    BY <1>5 DEF removeTimer
  <2>2. PICK k \in DOMAIN m_lstHanders : m_lstHanders' = RemoveAt(m_lstHanders, k)
    BY <1>5 DEF removeTimer
  <2>3. m_lstHanders \in Seq(Timers) /\ Distinct(m_lstHanders)
    BY DEF TimerInv, TypeInv, PlaceInv
  <2>4. k \in 1 .. Len(m_lstHanders) /\ m_lstHanders # << >>
    BY <2>3
  <2>5. /\ \A a : Has(m_lstHanders', a) => Has(m_lstHanders, a)
        /\ \A a, b : Before(m_lstHanders', a, b) => Before(m_lstHanders, a, b)
    BY <2>2, <2>3, <2>4, RemoveAtHas, RemoveAtBefore
  <2>6. ~overtaken => InOrder(m_lstHanders', mExpire_Date)
    BY <2>5, FewerInOrder DEF SortInv
  <2>7. ~overtaken /\ tpc = "insert" => Fits(m_lstHanders', mExpire_Date, Head(tmp_lst), titer)
    BY <2>4, <2>5, FewerFits DEF SortInv
  <2> QED
    BY <2>1, <2>6, <2>7 DEF SortInv
<1>6. CASE Destroy
  <2>1. tpc \in {"leaving", "gone"} /\ tpc' = tpc /\ upc' = "destroyed" /\ m_lstHanders' = << >>
    BY <1>6 DEF Destroy
  <2>2. \A a, b : ~Before(<< >>, a, b)
    BY EmptyHas, BeforeHas
  <2> QED
    BY <2>1, <2>2 DEF SortInv, InOrder
<1> QED
  BY <1>1, <1>2, <1>3, <1>4, <1>5, <1>6 DEF User, UserCall

LEMMA SortStep ==
  ASSUME TimerInv, SortInv, [Next]_vars PROVE SortInv'
<1>1. CASE UNCHANGED vars
  BY <1>1, SortQuiet DEF vars, timerVars, conditionVars, threadVars, userVars, historyVars
<1>2. CASE Tick
  BY <1>2, SortQuiet DEF Tick, timerVars, conditionVars, threadVars, userVars, historyVars
<1> QED
  BY <1>1, <1>2, SortThread, SortUser DEF Next

LEMMA SortInit == Init => SortInv
<1>1. \A a, b : ~Before(<< >>, a, b)
  BY EmptyHas, BeforeHas
<1> QED
  BY <1>1 DEF Init, SortInv, InOrder

\* No timer of the list s with the dates d is due before t.
NoneDue(s, d, t) == \A a \in Timers : Has(s, a) => t <= d[a]

LEMMA HeadBounds ==
  ASSUME NEW s \in Seq(Timers), NEW d \in [ Timers -> Nat ], s # << >>, InOrder(s, d)
  PROVE  NoneDue(s, d, d[Head(s)])
<1> SUFFICES ASSUME NEW k \in DOMAIN s PROVE d[Head(s)] <= d[s[k]]
  BY DEF NoneDue, Has
<1>1. k \in 1 .. Len(s) /\ 1 \in DOMAIN s /\ Head(s) = s[1] /\ s[1] \in Timers /\ s[k] \in Timers
  OBVIOUS
<1>2. CASE k = 1
  BY <1>1, <1>2
<1>3. CASE k # 1
  <2>1. Before(s, s[1], s[k])
    BY <1>1, <1>3 DEF Before
  <2> QED
    BY <1>1, <2>1 DEF InOrder
<1> QED
  BY <1>2, <1>3

\* The comment on pushTimer: as long as no registration falls between the unlocked
\* search and insertion of the timer thread, or the other way round, the head of
\* the list is the timer to fire first.
THEOREM HeadFiresFirst == Spec => []HeadIsEarliest
<1>1. TimerInv /\ SortInv => HeadIsEarliest
  <2> SUFFICES ASSUME TimerInv, SortInv, ~overtaken, NEW k \in DOMAIN m_lstHanders
               PROVE  mExpire_Date[Head(m_lstHanders)] <= mExpire_Date[m_lstHanders[k]]
    BY DEF HeadIsEarliest
  <2>1. /\ m_lstHanders \in Seq(Timers) /\ mExpire_Date \in [ Timers -> Nat ]
    BY DEF TimerInv, TypeInv
  <2>2. m_lstHanders[k] \in Timers /\ Has(m_lstHanders, m_lstHanders[k]) /\ m_lstHanders # << >>
    BY <2>1 DEF Has
  <2> QED
    BY <2>1, <2>2, HeadBounds DEF NoneDue, SortInv
<1> QED
  BY <1>1, Inductive, SortInit, SortStep, PTL DEF Spec

-------------------------------------------------------------------------------
(* The sleep.  What the thread saw when it left the list, the head that is  *)
(* not due, bounds every date of the list until a timer is put in, and that *)
(* sets the flag, which only the thread itself clears before it looks again. *)

\* The thread has looked at the list and not yet come back to it.
Looked == tpc \in {"repush", "insert", "wait", "presleep", "asleep"}

SleepInv ==
  Looked /\ ~m_bSignaled /\ ~overtaken /\ m_lstHanders # << >> =>
    nextsec > 0 /\ NoneDue(m_lstHanders, mExpire_Date, now + nextsec)

\* The steps that put nothing into the list and take no look at it.
LEMMA SleepQuiet ==
  ASSUME SleepInv,
         \A a : Has(m_lstHanders', a) => Has(m_lstHanders, a) /\ mExpire_Date'[a] = mExpire_Date[a],
         m_lstHanders = << >> => m_lstHanders' = << >>,
         ~m_bSignaled' /\ Looked' => ~m_bSignaled /\ Looked,
         Looked' => now' = now /\ nextsec' = nextsec,
         overtaken' = overtaken
  PROVE  SleepInv'
BY DEF SleepInv, NoneDue

LEMMA SleepThread ==
  ASSUME TimerInv, SortInv, SleepInv, TimerThread PROVE SleepInv'
<1> USE DEF userVars, timerVars, conditionVars, historyVars
<1>1. CASE RunTest \/ WakeUp \/ Leave
  BY <1>1 DEF RunTest, WakeUp, Leave, SleepInv, Looked
<1>2. CASE ProcessHead
  BY <1>2 DEF ProcessHead, SleepInv, Looked
<1>3. CASE RepushSearch \/ RepushEnd \/ Sleep
  <2>1. UNCHANGED << m_lstHanders, mExpire_Date, m_bSignaled, now, nextsec, overtaken >>
    BY <1>3 DEF RepushSearch, RepushEnd, Sleep
  <2>2. Looked
    BY <1>3 DEF RepushSearch, RepushEnd, Sleep, Looked
  <2> QED
    BY <2>1, <2>2, SleepQuiet
<1>4. CASE RepushInsert
  BY <1>4 DEF RepushInsert, Insert, SleepInv
<1>5. CASE WaitTest
  <2>1. UNCHANGED << m_lstHanders, mExpire_Date, now, nextsec, overtaken >> /\ Looked
    BY <1>5 DEF WaitTest, Looked
  <2>2. ~m_bSignaled' /\ Looked' => ~m_bSignaled
    BY <1>5 DEF WaitTest, Looked
  <2> QED
    BY <2>1, <2>2, SleepQuiet
<1>6. CASE ProcessEnd
  <2>1. UNCHANGED << m_lstHanders, mExpire_Date, overtaken >>
    BY <1>6 DEF ProcessEnd
  <2> SUFFICES ASSUME ~overtaken, m_lstHanders # << >>
               PROVE  nextsec' > 0 /\ NoneDue(m_lstHanders, mExpire_Date, now' + nextsec')
    BY <2>1 DEF SleepInv
  <2> DEFINE date == mExpire_Date[Head(m_lstHanders)]
  <2>2. m_lstHanders \in Seq(Timers) /\ mExpire_Date \in [ Timers -> Nat ] /\ clock \in Nat
    BY TaskTimerAssumption DEF TimerInv, TypeInv
  <2>3. date \in Nat
    BY <2>2, HeadHas
  <2>4. date > clock /\ now' = clock /\ nextsec' = date - clock
    BY <1>6 DEF ProcessEnd
  <2>5. NoneDue(m_lstHanders, mExpire_Date, date)
    BY <2>2, HeadBounds DEF SortInv
  <2> HIDE DEF date
  <2>6. nextsec' > 0 /\ now' + nextsec' = date
    BY <2>2, <2>3, <2>4
  <2> QED
    BY <2>5, <2>6
<1> QED
  BY <1>1, <1>2, <1>3, <1>4, <1>5, <1>6 DEF TimerThread

LEMMA SleepUser ==
  ASSUME TimerInv, SleepInv, User PROVE SleepInv'
<1> USE DEF threadVars, userVars, timerVars, conditionVars, historyVars
<1>1. CASE RegisterFound \/ stop
  <2>1. UNCHANGED << m_lstHanders, mExpire_Date, m_bSignaled, now, nextsec, tpc, overtaken >>
    BY <1>1 DEF RegisterFound, stop
  <2> QED
    BY <2>1, SleepQuiet DEF Looked
<1>2. CASE RegisterSignal
  <2>1. UNCHANGED << m_lstHanders, mExpire_Date, m_bSignaled, now, nextsec, overtaken >>
    BY <1>2 DEF RegisterSignal
  <2>2. Looked' => Looked
    BY <1>2 DEF RegisterSignal, Looked
  <2> QED
    BY <2>1, <2>2, SleepQuiet
<1>3. CASE RegisterInsert
  BY <1>3 DEF RegisterInsert, Insert, SleepInv
<1>4. ASSUME NEW d \in Dates, NEW c \in Counts, NEW n \in Intervals, RegisterSearch(d, c, n)
      PROVE  SleepInv'
  <2> DEFINE i == registered + 1
  <2>1. /\ mExpire_Date' = [ mExpire_Date EXCEPT ![i] = d ]
        /\ UNCHANGED << m_lstHanders, m_bSignaled, now, nextsec, tpc, overtaken >>
    BY <1>4 DEF RegisterSearch
  <2>2. registered \in Nat /\ ~(i <= registered)
    BY TaskTimerAssumption DEF TimerInv, TypeInv
  <2>3. \A a \in Timers : a # i => mExpire_Date'[a] = mExpire_Date[a]
    BY <2>1 DEF TimerInv, TypeInv
  <2> HIDE DEF i
  <2>4. \A a : Has(m_lstHanders, a) => a \in Timers /\ a # i
    <3>1. \A a : Has(m_lstHanders, a) => a \in Timers
      BY HasIn DEF TimerInv, TypeInv
    <3> QED
      BY <2>2, <3>1 DEF TimerInv, PlaceInv
  <2> QED
    BY <2>1, <2>3, <2>4, SleepQuiet DEF Looked
<1>5. ASSUME NEW i \in Timers, removeTimer(i) PROVE SleepInv'
  <2>1. UNCHANGED << mExpire_Date, m_bSignaled, now, nextsec, tpc, overtaken >>
    BY <1>5 DEF removeTimer
  <2>2. PICK k \in DOMAIN m_lstHanders : m_lstHanders' = RemoveAt(m_lstHanders, k)
    BY <1>5 DEF removeTimer
  <2>3. m_lstHanders \in Seq(Timers) /\ Distinct(m_lstHanders)
    BY DEF TimerInv, TypeInv, PlaceInv
  <2>4. k \in 1 .. Len(m_lstHanders) /\ m_lstHanders # << >>
    BY <2>3
  <2>5. \A a : Has(m_lstHanders', a) => Has(m_lstHanders, a)
    BY <2>2, <2>3, <2>4, RemoveAtHas
  <2> QED
    BY <2>1, <2>4, <2>5, SleepQuiet DEF Looked
<1>6. CASE Destroy
  BY <1>6 DEF Destroy, SleepInv
<1> QED
  BY <1>1, <1>2, <1>3, <1>4, <1>5, <1>6 DEF User, UserCall

LEMMA SleepStep ==
  ASSUME TimerInv, SortInv, SleepInv, [Next]_vars PROVE SleepInv'
<1>1. CASE UNCHANGED vars
  BY <1>1, SleepQuiet DEF Looked, vars, timerVars, conditionVars, threadVars, userVars, historyVars
<1>2. CASE Tick
  BY <1>2, SleepQuiet DEF Looked, Tick, timerVars, conditionVars, threadVars, userVars, historyVars
<1> QED
  BY <1>1, <1>2, SleepThread, SleepUser DEF Next

\* timedwait: while the flag is clear, the thread sleeps no longer than until the
\* first date of the list, also of what was registered since it looked.
THEOREM SleepsUntilDue == Spec => []NoOversleep
<1>1. Init => SleepInv
  BY DEF Init, SleepInv
<1>2. TimerInv /\ SleepInv => NoOversleep
  <2> SUFFICES ASSUME TimerInv, SleepInv, tpc = "asleep", ~m_bSignaled, ~overtaken,
                      NEW k \in DOMAIN m_lstHanders
               PROVE  nextsec > 0 /\ now + nextsec <= mExpire_Date[m_lstHanders[k]]
    BY DEF NoOversleep
  <2>1. m_lstHanders \in Seq(Timers)
    BY DEF TimerInv, TypeInv
  <2>2. m_lstHanders[k] \in Timers /\ Has(m_lstHanders, m_lstHanders[k]) /\ m_lstHanders # << >>
    BY <2>1 DEF Has
  <2> QED
    BY <2>2 DEF SleepInv, Looked, NoneDue
<1> QED
  BY <1>1, <1>2, Inductive, SortInit, SortStep, SleepStep, PTL DEF Spec

-------------------------------------------------------------------------------
(* Timers that fire once.  The insertion without the mutex concerns timers *)
(* that fire again only: without them nothing is ever put back, and the    *)
(* list is in order whatever the threads do.                               *)

OnceInv ==
  /\ tmp_lst = << >> /\ tpc # "insert" /\ ~overtaken
  /\ \A i \in Timers : asked[i] <= 1

LEMMA OnceStep ==
  ASSUME \A c \in Counts : c <= 1, TimerInv, OnceInv, [Next]_vars PROVE OnceInv'
<1> USE DEF OnceInv, timerVars, conditionVars, threadVars, userVars, historyVars
<1>1. CASE UNCHANGED vars \/ Tick
  BY <1>1 DEF Tick, vars
<1>2. CASE ThreadQuiet
  <2>1. tpc' # "insert"
    BY <1>2, ThreadQuietFrame
  <2> QED
    BY <1>2, <2>1, ThreadQuietFrame
<1>3. CASE RepushInsert
  BY <1>3 DEF RepushInsert
<1>4. CASE ProcessHead
  <2> DEFINE i == Head(m_lstHanders)
  <2>1. UNCHANGED << tpc, asked, overtaken >> /\ m_lstHanders # << >>
        /\ \E ret \in {-1, 0} : Fire(i, ret)
    BY <1>4 DEF ProcessHead
  <2>2. i \in Timers /\ Has(m_lstHanders, i)
    BY <2>1, HeadHas DEF TimerInv, TypeInv
  <2>3. fired[i] + mLeftCount[i] = asked[i]
    BY <2>2 DEF TimerInv, PlaceInv, OrderInv
  <2>4. fired[i] \in Nat /\ mLeftCount[i] \in Int /\ asked[i] <= 1
    BY <2>2 DEF TimerInv, TypeInv
  <2>5. mLeftCount[i] - 1 <= 0
    BY <2>3, <2>4
  <2>6. tmp_lst' = tmp_lst
    BY <2>1, <2>5 DEF Fire
  <2> QED
    BY <2>1, <2>6
<1>5. CASE RegisterFound \/ RegisterSignal \/ Destroy \/ stop \/ \E i \in Timers : removeTimer(i)
  BY <1>5 DEF RegisterFound, RegisterSignal, Destroy, stop, removeTimer
<1>6. CASE RegisterInsert
  BY <1>6 DEF RegisterInsert, Overlap
<1>7. CASE \E d \in Dates, c \in Counts, n \in Intervals : RegisterSearch(d, c, n)
  <2>1. PICK c \in Counts : /\ asked' = [ asked EXCEPT ![registered + 1] = c ]
                             /\ UNCHANGED << tmp_lst, tpc, overtaken >>
    BY <1>7 DEF RegisterSearch
  <2>2. \A i \in Timers : asked'[i] <= 1
    BY <2>1 DEF TimerInv, TypeInv
  <2> QED
    BY <2>1, <2>2
<1> QED
  BY <1>1, <1>2, <1>3, <1>4, <1>5, <1>6, <1>7 DEF Next, TimerThread, ThreadQuiet, User, UserCall

\* A service whose timers all fire once keeps its list in order: nothing is
\* ever inserted without the mutex.
THEOREM OneShotsInOrder ==
  ASSUME \A c \in Counts : c <= 1
  PROVE  Spec => [](~overtaken /\ InOrder(m_lstHanders, mExpire_Date))
<1>1. Init => OnceInv
  BY DEF Init, OnceInv
<1>2. TimerInv /\ OnceInv /\ [Next]_vars => OnceInv'
  BY OnceStep
<1>3. SortInv /\ OnceInv => ~overtaken /\ InOrder(m_lstHanders, mExpire_Date)
  BY DEF SortInv, OnceInv
<1> QED
  BY <1>1, <1>2, <1>3, Inductive, SortInit, SortStep, PTL DEF Spec
===============================================================================
