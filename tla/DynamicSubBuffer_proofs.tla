----------------------- MODULE DynamicSubBuffer_proofs ----------------------
(***************************************************************************)
(* What the calls of a DynamicSubBuffer do to it, for any queue, clock and *)
(* configuration: which data stay, which are handed back, and what becomes *)
(* of their order and of the times they carry.                             *)
(***************************************************************************)
EXTENDS DynamicSubBuffer, SequenceTheorems, WellFoundedInduction, TLAPS

Datums == [last_send : Nat, push_time : Nat, data : Data]
\* The sub-buffers with a configuration of C.
Subs(C) == [cfg : C, data : Seq(Datums), last_access : Int]

Payloads(q) == {q[i].data : i \in DOMAIN q}

\* Nothing is pushed or sent in the future.
Timely(q, t) == \A i \in DOMAIN q : q[i].push_time \in 1..t /\ q[i].last_send \in 0..t

\* A datum is in the queue once.
Once(q) == \A i, j \in DOMAIN q : q[i].data = q[j].data => i = j

\* The queue is ordered by the time of the push, as its configuration says.
Sorted(q, newest_first) ==
    \A i, j \in DOMAIN q : i < j =>
        IF newest_first THEN q[i].push_time >= q[j].push_time
                        ELSE q[i].push_time <= q[j].push_time

-----------------------------------------------------------------------------
(* Queues and parts of queues. *)

\* Indices and elements of a deque.
LEMMA Domains ==
    ASSUME NEW q \in Seq(Datums)
    PROVE  /\ DOMAIN q = 1..Len(q) /\ Len(q) \in Nat
           /\ \A i \in DOMAIN q : q[i] \in Datums
BY LenProperties, ElementOfSeq

\* The fields of a datum have their types.
LEMMA DatumTypes ==
    ASSUME NEW d \in Datums
    PROVE  d.last_send \in Nat /\ d.push_time \in Nat /\ d.data \in Data
BY DEF Datums

\* r has some of the elements of q, in their order.
Embeds(r, q) ==
    \E f \in [DOMAIN r -> DOMAIN q] :
        /\ \A i, j \in DOMAIN r : i < j => f[i] < f[j]
        /\ \A i \in DOMAIN r : r[i] = q[f[i]]

\* A deque from which data were removed is as timely, duplicate-free and
\* sorted as before.
LEMMA EmbedsKeeps ==
    ASSUME NEW q \in Seq(Datums), NEW r \in Seq(Datums), Embeds(r, q)
    PROVE  /\ \A t : Timely(q, t) => Timely(r, t)
           /\ Once(q) => Once(r)
           /\ \A nf : Sorted(q, nf) => Sorted(r, nf)
           /\ Payloads(r) \subseteq Payloads(q)
           /\ \A i \in DOMAIN r : \E j \in DOMAIN q : r[i] = q[j]
<1>1. PICK f \in [DOMAIN r -> DOMAIN q] :
         /\ \A i, j \in DOMAIN r : i < j => f[i] < f[j]
         /\ \A i \in DOMAIN r : r[i] = q[f[i]]
  BY DEF Embeds
<1>2. /\ \A i \in DOMAIN r : f[i] \in DOMAIN q
      /\ DOMAIN r = 1..Len(r) /\ DOMAIN q = 1..Len(q) /\ Len(q) \in Nat /\ Len(r) \in Nat
  BY Domains
<1>3. ASSUME NEW t, Timely(q, t) PROVE Timely(r, t)  BY <1>1, <1>2, <1>3 DEF Timely
<1>4. ASSUME Once(q) PROVE Once(r)
  <2> SUFFICES ASSUME NEW i \in DOMAIN r, NEW j \in DOMAIN r, r[i].data = r[j].data PROVE i = j
    BY DEF Once
  <2>1. f[i] = f[j]  BY <1>1, <1>2, <1>4 DEF Once
  <2>2. ~ (i < j) /\ ~ (j < i)  BY <1>1, <1>2, <2>1
  <2> QED BY <1>2, <2>2
<1>5. ASSUME NEW nf, Sorted(q, nf) PROVE Sorted(r, nf)
  <2> SUFFICES ASSUME NEW i \in DOMAIN r, NEW j \in DOMAIN r, i < j
               PROVE  IF nf THEN r[i].push_time >= r[j].push_time
                      ELSE r[i].push_time <= r[j].push_time
    BY DEF Sorted
  <2>1. f[i] < f[j] /\ f[i] \in DOMAIN q /\ f[j] \in DOMAIN q  BY <1>1, <1>2
  <2>2. IF nf THEN q[f[i]].push_time >= q[f[j]].push_time
        ELSE q[f[i]].push_time <= q[f[j]].push_time
    BY <1>5, <2>1 DEF Sorted
  <2> QED BY <1>1, <2>2
<1>6. Payloads(r) \subseteq Payloads(q)  BY <1>1, <1>2 DEF Payloads
<1> QED BY <1>1, <1>2, <1>3, <1>4, <1>5, <1>6

\* SubSeq of a queue, and what it leaves out.
LEMMA SubSeqEmbeds ==
    ASSUME NEW q \in Seq(Datums), NEW a \in Nat, NEW b \in Nat, a >= 1, b <= Len(q)
    PROVE  /\ SubSeq(q, a, b) \in Seq(Datums)
           /\ Embeds(SubSeq(q, a, b), q)
           /\ \A i \in a..b : \E j \in DOMAIN SubSeq(q, a, b) : SubSeq(q, a, b)[j] = q[i]
           /\ \A j \in DOMAIN SubSeq(q, a, b) : \E i \in a..b : SubSeq(q, a, b)[j] = q[i]
<1> DEFINE r == SubSeq(q, a, b)
<1>0. Len(q) \in Nat /\ DOMAIN q = 1..Len(q)  BY Domains
<1>1. \A i \in a..b : i \in DOMAIN q /\ q[i] \in Datums  BY <1>0, Domains
<1>2. /\ r \in Seq(Datums) /\ Len(r) = IF a <= b THEN b - a + 1 ELSE 0
      /\ \A i \in 1..(b - a + 1) : r[i] = q[a + i - 1]
  BY <1>1, SubSeqProperties
<1> HIDE DEF r
<1>3. DOMAIN r = 1..Len(r) /\ \A i \in DOMAIN r : i \in 1..(b - a + 1) /\ a + i - 1 \in a..b
  BY <1>2, Domains
<1>4. Embeds(r, q)
  <2> DEFINE f == [i \in DOMAIN r |-> a + i - 1]
  <2>1. f \in [DOMAIN r -> DOMAIN q]  BY <1>1, <1>3
  <2>2. \A i, j \in DOMAIN r : i < j => f[i] < f[j]  BY <1>3
  <2>3. \A i \in DOMAIN r : r[i] = q[f[i]]  BY <1>2, <1>3
  <2> QED BY <2>1, <2>2, <2>3 DEF Embeds
<1>5. ASSUME NEW i \in a..b PROVE \E j \in DOMAIN r : r[j] = q[i]
  <2>1. i - a + 1 \in DOMAIN r /\ i - a + 1 \in 1..(b - a + 1) /\ a + (i - a + 1) - 1 = i
    BY <1>2, <1>3
  <2>2. r[i - a + 1] = q[i]  BY <1>2, <2>1
  <2> QED BY <2>1, <2>2
<1>6. \A j \in DOMAIN r : \E i \in a..b : r[j] = q[i]  BY <1>2, <1>3
<1> QED BY <1>2, <1>4, <1>5, <1>6 DEF r

\* Removing one position keeps all others, in their order.
LEMMA RemoveAtEmbeds ==
    ASSUME NEW q \in Seq(Datums), NEW k \in DOMAIN q
    PROVE  /\ RemoveAt(q, k) \in Seq(Datums)
           /\ Embeds(RemoveAt(q, k), q)
           /\ \A i \in DOMAIN q : i # k => \E j \in DOMAIN RemoveAt(q, k) : RemoveAt(q, k)[j] = q[i]
           /\ \A j \in DOMAIN RemoveAt(q, k) : \E i \in DOMAIN q : i # k /\ RemoveAt(q, k)[j] = q[i]
<1> DEFINE x == SubSeq(q, 1, k - 1)
           y == SubSeq(q, k + 1, Len(q))
           r == x \o y
<1>0. Len(q) \in Nat /\ DOMAIN q = 1..Len(q) /\ \A i \in DOMAIN q : q[i] \in Datums  BY Domains
<1>1. /\ x \in Seq(Datums) /\ Len(x) = k - 1
      /\ \A i \in 1..(k - 1) : x[i] = q[i]
  <2>1. \A i \in 1..(k - 1) : q[i] \in Datums  BY <1>0
  <2>2. /\ x \in Seq(Datums) /\ Len(x) = IF 1 <= k - 1 THEN (k - 1) - 1 + 1 ELSE 0
        /\ \A i \in 1..((k - 1) - 1 + 1) : x[i] = q[1 + i - 1]
    BY <1>0, <2>1, SubSeqProperties
  <2> HIDE DEF x
  <2>3. \A i \in 1..(k - 1) : i \in 1..((k - 1) - 1 + 1) /\ 1 + i - 1 = i  BY <1>0
  <2> QED BY <1>0, <2>2, <2>3
<1>2. /\ y \in Seq(Datums) /\ Len(y) = Len(q) - k
      /\ \A i \in 1..(Len(q) - k) : y[i] = q[k + i]
  <2>1. \A i \in (k + 1)..Len(q) : q[i] \in Datums  BY <1>0
  <2>2. /\ y \in Seq(Datums) /\ Len(y) = IF k + 1 <= Len(q) THEN Len(q) - (k + 1) + 1 ELSE 0
        /\ \A i \in 1..(Len(q) - (k + 1) + 1) : y[i] = q[(k + 1) + i - 1]
    BY <1>0, <2>1, SubSeqProperties
  <2> HIDE DEF y
  <2>3. \A i \in 1..(Len(q) - k) : i \in 1..(Len(q) - (k + 1) + 1) /\ (k + 1) + i - 1 = k + i
    BY <1>0
  <2> QED BY <1>0, <2>2, <2>3
<1>3. r = RemoveAt(q, k)  BY DEF RemoveAt
<1> HIDE DEF x, y
<1>4. /\ r \in Seq(Datums) /\ Len(r) = Len(x) + Len(y)
      /\ \A i \in 1..Len(x) + Len(y) : r[i] = IF i <= Len(x) THEN x[i] ELSE y[i - Len(x)]
  <2>1. x \in Seq(Datums) /\ y \in Seq(Datums)  BY <1>1, <1>2
  <2> QED BY <2>1, ConcatProperties
<1> HIDE DEF r
<1>5. DOMAIN r = 1..(Len(q) - 1)  BY <1>0, <1>1, <1>2, <1>4, Domains
<1>6. \A i \in DOMAIN r : i < k => r[i] = q[i]
  <2> SUFFICES ASSUME NEW i \in DOMAIN r, i < k PROVE r[i] = q[i]
    OBVIOUS
  <2>1. i \in 1..Len(x) + Len(y) /\ i <= Len(x) /\ i \in 1..(k - 1)  BY <1>0, <1>1, <1>2, <1>5
  <2> QED BY <1>1, <1>4, <2>1
<1>7. \A i \in DOMAIN r : i >= k => r[i] = q[i + 1]
  <2> SUFFICES ASSUME NEW i \in DOMAIN r, i >= k PROVE r[i] = q[i + 1]
    OBVIOUS
  <2>1. /\ i \in 1..Len(x) + Len(y) /\ ~ (i <= Len(x)) /\ i - Len(x) \in 1..(Len(q) - k)
        /\ k + (i - Len(x)) = i + 1
    BY <1>0, <1>1, <1>2, <1>5
  <2> QED BY <1>2, <1>4, <2>1
<1>8. Embeds(r, q)
  <2> DEFINE f == [i \in DOMAIN r |-> IF i < k THEN i ELSE i + 1]
  <2>1. f \in [DOMAIN r -> DOMAIN q]  BY <1>0, <1>5
  <2>2. \A i, j \in DOMAIN r : i < j => f[i] < f[j]  BY <1>0, <1>5
  <2>3. \A i \in DOMAIN r : r[i] = q[f[i]]  BY <1>0, <1>5, <1>6, <1>7
  <2> QED BY <2>1, <2>2, <2>3 DEF Embeds
<1>9. ASSUME NEW i \in DOMAIN q, i # k PROVE \E j \in DOMAIN r : r[j] = q[i]
  <2>1. CASE i < k
    <3>1. i \in DOMAIN r  BY <1>0, <1>5, <2>1
    <3> QED BY <1>6, <2>1, <3>1
  <2>2. CASE i > k
    <3>1. i - 1 \in DOMAIN r /\ i - 1 >= k /\ (i - 1) + 1 = i  BY <1>0, <1>5, <2>2
    <3>2. r[i - 1] = q[i]  BY <1>7, <3>1
    <3> QED BY <3>1, <3>2
  <2> QED BY <1>0, <1>9, <2>1, <2>2
<1>10. ASSUME NEW j \in DOMAIN r PROVE \E i \in DOMAIN q : i # k /\ r[j] = q[i]
  <2>1. CASE j < k
    <3>1. j \in DOMAIN q /\ j # k  BY <1>0, <1>5, <2>1
    <3> QED BY <1>6, <2>1, <3>1
  <2>2. CASE j >= k
    <3>1. j + 1 \in DOMAIN q /\ j + 1 # k  BY <1>0, <1>5, <2>2
    <3> QED BY <1>7, <2>2, <3>1
  <2> QED BY <1>0, <1>5, <2>1, <2>2
<1> QED BY <1>3, <1>4, <1>8, <1>9, <1>10

\* The least and the greatest of some positions.
LEMMA MinPosition ==
    ASSUME NEW S, S \subseteq Nat, S # {}
    PROVE  Min(S) \in S /\ \A x \in S : Min(S) <= x
<1>1. \E x \in S : \A y \in S : ~ (<<y, x>> \in OpToRel(<, Nat))
  BY NatLessThanWellFounded, WFMin
<1>2. PICK x \in S : \A y \in S : ~ (<<y, x>> \in OpToRel(<, Nat))  BY <1>1
<1>3. \A y \in S : x <= y
  <2> SUFFICES ASSUME NEW y \in S, ~ (x <= y) PROVE FALSE
    OBVIOUS
  <2>1. y < x /\ y \in Nat /\ x \in Nat  OBVIOUS
  <2>2. <<y, x>> \in OpToRel(<, Nat)  BY <2>1 DEF OpToRel
  <2> QED BY <1>2, <2>2
<1> QED BY <1>3 DEF Min

\* Max() of a non-empty set of positions is its greatest member.
LEMMA MaxPosition ==
    ASSUME NEW n \in Nat, NEW S, S \subseteq 0..n, S # {}
    PROVE  Max(S) \in S /\ \A x \in S : Max(S) >= x
<1> DEFINE T == {n - x : x \in S}
<1>1. T \subseteq Nat /\ T # {}
  <2>1. \A x \in S : n - x \in Nat  OBVIOUS
  <2>2. PICK x \in S : TRUE  OBVIOUS
  <2>3. n - x \in T  BY <2>2
  <2> QED BY <2>1, <2>3
<1>2. PICK t \in T : \A y \in T : t <= y
  <2> HIDE DEF T
  <2> QED BY <1>1, MinPosition
<1>3. PICK x \in S : t = n - x  OBVIOUS
<1>4. \A y \in S : x >= y
  <2> SUFFICES ASSUME NEW y \in S PROVE x >= y
    OBVIOUS
  <2>1. n - x <= n - y  BY <1>2, <1>3
  <2>2. x \in 0..n /\ y \in 0..n  OBVIOUS
  <2> QED BY <2>1, <2>2
<1> QED BY <1>4 DEF Max

-----------------------------------------------------------------------------
(* What the calls do to one sub-buffer. *)

\* The fields of a sub-buffer have their types, and a new deque makes a
\* sub-buffer.
LEMMA SubTypes ==
    ASSUME NEW C, NEW s \in Subs(C)
    PROVE  /\ s.cfg \in C /\ s.data \in Seq(Datums) /\ s.last_access \in Int
           /\ \A q \in Seq(Datums) : /\ [s EXCEPT !.data = q] \in Subs(C)
                                     /\ [s EXCEPT !.data = q].data = q
                                     /\ [s EXCEPT !.data = q].cfg = s.cfg
                                     /\ [s EXCEPT !.data = q].last_access = s.last_access
BY DEF Subs

\* update() installs the merged configuration and leaves the deque alone.
LEMMA UpdateSubEffect ==
    ASSUME NEW C, NEW s \in Subs(C), NEW cfgs,
           MergeConfigs(cfgs) \in C, MergeConfigs(cfgs).blackout_time \in Nat
    PROVE  /\ UpdateSub(s, cfgs) \in Subs(C)
           /\ UpdateSub(s, cfgs).data = s.data
           /\ UpdateSub(s, cfgs).cfg = MergeConfigs(cfgs)
<1> DEFINE c == MergeConfigs(cfgs)
<1>1. c \in C /\ c.blackout_time \in Nat  OBVIOUS
<1>2. UpdateSub(s, cfgs) = [s EXCEPT !.cfg = c, !.last_access = s.last_access - c.blackout_time]
  BY DEF UpdateSub
<1> HIDE DEF c
<1> DEFINE a == s.last_access - c.blackout_time
<1>3. a \in Int
  <2>1. s.last_access \in Int  BY SubTypes
  <2>2. c.blackout_time \in Nat  BY <1>1
  <2> QED BY <2>1, <2>2
<1> HIDE DEF a
<1>4. UpdateSub(s, cfgs) = [s EXCEPT !.cfg = c, !.last_access = a]  BY <1>2 DEF a
<1>5. /\ UpdateSub(s, cfgs) \in Subs(C) /\ UpdateSub(s, cfgs).data = s.data
      /\ UpdateSub(s, cfgs).cfg = c
  <2>1. /\ [s EXCEPT !.cfg = c, !.last_access = a] \in Subs(C)
        /\ [s EXCEPT !.cfg = c, !.last_access = a].cfg = c
        /\ [s EXCEPT !.cfg = c, !.last_access = a].data = s.data
    BY <1>1, <1>3 DEF Subs
  <2> QED BY <1>4, <2>1
<1> QED BY <1>5 DEF c

\* A new sub-buffer is well-typed and empty.
LEMMA NewSubEffect ==
    ASSUME NEW C, NEW cfgs, NEW t \in Nat,
           MergeConfigs(cfgs) \in C, MergeConfigs(cfgs).blackout_time \in Nat
    PROVE  /\ NewSub(cfgs, t) \in Subs(C)
           /\ NewSub(cfgs, t).data = <<>>
<1> DEFINE c == MergeConfigs(cfgs)
           a == t - c.blackout_time
           s == [cfg |-> DefaultConfig, data |-> <<>>, last_access |-> t]
<1>1. c \in C /\ c.blackout_time \in Nat  OBVIOUS
<1>2. NewSub(cfgs, t) = [s EXCEPT !.cfg = c, !.last_access = s.last_access - c.blackout_time]
  BY DEF NewSub, UpdateSub
<1> HIDE DEF c
<1>3. s.last_access = t  OBVIOUS
<1>4. a \in Int
  <2>1. c.blackout_time \in Nat  BY <1>1
  <2> QED BY <2>1
<1>5. NewSub(cfgs, t) = [s EXCEPT !.cfg = c, !.last_access = a]
  <2> HIDE DEF s
  <2> QED BY <1>2, <1>3
<1> HIDE DEF a
<1>6. /\ [s EXCEPT !.cfg = c, !.last_access = a] \in Subs(C)
      /\ [s EXCEPT !.cfg = c, !.last_access = a].data = <<>>
  <2>1. <<>> \in Seq(Datums)  OBVIOUS
  <2> QED BY <1>1, <1>4, <2>1 DEF Subs
<1> QED BY <1>5, <1>6

\* The empty deque has all properties a deque may have.
LEMMA EmptyQueue ==
    /\ <<>> \in Seq(Datums) /\ Payloads(<<>>) = {} /\ DOMAIN <<>> = {}
    /\ \A t : Timely(<<>>, t) /\ Once(<<>>) /\ Sorted(<<>>, t)
<1>1. <<>> \in Seq(Datums) /\ DOMAIN <<>> = {}  OBVIOUS
<1> QED BY <1>1 DEF Payloads, Timely, Once, Sorted

\* The queue with the new datum at its front or back.
LEMMA PushedEffect ==
    ASSUME NEW C, NEW s \in Subs(C), NEW t \in Data, NEW n \in Nat, n > 0,
           Timely(s.data, n), Once(s.data), t \notin Payloads(s.data)
    PROVE  LET all == Pushed(s, t, n)
           IN  /\ all \in Seq(Datums)
               /\ Timely(all, n) /\ Once(all)
               /\ Payloads(all) = Payloads(s.data) \cup {t}
               /\ Sorted(s.data, s.cfg.newest_first) => Sorted(all, s.cfg.newest_first)
               /\ \A i \in DOMAIN all : \/ all[i].data = t
                                        \/ \E j \in DOMAIN s.data : all[i] = s.data[j]
<1> DEFINE q == s.data
           d == Datum(t, n)
           nf == s.cfg.newest_first
           all == Pushed(s, t, n)
           k == IF nf THEN 1 ELSE Len(q) + 1          \* where the datum is
           g(i) == IF nf THEN i - 1 ELSE i             \* where the others come from
<1>1. /\ q \in Seq(Datums) /\ DOMAIN q = 1..Len(q) /\ Len(q) \in Nat
      /\ \A i \in DOMAIN q : q[i] \in Datums
  BY SubTypes, Domains
<1>2. d \in Datums /\ d.data = t /\ d.push_time = n /\ d.last_send = 0
  BY DEF Datum, Datums, ZeroPoint
<1>3. all = IF nf THEN <<d>> \o q ELSE Append(q, d)  BY DEF Pushed
<1> HIDE DEF q, d, nf, all
<1>4. /\ all \in Seq(Datums) /\ DOMAIN all = 1..(Len(q) + 1) /\ all[k] = d /\ k \in DOMAIN all
      /\ \A i \in DOMAIN all : i # k => g(i) \in DOMAIN q /\ all[i] = q[g(i)]
  <2>1. CASE nf
    <3>1. <<d>> \in Seq(Datums) /\ Len(<<d>>) = 1 /\ <<d>>[1] = d  BY <1>2
    <3>2. /\ all \in Seq(Datums) /\ Len(all) = 1 + Len(q)
          /\ \A i \in 1..(1 + Len(q)) : all[i] = IF i <= 1 THEN <<d>>[i] ELSE q[i - 1]
      BY <1>1, <1>3, <2>1, <3>1, ConcatProperties
    <3>3. DOMAIN all = 1..(Len(q) + 1)  BY <1>1, <3>2, Domains
    <3>4. all[1] = d /\ 1 \in DOMAIN all
      <4>1. 1 \in 1..(1 + Len(q)) /\ 1 \in DOMAIN all  BY <1>1, <3>3
      <4> QED BY <3>1, <3>2, <4>1
    <3>5. ASSUME NEW i \in DOMAIN all, i # 1 PROVE i - 1 \in DOMAIN q /\ all[i] = q[i - 1]
      <4>1. i \in 1..(1 + Len(q)) /\ ~ (i <= 1) /\ i - 1 \in DOMAIN q  BY <1>1, <3>3, <3>5
      <4> QED BY <3>2, <4>1
    <3> QED BY <2>1, <3>2, <3>3, <3>4, <3>5
  <2>2. CASE ~ nf
    <3>1. all = Append(q, d)  BY <1>3, <2>2
    <3>2. /\ all \in Seq(Datums) /\ Len(all) = Len(q) + 1 /\ all[Len(q) + 1] = d
          /\ \A i \in 1..Len(q) : all[i] = q[i]
      BY <1>1, <1>2, <3>1, AppendProperties
    <3>3. DOMAIN all = 1..(Len(q) + 1)  BY <3>2, Domains
    <3>4. Len(q) + 1 \in DOMAIN all  BY <1>1, <3>3
    <3>5. ASSUME NEW i \in DOMAIN all, i # Len(q) + 1 PROVE i \in DOMAIN q /\ all[i] = q[i]
      BY <1>1, <3>2, <3>3, <3>5
    <3> QED BY <2>2, <3>2, <3>3, <3>4, <3>5
  <2> QED BY <2>1, <2>2
<1>5. \A i \in DOMAIN q : \E j \in DOMAIN all : j # k /\ all[j] = q[i]
  <2> SUFFICES ASSUME NEW i \in DOMAIN q PROVE \E j \in DOMAIN all : j # k /\ all[j] = q[i]
    OBVIOUS
  <2>1. CASE nf
    <3>1. i + 1 \in DOMAIN all /\ i + 1 # k /\ g(i + 1) = i  BY <1>1, <1>4, <2>1
    <3>2. all[i + 1] = q[i]  BY <1>4, <3>1
    <3> QED BY <3>1, <3>2
  <2>2. CASE ~ nf
    <3>1. i \in DOMAIN all /\ i # k /\ g(i) = i  BY <1>1, <1>4, <2>2
    <3>2. all[i] = q[i]  BY <1>4, <3>1
    <3> QED BY <3>1, <3>2
  <2> QED BY <2>1, <2>2
<1>6. Timely(all, n)
  <2> SUFFICES ASSUME NEW i \in DOMAIN all
               PROVE  all[i].push_time \in 1..n /\ all[i].last_send \in 0..n
    BY DEF Timely
  <2>1. CASE i = k  BY <1>2, <1>4, <2>1
  <2>2. CASE i # k  BY <1>4, <2>2 DEF Timely, q
  <2> QED BY <2>1, <2>2
<1>7. \A i \in DOMAIN q : q[i].data # t  BY DEF Payloads, q
<1>8. Once(all)
  <2> SUFFICES ASSUME NEW i \in DOMAIN all, NEW j \in DOMAIN all, all[i].data = all[j].data
               PROVE  i = j
    BY DEF Once
  <2>1. CASE i = k \/ j = k  BY <1>2, <1>4, <1>7, <2>1
  <2>2. CASE i # k /\ j # k
    <3>1. g(i) \in DOMAIN q /\ g(j) \in DOMAIN q /\ q[g(i)].data = q[g(j)].data  BY <1>4, <2>2
    <3>2. g(i) = g(j)  BY <3>1 DEF Once, q
    <3> QED BY <1>1, <1>4, <3>2
  <2> QED BY <2>1, <2>2
<1>9. Payloads(all) = Payloads(q) \cup {t}
  <2>1. ASSUME NEW x \in Payloads(all) PROVE x \in Payloads(q) \cup {t}
    <3>1. PICK i \in DOMAIN all : x = all[i].data  BY <2>1 DEF Payloads
    <3> QED BY <1>2, <1>4, <3>1 DEF Payloads
  <2>2. ASSUME NEW x \in Payloads(q) PROVE x \in Payloads(all)
    <3>1. PICK i \in DOMAIN q : x = q[i].data  BY <2>2 DEF Payloads
    <3> QED BY <1>5, <3>1 DEF Payloads
  <2>3. t \in Payloads(all)  BY <1>2, <1>4 DEF Payloads
  <2> QED BY <2>1, <2>2, <2>3
<1>10. ASSUME Sorted(q, nf) PROVE Sorted(all, nf)
  <2> SUFFICES ASSUME NEW i \in DOMAIN all, NEW j \in DOMAIN all, i < j
               PROVE  IF nf THEN all[i].push_time >= all[j].push_time
                      ELSE all[i].push_time <= all[j].push_time
    BY DEF Sorted
  <2>0. \A x \in DOMAIN all : all[x].push_time \in 1..n  BY <1>6 DEF Timely
  <2>1. CASE i # k /\ j # k
    <3>1. g(i) \in DOMAIN q /\ g(j) \in DOMAIN q /\ all[i] = q[g(i)] /\ all[j] = q[g(j)]
      BY <1>4, <2>1
    <3>2. g(i) < g(j)  BY <1>1, <1>4
    <3> QED BY <1>10, <3>1, <3>2 DEF Sorted
  <2>2. CASE nf /\ (i = k \/ j = k)
    <3>1. i = k  BY <1>4, <2>2
    <3> QED BY <1>2, <1>4, <2>0, <2>2, <3>1
  <2>3. CASE ~ nf /\ (i = k \/ j = k)
    <3>1. j = k  BY <1>1, <1>4, <2>3
    <3> QED BY <1>2, <1>4, <2>0, <2>3, <3>1
  <2> QED BY <2>1, <2>2, <2>3
<1>11. \A i \in DOMAIN all : all[i].data = t \/ \E j \in DOMAIN q : all[i] = q[j]
  BY <1>2, <1>4
<1> QED BY <1>4, <1>6, <1>8, <1>9, <1>10, <1>11 DEF q, nf, all

\* push(): the data that stay and those that are returned make up the queue.
LEMMA PushSubEffect ==
    ASSUME NEW C, NEW s \in Subs(C), NEW t \in Data, NEW n \in Nat, n > 0,
           \A c \in C : c.max_queue \in Nat,
           Timely(s.data, n), Once(s.data), t \notin Payloads(s.data)
    PROVE  LET p == PushSub(s, t, n)
               over == {d.data : d \in Range(Exceeded(s, t, n))}
           IN  /\ p \in Subs(C) /\ p.cfg = s.cfg /\ p.last_access = s.last_access
               /\ Timely(p.data, n) /\ Once(p.data)
               /\ Payloads(p.data) = (Payloads(s.data) \cup {t}) \ over
               /\ over \subseteq Payloads(s.data) \cup {t}
               /\ Sorted(s.data, s.cfg.newest_first) => Sorted(p.data, s.cfg.newest_first)
               /\ \A i \in DOMAIN p.data : \/ p.data[i].data = t
                                           \/ \E j \in DOMAIN s.data : p.data[i] = s.data[j]
<1> DEFINE all == Pushed(s, t, n)
           mq == s.cfg.max_queue
           nf == s.cfg.newest_first
           r == IF Len(all) > mq THEN SubSeq(all, 1, mq) ELSE all
           x == SubSeq(all, mq + 1, Len(all))
           over == {d.data : d \in Range(x)}
           p == PushSub(s, t, n)
<1>1. /\ all \in Seq(Datums) /\ Timely(all, n) /\ Once(all)
      /\ Payloads(all) = Payloads(s.data) \cup {t}
      /\ Sorted(s.data, nf) => Sorted(all, nf)
      /\ \A i \in DOMAIN all : all[i].data = t \/ \E j \in DOMAIN s.data : all[i] = s.data[j]
  BY PushedEffect
<1>2. mq \in Nat /\ s.data \in Seq(Datums)  BY SubTypes
<1>3. p = [s EXCEPT !.data = r]  BY DEF PushSub
<1>4. x = Exceeded(s, t, n)  BY DEF Exceeded
<1> HIDE DEF all, mq, nf, p
<1>5. Len(all) \in Nat /\ DOMAIN all = 1..Len(all)  BY <1>1, Domains
<1>6. /\ x \in Seq(Datums)
      /\ \A i \in (mq + 1)..Len(all) : \E j \in DOMAIN x : x[j] = all[i]
      /\ \A j \in DOMAIN x : \E i \in (mq + 1)..Len(all) : x[j] = all[i]
  <2>1. mq + 1 \in Nat /\ mq + 1 >= 1 /\ Len(all) <= Len(all)  BY <1>2, <1>5
  <2> QED BY <1>1, <1>5, <2>1, SubSeqEmbeds
<1> HIDE DEF x
<1>7. /\ r \in Seq(Datums) /\ Timely(r, n) /\ Once(r)
      /\ Sorted(all, nf) => Sorted(r, nf)
      /\ \A i \in DOMAIN r : \E j \in DOMAIN all : j <= mq /\ r[i] = all[j]
      /\ \A j \in DOMAIN all : j <= mq => \E i \in DOMAIN r : r[i] = all[j]
  <2>1. CASE Len(all) > mq
    <3>1. r = SubSeq(all, 1, mq)  BY <2>1
    <3> HIDE DEF r
    <3>2. 1 \in Nat /\ 1 >= 1 /\ mq <= Len(all)  BY <1>2, <1>5, <2>1
    <3>3. /\ r \in Seq(Datums) /\ Embeds(r, all)
          /\ \A i \in 1..mq : \E j \in DOMAIN r : r[j] = all[i]
          /\ \A j \in DOMAIN r : \E i \in 1..mq : r[j] = all[i]
      <4>1. mq \in Nat /\ all \in Seq(Datums)  BY <1>1, <1>2
      <4>2. /\ SubSeq(all, 1, mq) \in Seq(Datums) /\ Embeds(SubSeq(all, 1, mq), all)
            /\ \A i \in 1..mq : \E j \in DOMAIN SubSeq(all, 1, mq) : SubSeq(all, 1, mq)[j] = all[i]
            /\ \A j \in DOMAIN SubSeq(all, 1, mq) : \E i \in 1..mq : SubSeq(all, 1, mq)[j] = all[i]
        BY <3>2, <4>1, SubSeqEmbeds
      <4> QED BY <3>1, <4>2
    <3>4. Timely(r, n) /\ Once(r) /\ (Sorted(all, nf) => Sorted(r, nf))
      BY <1>1, <3>3, EmbedsKeeps
    <3>5. \A i \in 1..mq : i \in DOMAIN all /\ i <= mq  BY <1>2, <1>5, <3>2
    <3>6. \A j \in DOMAIN all : j <= mq => j \in 1..mq  BY <1>2, <1>5
    <3> QED BY <3>3, <3>4, <3>5, <3>6
  <2>2. CASE ~ (Len(all) > mq)
    <3>1. r = all  BY <2>2
    <3>2. \A j \in DOMAIN all : j <= mq  BY <1>2, <1>5, <2>2
    <3> QED BY <1>1, <3>1, <3>2
  <2> QED BY <2>1, <2>2
<1> HIDE DEF r
<1>8. p \in Subs(C) /\ p.cfg = s.cfg /\ p.last_access = s.last_access /\ p.data = r
  BY <1>3, <1>7, SubTypes
<1>9. over \subseteq Payloads(all)
  <2> SUFFICES ASSUME NEW d \in Range(x) PROVE d.data \in Payloads(all)
    OBVIOUS
  <2>1. PICK j \in DOMAIN x : d = x[j]  BY DEF Range
  <2>2. PICK i \in (mq + 1)..Len(all) : x[j] = all[i]  BY <1>6
  <2>3. i \in DOMAIN all  BY <1>2, <1>5
  <2> QED BY <2>1, <2>2, <2>3 DEF Payloads
<1>10. Payloads(r) = Payloads(all) \ over
  <2>1. ASSUME NEW y \in Payloads(r) PROVE y \in Payloads(all) /\ y \notin over
    <3>1. PICK i \in DOMAIN r : y = r[i].data  BY <2>1 DEF Payloads
    <3>2. PICK j \in DOMAIN all : j <= mq /\ r[i] = all[j]  BY <1>7
    <3>3. y \in Payloads(all)  BY <3>1, <3>2 DEF Payloads
    <3>4. ASSUME y \in over PROVE FALSE
      <4>1. PICK d \in Range(x) : y = d.data  BY <3>4
      <4>2. PICK l \in DOMAIN x : d = x[l]  BY DEF Range
      <4>3. PICK k \in (mq + 1)..Len(all) : x[l] = all[k]  BY <1>6
      <4>4. k \in DOMAIN all /\ k > mq  BY <1>2, <1>5
      <4>5. k = j  BY <1>1, <3>1, <3>2, <4>1, <4>2, <4>3, <4>4 DEF Once
      <4> QED BY <1>2, <1>5, <3>2, <4>4, <4>5
    <3> QED BY <3>3, <3>4
  <2>2. ASSUME NEW y \in Payloads(all), y \notin over PROVE y \in Payloads(r)
    <3>1. PICK j \in DOMAIN all : y = all[j].data  BY <2>2 DEF Payloads
    <3>2. CASE j <= mq  BY <1>7, <3>1, <3>2 DEF Payloads
    <3>3. CASE ~ (j <= mq)
      <4>1. j \in (mq + 1)..Len(all)  BY <1>2, <1>5, <3>3
      <4>2. PICK l \in DOMAIN x : x[l] = all[j]  BY <1>6, <4>1
      <4>3. all[j] \in Range(x)  BY <4>2 DEF Range
      <4> QED BY <2>2, <3>1, <4>3
    <3> QED BY <3>2, <3>3
  <2> QED BY <2>1, <2>2
<1>11. \A i \in DOMAIN r : r[i].data = t \/ \E j \in DOMAIN s.data : r[i] = s.data[j]
  BY <1>1, <1>7
<1>12. over = {d.data : d \in Range(Exceeded(s, t, n))}  BY <1>4
<1> HIDE DEF over
<1>13. /\ p \in Subs(C) /\ p.cfg = s.cfg /\ p.last_access = s.last_access
       /\ Timely(p.data, n) /\ Once(p.data)
       /\ Payloads(p.data) = (Payloads(s.data) \cup {t}) \ over
       /\ over \subseteq Payloads(s.data) \cup {t}
       /\ Sorted(s.data, nf) => Sorted(p.data, nf)
       /\ \A i \in DOMAIN p.data : p.data[i].data = t \/ \E j \in DOMAIN s.data : p.data[i] = s.data[j]
  BY <1>1, <1>7, <1>8, <1>9, <1>10, <1>11
<1> QED BY <1>12, <1>13 DEF p, nf

\* expire(): what stays is a part of the queue, and the rest is returned.
LEMMA ExpireSubEffect ==
    ASSUME NEW C, NEW s \in Subs(C), NEW n \in Nat, Once(s.data)
    PROVE  LET e == ExpireSub(s, n)
           IN  /\ e \in Subs(C) /\ e.cfg = s.cfg /\ e.last_access = s.last_access
               /\ Embeds(e.data, s.data)
               /\ Payloads(e.data) = Payloads(s.data) \ {d.data : d \in Expired(s, n)}
               /\ (Sorted(s.data, s.cfg.newest_first)
                     /\ s.cfg.ttl.num \in Int /\ s.cfg.ttl.den \in Nat)
                     => \A i \in DOMAIN s.data :
                           PastTtl(s, s.data[i], n) => s.data[i] \in Expired(s, n)
<1> DEFINE q == s.data
           nf == s.cfg.newest_first
           past(i) == PastTtl(s, q[i], n)
           live == {i \in DOMAIN q : ~ past(i)}
           last == Max({0} \cup live)
           first == Min({Len(q) + 1} \cup live)
           r == IF nf THEN SubSeq(q, 1, last) ELSE SubSeq(q, first, Len(q))
           e == ExpireSub(s, n)
           gone == Expired(s, n)
<1>1. q \in Seq(Datums)  BY SubTypes
<1>2. Len(q) \in Nat /\ DOMAIN q = 1..Len(q)  BY <1>1, Domains
<1>3. e = [s EXCEPT !.data = r]  BY DEF ExpireSub
<1>4. last \in 0..Len(q) /\ last \in {0} \cup live /\ \A i \in live : i <= last
  <2> DEFINE S == {0} \cup live
  <2>1. S \subseteq 0..Len(q) /\ S # {}  BY <1>2
  <2> HIDE DEF S
  <2>2. Max(S) \in S /\ \A i \in S : Max(S) >= i  BY <1>2, <2>1, MaxPosition
  <2>3. \A i \in S : i \in Int  BY <1>2, <2>1
  <2>4. \A i \in S : i <= Max(S)  BY <2>2, <2>3
  <2> QED BY <2>1, <2>2, <2>4 DEF S
<1>5. first \in 1..(Len(q) + 1) /\ first \in {Len(q) + 1} \cup live /\ \A i \in live : first <= i
  <2> DEFINE S == {Len(q) + 1} \cup live
  <2>1. S \subseteq 1..(Len(q) + 1) /\ S # {}  BY <1>2
  <2> HIDE DEF S
  <2>2. S \subseteq Nat  BY <1>2, <2>1
  <2>3. Min(S) \in S /\ \A i \in S : Min(S) <= i  BY <2>1, <2>2, MinPosition
  <2> QED BY <2>1, <2>3 DEF S
<1> HIDE DEF last, first, e, q, nf, past
<1>6. \E a \in Nat, b \in Nat :
         /\ a >= 1 /\ b <= Len(q) /\ r = SubSeq(q, a, b)
         /\ nf => b = last
         /\ ~ nf => a = first /\ b = Len(q)
  <2>1. CASE nf
    <3>1. 1 \in Nat /\ last \in Nat /\ last <= Len(q) /\ 1 >= 1 /\ r = SubSeq(q, 1, last)
      BY <1>2, <1>4, <2>1
    <3> QED BY <2>1, <3>1
  <2>2. CASE ~ nf
    <3>1. first \in Nat /\ first >= 1 /\ r = SubSeq(q, first, Len(q)) /\ Len(q) <= Len(q)
      BY <1>2, <1>5, <2>2
    <3> QED BY <1>2, <2>2, <3>1
  <2> QED BY <2>1, <2>2
<1>7. PICK a \in Nat, b \in Nat :
         /\ a >= 1 /\ b <= Len(q) /\ r = SubSeq(q, a, b)
         /\ nf => b = last
         /\ ~ nf => a = first /\ b = Len(q)
  BY <1>6
<1> HIDE DEF r
<1>8. /\ r \in Seq(Datums) /\ Embeds(r, q)
      /\ \A j \in DOMAIN r : \E i \in a..b : r[j] = q[i]
  BY <1>1, <1>7, SubSeqEmbeds
<1>9. e \in Subs(C) /\ e.cfg = s.cfg /\ e.last_access = s.last_access /\ e.data = r
  BY <1>3, <1>8, SubTypes
<1>10. gone = {d \in Range(q) : d \notin Range(r)}  BY <1>9 DEF Expired, e, q
<1> HIDE DEF gone
<1>11. Payloads(r) = Payloads(q) \ {d.data : d \in gone}
  <2>1. ASSUME NEW y \in Payloads(r) PROVE y \in Payloads(q) /\ \A d \in gone : y # d.data
    <3>1. PICK i \in DOMAIN r : y = r[i].data  BY <2>1 DEF Payloads
    <3>2. PICK j \in DOMAIN q : r[i] = q[j]  BY <1>1, <1>8, EmbedsKeeps
    <3>3. ASSUME NEW d \in gone, y = d.data PROVE FALSE
      <4>1. PICK k \in DOMAIN q : d = q[k]  BY <1>10 DEF Range
      <4>2. k = j  BY <3>1, <3>2, <3>3, <4>1 DEF Once, q
      <4>3. d \in Range(r)  BY <3>2, <4>1, <4>2 DEF Range
      <4> QED BY <1>10, <4>3
    <3> QED BY <3>1, <3>2, <3>3 DEF Payloads
  <2>2. ASSUME NEW y \in Payloads(q), \A d \in gone : y # d.data PROVE y \in Payloads(r)
    <3>1. PICK i \in DOMAIN q : y = q[i].data  BY <2>2 DEF Payloads
    <3>2. q[i] \in Range(r)  BY <1>10, <2>2, <3>1 DEF Range
    <3> QED BY <3>1, <3>2 DEF Range, Payloads
  <2> QED BY <2>1, <2>2
<1>12. ASSUME Sorted(q, nf), s.cfg.ttl.num \in Int, s.cfg.ttl.den \in Nat, NEW i \in DOMAIN q, past(i) PROVE q[i] \in gone
  <2>1. ASSUME NEW j \in DOMAIN q, NEW k \in DOMAIN q, q[j].push_time <= q[k].push_time, past(k)
        PROVE  past(j)
    <3> DEFINE den == s.cfg.ttl.den
               num == s.cfg.ttl.num
               x == n - q[j].push_time
               y == n - q[k].push_time
    <3>1. den \in Nat /\ num \in Int  BY <1>12
    <3>2. q[j].push_time \in Nat /\ q[k].push_time \in Nat  BY <1>1, Domains, DatumTypes
    <3>3. x \in Int /\ y \in Int /\ y <= x  BY <2>1, <3>2
    <3>4. y * den > num  BY <2>1 DEF past, PastTtl
    <3> HIDE DEF den, num, x, y
    <3>5. y * den <= x * den  BY <3>1, <3>3
    <3>6. y * den \in Int /\ x * den \in Int  BY <3>1, <3>3
    <3>7. x * den > num  BY <3>1, <3>4, <3>5, <3>6
    <3> QED BY <3>7 DEF past, PastTtl, x, den, num
  <2>2. ASSUME NEW j \in a..b, q[j] = q[i] PROVE FALSE
    <3>1. j \in DOMAIN q
      <4>1. a \in Nat /\ b \in Nat /\ a >= 1 /\ b <= Len(q)  BY <1>7
      <4>2. j \in 1..Len(q)  BY <1>2, <4>1
      <4> QED BY <1>2, <4>2
    <3>2. j = i  BY <2>2, <3>1 DEF Once, q
    <3>3. CASE nf
      <4>1. last \in live /\ i <= last  BY <1>2, <1>4, <1>7, <3>2, <3>3
      <4>2. i # last  BY <1>12, <4>1
      <4>3. last \in DOMAIN q /\ i < last  BY <1>2, <1>4, <4>1, <4>2
      <4>4. q[i].push_time >= q[last].push_time  BY <1>12, <3>3, <4>3 DEF Sorted
      <4>5. q[last].push_time <= q[i].push_time
        <5>1. q[last].push_time \in Nat /\ q[i].push_time \in Nat  BY <1>1, <4>3, Domains, DatumTypes
        <5> QED BY <4>4, <5>1
      <4>6. past(last)  BY <1>12, <2>1, <4>3, <4>5
      <4> QED BY <4>1, <4>6
    <3>4. CASE ~ nf
      <4>1. first \in live /\ first <= i  BY <1>2, <1>5, <1>7, <3>2, <3>4
      <4>2. i # first  BY <1>12, <4>1
      <4>3. first \in DOMAIN q /\ first < i  BY <1>2, <1>5, <4>1, <4>2
      <4>4. q[first].push_time <= q[i].push_time  BY <1>12, <3>4, <4>3 DEF Sorted
      <4>5. past(first)  BY <1>12, <2>1, <4>3, <4>4
      <4> QED BY <4>1, <4>5
    <3> QED BY <3>3, <3>4
  <2>3. q[i] \notin Range(r)  BY <1>8, <2>2 DEF Range
  <2>4. q[i] \in Range(q)  BY DEF Range
  <2> QED BY <1>10, <2>3, <2>4
<1> QED BY <1>8, <1>9, <1>11, <1>12 DEF e, q, nf, past, gone

\* top(): one datum that may be sent is marked, outside the blackout.
LEMMA TopSubEffect ==
    ASSUME NEW C, NEW s \in Subs(C), NEW n \in Nat, NEW max_bytes, NEW wait,
           ValueResult(s, n, max_bytes, wait) = "VALUE_PROVIDED"
    PROVE  LET p == TopSub(s, n, wait)
               k == TopIndex(s, n, wait)
           IN  /\ k \in DOMAIN s.data /\ Sendable(s.data[k], n, wait)
               /\ ~ in_blackout(s, n)
               /\ p \in Subs(C) /\ p.cfg = s.cfg /\ p.last_access = n
               /\ DOMAIN p.data = DOMAIN s.data
               /\ \A i \in DOMAIN s.data :
                     /\ p.data[i].data = s.data[i].data
                     /\ p.data[i].push_time = s.data[i].push_time
                     /\ p.data[i].last_send = IF i = k THEN n ELSE s.data[i].last_send
<1> DEFINE q == s.data
           S == {i \in DOMAIN q : Sendable(q[i], n, wait)}
           k == TopIndex(s, n, wait)
           d == [q[k] EXCEPT !.last_send = n]
           r == [q EXCEPT ![k] = d]
           p == TopSub(s, n, wait)
<1>1. q \in Seq(Datums) /\ DOMAIN q = 1..Len(q) /\ Len(q) \in Nat /\ \A i \in DOMAIN q : q[i] \in Datums
  BY SubTypes, Domains
<1>2. q # <<>> /\ ~ in_blackout(s, n) /\ ~ all_waiting_for_ack(s, n, wait)
  BY DEF ValueResult
<1>3. S # {} /\ S \subseteq Nat  BY <1>1, <1>2 DEF all_waiting_for_ack
<1>4. k \in S
  <2>1. Min(S) \in S
    <3> HIDE DEF S
    <3> QED BY <1>3, MinPosition
  <2> QED BY <2>1 DEF TopIndex
<1>6. p = [s EXCEPT !.data = r, !.last_access = n]  BY DEF TopSub
<1>7. /\ d \in Datums /\ d.data = q[k].data /\ d.push_time = q[k].push_time /\ d.last_send = n
  <2>1. q[k] \in Datums  BY <1>1, <1>4
  <2> HIDE DEF q, k
  <2> QED BY <2>1 DEF Datums
<1> HIDE DEF d, k, p
<1>8. r \in Seq(Datums) /\ DOMAIN r = DOMAIN q /\ \A i \in DOMAIN q : r[i] = IF i = k THEN d ELSE q[i]
  <2>1. q \in Seq(Datums) /\ k \in 1..Len(q) /\ d \in Datums  BY <1>1, <1>4, <1>7
  <2> HIDE DEF q
  <2> QED BY <2>1, ExceptSeq
<1> HIDE DEF r
<1>9. p \in Subs(C) /\ p.cfg = s.cfg /\ p.last_access = n /\ p.data = r
  <2>1. n \in Int /\ r \in Seq(Datums)  BY <1>8
  <2>2. /\ [s EXCEPT !.data = r, !.last_access = n] \in Subs(C)
        /\ [s EXCEPT !.data = r, !.last_access = n].data = r
        /\ [s EXCEPT !.data = r, !.last_access = n].cfg = s.cfg
        /\ [s EXCEPT !.data = r, !.last_access = n].last_access = n
    BY <2>1 DEF Subs
  <2> QED BY <1>6, <2>2
<1>10. \A i \in DOMAIN q : /\ r[i].data = q[i].data
                           /\ r[i].push_time = q[i].push_time
                           /\ r[i].last_send = IF i = k THEN n ELSE q[i].last_send
  BY <1>7, <1>8
<1> QED BY <1>2, <1>4, <1>8, <1>9, <1>10 DEF k, p

\* Marking a datum disturbs neither the contents nor the order.
LEMMA MarkKeeps ==
    ASSUME NEW q \in Seq(Datums), NEW r \in Seq(Datums), NEW n \in Nat, DOMAIN r = DOMAIN q,
           \A i \in DOMAIN q : /\ r[i].data = q[i].data /\ r[i].push_time = q[i].push_time
                               /\ r[i].last_send = n \/ r[i].last_send = q[i].last_send
    PROVE  /\ Timely(q, n) => Timely(r, n)
           /\ Once(q) => Once(r)
           /\ \A nf : Sorted(q, nf) => Sorted(r, nf)
           /\ Payloads(r) = Payloads(q)
<1>1. ASSUME Timely(q, n) PROVE Timely(r, n)
  <2> SUFFICES ASSUME NEW i \in DOMAIN q PROVE r[i].push_time \in 1..n /\ r[i].last_send \in 0..n
    BY DEF Timely
  <2>1. q[i].push_time \in 1..n /\ q[i].last_send \in 0..n /\ n \in 0..n  BY <1>1 DEF Timely
  <2> QED BY <2>1
<1>2. Once(q) => Once(r)  BY DEF Once
<1>3. \A nf : Sorted(q, nf) => Sorted(r, nf)  BY DEF Sorted
<1>4. Payloads(r) = Payloads(q)  BY DEF Payloads
<1> QED BY <1>1, <1>2, <1>3, <1>4

\* erase() of a value that it finds takes this value and no other.
LEMMA EraseSubEffect ==
    ASSUME NEW C, NEW s \in Subs(C), NEW value, EraseHits(s, value) # {}, Once(s.data)
    PROVE  LET p == EraseSub(s, value)
           IN  /\ p \in Subs(C) /\ p.cfg = s.cfg /\ p.last_access = s.last_access
               /\ Embeds(p.data, s.data)
               /\ Payloads(p.data) = Payloads(s.data) \ {value.data}
<1> DEFINE q == s.data
           k == CHOOSE i \in EraseHits(s, value) : TRUE
           r == RemoveAt(q, k)
           p == EraseSub(s, value)
<1>1. q \in Seq(Datums)  BY SubTypes
<1>2. k \in DOMAIN q /\ q[k].data = value.data
  <2>1. k \in EraseHits(s, value)  OBVIOUS
  <2> HIDE DEF k
  <2> QED BY <2>1 DEF EraseHits, SameValue
<1>3. p = [s EXCEPT !.data = r]  BY DEF EraseSub
<1> HIDE DEF k, p
<1>4. /\ r \in Seq(Datums) /\ Embeds(r, q)
      /\ \A i \in DOMAIN q : i # k => \E j \in DOMAIN r : r[j] = q[i]
      /\ \A j \in DOMAIN r : \E i \in DOMAIN q : i # k /\ r[j] = q[i]
  <2> HIDE DEF q
  <2> QED BY <1>1, <1>2, RemoveAtEmbeds
<1> HIDE DEF r
<1>5. p \in Subs(C) /\ p.cfg = s.cfg /\ p.last_access = s.last_access /\ p.data = r
  BY <1>3, <1>4, SubTypes
<1>6. Payloads(r) = Payloads(q) \ {value.data}
  <2>1. ASSUME NEW y \in Payloads(r) PROVE y \in Payloads(q) /\ y # value.data
    <3>1. PICK j \in DOMAIN r : y = r[j].data  BY <2>1 DEF Payloads
    <3>2. PICK i \in DOMAIN q : i # k /\ r[j] = q[i]  BY <1>4
    <3> QED BY <1>2, <3>1, <3>2 DEF Payloads, Once
  <2>2. ASSUME NEW y \in Payloads(q), y # value.data PROVE y \in Payloads(r)
    <3>1. PICK i \in DOMAIN q : y = q[i].data  BY <2>2 DEF Payloads
    <3>2. PICK j \in DOMAIN r : r[j] = q[i]  BY <1>2, <1>4, <2>2, <3>1
    <3> QED BY <3>1, <3>2 DEF Payloads
  <2> QED BY <2>1, <2>2
<1> QED BY <1>4, <1>5, <1>6 DEF p

\* The scan of erase() over an ordered queue meets every value that is in it.
LEMMA EraseFinds ==
    ASSUME NEW C, NEW s \in Subs(C), Once(s.data), Sorted(s.data, s.cfg.newest_first),
           NEW i \in DOMAIN s.data
    PROVE  EraseHits(s, s.data[i]) # {}
<1> DEFINE q == s.data
<1>1. /\ q \in Seq(Datums) /\ DOMAIN q = 1..Len(q) /\ Len(q) \in Nat
      /\ \A j \in DOMAIN q : q[j] \in Datums
  BY SubTypes, Domains
<1>2. ASSUME NEW j \in 1..(i - 1) PROVE ~ SameValue(q[j], q[i]) /\ ~ StopLooking(s, q[j], q[i])
  <2>1. j \in DOMAIN q /\ j < i /\ j # i  BY <1>1
  <2>2. q[j].push_time \in Nat /\ q[i].push_time \in Nat  BY <1>1, <2>1, DatumTypes
  <2>3. ~ SameValue(q[j], q[i])  BY <2>1 DEF SameValue, Once
  <2>4. IF s.cfg.newest_first THEN q[j].push_time >= q[i].push_time
        ELSE q[j].push_time <= q[i].push_time
    BY <2>1 DEF Sorted
  <2>5. ~ StopLooking(s, q[j], q[i])  BY <2>2, <2>4 DEF StopLooking
  <2> QED BY <2>3, <2>5
<1>3. SameValue(q[i], q[i])  BY DEF SameValue
<1>4. i \in EraseHits(s, q[i])  BY <1>2, <1>3 DEF EraseHits
<1> QED BY <1>4

\* The payloads of a deque are data.
LEMMA PayloadTypes ==
    ASSUME NEW q \in Seq(Datums)
    PROVE  Payloads(q) \subseteq Data /\ Payloads(q) = {d.data : d \in Range(q)}
<1>1. \A i \in DOMAIN q : q[i].data \in Data  BY Domains, DatumTypes
<1> QED BY <1>1 DEF Payloads, Range

-----------------------------------------------------------------------------
(* update(): the merged configuration. *)

\* A queue length and a blackout that are set are natural numbers.
Valid(c) ==
    /\ c["max_queue"] = Unset \/ c["max_queue"] \in Nat
    /\ c["blackout_time"] = Unset \/ c["blackout_time"] \in Nat

\* Finitely many numbers, in a list, have a greatest one.
LEMMA GreatestOf ==
    ASSUME NEW n \in Nat, NEW S, S \subseteq 1..n, S # {}, NEW g, \A i \in S : g[i] \in Nat
    PROVE  \E i \in S : \A j \in S : g[j] <= g[i]
<1> DEFINE best(k) == \E i \in S : i <= k /\ \A j \in S : j <= k => g[j] <= g[i]
           T == {k \in 1..n : (\E i \in S : i <= k) /\ ~ best(k)}
<1>1. T = {}
  <2> SUFFICES ASSUME T # {} PROVE FALSE
    OBVIOUS
  <2>1. T \subseteq Nat  OBVIOUS
  <2>2. PICK k \in T : \A l \in T : k <= l
    <3> HIDE DEF T
    <3> QED BY <2>1, MinPosition
  <2>3. k \in 1..n /\ (\E i \in S : i <= k) /\ ~ best(k)  OBVIOUS
  <2>4. CASE \E i \in S : i <= k - 1
    <3>0. k - 1 \in 1..n /\ k - 1 \in Nat /\ ~ (k <= k - 1)
      <4>1. PICK i \in S : i <= k - 1  BY <2>4
      <4>2. i \in 1..n /\ k \in 1..n  BY <2>3
      <4> QED BY <4>1, <4>2
    <3>1. k - 1 \notin T
      <4> HIDE DEF T
      <4> QED BY <2>2, <3>0
    <3>2. best(k - 1)  BY <2>4, <3>0, <3>1
    <3>3. PICK i \in S : i <= k - 1 /\ \A j \in S : j <= k - 1 => g[j] <= g[i]  BY <3>2
    <3>4. CASE k \in S /\ g[k] > g[i]
      <4>1. \A j \in S : j <= k => g[j] <= g[k]
        <5> SUFFICES ASSUME NEW j \in S, j <= k PROVE g[j] <= g[k]
          OBVIOUS
        <5>1. CASE j = k  BY <3>4, <5>1
        <5>2. CASE j # k
          <6>1. j \in 1..n /\ j <= k - 1  BY <2>3, <5>2
          <6>2. g[j] <= g[i] /\ g[j] \in Nat /\ g[i] \in Nat /\ g[k] \in Nat  BY <3>3, <3>4, <6>1
          <6> QED BY <3>4, <6>2
        <5> QED BY <5>1, <5>2
      <4>2. k <= k  BY <2>3
      <4> QED BY <2>3, <3>4, <4>1, <4>2
    <3>5. CASE ~ (k \in S /\ g[k] > g[i])
      <4>1. \A j \in S : j <= k => g[j] <= g[i]
        <5> SUFFICES ASSUME NEW j \in S, j <= k PROVE g[j] <= g[i]
          OBVIOUS
        <5>1. CASE j = k
          <6>1. g[k] \in Nat /\ g[i] \in Nat  BY <5>1
          <6> QED BY <3>5, <5>1, <6>1
        <5>2. CASE j # k
          <6>1. j \in 1..n /\ j <= k - 1  BY <2>3, <5>2
          <6> QED BY <3>3, <6>1
        <5> QED BY <5>1, <5>2
      <4>2. i <= k
        <5>1. i \in 1..n  OBVIOUS
        <5> QED BY <2>3, <3>3, <5>1
      <4> QED BY <2>3, <4>1, <4>2
    <3> QED BY <3>4, <3>5
  <2>5. CASE ~ \E i \in S : i <= k - 1
    <3>1. PICK i \in S : i <= k  BY <2>3
    <3>2. \A j \in S : j <= k => j = k
      <4> SUFFICES ASSUME NEW j \in S, j <= k PROVE j = k
        OBVIOUS
      <4>1. j \in 1..n /\ ~ (j <= k - 1)  BY <2>5
      <4> QED BY <2>3, <4>1
    <3>3. g[i] \in Nat  OBVIOUS
    <3>4. \A j \in S : j <= k => g[j] <= g[i]  BY <3>1, <3>2, <3>3
    <3> QED BY <2>3, <3>1, <3>4
  <2> QED BY <2>4, <2>5
<1>2. n \in 1..n /\ \A i \in S : i <= n
  <2>1. PICK i \in S : TRUE  OBVIOUS
  <2>2. i \in 1..n  OBVIOUS
  <2> QED BY <2>2
<1>3. best(n)
  <2>1. n \notin T  BY <1>1
  <2>2. \E i \in S : i <= n  BY <1>2
  <2> QED BY <1>2, <2>1, <2>2
<1> QED BY <1>2, <1>3

\* Merging valid configurations gives natural numbers for max_queue and
\* blackout_time.
LEMMA MergeTypes ==
    ASSUME NEW n \in Nat, NEW cfgs, DOMAIN cfgs = 1..n, \A i \in 1..n : Valid(cfgs[i]),
           DefaultConfig["max_queue"] \in Nat, DefaultConfig["blackout_time"] \in Nat
    PROVE  MergeConfigs(cfgs).max_queue \in Nat /\ MergeConfigs(cfgs).blackout_time \in Nat
<1>1. MergeConfigs(cfgs).max_queue \in Nat
  <2> DEFINE S == Setters(cfgs, "max_queue")
             V == {cfgs[i].max_queue : i \in S}
             g == [i \in S |-> cfgs[i].max_queue]
  <2>1. MergeConfigs(cfgs).max_queue
           = IF S = {} THEN DefaultConfig["max_queue"] ELSE Max(V)
    BY DEF MergeConfigs, MergeField
  <2>2. S \subseteq 1..n /\ \A i \in S : cfgs[i].max_queue \in Nat  BY DEF Setters, Valid
  <2>3. CASE S # {}
    <3>1. \A i \in S : g[i] = cfgs[i].max_queue  OBVIOUS
    <3> HIDE DEF S, g
    <3>2. PICK i \in S : \A j \in S : g[j] <= g[i]  BY <2>2, <2>3, <3>1, GreatestOf
    <3>3. cfgs[i].max_queue \in V /\ cfgs[i].max_queue \in Nat  BY <2>2
    <3>4. V # {} /\ V \subseteq 0..cfgs[i].max_queue
      <4>1. ASSUME NEW j \in S PROVE cfgs[j].max_queue \in 0..cfgs[i].max_queue
        <5>1. cfgs[j].max_queue \in Nat /\ g[j] <= g[i]  BY <2>2, <3>2
        <5> QED BY <3>1, <3>3, <5>1
      <4> QED BY <3>3, <4>1
    <3> HIDE DEF V
    <3>5. Max(V) \in V  BY <3>3, <3>4, MaxPosition
    <3>6. Max(V) \in Nat
      <4>1. Max(V) \in 0..cfgs[i].max_queue  BY <3>4, <3>5
      <4> QED BY <3>3, <4>1
    <3> QED BY <2>1, <2>3, <3>6
  <2> QED BY <2>1, <2>3
<1>2. MergeConfigs(cfgs).blackout_time \in Nat
  <2> DEFINE S == Setters(cfgs, "blackout_time")
             V == {cfgs[i].blackout_time : i \in S}
  <2>1. MergeConfigs(cfgs).blackout_time
           = IF S = {} THEN DefaultConfig["blackout_time"] ELSE Min(V)
    BY DEF MergeConfigs, MergeField
  <2>2. S \subseteq 1..n /\ \A i \in S : cfgs[i].blackout_time \in Nat  BY DEF Setters, Valid
  <2>3. CASE S # {}
    <3>1. V # {} /\ V \subseteq Nat  BY <2>2, <2>3
    <3> HIDE DEF V
    <3>2. Min(V) \in V  BY <3>1, MinPosition
    <3> QED BY <2>1, <2>3, <3>1, <3>2
  <2> QED BY <2>1, <2>3
<1> QED BY <1>1, <1>2
=============================================================================
