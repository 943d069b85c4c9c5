-------------------------- MODULE MACManager_proofs --------------------------
(***************************************************************************)
(* For any number of vehicles, any cycles and any bounds: when the time    *)
(* between two references is a whole number of cycles, a running MAC is in *)
(* phase with the reference, and vehicles that agree on the lengths of the *)
(* slots and share none do not transmit at the same time.                  *)
(***************************************************************************)
EXTENDS MACManager, SequenceTheorems, WellFoundedInduction, TLAPS

-----------------------------------------------------------------------------
(* Numbers. *)

\* The least member of a non-empty set of natural numbers.
LEMMA LeastMember ==
    ASSUME NEW S, S \subseteq Nat, S # {}
    PROVE  Min(S) \in S /\ \A x \in S : Min(S) <= x
<1>1. \E x \in S : \A y \in S : ~ (<<y, x>> \in OpToRel(<, Nat))
  BY NatLessThanWellFounded, WFMin
<1>2. PICK x \in S : \A y \in S : ~ (<<y, x>> \in OpToRel(<, Nat))  BY <1>1
<1>3. \A y \in S : x <= y
  <2> SUFFICES ASSUME NEW y \in S, ~ (x <= y) PROVE FALSE
    OBVIOUS
  <2>1. y < x /\ y \in Nat /\ x \in Nat  OBVIOUS
  <2>2. <<y, x>> \in OpToRel(<, Nat)  BY <2>1 DEF OpToRel
  <2> QED BY <1>2, <2>2
<1> QED BY <1>3 DEF Min

\* Induction: a set that holds 0 and the successor of each member below n
\* holds 0..n.
LEMMA UpTo ==
    ASSUME NEW n \in Nat, NEW S, 0 \in S, \A i \in 0..(n - 1) : i \in S => i + 1 \in S
    PROVE  0..n \subseteq S
<1> DEFINE T == {i \in 0..n : i \notin S}
<1> SUFFICES ASSUME T # {} PROVE FALSE
  OBVIOUS
<1>1. T \subseteq Nat  OBVIOUS
<1>2. PICK m \in T : \A x \in T : m <= x
  <2> HIDE DEF T
  <2> QED BY <1>1, LeastMember
<1>3. m \in 0..n /\ m \notin S  BY <1>2
<1>4. m # 0  BY <1>3
<1>5. m - 1 \in 0..(n - 1)  BY <1>3, <1>4
<1>6. m - 1 \in S
  <2> SUFFICES ASSUME m - 1 \notin S PROVE FALSE
    OBVIOUS
  <2>1. m - 1 \in T  BY <1>5
  <2> QED BY <1>2, <1>3, <2>1
<1>7. (m - 1) + 1 = m  BY <1>3
<1> QED BY <1>3, <1>5, <1>6, <1>7

\* Quotient and remainder.
LEMMA DivMod ==
    ASSUME NEW c \in Nat \ {0}, NEW x \in Int
    PROVE  x \div c \in Int /\ x % c \in 0..(c - 1) /\ x = c * (x \div c) + (x % c)
OBVIOUS

\* The same, as a quotient and a remainder that exist.
LEMMA DivModPair ==
    ASSUME NEW c \in Nat \ {0}, NEW x \in Int
    PROVE  \E q \in Int, s \in 0..(c - 1) : s = x % c /\ x = c * q + s
BY DivMod, Zenon

\* A multiple of c that is not 0 is not smaller than c.
LEMMA Apart ==
    ASSUME NEW c \in Nat \ {0}, NEW k \in Int, k >= 1
    PROVE  c * k >= c
OBVIOUS

\* They are unique.
LEMMA OneRemainder ==
    ASSUME NEW c \in Nat \ {0}, NEW a \in Int, NEW b \in Int,
           NEW r \in 0..(c - 1), NEW s \in 0..(c - 1), c * a + r = c * b + s
    PROVE  a = b /\ r = s
<1>1. a - b \in Int /\ b - a \in Int  OBVIOUS
<1>2. c * (a - b) = s - r  OBVIOUS
<1>3. c * (b - a) = r - s  OBVIOUS
<1>4. ~ (a - b >= 1)  BY <1>1, <1>2, Apart
<1>5. ~ (b - a >= 1)  BY <1>1, <1>3, Apart
<1>6. a = b  BY <1>4, <1>5
<1> QED BY <1>6

\* x and y are at the same time of a cycle of c.
Same(c, x, y) == \E k \in Int : x = c * k + y

\* Same() is an equivalence.
LEMMA SameRefl == ASSUME NEW c \in Nat \ {0}, NEW x \in Int PROVE Same(c, x, x)
<1>1. x = c * 0 + x  OBVIOUS
<1> QED BY <1>1 DEF Same

\* It is symmetric.
LEMMA SameSym ==
    ASSUME NEW c \in Nat \ {0}, NEW x \in Int, NEW y \in Int, Same(c, x, y)
    PROVE  Same(c, y, x)
<1>1. PICK k \in Int : x = c * k + y  BY DEF Same
<1>2. y = c * (- k) + x  BY <1>1
<1>3. - k \in Int  OBVIOUS
<1> QED BY <1>2, <1>3 DEF Same

\* It is transitive.
LEMMA SameTrans ==
    ASSUME NEW c \in Nat \ {0}, NEW x \in Int, NEW y \in Int, NEW z \in Int,
           Same(c, x, y), Same(c, y, z)
    PROVE  Same(c, x, z)
<1>1. PICK k \in Int : x = c * k + y  BY DEF Same
<1>2. PICK l \in Int : y = c * l + z  BY DEF Same
<1>3. x = c * (k + l) + z  BY <1>1, <1>2
<1>4. k + l \in Int  OBVIOUS
<1> QED BY <1>3, <1>4 DEF Same

\* It is kept when both times go on by d.
LEMMA SameShift ==
    ASSUME NEW c \in Nat \ {0}, NEW x \in Int, NEW y \in Int, NEW d \in Int, Same(c, x, y)
    PROVE  Same(c, x + d, y + d)
<1>1. PICK k \in Int : x = c * k + y  BY DEF Same
<1>2. x + d = c * k + (y + d)  BY <1>1
<1> QED BY <1>2 DEF Same

\* A time and its remainder are at the same time of the cycle.
LEMMA SameMod ==
    ASSUME NEW c \in Nat \ {0}, NEW x \in Int
    PROVE  Same(c, x, x % c) /\ Same(c, x % c, x)
<1>1. Same(c, x, x % c)  BY DivMod DEF Same
<1>2. x % c \in Int  BY DivMod
<1> QED BY <1>1, <1>2, SameSym, Zenon

\* The remainder is the one time below c that is at the same time of the cycle.
LEMMA ModSame ==
    ASSUME NEW c \in Nat \ {0}, NEW x \in Int, NEW r \in 0..(c - 1), Same(c, x, r)
    PROVE  x % c = r
<1>1. PICK k \in Int : x = c * k + r  BY DEF Same
<1>2. PICK q \in Int, s \in 0..(c - 1) : s = x % c /\ x = c * q + s
  BY DivModPair, Zenon
<1>3. c * k + r = c * q + s  BY <1>1, <1>2
<1>4. k = q /\ r = s  BY <1>3, OneRemainder
<1> QED BY <1>2, <1>4

\* A whole cycle later it is the same time of the cycle.
LEMMA SameCycle ==
    ASSUME NEW c \in Nat \ {0}, NEW x \in Int
    PROVE  Same(c, x + c, x)
<1>1. x + c = c * 1 + x  OBVIOUS
<1> QED BY <1>1 DEF Same

\* Reducing by a multiple of c keeps the time of the cycle.
LEMMA SameModMultiple ==
    ASSUME NEW c \in Nat \ {0}, NEW p \in Nat \ {0}, p % c = 0, NEW x \in Int
    PROVE  Same(c, x % p, x)
<1>1. PICK q \in Int : p = c * q
  <2>1. p \div c \in Int /\ p = c * (p \div c) + 0  BY DivMod
  <2>2. PICK q \in Int : q = p \div c  BY <2>1
  <2> QED BY <2>1, <2>2
<1>2. PICK d \in Int, s \in 0..(p - 1) : s = x % p /\ x = p * d + s
  BY DivModPair, Zenon
<1>3. x = c * (q * d) + s  BY <1>1, <1>2
<1>4. q * d \in Int  OBVIOUS
<1>5. Same(c, x, s)  BY <1>3, <1>4 DEF Same
<1> QED BY <1>2, <1>5, SameSym
-----------------------------------------------------------------------------

(* The schedule. *)

\* A list of slots.
Lists == Seq([src : Int, slot_seconds : Nat \ {0}, always_initiate : BOOLEAN])

\* f holds the start times of the first n slots of the list and the end of the
\* last of them.
StartTimes(list, n, f) ==
    /\ f[1] = 0
    /\ \A i \in 1..n : f[i + 1] = f[i] + list[i].slot_seconds

\* The length of a slot of a list is positive.
LEMMA SlotSeconds ==
    ASSUME NEW list \in Lists, NEW i \in 1..Len(list)
    PROVE  list[i].slot_seconds \in Nat \ {0}
<1> DEFINE R == [src : Int, slot_seconds : Nat \ {0}, always_initiate : BOOLEAN]
<1>1. list \in Seq(R)  BY DEF Lists
<1>2. \A r \in R : r.slot_seconds \in Nat \ {0}  OBVIOUS
<1> HIDE DEF R
<1>3. list[i] \in R  BY <1>1
<1> QED BY <1>2, <1>3

\* Every list has start times, by induction on the number of slots.
LEMMA StartTimesExist ==
    ASSUME NEW list \in Lists
    PROVE  \E f \in [1..(Len(list) + 1) -> Int] : StartTimes(list, Len(list), f)
<1>0. PICK n \in Nat : n = Len(list)  BY DEF Lists
<1> DEFINE S == {i \in 0..n : \E f \in [1..(i + 1) -> Int] : StartTimes(list, i, f)}
<1>1. 0 \in S
  <2> DEFINE f == [j \in 1..1 |-> 0]
  <2>1. f \in [1..(0 + 1) -> Int]  OBVIOUS
  <2>2. StartTimes(list, 0, f)  BY DEF StartTimes
  <2>3. 0 \in 0..n  OBVIOUS
  <2> HIDE DEF f
  <2> QED BY <2>1, <2>2, <2>3
<1>2. ASSUME NEW i \in 0..(n - 1), i \in S PROVE i + 1 \in S
  <2>1. PICK f \in [1..(i + 1) -> Int] : StartTimes(list, i, f)  BY <1>2
  <2> DEFINE x == f[i + 1] + list[i + 1].slot_seconds
             g == [j \in 1..((i + 1) + 1) |-> IF j = i + 2 THEN x ELSE f[j]]
  <2>2. i + 1 \in 1..Len(list)  BY <1>0
  <2>3. x \in Int  BY <2>2, SlotSeconds
  <2> HIDE DEF x
  <2>4. g \in [1..((i + 1) + 1) -> Int]  BY <2>3
  <2>5. g[1] = 0  BY <2>1 DEF StartTimes
  <2>6. ASSUME NEW j \in 1..(i + 1) PROVE g[j + 1] = g[j] + list[j].slot_seconds
    <3>1. CASE j = i + 1
      <4>1. g[j + 1] = x /\ g[j] = f[j]  BY <3>1
      <4> QED BY <3>1, <4>1 DEF x
    <3>2. CASE j # i + 1
      <4>1. j \in 1..i  BY <3>2
      <4>2. g[j + 1] = f[j + 1] /\ g[j] = f[j]  BY <4>1
      <4> QED BY <2>1, <4>1, <4>2 DEF StartTimes
    <3> QED BY <3>1, <3>2
  <2> HIDE DEF g
  <2>7. StartTimes(list, i + 1, g)  BY <2>5, <2>6 DEF StartTimes
  <2> QED BY <2>4, <2>7
<1> HIDE DEF S
<1>3. 0..n \subseteq S  BY <1>1, <1>2, UpTo
<1>4. n \in S  BY <1>3
<1> QED BY <1>0, <1>4 DEF S

\* The function StartOf() reads satisfies its equation.
LEMMA StartEquation ==
    ASSUME NEW list \in Lists
    PROVE  \E at : /\ at = [i \in 1..(Len(list) + 1) |->
                              IF i = 1 THEN 0 ELSE at[i - 1] + list[i - 1].slot_seconds]
                   /\ \A j : StartOf(list, j) = at[j]
<1> DEFINE Eq(f) == f = [i \in 1..(Len(list) + 1) |->
                           IF i = 1 THEN 0 ELSE f[i - 1] + list[i - 1].slot_seconds]
<1>0. PICK n \in Nat : n = Len(list)  BY DEF Lists
<1>1. PICK f \in [1..(n + 1) -> Int] : StartTimes(list, n, f)  BY <1>0, StartTimesExist
<1>2. Eq(f)
  <2>1. ASSUME NEW i \in 1..(n + 1)
        PROVE  f[i] = IF i = 1 THEN 0 ELSE f[i - 1] + list[i - 1].slot_seconds
    <3>1. CASE i = 1  BY <1>1, <3>1 DEF StartTimes
    <3>2. CASE i # 1
      <4>1. i - 1 \in 1..n /\ (i - 1) + 1 = i  BY <3>2
      <4> QED BY <1>1, <3>2, <4>1 DEF StartTimes
    <3> QED BY <3>1, <3>2
  <2> QED BY <1>0, <2>1
<1> DEFINE at == CHOOSE g : Eq(g)
<1>3. Eq(at)  BY <1>2
<1>4. \A j : StartOf(list, j) = at[j]  BY DEF StartOf
<1> QED BY <1>3, <1>4

\* The first slot starts with the cycle, and each of the others when the one
\* before it ends.
LEMMA StartSteps ==
    ASSUME NEW list \in Lists
    PROVE  /\ StartOf(list, 1) = 0
           /\ \A i \in 1..Len(list) : StartOf(list, i + 1) = StartOf(list, i) + list[i].slot_seconds
<1>0. PICK n \in Nat : n = Len(list)  BY DEF Lists
<1>1. PICK at : /\ at = [i \in 1..(n + 1) |->
                           IF i = 1 THEN 0 ELSE at[i - 1] + list[i - 1].slot_seconds]
                /\ \A j : StartOf(list, j) = at[j]
  BY <1>0, StartEquation
<1>2. at[1] = 0  BY <1>1
<1>3. ASSUME NEW i \in 1..n PROVE at[i + 1] = at[i] + list[i].slot_seconds
  <2>1. i + 1 \in 1..(n + 1) /\ i + 1 # 1 /\ (i + 1) - 1 = i  OBVIOUS
  <2> QED BY <1>1, <2>1
<1> QED BY <1>0, <1>1, <1>2, <1>3

\* Start times are natural numbers.
LEMMA StartType ==
    ASSUME NEW list \in Lists, NEW i \in 1..(Len(list) + 1)
    PROVE  StartOf(list, i) \in Nat
<1>0. PICK n \in Nat : n = Len(list)  BY DEF Lists
<1> DEFINE S == {j \in 0..n : StartOf(list, j + 1) \in Nat}
<1>1. 0 \in S  BY StartSteps
<1>2. ASSUME NEW j \in 0..(n - 1), j \in S PROVE j + 1 \in S
  <2>1. j + 1 \in 1..Len(list)  BY <1>0
  <2>2. StartOf(list, (j + 1) + 1) = StartOf(list, j + 1) + list[j + 1].slot_seconds
    BY <2>1, StartSteps
  <2>3. list[j + 1].slot_seconds \in Nat  BY <2>1, SlotSeconds
  <2> QED BY <1>2, <2>2, <2>3
<1> HIDE DEF S
<1>3. 0..n \subseteq S  BY <1>1, <1>2, UpTo
<1>4. i - 1 \in S  BY <1>0, <1>3
<1>5. (i - 1) + 1 = i  BY <1>0
<1> QED BY <1>4, <1>5 DEF S

\* A slot has ended when a later one starts.
LEMMA StartOrder ==
    ASSUME NEW list \in Lists, NEW i \in 1..Len(list), NEW k \in (i + 1)..(Len(list) + 1)
    PROVE  StartOf(list, i + 1) <= StartOf(list, k)
<1>0. PICK n \in Nat : n = Len(list)  BY DEF Lists
<1>a. PICK b \in Nat : b = n - i
  <2>1. n - i \in Nat  BY <1>0
  <2> QED BY <2>1
<1> DEFINE S == {j \in 0..b : StartOf(list, i + 1) <= StartOf(list, (i + 1) + j)}
<1>1. 0 \in S
  <2>1. i + 1 \in 1..(Len(list) + 1)  BY <1>0
  <2>2. StartOf(list, i + 1) \in Nat  BY <2>1, StartType
  <2>3. (i + 1) + 0 = i + 1  BY <1>0
  <2> QED BY <2>2, <2>3
<1>2. ASSUME NEW j \in 0..(b - 1), j \in S PROVE j + 1 \in S
  <2>1. (i + 1) + j \in 1..Len(list) /\ (i + 1) + j \in 1..(Len(list) + 1) /\ i + 1 \in 1..(Len(list) + 1)
    BY <1>0, <1>a
  <2>2. StartOf(list, ((i + 1) + j) + 1) = StartOf(list, (i + 1) + j) + list[(i + 1) + j].slot_seconds
    BY <2>1, StartSteps
  <2>3. list[(i + 1) + j].slot_seconds \in Nat  BY <2>1, SlotSeconds
  <2>4. StartOf(list, (i + 1) + j) \in Nat /\ StartOf(list, i + 1) \in Nat  BY <2>1, StartType
  <2>5. ((i + 1) + j) + 1 = (i + 1) + (j + 1)  BY <1>0
  <2>6. StartOf(list, i + 1) <= StartOf(list, (i + 1) + j)  BY <1>2
  <2>7. StartOf(list, i + 1) <= StartOf(list, (i + 1) + (j + 1))  BY <2>2, <2>3, <2>4, <2>5, <2>6
  <2>8. j + 1 \in 0..b  OBVIOUS
  <2> QED BY <2>7, <2>8
<1> HIDE DEF S
<1>3. 0..b \subseteq S  BY <1>1, <1>2, UpTo
<1>4. PICK j \in 0..b : k = (i + 1) + j
  <2>1. k - (i + 1) \in 0..b /\ k = (i + 1) + (k - (i + 1))  BY <1>0, <1>a
  <2> QED BY <2>1
<1>5. j \in S  BY <1>3
<1> QED BY <1>4, <1>5 DEF S

\* The cycle is longer than the start of each of its slots.
LEMMA StartWithin ==
    ASSUME NEW list \in Lists, NEW i \in 1..Len(list)
    PROVE  /\ cycle_duration(list) \in Nat \ {0}
           /\ StartOf(list, i) \in 0..(cycle_duration(list) - 1)
           /\ StartOf(list, i) + list[i].slot_seconds <= cycle_duration(list)
           /\ StartOf(list, i) + list[i].slot_seconds \in Nat
<1>0. PICK n \in Nat : n = Len(list)  BY DEF Lists
<1>1. StartOf(list, i + 1) <= StartOf(list, n + 1)  BY <1>0, StartOrder
<1>2. StartOf(list, i + 1) = StartOf(list, i) + list[i].slot_seconds  BY StartSteps
<1>3. StartOf(list, i) \in Nat /\ StartOf(list, n + 1) \in Nat  BY <1>0, StartType
<1>4. list[i].slot_seconds \in Nat \ {0}  BY SlotSeconds
<1> QED BY <1>0, <1>1, <1>2, <1>3, <1>4 DEF cycle_duration

-----------------------------------------------------------------------------

(* What the calls do to one MAC. *)

\* A MACManager of v: its list is empty or the configured one.
Macs(v) ==
    [started_up : BOOLEAN, list : {<<>>, Slots(v)}, current_slot : Nat, next_slot_t : Int]

\* At time t the slot that comes next begins next_slot_t later.
OnTime(m, t) ==
    /\ m.current_slot \in 1..Len(m.list)
    /\ Same(cycle_duration(m.list), t + m.next_slot_t, StartOf(m.list, m.current_slot))

Phased(m, t) == m.started_up => OnTime(m, t)

\* The list of a MAC is a list of slots; if it is not empty it has a first slot and
\* a cycle that takes time.
LEMMA ListTypes ==
    ASSUME NEW v \in Vehicles, NEW m \in Macs(v)
    PROVE  /\ m.list \in Lists /\ m.list \in {<<>>, Slots(v)}
           /\ Slots(v) \in Lists
           /\ Len(m.list) \in Nat
           /\ m.list # <<>> => 1 \in 1..Len(m.list) /\ cycle_duration(m.list) \in Nat \ {0}
           /\ m.started_up \in BOOLEAN /\ m.current_slot \in Nat /\ m.next_slot_t \in Int
<1>1. /\ m.list \in {<<>>, Slots(v)} /\ m.started_up \in BOOLEAN
      /\ m.current_slot \in Nat /\ m.next_slot_t \in Int
  BY DEF Macs
<1>2. Slots(v) \in Lists  BY MACAssumption DEF Lists
<1>3. <<>> \in Lists  BY DEF Lists
<1>4. m.list \in Lists  BY <1>1, <1>2, <1>3
<1> HIDE DEF Lists
<1>5. Len(m.list) \in Nat /\ (m.list # <<>> => Len(m.list) # 0)
  BY <1>4, EmptySeq DEF Lists
<1>6. m.list # <<>> => 1 \in 1..Len(m.list)  BY <1>5
<1>7. m.list # <<>> => cycle_duration(m.list) \in Nat \ {0}  BY <1>4, <1>6, StartWithin
<1> QED BY <1>1, <1>2, <1>4, <1>5, <1>6, <1>7

\* next_cycle_time() leads to the start of a cycle.
LEMMA NextCycle ==
    ASSUME NEW list \in Lists, cycle_duration(list) \in Nat \ {0}, NEW t \in Int
    PROVE  /\ next_cycle_time(list, t) \in Int
           /\ Same(cycle_duration(list), t + next_cycle_time(list, t), 0)
<1>1. PICK c \in Nat \ {0} : c = cycle_duration(list)  OBVIOUS
<1>2. PICK q \in Int : q = t \div c  BY DivMod
<1>3. next_cycle_time(list, t) = (q + 1) * c - t  BY <1>1, <1>2 DEF next_cycle_time
<1>4. (q + 1) * c - t \in Int /\ t + ((q + 1) * c - t) = c * (q + 1) + 0  OBVIOUS
<1>5. q + 1 \in Int  OBVIOUS
<1> QED BY <1>1, <1>3, <1>4, <1>5 DEF Same

\* After update() a MAC with a list waits for a slot that begins when its clock
\* says so.
LEMMA InMiddleOnTime ==
    ASSUME NEW v \in Vehicles, NEW m \in Macs(v), m.list # <<>>, NEW t \in Int
    PROVE  /\ InMiddle(m, t) \in Macs(v) /\ InMiddle(m, t).list = m.list
           /\ InMiddle(m, t).started_up = m.started_up
           /\ OnTime(InMiddle(m, t), t)
<1> DEFINE l == m.list
           c == cycle_duration(l)
           since == t % c
           future == {j \in 1..Len(l) : StartOf(l, j) >= since}
           i == IF future = {} THEN 1 ELSE Min(future)
           d == IF future = {} THEN c - since ELSE StartOf(l, Min(future)) - since
           r == [m EXCEPT !.current_slot = i, !.next_slot_t = d]
<1>1. l \in Lists /\ Len(l) \in Nat /\ 1 \in 1..Len(l) /\ c \in Nat \ {0}  BY ListTypes
<1>2. InMiddle(m, t) = r
  <2> HIDE DEF l, c
  <2>1. InMiddle(m, t) = IF future = {} THEN [m EXCEPT !.current_slot = 1, !.next_slot_t = c - since]
                         ELSE [m EXCEPT !.current_slot = Min(future),
                                        !.next_slot_t = StartOf(l, Min(future)) - since]
    BY DEF InMiddle, l, c
  <2> HIDE DEF future, since
  <2> QED BY <2>1
<1>3. since \in 0..(c - 1) /\ Same(c, t, since)
  <2> HIDE DEF c
  <2> QED BY <1>1, DivMod, SameMod
<1> HIDE DEF l, c, since
<1>4. i \in 1..Len(l) /\ d \in Int /\ Same(c, t + d, StartOf(l, i))
  <2>1. CASE future = {}
    <3>1. i = 1 /\ d = c - since  BY <2>1
    <3>2. StartOf(l, 1) = 0  BY <1>1, StartSteps
    <3>3. Same(c, t + (c - since), since + (c - since))
      <4>1. since \in Int /\ c - since \in Int  BY <1>1, <1>3
      <4> QED BY ONLY t \in Int, <1>1, <1>3, <4>1, SameShift, Zenon
    <3>4. since + (c - since) = 0 + c  BY <1>1, <1>3
    <3>5. Same(c, 0 + c, 0)  BY <1>1, SameCycle
    <3>6. Same(c, t + (c - since), 0)
      <4>1. t + (c - since) \in Int /\ 0 + c \in Int  BY <1>1, <1>3
      <4> QED BY <1>1, <3>3, <3>4, <3>5, <4>1, SameTrans
    <3> QED BY <1>1, <1>3, <3>1, <3>2, <3>6
  <2>2. CASE future # {}
    <3>1. future \subseteq Nat  OBVIOUS
    <3>2. Min(future) \in future
      <4> HIDE DEF future
      <4> QED BY <2>2, <3>1, LeastMember
    <3>3. i = Min(future) /\ d = StartOf(l, i) - since  BY <2>2
    <3>4. i \in 1..Len(l)  BY <3>2, <3>3
    <3>5. StartOf(l, i) \in Int  BY <1>1, <3>4, StartWithin
    <3> HIDE DEF i, d
    <3>6. d \in Int /\ since + d = StartOf(l, i)  BY <1>1, <1>3, <3>3, <3>5
    <3>7. Same(c, t + d, since + d)
      <4>1. since \in Int  BY <1>1, <1>3
      <4> QED BY ONLY t \in Int, <1>1, <1>3, <3>6, <4>1, SameShift, Zenon
    <3> QED BY <3>4, <3>6, <3>7
  <2> QED BY <2>1, <2>2
<1> HIDE DEF i, d
<1>5. i \in Nat  BY <1>1, <1>4
<1>6. r \in Macs(v) /\ r.list = l /\ r.started_up = m.started_up /\ r.current_slot = i /\ r.next_slot_t = d
  BY <1>4, <1>5 DEF Macs, l
<1> HIDE DEF r
<1> QED BY <1>2, <1>4, <1>6 DEF OnTime, l, c

\* After update() a MAC that runs is in phase.
LEMMA UpdatePhase ==
    ASSUME NEW v \in Vehicles, NEW m \in Macs(v), NEW t \in Int
    PROVE  update(v, m, t) \in Macs(v) /\ Phased(update(v, m, t), t)
<1> DEFINE u == update(v, m, t)
<1>1. CASE m.list = <<>>
  <2>1. u = [m EXCEPT !.started_up = FALSE]  BY <1>1 DEF update
  <2>2. u \in Macs(v) /\ u.started_up = FALSE  BY <2>1 DEF Macs
  <2> QED BY <2>2 DEF Phased
<1>2. CASE m.list # <<>> /\ Config[v].start_cycle_in_middle /\ Len(m.list) > 1
  <2>1. u = InMiddle(m, t)  BY <1>2 DEF update
  <2> QED BY <1>2, <2>1, InMiddleOnTime DEF Phased
<1>3. CASE m.list # <<>> /\ ~ (Config[v].start_cycle_in_middle /\ Len(m.list) > 1)
  <2> DEFINE d == next_cycle_time(m.list, t)
  <2>1. u = [m EXCEPT !.current_slot = 1, !.next_slot_t = d]  BY <1>3 DEF update
  <2>2. m.list \in Lists /\ 1 \in 1..Len(m.list) /\ cycle_duration(m.list) \in Nat \ {0}
    BY <1>3, ListTypes
  <2>3. d \in Int /\ Same(cycle_duration(m.list), t + d, StartOf(m.list, 1))
    BY <2>2, NextCycle, StartSteps
  <2> HIDE DEF d
  <2>4. u \in Macs(v) /\ u.list = m.list /\ u.current_slot = 1 /\ u.next_slot_t = d
    <3>1. 1 \in Nat  OBVIOUS
    <3> QED BY <2>1, <2>3, <3>1 DEF Macs
  <2> QED BY <2>2, <2>3, <2>4 DEF Phased, OnTime
<1> QED BY <1>1, <1>2, <1>3

\* restart() leaves a MAC in phase.
LEMMA RestartedPhase ==
    ASSUME NEW v \in Vehicles, NEW m \in Macs(v), now[v] \in Int, Phased(m, now[v])
    PROVE  Restarted(v, m) \in Macs(v) /\ Phased(Restarted(v, m), now[v])
<1>1. CASE m.started_up  BY <1>1 DEF Restarted
<1>2. CASE ~ m.started_up
  <2> DEFINE n == [m EXCEPT !.started_up = TRUE]
  <2>1. n \in Macs(v)  BY DEF Macs
  <2>2. Restarted(v, m) = update(v, n, now[v])  BY <1>2 DEF Restarted
  <2> HIDE DEF n
  <2> QED BY <2>1, <2>2, UpdatePhase
<1> QED BY <1>1, <1>2

\* A stopped MAC does not run.
LEMMA StoppedPhase ==
    ASSUME NEW v \in Vehicles, NEW m \in Macs(v), NEW t \in Int
    PROVE  Stopped(m) \in Macs(v) /\ Phased(Stopped(m), t)
<1>1. Stopped(m) \in Macs(v) /\ Stopped(m).started_up = FALSE  BY DEF Macs, Stopped
<1> QED BY <1>1 DEF Phased

\* A new list makes a MACManager that runs if it did before.
LEMMA ListPhase ==
    ASSUME NEW v \in Vehicles, NEW m \in Macs(v), NEW list \in {<<>>, Slots(v)}
    PROVE  [m EXCEPT !.list = list] \in Macs(v) /\ [m EXCEPT !.list = list].started_up = m.started_up
BY DEF Macs

\* increment_slot() goes on to the slot that begins when this one ends.
LEMMA IncrementPhase ==
    ASSUME NEW v \in Vehicles, NEW m \in Macs(v), NEW t \in Int, OnTime(m, t)
    PROVE  increment_slot(m) \in Macs(v) /\ Phased(increment_slot(m), t)
<1> DEFINE l == m.list
           c == cycle_duration(l)
           i == m.current_slot
           s == l[i].slot_seconds
           j == NextIndex(l, i)
           d == m.next_slot_t + s
           r == [m EXCEPT !.next_slot_t = d, !.current_slot = j]
<1>1. l \in Lists /\ Len(l) \in Nat /\ m.next_slot_t \in Int  BY ListTypes
<1>2. i \in 1..Len(l) /\ Same(c, t + m.next_slot_t, StartOf(l, i))  BY DEF OnTime
<1>3. s \in Nat \ {0} /\ d \in Int
  <2> HIDE DEF l, i
  <2> QED BY <1>1, <1>2, SlotSeconds
<1>4. increment_slot(m) = r  BY DEF increment_slot
<1> HIDE DEF l, i, s
<1>5. c \in Nat \ {0} /\ StartOf(l, i) \in Nat /\ StartOf(l, i + 1) = StartOf(l, i) + s
  BY <1>1, <1>2, StartWithin, StartSteps DEF s
<1>6. Same(c, (t + m.next_slot_t) + s, StartOf(l, i + 1))
  <2>1. t + m.next_slot_t \in Int /\ StartOf(l, i) \in Int /\ s \in Int  BY <1>1, <1>3, <1>5
  <2>2. Same(c, (t + m.next_slot_t) + s, StartOf(l, i) + s)
    BY ONLY <1>2, <1>5, <2>1, SameShift, Zenon
  <2> QED BY <1>5, <2>2
<1>7. (t + m.next_slot_t) + s = t + d  BY <1>1, <1>3
<1>8. j \in 1..Len(l) /\ Same(c, t + d, StartOf(l, j))
  <2>1. CASE i = Len(l)
    <3>1. j = 1 /\ j \in 1..Len(l)  BY <1>1, <1>2, <2>1 DEF NextIndex
    <3>2. StartOf(l, j) = 0 /\ StartOf(l, i + 1) = 0 + c
      BY <1>1, <1>5, <2>1, <3>1, StartSteps DEF cycle_duration
    <3>3. Same(c, 0 + c, 0)
      <4>1. 0 \in Int  OBVIOUS
      <4> QED BY ONLY <1>5, <4>1, SameCycle, Zenon
    <3>4. Same(c, t + d, 0)
      <4>1. t + d \in Int /\ 0 + c \in Int  BY <1>3, <1>5
      <4> HIDE DEF d, c
      <4> QED BY <1>5, <1>6, <1>7, <3>2, <3>3, <4>1, SameTrans
    <3> QED BY <3>1, <3>2, <3>4
  <2>2. CASE i # Len(l)
    <3>1. j = i + 1 /\ j \in 1..Len(l)  BY <1>1, <1>2, <2>2 DEF NextIndex
    <3> QED BY <1>6, <1>7, <3>1
  <2> QED BY <2>1, <2>2
<1> HIDE DEF d, j
<1>9. r \in Macs(v) /\ r.list = l /\ r.current_slot = j /\ r.next_slot_t = d
  <2>1. j \in Nat  BY <1>1, <1>8
  <2> QED BY <1>3, <2>1 DEF Macs, l
<1> HIDE DEF r
<1> QED BY <1>4, <1>8, <1>9 DEF Phased, OnTime

\* When the clock goes on by d, so does the time until the next slot.
LEMMA LaterPhase ==
    ASSUME WholeCycles, NEW v \in Vehicles, NEW m \in Macs(v), NEW t \in Int, NEW d \in Int,
           Phased(m, t)
    PROVE  /\ (t + d) % Period \in Int
           /\ Later(m, d) \in Macs(v) /\ Phased(Later(m, d), (t + d) % Period)
<1>0. Period \in Nat \ {0} /\ t + d \in Int  BY MACAssumption
<1>1. PICK u \in Int : u = (t + d) % Period  BY <1>0, DivMod
<1>2. CASE ~ m.started_up
  <2>1. Later(m, d) \in Macs(v) /\ ~ Later(m, d).started_up  BY <1>2 DEF Later, Macs
  <2> QED BY <1>1, <2>1 DEF Phased
<1>3. CASE m.started_up
  <2> DEFINE l == m.list
             c == cycle_duration(l)
             x == m.next_slot_t
             r == [m EXCEPT !.next_slot_t = x - d]
  <2>1. l \in Lists /\ l \in {<<>>, Slots(v)} /\ Len(l) \in Nat /\ x \in Int  BY ListTypes
  <2>2. m.current_slot \in 1..Len(l) /\ Same(c, t + x, StartOf(l, m.current_slot))
    BY <1>3 DEF Phased, OnTime
  <2>3. l # <<>>
    <3>1. l = <<>> => Len(l) = 0  OBVIOUS
    <3> HIDE DEF l
    <3> QED BY <2>1, <2>2, <3>1
  <2>4. l = Slots(v) /\ Period % c = 0  BY <2>1, <2>3 DEF WholeCycles
  <2>5. c \in Nat \ {0} /\ StartOf(l, m.current_slot) \in Int
    <3> HIDE DEF l
    <3> QED BY <2>1, <2>2, StartWithin
  <2>6. Later(m, d) = r  BY <1>3 DEF Later
  <2>7. r \in Macs(v) /\ r.list = l /\ r.current_slot = m.current_slot /\ r.next_slot_t = x - d
    BY <2>1 DEF Macs
  <2> HIDE DEF l, c, x, r
  <2>8. Same(c, u, t + d)  BY <1>0, <1>1, <2>4, <2>5, SameModMultiple
  <2>9. Same(c, u + (x - d), (t + d) + (x - d))
    <3>1. x - d \in Int  BY <2>1
    <3> QED BY ONLY u \in Int, <1>0, <2>5, <2>8, <3>1, SameShift, Zenon
  <2>10. (t + d) + (x - d) = t + x /\ t + x \in Int /\ u + (x - d) \in Int  BY <2>1
  <2>11. Same(c, u + (x - d), StartOf(l, m.current_slot))
    BY <2>2, <2>5, <2>9, <2>10, SameTrans
  <2>12. Phased(r, u)  BY <2>2, <2>7, <2>11 DEF Phased, OnTime, c
  <2> QED BY <1>1, <2>6, <2>7, <2>12
<1> QED BY <1>2, <1>3

-----------------------------------------------------------------------------

(* Every MAC stays in phase. *)

\* The state has its types: the list of a MAC is empty or the configured one.
Typed ==
    /\ mac = [v \in Vehicles |-> mac[v]] /\ \A v \in Vehicles : mac[v] \in Macs(v)
    /\ now \in [Vehicles -> Int]
    /\ talk \in [Vehicles -> [left : Nat, wrong : Int]]
    /\ world \in [stalls : Int, steps : Int, calls : Int, wrong : [Vehicles -> Int]]

\* The inductive invariant behind InPhase.
Running == Typed /\ \A v \in Vehicles : Phased(mac[v], now[v])

\* The invariant holds initially.
LEMMA InitRunning == Init => Running
<1> SUFFICES ASSUME Init PROVE Running
  OBVIOUS
<1>1. PICK t \in 0..(Period - 1) : now = [v \in Vehicles |-> t]  BY DEF Init
<1>2. now \in [Vehicles -> Int]  BY <1>1, MACAssumption
<1>3. \A v \in Vehicles : mac[v] \in Macs(v) /\ mac[v].started_up = FALSE  BY DEF Init, Macs
<1>4. mac = [v \in Vehicles |-> mac[v]]  BY DEF Init
<1>5. talk \in [Vehicles -> [left : Nat, wrong : Int]]  BY DEF Init
<1>6. world \in [stalls : Int, steps : Int, calls : Int, wrong : [Vehicles -> Int]]  BY DEF Init
<1> QED BY <1>2, <1>3, <1>4, <1>5, <1>6 DEF Running, Typed, Phased

\* A step that changes one MAC and no clock keeps the invariant if the MAC is
\* still in phase.
LEMMA OneMac ==
    ASSUME Running, NEW v \in Vehicles, NEW m \in Macs(v), Phased(m, now[v]),
           mac' = [mac EXCEPT ![v] = m], now' = now,
           talk' \in [Vehicles -> [left : Nat, wrong : Int]],
           world' \in [stalls : Int, steps : Int, calls : Int, wrong : [Vehicles -> Int]]
    PROVE  Running'
<1>1. mac' = [u \in Vehicles |-> IF u = v THEN m ELSE mac[u]]  BY DEF Running, Typed
<1>2. mac' = [u \in Vehicles |-> mac'[u]]  BY <1>1
<1>3. ASSUME NEW u \in Vehicles PROVE mac'[u] \in Macs(u) /\ Phased(mac'[u], now[u])
  <2>1. CASE u = v  BY <1>1, <2>1
  <2>2. CASE u # v  BY <1>1, <2>2 DEF Running, Typed
  <2> QED BY <2>1, <2>2
<1> QED BY <1>2, <1>3 DEF Running, Typed

\* A call of the owner changes no clock and no transmission.
LEMMA CallEffect ==
    ASSUME Typed, Call
    PROVE  /\ now' = now /\ talk' = talk /\ world'.wrong = world.wrong
           /\ talk' \in [Vehicles -> [left : Nat, wrong : Int]]
           /\ world' \in [stalls : Int, steps : Int, calls : Int, wrong : [Vehicles -> Int]]
<1>1. world' = [world EXCEPT !.calls = @ + 1] /\ now' = now /\ talk' = talk  BY DEF Call
<1>2. world' = [world EXCEPT !.calls = world.calls + 1] /\ world.calls + 1 \in Int
  BY <1>1 DEF Typed
<1>3. world' \in [stalls : Int, steps : Int, calls : Int, wrong : [Vehicles -> Int]]
  BY <1>2 DEF Typed
<1>4. world'.wrong = world.wrong  BY <1>2 DEF Typed
<1> QED BY <1>1, <1>3, <1>4 DEF Typed

\* The calls of the owner.
LEMMA OwnerRunning ==
    ASSUME Running, NEW v \in Vehicles, Owner(v)
    PROVE  Running'
<1> DEFINE m == mac[v]
<1>1. m \in Macs(v) /\ now[v] \in Int /\ Phased(m, now[v]) /\ Typed
  BY DEF Running, Typed
<1>2. mac = [u \in Vehicles |-> mac[u]]  BY DEF Running, Typed
<1>3. CASE startup(v)
  <2> DEFINE n == [m EXCEPT !.list = Slots(v)]
  <2>1. n \in Macs(v) /\ n.started_up = FALSE
    <3>1. m.started_up = FALSE  BY <1>1, <1>3 DEF startup, Macs
    <3>2. n \in Macs(v) /\ n.started_up = m.started_up
      <4> HIDE DEF m
      <4> QED BY <1>1, ListPhase
    <3> QED BY <3>1, <3>2
  <2>2. mac' = [mac EXCEPT ![v] = Restarted(v, n)] /\ Call  BY <1>2, <1>3 DEF startup
  <2> HIDE DEF n
  <2>3. Phased(n, now[v])  BY <2>1 DEF Phased
  <2>4. Restarted(v, n) \in Macs(v) /\ Phased(Restarted(v, n), now[v])
    BY <1>1, <2>1, <2>3, RestartedPhase
  <2> QED BY <1>1, <2>2, <2>4, CallEffect, OneMac
<1>4. CASE restart(v)
  <2>1. mac' = [mac EXCEPT ![v] = Restarted(v, m)] /\ Call  BY <1>2, <1>4 DEF restart
  <2> HIDE DEF m
  <2>2. Restarted(v, m) \in Macs(v) /\ Phased(Restarted(v, m), now[v])
    BY <1>1, RestartedPhase
  <2> QED BY <1>1, <2>1, <2>2, CallEffect, OneMac
<1>5. CASE shutdown(v)
  <2>1. mac' = [mac EXCEPT ![v] = Stopped(m)] /\ Call  BY <1>2, <1>5 DEF shutdown
  <2> HIDE DEF m
  <2>2. Stopped(m) \in Macs(v) /\ Phased(Stopped(m), now[v])  BY <1>1, StoppedPhase
  <2> QED BY <1>1, <2>1, <2>2, CallEffect, OneMac
<1>6. ASSUME NEW list \in {<<>>, Slots(v), mac[v].list}, NEW state \in {"STARTED", "STOPPED", "none"},
             handle_mac_cycle_update(v, list, state)
      PROVE  Running'
  <2> DEFINE n == [m EXCEPT !.list = list]
             u == update(v, n, now[v])
             r == CASE state = "STARTED" -> Restarted(v, u)
                    [] state = "STOPPED" -> Stopped(u)
                    [] OTHER -> u
  <2>1. list \in {<<>>, Slots(v)}  BY <1>1, <1>6, ListTypes
  <2>2. n \in Macs(v)
    <3> HIDE DEF m
    <3> QED BY <1>1, <2>1, ListPhase
  <2>3. mac' = [mac EXCEPT ![v] = r] /\ Call  BY <1>6 DEF handle_mac_cycle_update
  <2> HIDE DEF n
  <2>4. u \in Macs(v) /\ Phased(u, now[v])  BY <1>1, <2>2, UpdatePhase
  <2> HIDE DEF u
  <2>5. Restarted(v, u) \in Macs(v) /\ Phased(Restarted(v, u), now[v])
    BY <1>1, <2>4, RestartedPhase
  <2>6. Stopped(u) \in Macs(v) /\ Phased(Stopped(u), now[v])  BY <1>1, <2>4, StoppedPhase
  <2>7. r \in Macs(v) /\ Phased(r, now[v])
    <3>1. CASE state = "STARTED"  BY <2>5, <3>1
    <3>2. CASE state = "STOPPED"  BY <2>6, <3>2
    <3>3. CASE state # "STARTED" /\ state # "STOPPED"  BY <2>4, <3>3
    <3> QED BY <3>1, <3>2, <3>3
  <2> HIDE DEF r
  <2> QED BY <1>1, <2>3, <2>7, CallEffect, OneMac
<1> QED BY <1>3, <1>4, <1>5, <1>6 DEF Owner

\* What the record of a transmission says when a slot begins on time.
Transmission(v) ==
    LET m == mac[v]
    IN  [left |-> Max({1, m.next_slot_t + m.list[m.current_slot].slot_seconds}),
         wrong |-> world.wrong[v]]

\* do_work() either finds its clock off and starts the cycle anew, or goes on to
\* the next slot and transmits or not.
LEMMA WorkCases ==
    ASSUME Typed, NEW v \in Vehicles, do_work(v)
    PROVE  /\ mac[v].started_up /\ mac[v].next_slot_t < 0 /\ now' = now /\ world' = world
           /\ \/ mac' = [mac EXCEPT ![v] = update(v, mac[v], now[v])] /\ talk' = talk
              \/ /\ mac' = [mac EXCEPT ![v] = increment_slot(mac[v])]
                 /\ - mac[v].next_slot_t <= AllowedSkew
                 /\ \/ talk' = talk
                    \/ /\ we_are_transmitting(v, mac[v].list[mac[v].current_slot])
                       /\ talk' = [talk EXCEPT ![v] = Transmission(v)]
<1>1. - mac[v].next_slot_t \in Int /\ AllowedSkew \in Int  BY MACAssumption DEF Typed, Macs
<1> QED BY <1>1 DEF do_work, begin_slot, ClockSkew, Transmission

\* The greater of 1 and a number.
LEMMA MaxOfTwo ==
    ASSUME NEW x \in Int
    PROVE  /\ Max({1, x}) \in Nat \ {0}
           /\ x >= 1 => Max({1, x}) = x
<1> DEFINE P(y) == y \in {1, x} /\ \A z \in {1, x} : y >= z
           y0 == IF x >= 1 THEN x ELSE 1
<1>1. P(y0)  OBVIOUS
<1>2. \A y : P(y) => y = y0  OBVIOUS
<1>3. Max({1, x}) = CHOOSE y \in {1, x} : \A z \in {1, x} : y >= z  BY DEF Max
<1>4. Max({1, x}) = y0  BY <1>1, <1>2, <1>3
<1> QED BY <1>4

\* The record of a transmission has its type.
LEMMA TransmissionType ==
    ASSUME Running, NEW v \in Vehicles, mac[v].started_up
    PROVE  /\ Transmission(v) \in [left : Nat, wrong : Int]
           /\ Transmission(v).wrong = world.wrong[v]
           /\ mac[v].next_slot_t + mac[v].list[mac[v].current_slot].slot_seconds \in Int
           /\ Transmission(v).left
                = Max({1, mac[v].next_slot_t + mac[v].list[mac[v].current_slot].slot_seconds})
<1>1. OnTime(mac[v], now[v]) /\ mac[v] \in Macs(v)  BY DEF Running, Phased, Typed
<1>2. mac[v].list \in Lists /\ mac[v].current_slot \in 1..Len(mac[v].list) /\ mac[v].next_slot_t \in Int
  BY <1>1, ListTypes DEF OnTime
<1>3. mac[v].list[mac[v].current_slot].slot_seconds \in Nat  BY <1>2, SlotSeconds
<1>4. PICK x \in Int : x = mac[v].next_slot_t + mac[v].list[mac[v].current_slot].slot_seconds
  BY <1>2, <1>3
<1>5. Max({1, x}) \in Nat  BY MaxOfTwo
<1>6. world.wrong[v] \in Int  BY DEF Running, Typed
<1> QED BY <1>4, <1>5, <1>6 DEF Transmission

\* do_work().
LEMMA WorkRunning ==
    ASSUME Running, NEW v \in Vehicles, do_work(v)
    PROVE  Running'
<1> DEFINE m == mac[v]
<1>1. Typed /\ m \in Macs(v) /\ now[v] \in Int /\ Phased(m, now[v])  BY DEF Running, Typed
<1>2. m.started_up /\ now' = now /\ world' = world  BY <1>1, WorkCases
<1>3. world' \in [stalls : Int, steps : Int, calls : Int, wrong : [Vehicles -> Int]]
  BY <1>1, <1>2 DEF Typed
<1>4. talk' \in [Vehicles -> [left : Nat, wrong : Int]]
  <2>1. CASE talk' = talk  BY <1>1, <2>1 DEF Typed
  <2>2. CASE talk' = [talk EXCEPT ![v] = Transmission(v)]
    <3>1. Transmission(v) \in [left : Nat, wrong : Int]  BY <1>2, TransmissionType
    <3> QED BY <1>1, <2>2, <3>1 DEF Typed
  <2> QED BY <1>1, <2>1, <2>2, WorkCases
<1>5. CASE mac' = [mac EXCEPT ![v] = update(v, m, now[v])]
  <2> HIDE DEF m
  <2>1. update(v, m, now[v]) \in Macs(v) /\ Phased(update(v, m, now[v]), now[v])
    BY <1>1, UpdatePhase
  <2> QED BY <1>2, <1>3, <1>4, <1>5, <2>1, OneMac
<1>6. CASE mac' = [mac EXCEPT ![v] = increment_slot(m)]
  <2> HIDE DEF m
  <2>1. OnTime(m, now[v])  BY <1>1, <1>2 DEF Phased
  <2>2. increment_slot(m) \in Macs(v) /\ Phased(increment_slot(m), now[v])
    BY <1>1, <2>1, IncrementPhase
  <2> QED BY <1>2, <1>3, <1>4, <1>6, <2>2, OneMac
<1> QED BY <1>1, <1>5, <1>6, WorkCases
-----------------------------------------------------------------------------

\* How Tick changes the record of a transmission.
LEMMA TickTalk ==
    ASSUME Typed, Tick, NEW v \in Vehicles
    PROVE  /\ talk'[v] \in [left : Nat, wrong : Int]
           /\ \/ talk'[v].left = 0
              \/ /\ talk[v].left > 1 /\ talk'[v].left = talk[v].left - 1
                 /\ talk'[v].wrong = talk[v].wrong
<1>1. talk[v] \in [left : Nat, wrong : Int]  BY DEF Typed
<1>2. talk'[v] = IF talk[v].left <= 1 THEN [left |-> 0, wrong |-> 0]
                 ELSE [talk[v] EXCEPT !.left = @ - 1]
  BY DEF Tick
<1>3. CASE talk[v].left <= 1  BY <1>2, <1>3
<1>4. CASE ~ (talk[v].left <= 1)
  <2>1. PICK l \in Nat : l = talk[v].left - 1 /\ talk[v].left > 1
    <3>1. talk[v].left \in Nat /\ talk[v].left > 1  BY <1>1, <1>4
    <3>2. talk[v].left - 1 \in Nat  BY <3>1
    <3> QED BY <3>1, <3>2
  <2>2. talk'[v] = [talk[v] EXCEPT !.left = l]  BY <1>1, <1>2, <1>4, <2>1
  <2> QED BY <1>1, <2>1, <2>2
<1> QED BY <1>3, <1>4

\* Tick.
LEMMA TickRunning ==
    ASSUME WholeCycles, Running, Tick
    PROVE  Running'
<1>1. Typed  BY DEF Running
<1>2. ASSUME NEW v \in Vehicles
      PROVE  now'[v] \in Int /\ mac'[v] \in Macs(v) /\ Phased(mac'[v], now'[v])
  <2>1. now[v] \in Int /\ mac[v] \in Macs(v) /\ Phased(mac[v], now[v])  BY DEF Running, Typed
  <2>2. now'[v] = (now[v] + 1) % Period /\ mac'[v] = Later(mac[v], 1)  BY DEF Tick
  <2> QED BY <2>1, <2>2, LaterPhase
<1>3. now' = [v \in Vehicles |-> now'[v]] /\ mac' = [v \in Vehicles |-> mac'[v]]  BY DEF Tick
<1>4. talk' = [v \in Vehicles |-> talk'[v]]  BY DEF Tick
<1>5. talk' \in [Vehicles -> [left : Nat, wrong : Int]]  BY <1>1, <1>4, TickTalk
<1>6. world' \in [stalls : Int, steps : Int, calls : Int, wrong : [Vehicles -> Int]]
  <2>1. world' = world \/ world' = [world EXCEPT !.stalls = @ + 1]  BY DEF Tick
  <2>2. world.stalls + 1 \in Int  BY <1>1 DEF Typed
  <2> QED BY <1>1, <2>1, <2>2 DEF Typed
<1>7. now' \in [Vehicles -> Int]  BY <1>2, <1>3
<1> QED BY <1>2, <1>3, <1>5, <1>6, <1>7 DEF Running, Typed

\* The clock of v is set: the other vehicles do not notice.
LEMMA StepEffect ==
    ASSUME Typed, NEW v \in Vehicles, NEW d \in Int, ClockStep(v, d)
    PROVE  /\ now' = [u \in Vehicles |-> IF u = v THEN (now[v] + d) % Period ELSE now[u]]
           /\ mac' = [u \in Vehicles |-> IF u = v THEN Later(mac[v], d) ELSE mac[u]]
           /\ talk' = talk
           /\ world'.wrong = [u \in Vehicles |-> IF u = v THEN (world.wrong[v] + d) % Period
                                                 ELSE world.wrong[u]]
           /\ world' \in [stalls : Int, steps : Int, calls : Int, wrong : [Vehicles -> Int]]
<1>1. PICK e \in Int : e = (world.wrong[v] + d) % Period
  <2>1. world.wrong[v] + d \in Int /\ Period \in Nat \ {0}  BY MACAssumption DEF Typed
  <2> QED BY <2>1, DivMod
<1>2. world' = [world EXCEPT !.steps = world.steps + 1, !.wrong = [@ EXCEPT ![v] = e]]
  BY <1>1 DEF ClockStep, Typed
<1>3. world' \in [stalls : Int, steps : Int, calls : Int, wrong : [Vehicles -> Int]]
  <2>1. [world.wrong EXCEPT ![v] = e] \in [Vehicles -> Int] /\ world.steps + 1 \in Int  BY DEF Typed
  <2> QED BY <1>2, <2>1 DEF Typed
<1>4. world'.wrong = [world.wrong EXCEPT ![v] = e]  BY <1>2 DEF Typed
<1>5. world'.wrong = [u \in Vehicles |-> IF u = v THEN e ELSE world.wrong[u]]
  BY <1>4 DEF Typed
<1>6. /\ now' = [u \in Vehicles |-> IF u = v THEN (now[v] + d) % Period ELSE now[u]]
      /\ mac' = [u \in Vehicles |-> IF u = v THEN Later(mac[v], d) ELSE mac[u]]
      /\ talk' = talk
  BY DEF ClockStep, Typed
<1> QED BY <1>1, <1>3, <1>5, <1>6

\* A clock that is set.
LEMMA StepRunning ==
    ASSUME WholeCycles, Running, NEW v \in Vehicles, NEW d \in Int, ClockStep(v, d)
    PROVE  Running'
<1>1. Typed  BY DEF Running
<1>2. /\ now' = [u \in Vehicles |-> IF u = v THEN (now[v] + d) % Period ELSE now[u]]
      /\ mac' = [u \in Vehicles |-> IF u = v THEN Later(mac[v], d) ELSE mac[u]]
      /\ talk' = talk
      /\ world' \in [stalls : Int, steps : Int, calls : Int, wrong : [Vehicles -> Int]]
  BY <1>1, StepEffect
<1>3. ASSUME NEW u \in Vehicles
      PROVE  now'[u] \in Int /\ mac'[u] \in Macs(u) /\ Phased(mac'[u], now'[u])
  <2>1. now[u] \in Int /\ mac[u] \in Macs(u) /\ Phased(mac[u], now[u])  BY DEF Running, Typed
  <2>2. CASE u = v
    <3>1. now'[u] = (now[u] + d) % Period /\ mac'[u] = Later(mac[u], d)  BY <1>2, <2>2
    <3> QED BY <2>1, <3>1, LaterPhase
  <2>3. CASE u # v  BY <1>2, <2>1, <2>3
  <2> QED BY <2>2, <2>3
<1>4. now' = [u \in Vehicles |-> now'[u]] /\ mac' = [u \in Vehicles |-> mac'[u]]  BY <1>2
<1>5. now' \in [Vehicles -> Int]  BY <1>3, <1>4
<1> QED BY <1>1, <1>2, <1>3, <1>4, <1>5 DEF Running, Typed

\* All the steps.
LEMMA NextRunning ==
    ASSUME WholeCycles, Running, [Next]_vars
    PROVE  Running'
<1>1. ASSUME NEW v \in Vehicles, NEW d \in Steps, ClockStep(v, d) PROVE Running'
  <2>1. d \in Int  BY MACAssumption
  <2> QED BY <1>1, <2>1, StepRunning
<1>2. CASE UNCHANGED vars
  BY <1>2 DEF vars, Running, Typed
<1> QED BY <1>1, <1>2, OwnerRunning, WorkRunning, TickRunning DEF Next

\* A running MAC is in phase with the reference, for any vehicles, cycles, calls,
\* stalls and steps of the clocks, when the time between references is a whole
\* number of cycles: update(), increment_slot() and the clocks keep next_slot_t_
\* at the start of current_slot_.
THEOREM AlwaysInPhase == WholeCycles => (Spec => []InPhase)
<1> SUFFICES ASSUME WholeCycles PROVE Spec => []InPhase
  OBVIOUS
<1>1. Running => InPhase
  <2> SUFFICES ASSUME Running, NEW v \in Vehicles, mac[v].started_up
               PROVE  /\ mac[v].current_slot \in 1..Len(mac[v].list)
                      /\ (now[v] + mac[v].next_slot_t) % cycle_duration(mac[v].list)
                             = StartOf(mac[v].list, mac[v].current_slot)
    BY DEF InPhase
  <2> DEFINE l == mac[v].list
             c == cycle_duration(l)
             x == now[v] + mac[v].next_slot_t
             r == StartOf(l, mac[v].current_slot)
  <2>1. mac[v] \in Macs(v) /\ OnTime(mac[v], now[v])  BY DEF Running, Typed, Phased
  <2>2. mac[v].current_slot \in 1..Len(l) /\ Same(c, x, r)  BY <2>1 DEF OnTime
  <2>3. l \in Lists /\ x \in Int  BY <2>1, ListTypes DEF Running, Typed
  <2>4. c \in Nat \ {0} /\ r \in 0..(c - 1)
    <3> HIDE DEF l
    <3> QED BY <2>2, <2>3, StartWithin
  <2> HIDE DEF c, x, r
  <2>5. x % c = r  BY <2>2, <2>3, <2>4, ModSame
  <2> QED BY <2>2, <2>5 DEF x, c, r
<1>2. Running /\ [Next]_vars => Running'  BY NextRunning
<1> QED BY <1>1, <1>2, InitRunning, PTL DEF Spec

-----------------------------------------------------------------------------

(* No two vehicles transmit at the same time. *)

\* At time t the transmission of v, if there is one, lies within a slot in which
\* v transmits, by the clock v had when it began.
Within(v, t) ==
    talk[v].left > 0 =>
        \E j \in 1..Len(Slots(v)) :
            /\ we_are_transmitting(v, Slots(v)[j])
            /\ talk[v].left < Slots(v)[j].slot_seconds
            /\ Same(cycle_duration(Slots(v)), (t + talk[v].wrong) + talk[v].left,
                    StartOf(Slots(v), j + 1))

\* All clocks show the time t, but for how wrong they are.
AtTime(t) == \A v \in Vehicles : Same(Period, now[v], t + world.wrong[v]) /\ Within(v, t)

\* The inductive invariant behind NoCollision.
Orderly == Running /\ \E t \in Int : AtTime(t)

\* Lists with slots of the same lengths have the same start times.
LEMMA SameStarts ==
    ASSUME NEW a \in Lists, NEW b \in Lists, Len(a) = Len(b),
           \A j \in 1..Len(a) : a[j].slot_seconds = b[j].slot_seconds,
           NEW i \in 1..(Len(a) + 1)
    PROVE  StartOf(a, i) = StartOf(b, i)
<1>0. PICK n \in Nat : n = Len(a)  BY DEF Lists
<1> DEFINE S == {j \in 0..n : StartOf(a, j + 1) = StartOf(b, j + 1)}
<1>1. 0 \in S  BY StartSteps
<1>2. ASSUME NEW j \in 0..(n - 1), j \in S PROVE j + 1 \in S
  <2>1. j + 1 \in 1..Len(a) /\ j + 1 \in 1..Len(b) /\ j + 1 \in 0..n  BY <1>0
  <2>2. StartOf(a, (j + 1) + 1) = StartOf(a, j + 1) + a[j + 1].slot_seconds  BY <2>1, StartSteps
  <2>3. StartOf(b, (j + 1) + 1) = StartOf(b, j + 1) + b[j + 1].slot_seconds  BY <2>1, StartSteps
  <2>4. StartOf(a, j + 1) = StartOf(b, j + 1)  BY <1>2
  <2>5. StartOf(a, (j + 1) + 1) = StartOf(b, (j + 1) + 1)  BY <2>1, <2>2, <2>3, <2>4
  <2> QED BY <2>1, <2>5
<1> HIDE DEF S
<1>3. 0..n \subseteq S  BY <1>1, <1>2, UpTo
<1>4. i - 1 \in S  BY <1>0, <1>3
<1>5. (i - 1) + 1 = i  BY <1>0
<1> QED BY <1>4, <1>5 DEF S

\* A moment y before the end of a slot, if the slot is longer, is inside it.
LEMMA InsideSlot ==
    ASSUME NEW c \in Nat, NEW a \in Nat, NEW s \in Nat, a + s <= c, NEW y \in 1..(s - 1)
    PROVE  (a + s) - y \in 0..(c - 1) /\ a < (a + s) - y /\ (a + s) - y < a + s
OBVIOUS

\* A moment inside two intervals: neither of them ends before the other begins.
LEMMA OneInterval ==
    ASSUME NEW a \in Nat, NEW s \in Nat, NEW b \in Nat, NEW u \in Nat, NEW p \in Int,
           a < p, p < a + s, b < p, p < b + u
    PROVE  ~ (a + s <= b) /\ ~ (b + u <= a)
OBVIOUS

\* Two moments of the same time of the cycle, each inside a slot, are inside
\* the same slot.
LEMMA OneSlot ==
    ASSUME NEW list \in Lists, NEW c \in Nat \ {0}, c = cycle_duration(list),
           NEW i \in 1..Len(list), NEW j \in 1..Len(list), NEW x \in Int,
           NEW y \in Nat, NEW z \in Nat,
           y \in 1..(list[i].slot_seconds - 1), z \in 1..(list[j].slot_seconds - 1),
           Same(c, x + y, StartOf(list, i + 1)), Same(c, x + z, StartOf(list, j + 1))
    PROVE  i = j
<1>0. PICK n \in Nat : n = Len(list)  BY DEF Lists
<1>1. PICK s \in Nat \ {0} : s = list[i].slot_seconds  BY SlotSeconds
<1>2. PICK u \in Nat \ {0} : u = list[j].slot_seconds  BY SlotSeconds
<1>3. PICK a \in Nat : a = StartOf(list, i) /\ a + s <= c /\ StartOf(list, i + 1) = a + s
  <2>1. StartOf(list, i) \in Nat  BY <1>0, StartType
  <2> QED BY <1>1, <2>1, StartWithin, StartSteps
<1>4. PICK b \in Nat : b = StartOf(list, j) /\ b + u <= c /\ StartOf(list, j + 1) = b + u
  <2>1. StartOf(list, j) \in Nat  BY <1>0, StartType
  <2> QED BY <1>2, <2>1, StartWithin, StartSteps
<1>5. PICK k \in Int : x + y = c * k + (a + s)  BY <1>3 DEF Same
<1>6. PICK l \in Int : x + z = c * l + (b + u)  BY <1>4 DEF Same
<1>7. PICK p \in 0..(c - 1) : p = (a + s) - y /\ a < p /\ p < a + s
  <2>0. y \in 1..(s - 1)  BY <1>1
  <2>1. (a + s) - y \in 0..(c - 1) /\ a < (a + s) - y /\ (a + s) - y < a + s
    BY <1>3, <2>0, InsideSlot
  <2> QED BY <2>1
<1>8. PICK q \in 0..(c - 1) : q = (b + u) - z /\ b < q /\ q < b + u
  <2>0. z \in 1..(u - 1)  BY <1>2
  <2>1. (b + u) - z \in 0..(c - 1) /\ b < (b + u) - z /\ (b + u) - z < b + u
    BY <1>4, <2>0, InsideSlot
  <2> QED BY <2>1
<1>9. c * k + p = c * l + q
  <2>1. PICK ck \in Int : ck = c * k  OBVIOUS
  <2>2. PICK cl \in Int : cl = c * l  OBVIOUS
  <2>3. x + y = ck + (a + s) /\ x + z = cl + (b + u)  BY <1>5, <1>6, <2>1, <2>2
  <2>4. ck + p = cl + q  BY <1>7, <1>8, <2>3
  <2> QED BY <2>1, <2>2, <2>4
<1>10. k = l /\ p = q
  BY ONLY c \in Nat \ {0}, k \in Int, l \in Int, p \in 0..(c - 1), q \in 0..(c - 1), <1>9, OneRemainder
<1>11. ~ (i < j)
  <2> SUFFICES ASSUME i < j PROVE FALSE
    OBVIOUS
  <2>1. j \in (i + 1)..(Len(list) + 1)  BY <1>0
  <2>2. a + s <= b  BY <1>3, <1>4, <2>1, StartOrder
  <2> QED BY <1>7, <1>8, <1>10, <2>2, OneInterval
<1>12. ~ (j < i)
  <2> SUFFICES ASSUME j < i PROVE FALSE
    OBVIOUS
  <2>1. i \in (j + 1)..(Len(list) + 1)  BY <1>0
  <2>2. b + u <= a  BY <1>3, <1>4, <2>1, StartOrder
  <2> QED BY <1>7, <1>8, <1>10, <2>2, OneInterval
<1> QED BY <1>0, <1>11, <1>12

\* The invariant holds initially.
LEMMA InitOrderly == Init => Orderly
<1> SUFFICES ASSUME Init PROVE Orderly
  OBVIOUS
<1>1. PICK t \in 0..(Period - 1) : now = [v \in Vehicles |-> t]  BY DEF Init
<1>2. t \in Int /\ t + 0 = t /\ Period \in Nat \ {0}  BY MACAssumption
<1>3. ASSUME NEW v \in Vehicles PROVE Same(Period, now[v], t + world.wrong[v]) /\ Within(v, t)
  <2>1. world.wrong[v] = 0 /\ now[v] = t /\ talk[v].left = 0  BY <1>1 DEF Init
  <2>2. Same(Period, t, t)  BY <1>2, SameRefl
  <2> QED BY <1>2, <2>1, <2>2 DEF Within
<1> QED BY <1>2, <1>3, InitRunning DEF Orderly, AtTime

\* A transmission begins within its slot.
LEMMA BeginsWithin ==
    ASSUME WholeCycles, SlotsAgreed, Running, NEW t \in Int, AtTime(t), NEW v \in Vehicles,
           mac[v].started_up, mac[v].next_slot_t < 0, - mac[v].next_slot_t <= AllowedSkew,
           we_are_transmitting(v, mac[v].list[mac[v].current_slot]),
           NEW r, r = Transmission(v)
    PROVE  \E j \in 1..Len(Slots(v)) :
              /\ we_are_transmitting(v, Slots(v)[j])
              /\ r.left < Slots(v)[j].slot_seconds
              /\ Same(cycle_duration(Slots(v)), (t + r.wrong) + r.left, StartOf(Slots(v), j + 1))
<1> DEFINE l == Slots(v)
           c == cycle_duration(l)
<1>1. mac[v] \in Macs(v) /\ OnTime(mac[v], now[v])  BY DEF Running, Phased, Typed
<1>2. /\ mac[v].list \in {<<>>, l} /\ l \in Lists
      /\ mac[v].current_slot \in 1..Len(mac[v].list)
      /\ Same(cycle_duration(mac[v].list), now[v] + mac[v].next_slot_t,
              StartOf(mac[v].list, mac[v].current_slot))
  BY <1>1, ListTypes DEF OnTime
<1>3. mac[v].list = l
  <2>1. mac[v].list = <<>> => Len(mac[v].list) = 0  OBVIOUS
  <2> QED BY <1>2, <2>1
<1>4. PICK i \in 1..Len(l) : i = mac[v].current_slot  BY <1>2, <1>3
<1>5. PICK x \in Int : x = mac[v].next_slot_t  BY <1>1, ListTypes
<1>6. PICK n \in Int, e \in Int : n = now[v] /\ e = world.wrong[v] /\ Same(Period, n, t + e)
  BY DEF Running, Typed, AtTime
<1>7. PICK s \in Nat \ {0} : s = l[i].slot_seconds /\ s > AllowedSkew
  <2> HIDE DEF l
  <2>1. l[i].slot_seconds \in Nat \ {0}  BY <1>2, SlotSeconds
  <2> QED BY <2>1 DEF SlotsAgreed, l
<1>8. Period % c = 0
  <2>1. l = <<>> => Len(l) = 0  OBVIOUS
  <2>2. l # <<>>  BY <1>4, <2>1
  <2> QED BY <2>2 DEF WholeCycles
<1> HIDE DEF l
<1>9. c \in Nat \ {0} /\ StartOf(l, i) \in Int /\ StartOf(l, i + 1) = StartOf(l, i) + s
  BY <1>2, <1>7, StartWithin, StartSteps
<1>10. Same(c, n + x, StartOf(l, i))  BY <1>2, <1>3, <1>4, <1>5, <1>6
<1> HIDE DEF c
<1>11. Same(c, t + e, n)
  <2>1. PICK p \in Nat \ {0} : p = Period /\ p % c = 0  BY <1>8, MACAssumption
  <2>2. PICK k \in Int : n = p * k + (t + e)  BY <1>6, <2>1 DEF Same
  <2>3. PICK q \in Int : p = c * q
    <3>1. p \div c \in Int /\ p = c * (p \div c) + 0  BY <1>9, <2>1, DivMod
    <3>2. PICK q \in Int : q = p \div c  BY <3>1
    <3>3. c \in Int  BY <1>9
    <3>4. p = c * q + 0  BY <3>1, <3>2
    <3>5. p = c * q  BY <3>3, <3>4
    <3> QED BY <3>5
  <2>4. n = c * (q * k) + (t + e)  BY <1>9, <2>2, <2>3
  <2>5. q * k \in Int /\ t + e \in Int  OBVIOUS
  <2>6. Same(c, n, t + e)  BY <2>4, <2>5 DEF Same
  <2> QED BY <1>9, <2>5, <2>6, SameSym
<1>12. Same(c, (t + e) + (x + s), StartOf(l, i + 1))
  <2>1. t + e \in Int /\ x + s \in Int /\ n + x \in Int /\ s \in Int  OBVIOUS
  <2>2. Same(c, (t + e) + (x + s), n + (x + s))
    BY ONLY n \in Int, <1>9, <1>11, <2>1, SameShift, Zenon
  <2>3. Same(c, (n + x) + s, StartOf(l, i) + s)
    BY ONLY <1>9, <1>10, <2>1, SameShift, Zenon
  <2>4. (n + x) + s = n + (x + s)  OBVIOUS
  <2>5. n + (x + s) \in Int /\ (t + e) + (x + s) \in Int /\ StartOf(l, i) + s \in Int  BY <1>9
  <2> QED BY ONLY <1>9, <2>2, <2>3, <2>4, <2>5, SameTrans, Zenon
<1>13. AllowedSkew \in Int /\ x < 0 /\ - x <= AllowedSkew  BY <1>5, MACAssumption
<1>14. x + s \in Int /\ x + s >= 1 /\ x + s < s  BY <1>7, <1>13
<1>15. r.wrong = e /\ r.left = Max({1, x + s})
  BY <1>3, <1>4, <1>5, <1>6, <1>7, TransmissionType
<1>16. r.left = x + s  BY <1>14, <1>15, MaxOfTwo
<1>17. we_are_transmitting(v, l[i])  BY <1>3, <1>4
<1>18. r.left < l[i].slot_seconds  BY <1>7, <1>14, <1>16
<1> QED BY <1>12, <1>15, <1>16, <1>17, <1>18 DEF l, c
-----------------------------------------------------------------------------

\* A step that changes neither clocks nor transmissions.
LEMMA SameTime ==
    ASSUME Orderly, Running', now' = now, talk' = talk, world'.wrong = world.wrong
    PROVE  Orderly'
<1>1. PICK t \in Int : AtTime(t)  BY DEF Orderly
<1>2. AtTime(t)'  BY <1>1 DEF AtTime, Within
<1> QED BY <1>2 DEF Orderly

\* do_work().
LEMMA WorkOrderly ==
    ASSUME WholeCycles, SlotsAgreed, Orderly, NEW v \in Vehicles, do_work(v)
    PROVE  Orderly'
<1>1. Running /\ Typed  BY DEF Orderly, Running
<1>2. Running'  BY <1>1, WorkRunning
<1>3. PICK t \in Int : AtTime(t)  BY DEF Orderly
<1>4. /\ mac[v].started_up /\ mac[v].next_slot_t < 0 /\ now' = now /\ world' = world
      /\ \/ talk' = talk
         \/ /\ - mac[v].next_slot_t <= AllowedSkew
            /\ we_are_transmitting(v, mac[v].list[mac[v].current_slot])
            /\ talk' = [talk EXCEPT ![v] = Transmission(v)]
  BY <1>1, WorkCases
<1>5. CASE talk' = talk  BY <1>2, <1>4, <1>5, SameTime
<1>6. CASE talk' # talk
  <2>1. talk' = [u \in Vehicles |-> IF u = v THEN Transmission(v) ELSE talk[u]]
    BY <1>1, <1>4, <1>6 DEF Typed
  <2>2. ASSUME NEW u \in Vehicles PROVE Same(Period, now'[u], t + world'.wrong[u]) /\ Within(u, t)'
    <3>1. Same(Period, now'[u], t + world'.wrong[u])  BY <1>3, <1>4 DEF AtTime
    <3>2. CASE u = v
      <4>1. talk'[u] = Transmission(v)  BY <2>1, <3>2
      <4>2. \E j \in 1..Len(Slots(v)) :
               /\ we_are_transmitting(v, Slots(v)[j])
               /\ talk'[u].left < Slots(v)[j].slot_seconds
               /\ Same(cycle_duration(Slots(v)), (t + talk'[u].wrong) + talk'[u].left,
                       StartOf(Slots(v), j + 1))
        BY <1>1, <1>3, <1>4, <1>6, <4>1, BeginsWithin
      <4> QED BY <3>1, <3>2, <4>2 DEF Within
    <3>3. CASE u # v
      <4>1. talk'[u] = talk[u]  BY <2>1, <3>3
      <4> QED BY <1>3, <3>1, <4>1 DEF AtTime, Within
    <3> QED BY <3>2, <3>3
  <2>3. AtTime(t)'  BY <2>2 DEF AtTime
  <2> QED BY <1>2, <2>3 DEF Orderly
<1> QED BY <1>5, <1>6

\* Tick: the time goes on for all, and what is left of a transmission gets less.
LEMMA TickOrderly ==
    ASSUME WholeCycles, Orderly, Tick
    PROVE  Orderly'
<1>1. Running /\ Typed  BY DEF Orderly, Running
<1>2. Running'  BY <1>1, TickRunning
<1>3. PICK t \in Int : AtTime(t)  BY DEF Orderly
<1>4. world'.wrong = world.wrong
  <2>1. world' = world \/ world' = [world EXCEPT !.stalls = @ + 1]  BY DEF Tick
  <2> QED BY <1>1, <2>1 DEF Typed
<1>5. Period \in Nat \ {0}  BY MACAssumption
<1>6. ASSUME NEW v \in Vehicles
      PROVE  Same(Period, now'[v], (t + 1) + world'.wrong[v]) /\ Within(v, t + 1)'
  <2>1. PICK n \in Int, e \in Int : n = now[v] /\ e = world.wrong[v]  BY <1>1 DEF Typed
  <2>2. Same(Period, n, t + e)  BY <1>3, <2>1 DEF AtTime
  <2>3. now'[v] = (n + 1) % Period  BY <2>1 DEF Tick
  <2>4. Same(Period, n + 1, (t + e) + 1)
    <3>1. t + e \in Int /\ 1 \in Int  OBVIOUS
    <3> QED BY ONLY n \in Int, <1>5, <2>2, <3>1, SameShift, Zenon
  <2>5. Same(Period, (n + 1) % Period, n + 1) /\ (n + 1) % Period \in Int
    <3>1. n + 1 \in Int  OBVIOUS
    <3> QED BY <1>5, <3>1, SameMod, DivMod
  <2>6. Same(Period, (n + 1) % Period, (t + e) + 1)
    <3>1. n + 1 \in Int /\ (t + e) + 1 \in Int  OBVIOUS
    <3> QED BY ONLY <1>5, <2>4, <2>5, <3>1, SameTrans, Zenon
  <2>7. (t + e) + 1 = (t + 1) + e  OBVIOUS
  <2>8. Same(Period, now'[v], (t + 1) + world'.wrong[v])
    BY <1>4, <2>1, <2>3, <2>6, <2>7
  <2>9. Within(v, t + 1)'
    <3> SUFFICES ASSUME talk'[v].left > 0 PROVE Within(v, t + 1)'
      BY DEF Within
    <3>1. /\ talk[v].left > 1 /\ talk'[v].left = talk[v].left - 1 /\ talk'[v].wrong = talk[v].wrong
          /\ talk[v].left \in Nat /\ talk[v].wrong \in Int
      BY <1>1, TickTalk DEF Typed
    <3>2. PICK j \in 1..Len(Slots(v)) :
             /\ we_are_transmitting(v, Slots(v)[j])
             /\ talk[v].left < Slots(v)[j].slot_seconds
             /\ Same(cycle_duration(Slots(v)), (t + talk[v].wrong) + talk[v].left,
                     StartOf(Slots(v), j + 1))
      BY <1>3, <3>1 DEF AtTime, Within
    <3>3. ((t + 1) + talk'[v].wrong) + talk'[v].left = (t + talk[v].wrong) + talk[v].left
      BY <3>1
    <3>4. talk'[v].left < Slots(v)[j].slot_seconds
      <4>1. Slots(v)[j].slot_seconds \in Nat
        <5>1. Slots(v) \in Lists  BY MACAssumption DEF Lists
        <5> QED BY <5>1, SlotSeconds
      <4> QED BY <3>1, <3>2, <4>1
    <3> QED BY <3>2, <3>3, <3>4 DEF Within
  <2> QED BY <2>8, <2>9
<1>7. AtTime(t + 1)'  BY <1>6 DEF AtTime
<1>8. t + 1 \in Int  OBVIOUS
<1> QED BY <1>2, <1>7, <1>8 DEF Orderly

\* A clock that is set is as wrong as it was, and by d more.
LEMMA StepOrderly ==
    ASSUME WholeCycles, Orderly, NEW v \in Vehicles, NEW d \in Int, ClockStep(v, d)
    PROVE  Orderly'
<1>1. Running /\ Typed  BY DEF Orderly, Running
<1>2. Running'  BY <1>1, StepRunning
<1>3. PICK t \in Int : AtTime(t)  BY DEF Orderly
<1>4. /\ now' = [u \in Vehicles |-> IF u = v THEN (now[v] + d) % Period ELSE now[u]]
      /\ talk' = talk
      /\ world'.wrong = [u \in Vehicles |-> IF u = v THEN (world.wrong[v] + d) % Period
                                            ELSE world.wrong[u]]
  BY <1>1, StepEffect
<1>5. Period \in Nat \ {0}  BY MACAssumption
<1>6. ASSUME NEW u \in Vehicles PROVE Same(Period, now'[u], t + world'.wrong[u])
  <2>1. CASE u # v  BY <1>3, <1>4, <2>1 DEF AtTime
  <2>2. CASE u = v
    <3>1. PICK n \in Int, e \in Int : n = now[v] /\ e = world.wrong[v]  BY <1>1 DEF Typed
    <3>2. Same(Period, n, t + e)  BY <1>3, <3>1 DEF AtTime
    <3>3. n + d \in Int /\ e + d \in Int /\ t + e \in Int  OBVIOUS
    <3>4. PICK n2 \in Int : n2 = (n + d) % Period /\ Same(Period, n2, n + d)
      <4>1. (n + d) % Period \in Int  BY <1>5, <3>3, DivMod
      <4>2. Same(Period, (n + d) % Period, n + d)  BY ONLY <1>5, <3>3, SameMod, Zenon
      <4> QED BY <4>1, <4>2
    <3>5. PICK e2 \in Int : e2 = (e + d) % Period /\ Same(Period, e + d, e2)
      <4>1. (e + d) % Period \in Int  BY <1>5, <3>3, DivMod
      <4>2. Same(Period, e + d, (e + d) % Period)  BY ONLY <1>5, <3>3, SameMod, Zenon
      <4> QED BY <4>1, <4>2
    <3>6. Same(Period, n + d, (t + e) + d)
      BY ONLY n \in Int, d \in Int, <1>5, <3>2, <3>3, SameShift, Zenon
    <3>7. Same(Period, (e + d) + t, e2 + t)
      BY ONLY t \in Int, e2 \in Int, <1>5, <3>3, <3>5, SameShift, Zenon
    <3>8. (t + e) + d = (e + d) + t /\ e2 + t = t + e2 /\ (e + d) + t \in Int /\ t + e2 \in Int
      OBVIOUS
    <3>9. Same(Period, n2, (e + d) + t)
      BY ONLY n2 \in Int, <1>5, <3>3, <3>4, <3>6, <3>8, SameTrans, Zenon
    <3>10. Same(Period, n2, t + e2)
      BY ONLY n2 \in Int, <1>5, <3>7, <3>8, <3>9, SameTrans, Zenon
    <3>11. now'[u] = n2 /\ world'.wrong[u] = e2  BY <1>4, <2>2, <3>1, <3>4, <3>5
    <3> QED BY <3>10, <3>11
  <2> QED BY <2>1, <2>2
<1>7. \A u \in Vehicles : Within(u, t)'  BY <1>3, <1>4 DEF AtTime, Within
<1>8. AtTime(t)'  BY <1>6, <1>7 DEF AtTime
<1> QED BY <1>2, <1>8 DEF Orderly

\* All the steps.
LEMMA NextOrderly ==
    ASSUME WholeCycles, SlotsAgreed, Orderly, [Next]_vars
    PROVE  Orderly'
<1>1. Running /\ Typed  BY DEF Orderly, Running
<1>2. Running'  BY <1>1, NextRunning
<1>3. ASSUME NEW v \in Vehicles, Owner(v) PROVE Orderly'
  <2>1. Call
    BY <1>3 DEF Owner, startup, restart, shutdown, handle_mac_cycle_update
  <2> QED BY <1>1, <1>2, <2>1, CallEffect, SameTime
<1>4. ASSUME NEW v \in Vehicles, NEW d \in Steps, ClockStep(v, d) PROVE Orderly'
  <2>1. d \in Int  BY MACAssumption
  <2> QED BY <1>4, <2>1, StepOrderly
<1>5. CASE UNCHANGED vars  BY <1>2, <1>5, SameTime DEF vars
<1> QED BY <1>3, <1>4, <1>5, WorkOrderly, TickOrderly DEF Next

\* Vehicles whose clocks agreed when they began to transmit do not transmit at
\* the same time, however their MACs were restarted, stopped or updated, their
\* threads stalled and their clocks set, when they share the lengths of the slots
\* and no slot, every slot is longer than the allowed skew and the time between
\* references is a whole number of cycles.
THEOREM NeverCollides == WholeCycles /\ SlotsAgreed => (Spec => []NoCollision)
<1> SUFFICES ASSUME WholeCycles, SlotsAgreed PROVE Spec => []NoCollision
  OBVIOUS
<1>1. Orderly => NoCollision
  <2> SUFFICES ASSUME Orderly, NEW v \in Vehicles, NEW w \in Vehicles, v # w,
                      talk[v].left > 0, talk[w].left > 0, talk[v].wrong = talk[w].wrong
               PROVE  FALSE
    BY DEF NoCollision
  <2>1. PICK t \in Int : AtTime(t)  BY DEF Orderly
  <2>2. talk[v] \in [left : Nat, wrong : Int] /\ talk[w] \in [left : Nat, wrong : Int]
    BY DEF Orderly, Running, Typed
  <2>3. PICK x \in Int : x = t + talk[v].wrong /\ x = t + talk[w].wrong  BY <2>2
  <2>4. PICK y \in Nat : y = talk[v].left /\ y > 0  BY <2>2
  <2>5. PICK z \in Nat : z = talk[w].left /\ z > 0  BY <2>2
  <2> DEFINE a == Slots(v)
             b == Slots(w)
  <2>6. PICK i \in 1..Len(a) : /\ we_are_transmitting(v, a[i]) /\ y < a[i].slot_seconds
                               /\ Same(cycle_duration(a), x + y, StartOf(a, i + 1))
    BY <2>1, <2>3, <2>4 DEF AtTime, Within
  <2>7. PICK j \in 1..Len(b) : /\ we_are_transmitting(w, b[j]) /\ z < b[j].slot_seconds
                               /\ Same(cycle_duration(b), x + z, StartOf(b, j + 1))
    BY <2>1, <2>3, <2>5 DEF AtTime, Within
  <2>8. a \in Lists /\ b \in Lists  BY MACAssumption DEF Lists
  <2>9. Len(a) = Len(b) /\ \A k \in 1..Len(a) : a[k].slot_seconds = b[k].slot_seconds
    BY DEF SlotsAgreed
  <2>10. \A k \in 1..Len(a) : ~ (we_are_transmitting(v, a[k]) /\ we_are_transmitting(w, b[k]))
    BY DEF SlotsAgreed
  <2> HIDE DEF a, b
  <2>11. PICK n \in Nat : n = Len(a) /\ n = Len(b)  BY <2>8, <2>9 DEF Lists
  <2>12. \A k \in 1..(n + 1) : StartOf(a, k) = StartOf(b, k)
    BY <2>8, <2>9, <2>11, SameStarts
  <2>13. PICK c \in Nat \ {0} : c = cycle_duration(a) /\ c = cycle_duration(b)
    <3>1. cycle_duration(a) \in Nat \ {0}  BY <2>6, <2>8, StartWithin
    <3>2. n + 1 \in 1..(n + 1)  OBVIOUS
    <3> QED BY <2>11, <2>12, <3>1, <3>2 DEF cycle_duration
  <2>14. j \in 1..Len(a) /\ j + 1 \in 1..(n + 1)  BY <2>11
  <2>15. Same(c, x + y, StartOf(a, i + 1)) /\ Same(c, x + z, StartOf(a, j + 1))
    BY <2>6, <2>7, <2>12, <2>13, <2>14
  <2>16. y \in 1..(a[i].slot_seconds - 1) /\ z \in 1..(a[j].slot_seconds - 1)
    <3>1. a[i].slot_seconds \in Nat /\ a[j].slot_seconds \in Nat  BY <2>8, <2>14, SlotSeconds
    <3>2. a[j].slot_seconds = b[j].slot_seconds  BY <2>9, <2>14
    <3>3. PICK p \in Nat, q \in Nat : p = a[i].slot_seconds /\ q = a[j].slot_seconds  BY <3>1
    <3>4. y > 0 /\ y < p /\ z > 0 /\ z < q  BY <2>4, <2>5, <2>6, <2>7, <3>2, <3>3
    <3>5. y \in 1..(p - 1) /\ z \in 1..(q - 1)  BY <3>4
    <3> QED BY <3>3, <3>5
  <2>17. i = j  BY <2>8, <2>13, <2>14, <2>15, <2>16, OneSlot
  <2> QED BY <2>6, <2>7, <2>10, <2>17
<1>2. Orderly /\ [Next]_vars => Orderly'  BY NextOrderly
<1> QED BY <1>1, <1>2, InitOrderly, PTL DEF Spec
=============================================================================
