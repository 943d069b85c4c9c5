-------------------- MODULE MultiThreadApplication_proofs --------------------
(***************************************************************************)
(* For any keys and any number of launches, requests and failures: the     *)
(* main thread only joins threads that are leaving, and every thread is    *)
(* known to the ThreadManagement of its key and counted.                   *)
(***************************************************************************)
EXTENDS MultiThreadApplication, FiniteSetTheorems, TLAPS

Held == {k \in Keys : threads_[k].thread # None}

\* A uid is used once, for a thread of one key.
Numbered ==
    \A u \in Uids : /\ incarnation[u].phase # "unborn" <=> u < thread_uid_
                    /\ incarnation[u].phase # "unborn" => incarnation[u].key \in Keys

\* ThreadManagement points at a thread of its own key, and a thread that is
\* not gone is pointed at.
Owned ==
    /\ \A k \in Keys : threads_[k].thread # None =>
          /\ incarnation[threads_[k].thread].key = k
          /\ incarnation[threads_[k].thread].phase # "unborn"
    /\ \A u \in Uids : incarnation[u].phase \notin {"unborn", "gone"} =>
          threads_[incarnation[u].key].thread = u

Leaving(k) ==
    /\ threads_[k].thread # None
    /\ incarnation[threads_[k].thread].phase \in {"exiting", "gone"}

\* A joinable message stands for the thread that its key holds now, which is
\* leaving; no key is announced twice, or again while it is being joined.
Announced ==
    /\ \A i \in 1..Len(joinable) : Leaving(joinable[i])
    /\ \A i, j \in 1..Len(joinable) : i # j => joinable[i] # joinable[j]
    /\ app.at \in {"join", "join all"} =>
          /\ app.key \in Keys
          /\ Leaving(app.key)
          /\ \A i \in 1..Len(joinable) : joinable[i] # app.key

Counted == running_thread_count_ = Cardinality(Held)

\* The inductive invariant.
Managed ==
    /\ TypeOK
    /\ Numbered
    /\ app.at # "terminated" => Owned /\ Announced /\ Counted

USE AppAssumption

\* The phases a thread can be in after it was in phase p.
Later(p) == CASE p = "unborn"  -> {"unborn"}
              [] p = "exiting" -> {"exiting", "gone"}
              [] p = "gone"    -> {"gone"}
              [] OTHER         -> {"starting", "running", "leaving", "exiting", "gone"}

\* What the mailbox needs of sequences.
LEMMA Elements == ASSUME NEW S, NEW s \in Seq(S)  PROVE \A i \in 1..Len(s) : s[i] \in S
OBVIOUS

\* The elements of the rest of a queue.
LEMMA TailFacts ==
    ASSUME NEW S, NEW s \in Seq(S), s # <<>>
    PROVE  /\ Head(s) \in S /\ Head(s) = s[1] /\ Len(s) \in Nat \ {0}
           /\ Tail(s) \in Seq(S) /\ Len(Tail(s)) = Len(s) - 1
           /\ \A i \in 1..Len(Tail(s)) : Tail(s)[i] = s[i + 1] /\ i + 1 \in 2..Len(s)
<1>1. Len(s) \in Nat \ {0} /\ Tail(s) \in Seq(S) /\ Len(Tail(s)) = Len(s) - 1  OBVIOUS
<1>2. Head(s) \in S /\ Head(s) = s[1]  OBVIOUS
<1>3. \A i \in 1..Len(Tail(s)) : Tail(s)[i] = s[i + 1]  OBVIOUS
<1>4. \A i \in 1..Len(Tail(s)) : i + 1 \in 2..Len(s)  BY <1>1
<1>. QED  BY <1>1, <1>2, <1>3, <1>4

\* The history keeps its type.
LEMMA HistoryTyped ==
    ASSUME NEW s \in [requests : Nat, failures : Nat, missed : SUBSET Uids],
           NEW more \in SUBSET Uids
    PROVE  /\ [s EXCEPT !.requests = @ + 1, !.missed = @ \cup more]
                 \in [requests : Nat, failures : Nat, missed : SUBSET Uids]
           /\ [s EXCEPT !.failures = @ + 1]
                 \in [requests : Nat, failures : Nat, missed : SUBSET Uids]
<1>1. /\ s.requests + 1 \in Nat /\ s.failures + 1 \in Nat
      /\ s.missed \cup more \in SUBSET Uids  OBVIOUS
<1>. QED  BY <1>1

\* Held is finite, so that threads can be counted.
LEMMA HeldFinite == IsFiniteSet(Held)
<1>1. Held \in SUBSET Keys  BY DEF Held
<1>. QED  BY <1>1, FS_Subset

\* A step in which threads only move on and no thread pointer changes keeps
\* uids, pointers and the count in order, and a leaving thread stays one.
LEMMA Advanced ==
    ASSUME Managed, app.at # "terminated",
           \A v \in Uids : /\ incarnation'[v].key = incarnation[v].key
                           /\ incarnation'[v].phase \in Later(incarnation[v].phase),
           \A k \in Keys : threads_'[k].thread = threads_[k].thread,
           UNCHANGED <<running_thread_count_, thread_uid_>>
    PROVE  Numbered' /\ Owned' /\ Counted' /\ \A k \in Keys : Leaving(k) => Leaving(k)'
<1>. USE DEF Managed
<1>1. \A v \in Uids : incarnation[v].phase \in Phases  BY DEF TypeOK
<1>2. \A v \in Uids : incarnation[v].phase = "unborn" <=> incarnation'[v].phase = "unborn"
  BY <1>1 DEF Later, Phases
<1>3. \A v \in Uids : incarnation'[v].phase \notin {"unborn", "gone"} =>
         incarnation[v].phase \notin {"unborn", "gone"}
  BY <1>1 DEF Later, Phases
<1>4. Numbered'  BY <1>2 DEF Numbered
<1>5. \A k \in Keys : threads_[k].thread # None => threads_[k].thread \in Uids
  BY DEF TypeOK
<1>6. Owned'
  <2>1. \A u \in Uids : incarnation'[u].phase \notin {"unborn", "gone"} =>
           threads_'[incarnation'[u].key].thread = u
    BY <1>3 DEF Owned, Numbered
  <2>2. \A k \in Keys : threads_'[k].thread # None =>
           /\ incarnation'[threads_'[k].thread].key = k
           /\ incarnation'[threads_'[k].thread].phase # "unborn"
    BY <1>2, <1>5 DEF Owned
  <2>. QED  BY <2>1, <2>2 DEF Owned
<1>7. Counted'
  <2>1. Held' = Held  BY DEF Held
  <2>. QED  BY <2>1 DEF Counted
<1>8. ASSUME NEW k \in Keys, Leaving(k)  PROVE Leaving(k)'
  BY <1>5, <1>8 DEF Leaving, Later
<1>. QED  BY <1>4, <1>6, <1>7, <1>8

\* With the mailbox and the main thread as they were, announcements stay true.
LEMMA StillAnnounced ==
    ASSUME Managed, app.at # "terminated", UNCHANGED <<app, joinable>>,
           \A k \in Keys : Leaving(k) => Leaving(k)'
    PROVE  Announced'
<1>2. \A i \in 1..Len(joinable) : joinable[i] \in Keys  BY Elements DEF Managed, TypeOK
<1>. QED  BY <1>2 DEF Managed, Announced

\* A launched thread has a new number and is the one its key points at.
LEMMA LaunchManages == ASSUME Managed, NEW k \in Keys, _launch_thread(k)  PROVE Managed'
<1>. DEFINE n == thread_uid_
<1>. USE DEF Managed
<1>0. /\ n \in Nat /\ n < MaxLaunches /\ MaxLaunches \in Nat
      /\ running_thread_count_ \in Nat
  <2>1. thread_uid_ \in 0..MaxLaunches /\ running_thread_count_ \in Nat  BY DEF TypeOK
  <2>2. thread_uid_ < MaxLaunches  BY DEF _launch_thread
  <2>. QED  BY <2>1, <2>2
<1>1. n \in Uids /\ n # None
  BY <1>0 DEF Uids
<1>2. TypeOK'
  <2>1. threads_' \in [Keys -> [alive : BOOLEAN, thread : Uids \cup {None}]]
    BY <1>1 DEF _launch_thread, TypeOK
  <2>2. incarnation' \in [Uids -> [key : Keys \cup {None}, phase : Phases,
                                   mail : SUBSET (Keys \cup {All})]]
    BY <1>1 DEF _launch_thread, TypeOK, Phases
  <2>3. thread_uid_' \in 0..MaxLaunches /\ running_thread_count_' \in Nat
    <3>1. thread_uid_' = n + 1 /\ running_thread_count_' = running_thread_count_ + 1
      BY DEF _launch_thread, CountLaunched
    <3>. QED  BY <3>1, <1>0
  <2>4. app' \in [at : {"running", "join", "joining all", "join all", "unwinding",
                        "exited", "terminated"},
                  key : Keys \cup {None}]
    BY DEF _launch_thread, TypeOK
  <2>. QED  BY <2>1, <2>2, <2>3, <2>4 DEF _launch_thread, TypeOK
<1>3. incarnation[n].phase = "unborn"
  BY <1>0, <1>1 DEF Numbered
<1>4. /\ \A v \in Uids : v # n => incarnation'[v] = incarnation[v]
      /\ incarnation'[n] = [key |-> k, phase |-> "starting", mail |-> {}]
  BY <1>1 DEF _launch_thread, TypeOK
<1>5. Numbered'
  <2>1. ASSUME NEW v \in Uids
        PROVE  /\ incarnation'[v].phase # "unborn" <=> v < thread_uid_'
               /\ incarnation'[v].phase # "unborn" => incarnation'[v].key \in Keys
    <3>1. v \in Nat /\ n \in Nat /\ thread_uid_' = n + 1
      BY <1>0 DEF Uids, _launch_thread
    <3>2. CASE v = n  BY <3>1, <3>2, <1>4
    <3>3. CASE v # n  BY <3>1, <3>3, <1>4 DEF Numbered
    <3>. QED  BY <3>2, <3>3
  <2>. QED  BY <2>1 DEF Numbered
<1>6. ASSUME app'.at # "terminated"  PROVE Owned' /\ Announced' /\ Counted'
  <2>1. threads_[k].thread = None /\ app.at = "running" /\ app' = app /\ joinable' = joinable
    BY <1>6 DEF _launch_thread
  <2>2. /\ \A q \in Keys : q # k => threads_'[q] = threads_[q]
        /\ threads_'[k].thread = n
    BY DEF _launch_thread, TypeOK
  <2>3. \A q \in Keys : threads_[q].thread # None => threads_[q].thread \in Uids
    BY DEF TypeOK
  <2>4. \A q \in Keys : threads_[q].thread # n
    BY <1>1, <1>3, <2>1 DEF Owned
  <2>5. Owned'
    <3>1. \A q \in Keys : threads_'[q].thread # None =>
             /\ incarnation'[threads_'[q].thread].key = q
             /\ incarnation'[threads_'[q].thread].phase # "unborn"
      BY <1>4, <2>1, <2>2, <2>3, <2>4 DEF Owned
    <3>2. ASSUME NEW u \in Uids, incarnation'[u].phase \notin {"unborn", "gone"}
          PROVE  threads_'[incarnation'[u].key].thread = u
      <4>1. CASE u = n  BY <4>1, <1>4, <2>2
      <4>2. CASE u # n
        <5>1. incarnation'[u] = incarnation[u]  BY <4>2, <1>4
        <5>2. incarnation[u].key \in Keys /\ threads_[incarnation[u].key].thread = u
          BY <5>1, <3>2, <2>1 DEF Owned, Numbered
        <5>3. incarnation[u].key # k
          BY <5>2, <2>1, AppAssumption DEF Uids
        <5>. QED  BY <5>1, <5>2, <5>3, <2>2
      <4>. QED  BY <4>1, <4>2
    <3>. QED  BY <3>1, <3>2 DEF Owned
  <2>6. Announced'
    <3>1. \A q \in Keys : Leaving(q) => Leaving(q)'
      BY <1>4, <2>1, <2>2, <2>3, <2>4 DEF Leaving
    <3>. QED  BY <3>1, <2>1, StillAnnounced
  <2>7. Counted'
    <3>1. Held' = Held \cup {k} /\ k \notin Held
      BY <1>1, <2>1, <2>2 DEF Held
    <3>2. Cardinality(Held') = Cardinality(Held) + 1
      BY <3>1, HeldFinite, FS_AddElement
    <3>. QED  BY <3>2, <2>1 DEF Counted, _launch_thread, CountLaunched
  <2>. QED  BY <2>5, <2>6, <2>7
<1>. QED  BY <1>2, <1>5, <1>6

\* Writing to an alive flag leaves the thread pointers alone.
LEMMA FlagTyped ==
    ASSUME NEW S, NEW T, NEW f \in [S -> [alive : BOOLEAN, thread : T]],
           NEW k \in S, NEW a \in BOOLEAN
    PROVE  /\ [f EXCEPT ![k].alive = a] \in [S -> [alive : BOOLEAN, thread : T]]
           /\ \A j \in S : [f EXCEPT ![k].alive = a][j].thread = f[j].thread
<1>1. [f[k] EXCEPT !.alive = a] \in [alive : BOOLEAN, thread : T]  OBVIOUS
<1>2. [f EXCEPT ![k].alive = a] \in [S -> [alive : BOOLEAN, thread : T]]
  BY ONLY <1>1, f \in [S -> [alive : BOOLEAN, thread : T]], k \in S
<1>3. \A j \in S : [f EXCEPT ![k].alive = a][j].thread = f[j].thread
  BY ONLY f \in [S -> [alive : BOOLEAN, thread : T]], k \in S
<1>. QED  BY ONLY <1>2, <1>3

\* A request to leave changes mailboxes only.
LEMMA RequestManages ==
    ASSUME Managed, NEW ti \in Keys \cup {All}, app.at = "running", PublishShutdown(ti),
           UNCHANGED <<threads_, running_thread_count_, thread_uid_, thread_exception_, joinable>>,
           app' \in {app, [at |-> "joining all", key |-> None]}
    PROVE  Managed'
<1>. USE DEF Managed
<1>1. \A v \in Uids : /\ incarnation'[v].key = incarnation[v].key
                      /\ incarnation'[v].phase = incarnation[v].phase
                      /\ incarnation'[v].mail \in {incarnation[v].mail, incarnation[v].mail \cup {ti}}
  <2>. SUFFICES ASSUME NEW v \in Uids
                PROVE  /\ incarnation'[v].key = incarnation[v].key
                       /\ incarnation'[v].phase = incarnation[v].phase
                       /\ incarnation'[v].mail \in {incarnation[v].mail, incarnation[v].mail \cup {ti}}
    OBVIOUS
  <2>1. incarnation[v] \in [key : Keys \cup {None}, phase : Phases,
                            mail : SUBSET (Keys \cup {All})]
    BY DEF TypeOK
  <2>2. incarnation'[v] = IF Subscribed(v)
                          THEN [incarnation[v] EXCEPT !.mail = @ \cup {ti}] ELSE incarnation[v]
    BY DEF PublishShutdown
  <2>3. CASE incarnation'[v] = incarnation[v]  BY <2>3
  <2>4. CASE incarnation'[v] = [incarnation[v] EXCEPT !.mail = @ \cup {ti}]
    BY ONLY <2>1, <2>4
  <2>. QED  BY <2>2, <2>3, <2>4
<1>2. TypeOK'
  <2>1. incarnation' \in [Uids -> [key : Keys \cup {None}, phase : Phases,
                                   mail : SUBSET (Keys \cup {All})]]
    <3>. DEFINE R == [key : Keys \cup {None}, phase : Phases, mail : SUBSET (Keys \cup {All})]
                next(u) == IF Subscribed(u) THEN [incarnation[u] EXCEPT !.mail = @ \cup {ti}]
                           ELSE incarnation[u]
    <3>1. incarnation \in [Uids -> R]  BY DEF TypeOK
    <3>2. ASSUME NEW u \in Uids  PROVE next(u) \in R
      <4>1. incarnation[u] \in R  BY <3>1
      <4>2. [incarnation[u] EXCEPT !.mail = @ \cup {ti}] \in R
        BY ONLY <4>1, ti \in Keys \cup {All}
      <4>. QED  BY ONLY <4>1, <4>2
    <3>3. incarnation' = [u \in Uids |-> next(u)]  BY DEF PublishShutdown
    <3>. HIDE DEF next, R
    <3>4. incarnation' \in [Uids -> R]  BY ONLY <3>2, <3>3
    <3>. QED  BY ONLY <3>4 DEF R
  <2>2. seen' \in [requests : Nat, failures : Nat, missed : SUBSET Uids]
    <3>. DEFINE more == {u \in Uids : ti = All /\ incarnation[u].phase = "starting"}
    <3>1. seen \in [requests : Nat, failures : Nat, missed : SUBSET Uids]  BY DEF TypeOK
    <3>2. seen' = [seen EXCEPT !.requests = @ + 1, !.missed = @ \cup more]
      BY DEF PublishShutdown
    <3>3. more \in SUBSET Uids  OBVIOUS
    <3>. HIDE DEF more
    <3>. QED  BY <3>1, <3>2, <3>3, HistoryTyped
  <2>3. app' \in [at : {"running", "join", "joining all", "join all", "unwinding",
                        "exited", "terminated"},
                  key : Keys \cup {None}]
    <3>1. CASE app' = app  BY <3>1 DEF TypeOK
    <3>2. CASE app' = [at |-> "joining all", key |-> None]  BY <3>2
    <3>. QED  BY <3>1, <3>2
  <2>. QED  BY <2>1, <2>2, <2>3 DEF TypeOK
<1>3. \A v \in Uids : incarnation'[v].phase \in Later(incarnation[v].phase)
  <2>1. \A v \in Uids : incarnation[v].phase \in Phases  BY DEF TypeOK
  <2>. QED  BY <2>1, <1>1 DEF Later, Phases
<1>4. Numbered' /\ Owned' /\ Counted' /\ \A k \in Keys : Leaving(k) => Leaving(k)'
  BY <1>1, <1>3, Advanced
<1>5. Announced'
  <2>1. joinable \in Seq(Keys)  BY DEF TypeOK
  <2>2. \A i \in 1..Len(joinable) : joinable[i] \in Keys  BY <2>1, Elements
  <2>3. app'.at \in {"running", "joining all"}
    <3>1. CASE app' = app  BY <3>1
    <3>2. CASE app' = [at |-> "joining all", key |-> None]  BY <3>2
    <3>. QED  BY <3>1, <3>2
  <2>. QED  BY <1>4, <2>2, <2>3 DEF Announced
<1>. QED  BY <1>2, <1>4, <1>5

\* To ask all threads to leave joins none.
LEMMA JoinAllManages == ASSUME Managed, join_all_threads  PROVE Managed'
<1>1. CASE running_thread_count_ > 0
  BY <1>1, RequestManages DEF join_all_threads
<1>2. CASE ~ running_thread_count_ > 0
  <2>1. /\ app' = [at |-> "exited", key |-> None] /\ app.at = "running"
        /\ UNCHANGED <<threads_, running_thread_count_, thread_uid_, thread_exception_,
                       joinable, incarnation, seen>>
    BY <1>2 DEF join_all_threads
  <2>2. TypeOK' /\ Numbered'  BY <2>1 DEF Managed, TypeOK, Numbered
  <2>3. Owned' /\ Counted'  BY <2>1 DEF Managed, Owned, Counted, Held
  <2>4. Announced'  BY <2>1 DEF Managed, Announced, Leaving
  <2>. QED  BY <2>2, <2>3, <2>4 DEF Managed
<1>. QED  BY <1>1, <1>2

\* The main thread begins to join the thread a message announces.
LEMMA JoinManages == ASSUME Managed, _join_thread  PROVE Managed'
<1>. USE DEF Managed
<1>1. /\ joinable \in Seq(Keys) /\ joinable # <<>> /\ joinable' = Tail(joinable)
      /\ app.at \in {"running", "joining all"}
      /\ UNCHANGED <<running_thread_count_, thread_uid_, thread_exception_, incarnation, seen>>
  BY DEF TypeOK, _join_thread
<1>. PICK k : k = Head(joinable)  OBVIOUS
<1>2. /\ k \in Keys /\ joinable' \in Seq(Keys)
      /\ Len(joinable') = Len(joinable) - 1 /\ k = joinable[1] /\ Len(joinable) \in Nat \ {0}
      /\ \A i \in 1..Len(joinable') : joinable'[i] = joinable[i + 1] /\ i + 1 \in 2..Len(joinable)
  BY <1>1, TailFacts
<1>0. /\ \A i \in 1..Len(joinable) : Leaving(joinable[i])
      /\ \A i, j \in 1..Len(joinable) : i # j => joinable[i] # joinable[j]
  BY <1>1 DEF Announced
<1>3. Leaving(k) /\ \A i \in 1..Len(joinable') : joinable'[i] # k
  <2>1. 1 \in 1..Len(joinable) /\ \A n \in 2..Len(joinable) : n \in 1..Len(joinable) /\ n # 1
    BY <1>2
  <2>. QED  BY <2>1, <1>0, <1>2
<1>4. /\ threads_' = [threads_ EXCEPT ![k].alive = FALSE]
      /\ app' = [at |-> IF app.at = "running" THEN "join" ELSE "join all", key |-> k]
  BY <1>3 DEF _join_thread, Leaving
<1>9. app'.at \in {"join", "join all"} /\ app'.key = k  BY <1>4
<1>5. TypeOK'
  <2>1. threads_' \in [Keys -> [alive : BOOLEAN, thread : Uids \cup {None}]]
    <3>. DEFINE T == Uids \cup {None}
    <3>1. threads_ \in [Keys -> [alive : BOOLEAN, thread : T]]  BY DEF TypeOK
    <3>. HIDE DEF T
    <3>3. k \in Keys  BY <1>2
    <3>2. [threads_ EXCEPT ![k].alive = FALSE] \in [Keys -> [alive : BOOLEAN, thread : T]]
      BY ONLY <3>1, <3>3, FALSE \in BOOLEAN, FlagTyped
    <3>. QED  BY <3>2, <1>4 DEF T
  <2>2. app' \in [at : {"running", "join", "joining all", "join all", "unwinding",
                        "exited", "terminated"},
                  key : Keys \cup {None}]
    BY <1>2, <1>4
  <2>. QED  BY <2>1, <2>2, <1>1, <1>2 DEF TypeOK
<1>6. \A q \in Keys : threads_'[q].thread = threads_[q].thread
  <2>1. threads_ \in [Keys -> [alive : BOOLEAN, thread : Uids \cup {None}]]  BY DEF TypeOK
  <2>. QED  BY <2>1, <1>2, <1>4
<1>7. Numbered' /\ Owned' /\ Counted' /\ \A q \in Keys : Leaving(q) => Leaving(q)'
  <2>1. \A v \in Uids : incarnation'[v].phase \in Later(incarnation[v].phase)
    <3>1. \A v \in Uids : incarnation[v].phase \in Phases  BY DEF TypeOK
    <3>. QED  BY <3>1, <1>1 DEF Later, Phases
  <2>. QED  BY <2>1, <1>1, <1>6, Advanced
<1>8. Announced'
  <2>0. \A n \in 2..Len(joinable) : n \in 1..Len(joinable)  BY <1>2
  <2>3. \A i \in 1..Len(joinable') : joinable'[i] \in Keys  BY <1>2, Elements
  <2>1. \A i \in 1..Len(joinable') : Leaving(joinable[i])'
    BY <2>0, <2>3, <1>0, <1>2, <1>7
  <2>2. \A i, j \in 1..Len(joinable') : i # j => joinable'[i] # joinable'[j]
    <3>. SUFFICES ASSUME NEW i \in 1..Len(joinable'), NEW j \in 1..Len(joinable'), i # j
                  PROVE  joinable'[i] # joinable'[j]
      OBVIOUS
    <3>1. i + 1 # j + 1  OBVIOUS
    <3>. QED  BY <3>1, <2>0, <1>0, <1>2
  <2>4. Leaving(k)'  BY <1>2, <1>3, <1>7
  <2>. QED  BY <2>1, <2>2, <2>4, <1>2, <1>3, <1>9 DEF Announced
<1>. QED  BY <1>5, <1>7, <1>8

\* A thread that was joined is gone, and its key points at nothing.
LEMMA JoinedManages == ASSUME Managed, Joined  PROVE Managed'
<1>. DEFINE k == app.key
<1>. USE DEF Managed
<1>1. /\ app.at \in {"join", "join all"} /\ k \in Keys /\ Leaving(k)
      /\ incarnation[threads_[k].thread].phase = "gone"
      /\ running_thread_count_' = running_thread_count_ - 1
      /\ \A i \in 1..Len(joinable) : joinable[i] # k
      /\ UNCHANGED <<thread_uid_, thread_exception_, joinable, incarnation, seen>>
  BY DEF Joined, Announced, CountJoined
<1>2. threads_ \in [Keys -> [alive : BOOLEAN, thread : Uids \cup {None}]]
  BY DEF TypeOK
<1>3. /\ threads_' \in [Keys -> [alive : BOOLEAN, thread : Uids \cup {None}]]
      /\ threads_'[k].thread = None
      /\ \A q \in Keys : q # k => threads_'[q].thread = threads_[q].thread
  <2>1. CASE thread_exception_ /\ app.at = "join all"
    <3>1. threads_' = [q \in Keys |->
                         [alive |-> FALSE,
                          thread |-> IF q = k THEN None ELSE threads_[q].thread]]
      BY <2>1 DEF Joined
    <3>. QED  BY <3>1, <1>1, <1>2
  <2>2. CASE ~ (thread_exception_ /\ app.at = "join all")
    <3>1. threads_' = [threads_ EXCEPT ![k].thread = None]  BY <2>2 DEF Joined
    <3>. QED  BY <3>1, <1>1, <1>2
  <2>. QED  BY <2>1, <2>2
<1>4. app' \in [at : {"running", "joining all", "unwinding", "terminated"}, key : {None}]
  BY DEF Joined
<1>5. Counted' /\ running_thread_count_' \in Nat
  <2>1. Held' = Held \ {k} /\ k \in Held
    BY <1>1, <1>3 DEF Held, Leaving
  <2>2. Cardinality(Held') = Cardinality(Held) - 1 /\ IsFiniteSet(Held')
    BY <2>1, HeldFinite, FS_RemoveElement
  <2>3. Cardinality(Held') \in Nat  BY <2>2, FS_CardinalityType
  <2>4. running_thread_count_ = Cardinality(Held)  BY <1>1 DEF Counted
  <2>. QED  BY <2>2, <2>3, <2>4, <1>1 DEF Counted
<1>6. TypeOK'
  <2>1. app' \in [at : {"running", "join", "joining all", "join all", "unwinding",
                        "exited", "terminated"},
                  key : Keys \cup {None}]
    BY <1>4
  <2>. QED  BY <2>1, <1>1, <1>3, <1>5 DEF TypeOK
<1>7. Numbered'  BY <1>1 DEF Numbered
<1>8. Owned'
  <2>1. \A q \in Keys : threads_'[q].thread # None =>
           q # k /\ threads_'[q].thread = threads_[q].thread
    BY <1>3
  <2>2. \A u \in Uids : incarnation[u].phase \notin {"unborn", "gone"} =>
           /\ incarnation[u].key \in Keys
           /\ threads_[incarnation[u].key].thread = u
           /\ incarnation[u].key # k
    BY <1>1 DEF Owned, Numbered
  <2>. QED  BY <2>1, <2>2, <1>1, <1>3, ZenonT(40) DEF Owned
<1>9. Announced'
  <2>1. joinable \in Seq(Keys)  BY DEF TypeOK
  <2>2. \A i \in 1..Len(joinable) : joinable[i] \in Keys  BY <2>1, Elements
  <2>3. app'.at \notin {"join", "join all"}  BY <1>4
  <2>4. \A q \in Keys : q # k /\ Leaving(q) => Leaving(q)'  BY <1>1, <1>3 DEF Leaving
  <2>. QED  BY <2>2, <2>3, <2>4, <1>1 DEF Announced
<1>. QED  BY <1>5, <1>6, <1>7, <1>8, <1>9

\* The last steps of the application change where the main thread is, only.
LEMMA EndManages == ASSUME Managed, AllJoined \/ Unwound  PROVE Managed'
<1>. USE DEF Managed
<1>1. /\ app.at \in {"joining all", "unwinding"} /\ app'.at \in {"exited", "terminated"}
      /\ app'.key = app.key /\ app' = [app EXCEPT !.at = app'.at]
      /\ UNCHANGED <<threads_, running_thread_count_, thread_uid_, thread_exception_,
                     joinable, incarnation, seen>>
  BY DEF AllJoined, Unwound, TypeOK
<1>2. app' \in [at : {"running", "join", "joining all", "join all", "unwinding",
                      "exited", "terminated"},
                key : Keys \cup {None}]
  BY <1>1 DEF TypeOK
<1>3. TypeOK' /\ Numbered'  BY <1>1, <1>2 DEF TypeOK, Numbered
<1>4. Owned' /\ Counted'  BY <1>1 DEF Owned, Counted, Held
<1>5. Announced'  BY <1>1 DEF Announced, Leaving
<1>. QED  BY <1>3, <1>4, <1>5

\* Start, run_once, Fail and Exit: one thread moves on and announces nothing.
LEMMA MoveManages ==
    ASSUME Managed, NEW u \in Uids, Alive,
           incarnation[u].phase \notin {"unborn", "gone"},
           NEW p \in Later(incarnation[u].phase), NEW ms \in SUBSET (Keys \cup {All}),
           incarnation' = [incarnation EXCEPT ![u].phase = p, ![u].mail = ms],
           NEW a \in BOOLEAN, threads_' = [threads_ EXCEPT ![incarnation[u].key].alive = a],
           thread_exception_' \in BOOLEAN, seen' \in {seen, [seen EXCEPT !.failures = @ + 1]},
           UNCHANGED <<app, running_thread_count_, thread_uid_, joinable>>
    PROVE  Managed'
<1>. USE DEF Managed
<1>1. /\ threads_ \in [Keys -> [alive : BOOLEAN, thread : Uids \cup {None}]]
      /\ incarnation \in [Uids -> [key : Keys \cup {None}, phase : Phases,
                                   mail : SUBSET (Keys \cup {All})]]
      /\ seen \in [requests : Nat, failures : Nat, missed : SUBSET Uids]
  BY DEF TypeOK
<1>2. incarnation[u].key \in Keys  BY DEF Numbered
<1>3. p \in Phases  BY <1>1 DEF Later, Phases
<1>a. PICK own \in Keys : /\ threads_' = [threads_ EXCEPT ![own].alive = a]
                          /\ threads_ \in [Keys -> [alive : BOOLEAN, thread : Uids \cup {None}]]
  BY <1>1, <1>2
<1>4. TypeOK'
  <2>1. threads_' \in [Keys -> [alive : BOOLEAN, thread : Uids \cup {None}]]
    <3>. DEFINE T == Uids \cup {None}
    <3>1. threads_ \in [Keys -> [alive : BOOLEAN, thread : T]]  BY <1>1
    <3>. HIDE DEF T
    <3>2. [threads_ EXCEPT ![own].alive = a] \in [Keys -> [alive : BOOLEAN, thread : T]]
      BY ONLY <3>1, FlagTyped, own \in Keys, a \in BOOLEAN
    <3>. QED  BY <3>2, <1>a DEF T
  <2>2. incarnation' \in [Uids -> [key : Keys \cup {None}, phase : Phases,
                                   mail : SUBSET (Keys \cup {All})]]
    <3>. DEFINE moved == [incarnation EXCEPT ![u].phase = p]
    <3>1. moved \in [Uids -> [key : Keys \cup {None}, phase : Phases,
                              mail : SUBSET (Keys \cup {All})]]
      BY <1>1, <1>3
    <3>2. incarnation' = [moved EXCEPT ![u].mail = ms]  OBVIOUS
    <3>. HIDE DEF moved
    <3>. QED  BY <3>1, <3>2
  <2>3. seen' \in [requests : Nat, failures : Nat, missed : SUBSET Uids]
    BY <1>1, HistoryTyped
  <2>. QED  BY <2>1, <2>2, <2>3 DEF TypeOK
<1>5. \A k \in Keys : threads_'[k].thread = threads_[k].thread
  BY ONLY <1>a, FlagTyped, a \in BOOLEAN
<1>6. \A v \in Uids : /\ incarnation'[v].key = incarnation[v].key
                      /\ incarnation'[v].phase \in Later(incarnation[v].phase)
  <2>1. \A v \in Uids : incarnation[v].phase \in Later(incarnation[v].phase)
    BY <1>1 DEF Later, Phases
  <2>. QED  BY <2>1, <1>1
<1>7. app.at # "terminated"  BY DEF Alive
<1>8. Numbered' /\ Owned' /\ Counted' /\ \A k \in Keys : Leaving(k) => Leaving(k)'
  BY <1>5, <1>6, <1>7, Advanced
<1>9. Announced'  BY <1>7, <1>8, StillAnnounced
<1>. QED  BY <1>4, <1>8, <1>9

\* A thread announces itself once, while its key points at it.
LEMMA PublishManages == ASSUME Managed, NEW u \in Uids, PublishJoinable(u)  PROVE Managed'
<1>. USE DEF Managed
<1>. PICK k : k = incarnation[u].key  OBVIOUS
<1>1. /\ incarnation[u].phase = "leaving" /\ app.at # "terminated"
      /\ incarnation' = [incarnation EXCEPT ![u].phase = "exiting"]
      /\ joinable' = Append(joinable, k)
      /\ UNCHANGED <<app, threads_, running_thread_count_, thread_uid_, thread_exception_, seen>>
  BY DEF PublishJoinable, Move, Alive
<1>2. /\ joinable \in Seq(Keys)
      /\ incarnation \in [Uids -> [key : Keys \cup {None}, phase : Phases,
                                   mail : SUBSET (Keys \cup {All})]]
  BY DEF TypeOK
<1>3. k \in Keys /\ threads_[k].thread = u /\ u # None
  BY <1>1 DEF Numbered, Owned, Uids
<1>4. TypeOK'
  <2>1. joinable' \in Seq(Keys)  BY <1>1, <1>2, <1>3
  <2>2. incarnation' \in [Uids -> [key : Keys \cup {None}, phase : Phases,
                                   mail : SUBSET (Keys \cup {All})]]
    BY <1>1, <1>2 DEF Phases
  <2>. QED  BY <2>1, <2>2, <1>1 DEF TypeOK
<1>5. \A v \in Uids : /\ incarnation'[v].key = incarnation[v].key
                      /\ incarnation'[v].phase \in Later(incarnation[v].phase)
  <2>1. \A v \in Uids : incarnation[v].phase \in Later(incarnation[v].phase)
    BY <1>2 DEF Later, Phases
  <2>2. "exiting" \in Later("leaving")  BY DEF Later
  <2>. QED  BY <2>1, <2>2, <1>1, <1>2
<1>6. Numbered' /\ Owned' /\ Counted' /\ \A q \in Keys : Leaving(q) => Leaving(q)'
  BY <1>1, <1>5, Advanced
<1>7. ~ Leaving(k)  BY <1>1, <1>3 DEF Leaving
<1>8. Leaving(k)'  BY <1>1, <1>2, <1>3 DEF Leaving
<1>9. Announced'
  <2>1. /\ Len(joinable') = Len(joinable) + 1 /\ Len(joinable) \in Nat
        /\ joinable'[Len(joinable) + 1] = k
        /\ \A i \in 1..Len(joinable) : joinable'[i] = joinable[i]
    BY <1>1, <1>2, <1>3
  <2>2. \A i \in 1..Len(joinable) : joinable[i] \in Keys  BY <1>2, Elements
  <2>3. \A i \in 1..Len(joinable) : Leaving(joinable[i]) /\ joinable[i] # k
    BY <1>1, <1>7 DEF Announced
  <2>4. \A i \in 1..Len(joinable') : i \in 1..Len(joinable) \/ i = Len(joinable) + 1
    BY <2>1
  <2>5. \A i \in 1..Len(joinable') : Leaving(joinable[i])'
    BY <2>1, <2>2, <2>3, <2>4, <1>6, <1>8
  <2>6. \A i, j \in 1..Len(joinable') : i # j => joinable'[i] # joinable'[j]
    <3>1. \A i, j \in 1..Len(joinable) : i # j => joinable[i] # joinable[j]
      BY <1>1 DEF Announced
    <3>. QED  BY <3>1, <2>1, <2>3, <2>4
  <2>7. app.at \in {"join", "join all"} =>
           /\ app.key \in Keys /\ Leaving(app.key) /\ app.key # k
           /\ \A i \in 1..Len(joinable) : joinable[i] # app.key
    BY <1>1, <1>7 DEF Announced
  <2>. QED  BY <2>1, <2>4, <2>5, <2>6, <2>7, <1>1, <1>6 DEF Announced
<1>. QED  BY <1>4, <1>6, <1>9

\* Every step of one thread keeps the invariant.
LEMMA ThreadManages == ASSUME Managed, NEW u \in Uids, ThreadStep(u)  PROVE Managed'
<1>. DEFINE k == incarnation[u].key
<1>. USE DEF Managed
<1>1. /\ threads_ \in [Keys -> [alive : BOOLEAN, thread : Uids \cup {None}]]
      /\ incarnation \in [Uids -> [key : Keys \cup {None}, phase : Phases,
                                   mail : SUBSET (Keys \cup {All})]]
      /\ thread_exception_ \in BOOLEAN
  BY DEF TypeOK
<1>2. incarnation[u].phase # "unborn" => k \in Keys  BY DEF Numbered
<1>3. k \in Keys => threads_ = [threads_ EXCEPT ![k].alive = threads_[k].alive]
  BY <1>1
<1>4. \A p \in Phases : Move(u, p) =>
         incarnation' = [incarnation EXCEPT ![u].phase = p, ![u].mail = incarnation[u].mail]
  BY <1>1 DEF Move
<1>5. k \in Keys => threads_[k].alive \in BOOLEAN  BY <1>1
<1>6. incarnation[u].mail \in SUBSET (Keys \cup {All})  BY <1>1
<1>7. CASE Start(u)
  <2>1. PICK p \in {"running", "leaving"} : Move(u, p)
    BY <1>7 DEF Start
  <2>2. p \in Phases /\ p \in Later(incarnation[u].phase)
    BY <1>7 DEF Start, Later, Phases
  <2>3. /\ Alive /\ incarnation[u].phase = "starting"
        /\ UNCHANGED <<app, threads_, running_thread_count_, thread_uid_, thread_exception_,
                       joinable, seen>>
    BY <1>7 DEF Start
  <2>. QED  BY <2>1, <2>2, <2>3, <1>1, <1>2, <1>3, <1>4, <1>5, <1>6, MoveManages
<1>8. CASE run_once(u)
  <2>1. PICK a \in BOOLEAN :
           /\ threads_' = [threads_ EXCEPT ![k].alive = a]
           /\ incarnation' = [incarnation EXCEPT
                 ![u].mail = {}, ![u].phase = IF a THEN "running" ELSE "leaving"]
    <3>. DEFINE quit == \E ti \in incarnation[u].mail : Addressed(u, ti)
                a == threads_[k].alive /\ ~ quit
    <3>1. a \in BOOLEAN  OBVIOUS
    <3>2. /\ threads_' = [threads_ EXCEPT ![k].alive = a]
          /\ incarnation' = [incarnation EXCEPT
                 ![u].mail = {}, ![u].phase = IF a THEN "running" ELSE "leaving"]
      BY <1>8 DEF run_once
    <3>. HIDE DEF a
    <3>. QED  BY <3>1, <3>2
  <2>2. PICK p \in {"running", "leaving"} : p = IF a THEN "running" ELSE "leaving"
    OBVIOUS
  <2>3. incarnation' = [incarnation EXCEPT ![u].phase = p, ![u].mail = {}]
    BY <2>1, <2>2, <1>1
  <2>4. /\ Alive /\ incarnation[u].phase = "running"
        /\ UNCHANGED <<app, running_thread_count_, thread_uid_, thread_exception_,
                       joinable, seen>>
    BY <1>8 DEF run_once
  <2>5. p \in Later(incarnation[u].phase)  BY <2>4 DEF Later
  <2>6. /\ incarnation[u].phase \notin {"unborn", "gone"} /\ {} \in SUBSET (Keys \cup {All})
        /\ thread_exception_' \in BOOLEAN /\ seen' \in {seen, [seen EXCEPT !.failures = @ + 1]}
    BY <2>4, <1>1
  <2>. HIDE DEF Managed
  <2>. QED  BY <2>1, <2>3, <2>4, <2>5, <2>6, MoveManages
<1>9. CASE Fail(u)
  <2>1. /\ Alive /\ incarnation[u].phase \in {"starting", "running"}
        /\ thread_exception_' = TRUE /\ Move(u, "leaving")
        /\ seen' = [seen EXCEPT !.failures = @ + 1]
        /\ UNCHANGED <<app, threads_, running_thread_count_, thread_uid_, joinable>>
    BY <1>9 DEF Fail
  <2>2. "leaving" \in Phases /\ "leaving" \in Later(incarnation[u].phase)
    BY <2>1 DEF Later, Phases
  <2>. QED  BY <2>1, <2>2, <1>2, <1>3, <1>4, <1>5, <1>6, MoveManages
<1>10. CASE PublishJoinable(u)  BY <1>10, PublishManages
<1>11. CASE Exit(u)
  <2>1. /\ Alive /\ incarnation[u].phase = "exiting" /\ Move(u, "gone")
        /\ UNCHANGED <<app, threads_, running_thread_count_, thread_uid_, thread_exception_,
                       joinable, seen>>
    BY <1>11 DEF Exit
  <2>2. "gone" \in Phases /\ "gone" \in Later(incarnation[u].phase)
    BY <2>1 DEF Later, Phases
  <2>. QED  BY <2>1, <2>2, <1>1, <1>2, <1>3, <1>4, <1>5, <1>6, MoveManages
<1>. QED  BY <1>7, <1>8, <1>9, <1>10, <1>11 DEF ThreadStep

\* The application starts without threads.
LEMMA InitManages == Init => Managed
<1>. SUFFICES ASSUME Init  PROVE Managed  OBVIOUS
<1>1. TypeOK
  <2>1. thread_uid_ \in 0..MaxLaunches /\ running_thread_count_ \in Nat /\ joinable \in Seq(Keys)
    BY DEF Init
  <2>2. incarnation \in [Uids -> [key : Keys \cup {None}, phase : Phases,
                                  mail : SUBSET (Keys \cup {All})]]
    BY DEF Init, Unborn, Phases
  <2>3. /\ threads_ \in [Keys -> [alive : BOOLEAN, thread : Uids \cup {None}]]
        /\ seen \in [requests : Nat, failures : Nat, missed : SUBSET Uids]
        /\ app \in [at : {"running", "join", "joining all", "join all", "unwinding",
                          "exited", "terminated"}, key : Keys \cup {None}]
        /\ thread_exception_ \in BOOLEAN
    BY DEF Init
  <2>. QED  BY <2>1, <2>2, <2>3 DEF TypeOK
<1>2. Numbered  BY DEF Init, Numbered, Unborn, Uids
<1>3. Owned /\ Announced  BY DEF Init, Owned, Announced, Unborn
<1>4. Held = {}  BY DEF Init, Held
<1>5. Counted  BY <1>4, FS_EmptySet DEF Counted, Init
<1>. QED  BY <1>1, <1>2, <1>3, <1>5 DEF Managed

\* Every step keeps the invariant.
LEMMA NextManages == Managed /\ [Next]_vars => Managed'
<1>. SUFFICES ASSUME Managed, [Next]_vars  PROVE Managed'  OBVIOUS
<1>1. CASE \E k \in Keys : _launch_thread(k)  BY <1>1, LaunchManages
<1>2. CASE \E k \in Keys : join_thread(k)  BY <1>2, RequestManages DEF join_thread
<1>3. CASE join_all_threads  BY <1>3, JoinAllManages
<1>4. CASE _join_thread  BY <1>4, JoinManages
<1>5. CASE Joined  BY <1>5, JoinedManages
<1>6. CASE AllJoined \/ Unwound  BY <1>6, EndManages
<1>7. CASE \E u \in Uids : ThreadStep(u)  BY <1>7, ThreadManages
<1>8. CASE UNCHANGED vars
  BY <1>8, ZenonT(40) DEF vars, Managed, TypeOK, Numbered, Owned, Announced, Leaving, Counted, Held
<1>. QED  BY <1>1, <1>2, <1>3, <1>4, <1>5, <1>6, <1>7, <1>8 DEF Next, MainStep

\* Every variable keeps its type; running_thread_count_ never falls below zero.
THEOREM TypeCorrect == Spec => []TypeOK
<1>1. Managed => TypeOK  BY DEF Managed
<1>. QED  BY <1>1, InitManages, NextManages, PTL DEF Spec

\* The main thread never blocks in join() on a thread that still runs,
\* whatever was launched, relaunched, asked to leave or failed before.
THEOREM JoinsAreShort == Spec => []JoinsOnlyTheLeaving
<1>1. Managed => JoinsOnlyTheLeaving
  BY DEF Managed, JoinsOnlyTheLeaving, Announced, Leaving
<1>. QED  BY <1>1, InitManages, NextManages, PTL DEF Spec

\* No thread is ever out of the reach of join_all_threads(), and
\* running_thread_count_ is the number of threads still to be joined.
THEOREM AllAreManaged == Spec => []NoneOrphaned
<1>1. Managed => NoneOrphaned
  BY DEF Managed, NoneOrphaned, Owned, Counted, Held
<1>. QED  BY <1>1, InitManages, NextManages, PTL DEF Spec
=============================================================================
