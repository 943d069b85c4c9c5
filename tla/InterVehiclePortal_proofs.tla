---------------------- MODULE InterVehiclePortal_proofs ----------------------
(***************************************************************************)
(* For any links, subscriptions and number of crashes: the persistence     *)
(* file agrees with the links once all messages are handled, and the links *)
(* then serve what the other vehicles want.                                *)
(***************************************************************************)
EXTENDS InterVehiclePortal, FiniteSetTheorems, SequenceTheorems, TLAPS

-----------------------------------------------------------------------------
(* The inductive invariant. *)

ReadyLinks == {l \in Links : link[l] = "ready"}

\* Every link that has started has told the portal so, once.
ReadyCounted == ready + portal.drivers_ready = Cardinality(ReadyLinks)

\* Before the file is read there is nothing else; the replay comes when all
\* links are ready.
Staged ==
    /\ portal.at = "start" => /\ portal = Start
                              /\ NoMail
                              /\ \A l \in Links : link[l] = "starting" /\ accepted[l] = {}
    /\ portal.at = "init" => portal.back = "init"
    /\ portal.at = "running" => portal.back = "running"
    /\ portal.back = "running" => \A l \in Links : link[l] = "ready"

\* The latest report of a link, noted or in the mailbox, is what it has.
Reported ==
    \A l \in Links :
        /\ (\A i \in 1..Len(reports) : reports[i].link # l)
              => portal.sub_reports[l] = accepted[l]
        /\ \A i \in 1..Len(reports) :
              (reports[i].link = l /\ \A j \in (i + 1)..Len(reports) : reports[j].link # l)
                  => reports[i].subscriptions = accepted[l]

\* The file holds what is noted, but while it is read or written.
Written == portal.at \notin {"start", "writing"} => file = Collection

\* Nothing in q is about s; the last message in q about s is an a.
Silent(q, s) == \A i \in 1..Len(q) : q[i].subscription # s

Ends(q, s, a) ==
    \E i \in 1..Len(q) : /\ q[i].subscription = s /\ q[i].action = a
                         /\ \A j \in (i + 1)..Len(q) : q[j].subscription # s

\* A message on its way to the links came in through a link that is ready.
Addressed ==
    /\ \A i \in 1..Len(data_in) : link[LinkOf[data_in[i].subscription]] = "ready"
    /\ \A i \in 1..Len(received_) : link[LinkOf[received_[i].subscription]] = "ready"

\* What the link of s will hear of it last, on the way through the portal.
Said(s, a) ==
    \/ Ends(data_in, s, a)
    \/ Silent(data_in, s) /\ Ends(received_, s, a)
    \/ Silent(data_in, s) /\ Silent(received_, s) /\ Ends(rx[LinkOf[s]], s, a)

Unsaid(s) == Silent(data_in, s) /\ Silent(received_, s) /\ Silent(rx[LinkOf[s]], s)

\* Will s be replayed?
ToReplay(s) ==
    \/ portal.at = "start" /\ s \in file
    \/ portal.back = "init" /\ s \in portal.former

\* What is on its way, what is to be replayed and what the links have amounts to
\* what the other vehicles want.
Remembered ==
    \A s \in Subscriptions \ world.excused :
        /\ Said(s, "SUBSCRIBE") => s \in world.wanted
        /\ Said(s, "UNSUBSCRIBE") => s \notin world.wanted
        /\ Unsaid(s) => (s \in world.wanted <=> s \in accepted[LinkOf[s]] \/ ToReplay(s))
        /\ ToReplay(s) => s \in world.wanted

Persistent == TypeOK /\ ReadyCounted /\ Staged /\ Reported /\ Written /\ Addressed /\ Remembered

USE PersistAssumption

-----------------------------------------------------------------------------
(* Messages about one subscription in a sequence. *)

\* The last message about a subscription, after one more message.
LEMMA AboutAppend ==
    ASSUME NEW S, NEW q \in Seq(S), NEW m \in S, NEW s
    PROVE  /\ Silent(Append(q, m), s) <=> Silent(q, s) /\ m.subscription # s
           /\ \A a : Ends(Append(q, m), s, a) <=>
                 \/ m.subscription = s /\ m.action = a
                 \/ m.subscription # s /\ Ends(q, s, a)
<1>. DEFINE r == Append(q, m)
<1>1. /\ Len(r) = Len(q) + 1 /\ Len(q) \in Nat
      /\ \A i \in 1..Len(q) : r[i] = q[i]
      /\ r[Len(q) + 1] = m
  BY AppendProperties, LenProperties
<1>. HIDE DEF r
<1>2. Silent(r, s) <=> Silent(q, s) /\ m.subscription # s
  BY <1>1 DEF Silent
<1>3. ASSUME NEW a
      PROVE  Ends(r, s, a) <=> \/ m.subscription = s /\ m.action = a
                               \/ m.subscription # s /\ Ends(q, s, a)
  <2>1. ASSUME Ends(r, s, a), m.subscription # s  PROVE Ends(q, s, a)
    BY <1>1, <2>1 DEF Ends
  <2>2. ASSUME Ends(r, s, a), m.subscription = s  PROVE m.action = a
    BY <1>1, <2>2 DEF Ends
  <2>3. ASSUME m.subscription = s, m.action = a  PROVE Ends(r, s, a)
    BY <1>1, <2>3 DEF Ends
  <2>4. ASSUME m.subscription # s, Ends(q, s, a)  PROVE Ends(r, s, a)
    <3>1. PICK i \in 1..Len(q) : /\ q[i].subscription = s /\ q[i].action = a
                                 /\ \A j \in (i + 1)..Len(q) : q[j].subscription # s
      BY <2>4 DEF Ends
    <3>2. ASSUME NEW j \in (i + 1)..Len(r)  PROVE r[j].subscription # s
      <4>1. CASE j = Len(q) + 1  BY <1>1, <2>4, <4>1
      <4>2. CASE j # Len(q) + 1
        <5>1. j \in (i + 1)..Len(q) /\ r[j] = q[j]  BY <1>1, <4>2
        <5>. QED  BY <5>1, <3>1
      <4>. QED  BY <4>1, <4>2
    <3>3. i \in 1..Len(r) /\ r[i] = q[i]  BY <1>1
    <3>. QED  BY <3>1, <3>2, <3>3 DEF Ends
  <2>. QED  BY <2>1, <2>2, <2>3, <2>4
<1>. QED  BY <1>2, <1>3 DEF r

\* The last message about a subscription, before and after the first message
\* is read.
LEMMA AboutTail ==
    ASSUME NEW S, NEW q \in Seq(S), q # <<>>, NEW s
    PROVE  /\ Silent(q, s) <=> Head(q).subscription # s /\ Silent(Tail(q), s)
           /\ \A a : Ends(q, s, a) <=>
                 \/ Ends(Tail(q), s, a)
                 \/ Silent(Tail(q), s) /\ Head(q).subscription = s /\ Head(q).action = a
<1>. DEFINE r == Tail(q)
<1>1. /\ Len(r) = Len(q) - 1 /\ Len(q) \in Nat \ {0}
      /\ \A i \in 1..Len(r) : r[i] = q[i + 1]
      /\ \A i \in 2..Len(q) : q[i] = r[i - 1]
      /\ Head(q) = q[1]
  BY HeadTailProperties, LenProperties, EmptySeq
<1>. HIDE DEF r
<1>2. Silent(q, s) <=> Head(q).subscription # s /\ Silent(r, s)
  BY <1>1 DEF Silent
<1>3. ASSUME NEW a
      PROVE  Ends(q, s, a) <=>
                 \/ Ends(r, s, a)
                 \/ Silent(r, s) /\ Head(q).subscription = s /\ Head(q).action = a
  <2>1. ASSUME Ends(r, s, a)  PROVE Ends(q, s, a)
    <3>1. PICK i \in 1..Len(r) : /\ r[i].subscription = s /\ r[i].action = a
                                 /\ \A j \in (i + 1)..Len(r) : r[j].subscription # s
      BY <2>1 DEF Ends
    <3>2. \A j \in (i + 2)..Len(q) : q[j].subscription # s
      BY <3>1, <1>1
    <3>. QED  BY <3>1, <3>2, <1>1 DEF Ends
  <2>2. ASSUME Silent(r, s), Head(q).subscription = s, Head(q).action = a
        PROVE  Ends(q, s, a)
    BY <1>1, <2>2 DEF Ends, Silent
  <2>3. ASSUME Ends(q, s, a), ~ Ends(r, s, a)
        PROVE  Silent(r, s) /\ Head(q).subscription = s /\ Head(q).action = a
    <3>1. PICK i \in 1..Len(q) : /\ q[i].subscription = s /\ q[i].action = a
                                 /\ \A j \in (i + 1)..Len(q) : q[j].subscription # s
      BY <2>3 DEF Ends
    <3>2. i = 1
      <4>1. SUFFICES ASSUME i # 1  PROVE FALSE  OBVIOUS
      <4>2. i - 1 \in 1..Len(r) /\ r[i - 1] = q[i]  BY <4>1, <1>1
      <4>3. \A j \in i..Len(r) : r[j].subscription # s  BY <3>1, <1>1
      <4>. QED  BY <4>2, <4>3, <3>1, <2>3, <1>1 DEF Ends
    <3>. QED  BY <3>1, <3>2, <1>1 DEF Silent
  <2>. QED  BY <2>1, <2>2, <2>3
<1>. QED  BY <1>2, <1>3 DEF r

\* The last message about a subscription in two mailboxes one after the
\* other.
LEMMA AboutConcat ==
    ASSUME NEW S, NEW q \in Seq(S), NEW r \in Seq(S), NEW s
    PROVE  /\ Silent(q \o r, s) <=> Silent(q, s) /\ Silent(r, s)
           /\ \A a : Ends(q \o r, s, a) <=>
                 Ends(r, s, a) \/ (Silent(r, s) /\ Ends(q, s, a))
<1>. DEFINE c == q \o r
<1>1. /\ Len(q) \in Nat /\ Len(r) \in Nat /\ Len(c) = Len(q) + Len(r)
      /\ \A i \in 1..Len(q) : c[i] = q[i]
      /\ \A i \in 1..Len(r) : c[Len(q) + i] = r[i]
      /\ \A i \in (Len(q) + 1)..Len(c) : c[i] = r[i - Len(q)] /\ i - Len(q) \in 1..Len(r)
  BY ConcatProperties, LenProperties
<1>. HIDE DEF c
<1>2. Silent(c, s) <=> Silent(q, s) /\ Silent(r, s)
  <2>1. ASSUME Silent(c, s)  PROVE Silent(q, s) /\ Silent(r, s)
    BY <1>1, <2>1 DEF Silent
  <2>2. ASSUME Silent(q, s), Silent(r, s), NEW i \in 1..Len(c)  PROVE c[i].subscription # s
    <3>1. CASE i <= Len(q)  BY <1>1, <2>2, <3>1 DEF Silent
    <3>2. CASE i > Len(q)
      <4>1. c[i] = r[i - Len(q)] /\ i - Len(q) \in 1..Len(r)  BY <1>1, <3>2
      <4>. QED  BY <4>1, <2>2 DEF Silent
    <3>. QED  BY <1>1, <3>1, <3>2
  <2>. QED  BY <2>1, <2>2 DEF Silent
<1>3. ASSUME NEW a
      PROVE  Ends(c, s, a) <=> Ends(r, s, a) \/ (Silent(r, s) /\ Ends(q, s, a))
  <2>1. ASSUME Ends(r, s, a)  PROVE Ends(c, s, a)
    <3>1. PICK i \in 1..Len(r) : /\ r[i].subscription = s /\ r[i].action = a
                                 /\ \A j \in (i + 1)..Len(r) : r[j].subscription # s
      BY <2>1 DEF Ends
    <3>2. ASSUME NEW j \in (Len(q) + i + 1)..Len(c)  PROVE c[j].subscription # s
      <4>1. c[j] = r[j - Len(q)] /\ j - Len(q) \in (i + 1)..Len(r)  BY <1>1
      <4>. QED  BY <4>1, <3>1
    <3>. QED  BY <3>1, <3>2, <1>1 DEF Ends
  <2>2. ASSUME Silent(r, s), Ends(q, s, a)  PROVE Ends(c, s, a)
    <3>1. PICK i \in 1..Len(q) : /\ q[i].subscription = s /\ q[i].action = a
                                 /\ \A j \in (i + 1)..Len(q) : q[j].subscription # s
      BY <2>2 DEF Ends
    <3>2. ASSUME NEW j \in (i + 1)..Len(c)  PROVE c[j].subscription # s
      <4>1. CASE j <= Len(q)
        <5>1. j \in (i + 1)..Len(q) /\ c[j] = q[j]  BY <1>1, <4>1
        <5>. QED  BY <5>1, <3>1
      <4>2. CASE j > Len(q)
        <5>1. c[j] = r[j - Len(q)] /\ j - Len(q) \in 1..Len(r)  BY <1>1, <4>2
        <5>. QED  BY <5>1, <2>2 DEF Silent
      <4>. QED  BY <1>1, <4>1, <4>2
    <3>. QED  BY <3>1, <3>2, <1>1 DEF Ends
  <2>3. ASSUME Ends(c, s, a)  PROVE Ends(r, s, a) \/ (Silent(r, s) /\ Ends(q, s, a))
    <3>1. PICK i \in 1..Len(c) : /\ c[i].subscription = s /\ c[i].action = a
                                 /\ \A j \in (i + 1)..Len(c) : c[j].subscription # s
      BY <2>3 DEF Ends
    <3>2. CASE i <= Len(q)
      <4>1. \A j \in 1..Len(r) : r[j].subscription # s  BY <3>1, <3>2, <1>1
      <4>2. \A j \in (i + 1)..Len(q) : q[j].subscription # s  BY <3>1, <3>2, <1>1
      <4>. QED  BY <4>1, <4>2, <3>1, <3>2, <1>1 DEF Ends, Silent
    <3>3. CASE i > Len(q)
      <4>1. i - Len(q) \in 1..Len(r) /\ c[i] = r[i - Len(q)]  BY <3>3, <1>1
      <4>2. \A j \in (i - Len(q) + 1)..Len(r) : r[j].subscription # s  BY <3>1, <3>3, <1>1
      <4>. QED  BY <4>1, <4>2, <3>1 DEF Ends
    <3>. QED  BY <3>2, <3>3, <1>1
  <2>. QED  BY <2>1, <2>2, <2>3
<1>. QED  BY <1>2, <1>3 DEF c

\* The former subscriptions as they are replayed: each of them, as a SUBSCRIBE.
Replayed(F) == [j \in 1..Cardinality(F) |-> [subscription |-> SetToSeq(F)[j], action |-> "SUBSCRIBE"]]

\* SetToSeq() lists all of a finite set.
LEMMA SetToSeqCovers ==
    ASSUME NEW F, IsFiniteSet(F)
    PROVE  /\ SetToSeq(F) \in [1..Cardinality(F) -> F]
           /\ \A x \in F : \E i \in 1..Cardinality(F) : SetToSeq(F)[i] = x
<1>. DEFINE n == Cardinality(F)
            f == SetToSeq(F)
<1>1. n \in Nat /\ ExistsBijection(1..n, F)  BY FS_CardinalityType
<1>2. \E g \in [1..n -> F] : IsInjective(g)
  BY <1>1 DEF ExistsBijection, Bijection, Injection
<1>3. f \in [1..n -> F] /\ IsInjective(f)
  BY <1>2 DEF SetToSeq
<1>4. f \in Injection(1..n, F)  BY <1>3 DEF Injection
<1>5. Cardinality(1..n) = n
  <2>1. Cardinality(1..n) = IF 1 > n THEN 0 ELSE n - 1 + 1  BY <1>1, FS_Interval
  <2>. QED  BY <2>1, <1>1
<1>6. f \in Surjection(1..n, F)
  <2>. HIDE DEF f, n
  <2>1. Cardinality(1..n) = Cardinality(F) <=> f \in Surjection(1..n, F)
    BY <1>4, FS_Injection
  <2>. QED  BY <2>1, <1>5 DEF n
<1>. QED  BY <1>3, <1>6 DEF Surjection

\* The replay of a file subscribes to exactly what is in it.
LEMMA AboutReplayed ==
    ASSUME NEW F \in SUBSET Subscriptions
    PROVE  /\ Replayed(F) \in Seq(Messages)
           /\ \A s : Silent(Replayed(F), s) <=> s \notin F
           /\ \A s, a : Ends(Replayed(F), s, a) => s \in F /\ a = "SUBSCRIBE"
<1>. DEFINE n == Cardinality(F)
            f == SetToSeq(F)
            r == Replayed(F)
<1>1. IsFiniteSet(F) /\ n \in Nat  BY FS_Subset, FS_CardinalityType
<1>2. f \in [1..n -> F] /\ \A x \in F : \E i \in 1..n : f[i] = x
  BY <1>1, SetToSeqCovers
<1>3. r = [j \in 1..n |-> [subscription |-> f[j], action |-> "SUBSCRIBE"]]
  BY DEF Replayed
<1>. HIDE DEF f, n, r
<1>4. r \in [1..n -> Messages]
  BY <1>2, <1>3 DEF Messages, Actions
<1>5. r \in Seq(Messages) /\ Len(r) = n
  BY <1>1, <1>4
<1>6. \A i \in 1..Len(r) : r[i].subscription = f[i] /\ r[i].action = "SUBSCRIBE"
  BY <1>3, <1>5
<1>7. \A s : Silent(r, s) <=> s \notin F
  BY <1>2, <1>5, <1>6 DEF Silent
<1>8. \A s, a : Ends(r, s, a) => s \in F /\ a = "SUBSCRIBE"
  BY <1>2, <1>5, <1>6 DEF Ends
<1>. QED  BY <1>5, <1>7, <1>8 DEF r

-----------------------------------------------------------------------------
(* The invariant holds at first, and every step keeps it. *)

\* An empty mailbox is about nothing.
LEMMA AboutNothing ==
    ASSUME NEW s
    PROVE  /\ Silent(<<>>, s)
           /\ \A a : ~ Ends(<<>>, s, a)
BY DEF Silent, Ends

\* Without a link that is ready the count of ready links is zero.
LEMMA NoneReady ==
    ASSUME \A l \in Links : link[l] # "ready"
    PROVE  Cardinality(ReadyLinks) = 0
<1>1. ReadyLinks = {}  BY DEF ReadyLinks
<1>. QED  BY <1>1, FS_EmptySet

\* The invariant holds before the portal has read its file.
LEMMA InitPersistent == Init => Persistent
<1>. SUFFICES ASSUME Init PROVE Persistent
  OBVIOUS
<1>. USE DEF Init, Start, NoMail
<1>0. Cardinality(Links) \in Nat  BY FS_CardinalityType
<1>1. TypeOK  BY <1>0 DEF TypeOK
<1>2. ReadyCounted  BY NoneReady DEF ReadyCounted
<1>3. Staged  BY DEF Staged
<1>4. Reported  BY DEF Reported
<1>5. Written  BY DEF Written
<1>6. Addressed  BY DEF Addressed
<1>7. Remembered
  BY AboutNothing DEF Remembered, Said, Unsaid, ToReplay
<1>. QED  BY <1>1, <1>2, <1>3, <1>4, <1>5, <1>6, <1>7 DEF Persistent

\* A link that is ready stays so: the messages on their way stay addressed.
LEMMA StayAddressed ==
    ASSUME Addressed, TypeOK, UNCHANGED <<data_in, received_>>,
           \A l \in Links : link[l] = "ready" => link'[l] = "ready"
    PROVE  Addressed'
<1>1. ASSUME NEW q \in Seq(Messages), NEW i \in 1..Len(q)  PROVE LinkOf[q[i].subscription] \in Links
  <2>1. q[i] \in Messages  BY <1>1, ElementOfSeq
  <2>2. q[i].subscription \in Subscriptions  BY <2>1 DEF Messages
  <2>. QED  BY <2>2
<1>2. \A i \in 1..Len(data_in) : LinkOf[data_in[i].subscription] \in Links  BY <1>1 DEF TypeOK
<1>3. \A i \in 1..Len(received_) : LinkOf[received_[i].subscription] \in Links  BY <1>1 DEF TypeOK
<1>. QED  BY <1>2, <1>3 DEF Addressed

\* A link is constructed: nobody has heard of it yet.
LEMMA ConstructStep ==
    ASSUME Persistent, NEW l \in Links, Construct(l)
    PROVE  Persistent'
<1>. USE DEF Construct, mailboxes
<1>1. TypeOK'  BY DEF Persistent, TypeOK
<1>2. ReadyCounted'
  <2>1. ReadyLinks' = ReadyLinks  BY DEF Persistent, TypeOK, ReadyLinks
  <2>. QED  BY <2>1 DEF Persistent, ReadyCounted
<1>3. Staged'  BY DEF Persistent, TypeOK, Staged
<1>4. Reported'  BY DEF Persistent, Reported
<1>5. Written'  BY DEF Persistent, Written, Collection
<1>6. Addressed'  BY StayAddressed DEF Persistent, TypeOK
<1>7. Remembered'  BY DEF Persistent, Remembered, Said, Unsaid, ToReplay
<1>. QED  BY <1>1, <1>2, <1>3, <1>4, <1>5, <1>6, <1>7 DEF Persistent

\* A driver that becomes ready is announced, and counted once.
LEMMA DriverReadyStep ==
    ASSUME Persistent, NEW l \in Links, DriverReady(l)
    PROVE  Persistent'
<1>. USE DEF DriverReady
<1>1. TypeOK'  BY DEF Persistent, TypeOK
<1>2. ReadyCounted'
  <2>1. ReadyLinks' = ReadyLinks \cup {l} /\ l \notin ReadyLinks
    BY DEF Persistent, TypeOK, ReadyLinks
  <2>2. IsFiniteSet(ReadyLinks)  BY FS_Subset DEF ReadyLinks
  <2>3. Cardinality(ReadyLinks \cup {l}) = Cardinality(ReadyLinks) + 1
    BY <2>1, <2>2, FS_AddElement
  <2>. QED  BY <2>1, <2>3 DEF Persistent, ReadyCounted, TypeOK
<1>3. Staged'  BY DEF Persistent, TypeOK, Staged
<1>4. Reported'  BY DEF Persistent, Reported
<1>5. Written'  BY DEF Persistent, Written, Collection
<1>6. Addressed'  BY StayAddressed DEF Persistent, TypeOK
<1>7. Remembered'  BY DEF Persistent, Remembered, Said, Unsaid, ToReplay
<1>. QED  BY <1>1, <1>2, <1>3, <1>4, <1>5, <1>6, <1>7 DEF Persistent

\* What another vehicle wants is published by its link to the portal.
LEMMA ReceiveStep ==
    ASSUME Persistent, NEW s \in Subscriptions, NEW action \in Actions, _receive(s, action)
    PROVE  Persistent'
<1>. DEFINE m == [subscription |-> s, action |-> action]
<1>0. m \in Messages /\ m.subscription = s /\ m.action = action
  BY DEF Messages
<1>. HIDE DEF m
<1>1. TypeOK'
  <2>1. data_in' \in Seq(Messages)  BY <1>0 DEF Persistent, TypeOK, _receive, m
  <2>2. world' \in [wanted : SUBSET Subscriptions, excused : SUBSET Subscriptions,
                    radio : Nat, crashes : Nat]
    <3>. DEFINE W == IF action = "SUBSCRIBE" THEN world.wanted \cup {s} ELSE world.wanted \ {s}
                E == IF action = "UNSUBSCRIBE" /\ s \in portal.former /\ portal.back = "init"
                     THEN world.excused \cup {s} ELSE world.excused \ {s}
    <3>1. W \in SUBSET Subscriptions /\ E \in SUBSET Subscriptions  BY DEF Persistent, TypeOK
    <3>2. world' = [world EXCEPT !.radio = @ + 1, !.wanted = W, !.excused = E]  BY DEF _receive
    <3>. HIDE DEF W, E
    <3>3. /\ world \in [wanted : SUBSET Subscriptions, excused : SUBSET Subscriptions,
                        radio : Nat, crashes : Nat]
          /\ world.radio + 1 \in Nat
      BY DEF Persistent, TypeOK
    <3>. QED  BY ONLY <3>1, <3>2, <3>3
  <2>. QED  BY <2>1, <2>2 DEF Persistent, TypeOK, _receive
<1>2. ReadyCounted'  BY DEF Persistent, ReadyCounted, ReadyLinks, _receive
<1>3. portal.at # "start"
  BY DEF Persistent, TypeOK, Staged, _receive
<1>4. Staged'  BY <1>3 DEF Persistent, Staged, _receive
<1>5. Reported'  BY DEF Persistent, Reported, _receive
<1>6. Written'  BY DEF Persistent, Written, Collection, _receive
<1>7. data_in' = Append(data_in, m) /\ data_in \in Seq(Messages)
  BY DEF Persistent, TypeOK, _receive, m
<1>8. Addressed'
  <2>1. ASSUME NEW i \in 1..Len(data_in')  PROVE link[LinkOf[data_in'[i].subscription]] = "ready"
    <3>1. CASE i = Len(data_in) + 1
      BY <1>0, <1>7, <3>1, AppendProperties DEF _receive
    <3>2. CASE i # Len(data_in) + 1
      <4>1. i \in 1..Len(data_in) /\ data_in'[i] = data_in[i]  BY <1>7, <3>2, AppendProperties, LenProperties
      <4>. QED  BY <4>1 DEF Persistent, Addressed
    <3>. QED  BY <3>1, <3>2
  <2>. QED  BY <2>1 DEF Persistent, Addressed, _receive
<1>9. Remembered'
  <2>. SUFFICES ASSUME NEW t \in Subscriptions \ world'.excused
                PROVE  /\ Said(t, "SUBSCRIBE")' => t \in world'.wanted
                       /\ Said(t, "UNSUBSCRIBE")' => t \notin world'.wanted
                       /\ Unsaid(t)' => (t \in world'.wanted <=>
                                           t \in accepted'[LinkOf[t]] \/ ToReplay(t)')
                       /\ ToReplay(t)' => t \in world'.wanted
    BY DEF Remembered
  <2>1. /\ Silent(data_in', t) <=> Silent(data_in, t) /\ s # t
        /\ \A a : Ends(data_in', t, a) <=> (s = t /\ action = a) \/ (s # t /\ Ends(data_in, t, a))
    BY <1>0, <1>7, AboutAppend
  <2>2. ToReplay(t)' <=> ToReplay(t)  BY DEF ToReplay, _receive
  <2>3. CASE s # t
    <3>1. t \notin world.excused /\ (t \in world'.wanted <=> t \in world.wanted)
      BY <2>3 DEF Persistent, TypeOK, _receive
    <3>2. /\ \A a : Said(t, a)' <=> Said(t, a)
          /\ Unsaid(t)' <=> Unsaid(t)
      BY <2>1, <2>3 DEF Said, Unsaid, _receive
    <3>3. accepted' = accepted  BY DEF _receive
    <3>. QED  BY <3>1, <3>2, <3>3, <2>2 DEF Persistent, Remembered
  <2>4. CASE s = t
    <3>1. /\ \A a : Said(t, a)' => a = action
          /\ ~ Unsaid(t)'
      BY <2>1, <2>4 DEF Said, Unsaid
    <3>2. t \in world'.wanted <=> action = "SUBSCRIBE"
      BY <2>4 DEF Persistent, TypeOK, _receive, Actions
    <3>3. ToReplay(t) => action # "UNSUBSCRIBE"
      BY <1>3, <2>4 DEF Persistent, TypeOK, _receive, ToReplay
    <3>. QED  BY <3>1, <3>2, <3>3, <2>2 DEF Actions
  <2>. QED  BY <2>3, <2>4
<1>. QED  BY <1>1, <1>2, <1>4, <1>5, <1>6, <1>8, <1>9 DEF Persistent

\* The file is read and removed: what was in it is now to be replayed.
LEMMA SetUpStep ==
    ASSUME Persistent, _set_up_persistent_subscriptions
    PROVE  Persistent'
<1>. USE DEF _set_up_persistent_subscriptions, mailboxes
<1>0. portal = Start  BY DEF Persistent, Staged
<1>1. TypeOK'  BY DEF Persistent, TypeOK
<1>2. ReadyCounted'  BY DEF Persistent, ReadyCounted, ReadyLinks, TypeOK
<1>3. Staged'  BY <1>0 DEF Persistent, TypeOK, Staged, Start
<1>4. Reported'  BY DEF Persistent, Reported, TypeOK
<1>5. Written'  BY <1>0 DEF Written, Collection, Start
<1>6. Addressed'  BY DEF Persistent, Addressed
<1>7. Remembered'
  <2>1. \A s : ToReplay(s)' <=> ToReplay(s)  BY <1>0 DEF ToReplay, Start
  <2>. QED  BY <2>1 DEF Persistent, Remembered, Said, Unsaid
<1>. QED  BY <1>1, <1>2, <1>3, <1>4, <1>5, <1>6, <1>7 DEF Persistent

\* The portal counts a link that is ready.
LEMMA PollReadyStep ==
    ASSUME Persistent, PollReady
    PROVE  Persistent'
<1>. USE DEF PollReady, Polling
<1>1. portal.drivers_ready + 1 \in 0..Cardinality(Links)
  <2>1. /\ Cardinality(Links) \in Nat
        /\ Cardinality(ReadyLinks) \in Nat
        /\ Cardinality(ReadyLinks) <= Cardinality(Links)
    BY FS_CardinalityType, FS_Subset DEF ReadyLinks
  <2>. QED  BY <2>1 DEF Persistent, TypeOK, ReadyCounted
<1>2. TypeOK'
  <2>1. portal' = [portal EXCEPT !.drivers_ready = portal.drivers_ready + 1]  OBVIOUS
  <2>2. ready' \in Nat  BY DEF Persistent, TypeOK
  <2>3. portal' \in [at : {"start", "init", "running", "writing"}, back : {"init", "running"},
                     former : SUBSET Subscriptions, drivers_ready : 0..Cardinality(Links),
                     sub_reports : [Links -> SUBSET Subscriptions]]
    BY ONLY <2>1, <1>1, Persistent DEF Persistent, TypeOK
  <2>. QED  BY <2>2, <2>3 DEF Persistent, TypeOK
<1>3. ReadyCounted'  BY DEF Persistent, ReadyCounted, ReadyLinks, TypeOK
<1>4. Staged'  BY DEF Persistent, TypeOK, Staged
<1>5. Reported'  BY DEF Persistent, Reported, TypeOK
<1>6. Written'  BY DEF Persistent, Written, Collection, TypeOK
<1>7. Addressed'  BY DEF Persistent, Addressed
<1>8. Remembered'
  BY DEF Persistent, Remembered, Said, Unsaid, ToReplay, TypeOK
<1>. QED  BY <1>2, <1>3, <1>4, <1>5, <1>6, <1>7, <1>8 DEF Persistent

\* A message the portal reads joins those it has received, in their order.
LEMMA PollDataStep ==
    ASSUME Persistent, PollData
    PROVE  Persistent'
<1>. USE DEF PollData, Polling
<1>0. /\ data_in \in Seq(Messages) /\ data_in # <<>> /\ received_ \in Seq(Messages)
      /\ data_in' = Tail(data_in) /\ Tail(data_in) \in Seq(Messages)
      /\ received_' = Append(received_, Head(data_in)) /\ Head(data_in) \in Messages
  BY HeadTailProperties DEF Persistent, TypeOK
<1>1. TypeOK'  BY <1>0 DEF Persistent, TypeOK
<1>2. ReadyCounted'  BY DEF Persistent, ReadyCounted, ReadyLinks
<1>3. Staged'  BY DEF Persistent, Staged
<1>4. Reported'  BY DEF Persistent, Reported
<1>5. Written'  BY DEF Persistent, Written, Collection
<1>6. Addressed'
  <2>1. ASSUME NEW i \in 1..Len(data_in')  PROVE link[LinkOf[data_in'[i].subscription]] = "ready"
    <3>1. i + 1 \in 1..Len(data_in) /\ data_in'[i] = data_in[i + 1]
      BY <1>0, HeadTailProperties, LenProperties
    <3>. QED  BY <3>1 DEF Persistent, Addressed
  <2>2. ASSUME NEW i \in 1..Len(received_')  PROVE link[LinkOf[received_'[i].subscription]] = "ready"
    <3>1. CASE i = Len(received_) + 1
      <4>1. received_'[i] = data_in[1] /\ 1 \in 1..Len(data_in)
        BY <1>0, <3>1, AppendProperties, HeadTailProperties, LenProperties, EmptySeq
      <4>. QED  BY <4>1 DEF Persistent, Addressed
    <3>2. CASE i # Len(received_) + 1
      <4>1. i \in 1..Len(received_) /\ received_'[i] = received_[i]
        BY <1>0, <3>2, AppendProperties, LenProperties
      <4>. QED  BY <4>1 DEF Persistent, Addressed
    <3>. QED  BY <3>1, <3>2
  <2>. QED  BY <2>1, <2>2 DEF Addressed
<1>7. Remembered'
  <2>1. ASSUME NEW s
        PROVE  (\A a : Said(s, a)' <=> Said(s, a)) /\ (Unsaid(s)' <=> Unsaid(s))
    <3>. DEFINE h == Head(data_in)
    <3>1. /\ Silent(data_in, s) <=> h.subscription # s /\ Silent(data_in', s)
          /\ \A a : Ends(data_in, s, a) <=>
                \/ Ends(data_in', s, a)
                \/ Silent(data_in', s) /\ h.subscription = s /\ h.action = a
      BY <1>0, AboutTail
    <3>2. received_ \in Seq(Messages) /\ h \in Messages /\ received_' = Append(received_, h)
      BY <1>0
    <3>. HIDE DEF h
    <3>3. /\ Silent(received_', s) <=> Silent(received_, s) /\ h.subscription # s
          /\ \A a : Ends(received_', s, a) <=>
                \/ h.subscription = s /\ h.action = a
                \/ h.subscription # s /\ Ends(received_, s, a)
      BY ONLY <3>2, AboutAppend
    <3>. QED  BY <3>1, <3>3 DEF Said, Unsaid
  <2>. QED  BY <2>1 DEF Persistent, Remembered, ToReplay
<1>. QED  BY <1>1, <1>2, <1>3, <1>4, <1>5, <1>6, <1>7 DEF Persistent

\* A report replaces the one before it of the same link, and the file is
\* truncated.
LEMMA PollReportStep ==
    ASSUME Persistent, PollReport
    PROVE  Persistent'
<1>. USE DEF PollReport, Polling
<1>. DEFINE r == Head(reports)
            Report == [link : Links, subscriptions : SUBSET Subscriptions]
<1>0. /\ reports \in Seq(Report) /\ reports # <<>> /\ reports' = Tail(reports)
      /\ Tail(reports) \in Seq(Report) /\ r \in Report /\ r = reports[1]
      /\ Len(reports) \in Nat \ {0} /\ Len(reports') = Len(reports) - 1
      /\ \A i \in 1..Len(reports') : reports'[i] = reports[i + 1]
  <2>1. reports \in Seq(Report) /\ reports # <<>> /\ reports' = Tail(reports)
    BY DEF Persistent, TypeOK
  <2>. HIDE DEF Report
  <2>2. /\ Tail(reports) \in Seq(Report) /\ r \in Report /\ r = reports[1]
        /\ Len(reports') = Len(reports) - 1
        /\ \A i \in 1..Len(reports') : reports'[i] = reports[i + 1]
    BY ONLY <2>1, HeadTailProperties
  <2>3. Len(reports) \in Nat \ {0}  BY ONLY <2>1, LenProperties, EmptySeq
  <2>. QED  BY ONLY <2>1, <2>2, <2>3
<1>1. /\ portal'.sub_reports = [portal.sub_reports EXCEPT ![r.link] = r.subscriptions]
      /\ portal'.at = "writing" /\ portal'.back = portal.at
      /\ portal'.former = portal.former /\ portal'.drivers_ready = portal.drivers_ready
  BY DEF Persistent, TypeOK, Noted
<1>2. TypeOK'
  <2>1. /\ r.link \in Links /\ r.subscriptions \in SUBSET Subscriptions  BY <1>0
  <2>. HIDE DEF r
  <2>. DEFINE N == Noted(Head(reports))
  <2>3. N \in [Links -> SUBSET Subscriptions]
    BY <2>1 DEF Persistent, TypeOK, Noted, r
  <2>4. portal' = [portal EXCEPT !.sub_reports = N, !.at = "writing", !.back = portal.at]
    OBVIOUS
  <2>. HIDE DEF N
  <2>5. portal' \in [at : {"start", "init", "running", "writing"}, back : {"init", "running"},
                     former : SUBSET Subscriptions, drivers_ready : 0..Cardinality(Links),
                     sub_reports : [Links -> SUBSET Subscriptions]]
    BY <2>3, <2>4 DEF Persistent, TypeOK
  <2>. QED  BY <1>0, <2>5 DEF Persistent, TypeOK
<1>3. ReadyCounted'  BY <1>1 DEF Persistent, ReadyCounted, ReadyLinks
<1>4. Staged'  BY <1>1 DEF Persistent, Staged
<1>5. Reported'
  <2>. HIDE DEF r, PollReport
  <2>. SUFFICES ASSUME NEW l \in Links
                PROVE  /\ (\A i \in 1..Len(reports') : reports'[i].link # l)
                             => portal'.sub_reports[l] = accepted[l]
                       /\ \A i \in 1..Len(reports') :
                             (reports'[i].link = l
                                /\ \A j \in (i + 1)..Len(reports') : reports'[j].link # l)
                                 => reports'[i].subscriptions = accepted[l]
    BY DEF Reported, PollReport
  <2>1. portal'.sub_reports[l] = IF r.link = l THEN r.subscriptions ELSE portal.sub_reports[l]
    BY <1>0, <1>1 DEF Persistent, TypeOK
  <2>2. ASSUME \A i \in 1..Len(reports') : reports'[i].link # l
        PROVE  portal'.sub_reports[l] = accepted[l]
    <3>1. \A j \in 2..Len(reports) : reports[j].link # l
      <4>1. ASSUME NEW j \in 2..Len(reports)  PROVE reports[j].link # l
        <5>1. j - 1 \in 1..Len(reports') /\ reports'[j - 1] = reports[j]  BY <1>0
        <5>. QED  BY <5>1, <2>2
      <4>. QED  BY <4>1
    <3>2. CASE r.link = l
      <4>1. 1 \in 1..Len(reports) /\ reports[1].link = l
            /\ \A j \in (1 + 1)..Len(reports) : reports[j].link # l
        BY <1>0, <3>1, <3>2
      <4>2. reports[1].subscriptions = accepted[l]  BY <4>1 DEF Persistent, Reported
      <4>. QED  BY <4>2, <2>1, <3>2, <1>0
    <3>3. CASE r.link # l
      <4>1. \A j \in 1..Len(reports) : reports[j].link # l  BY <1>0, <3>1, <3>3
      <4>. QED  BY <4>1, <2>1, <3>3 DEF Persistent, Reported
    <3>. QED  BY <3>2, <3>3
  <2>3. ASSUME NEW i \in 1..Len(reports'), reports'[i].link = l,
               \A j \in (i + 1)..Len(reports') : reports'[j].link # l
        PROVE  reports'[i].subscriptions = accepted[l]
    <3>1. i + 1 \in 1..Len(reports) /\ reports'[i] = reports[i + 1]  BY <1>0
    <3>2. ASSUME NEW j \in (i + 1 + 1)..Len(reports)  PROVE reports[j].link # l
      <4>1. j - 1 \in (i + 1)..Len(reports') /\ j - 1 \in 1..Len(reports')
            /\ reports'[j - 1] = reports[j]  BY <1>0
      <4>. QED  BY <4>1, <2>3
    <3>. QED  BY <3>1, <3>2, <2>3 DEF Persistent, Reported
  <2>. QED  BY <2>2, <2>3
<1>6. Written'  BY <1>1 DEF Written
<1>7. Addressed'  BY DEF Persistent, Addressed
<1>8. Remembered'
  <2>1. \A s : ToReplay(s)' <=> ToReplay(s)
    BY <1>1 DEF Persistent, Staged, ToReplay
  <2>. QED  BY <2>1 DEF Persistent, Remembered, Said, Unsaid
<1>. QED  BY <1>2, <1>3, <1>4, <1>5, <1>6, <1>7, <1>8 DEF Persistent

\* The file is completed from the reports noted.
LEMMA PrintCollectionStep ==
    ASSUME Persistent, PrintCollection
    PROVE  Persistent'
<1>. USE DEF PrintCollection, mailboxes
<1>0. Collection \subseteq Subscriptions /\ Collection' = Collection
  BY DEF Collection, Persistent, TypeOK
<1>1. TypeOK'  BY <1>0 DEF Persistent, TypeOK
<1>2. ReadyCounted'  BY DEF Persistent, ReadyCounted, ReadyLinks, TypeOK
<1>3. Staged'  BY DEF Persistent, TypeOK, Staged
<1>4. Reported'  BY DEF Persistent, Reported, TypeOK
<1>5. Written'  BY <1>0 DEF Written
<1>6. Addressed'  BY DEF Persistent, Addressed
<1>7. Remembered'
  <2>1. \A s : ToReplay(s)' <=> ToReplay(s)
    BY DEF Persistent, TypeOK, ToReplay
  <2>. QED  BY <2>1 DEF Persistent, Remembered, Said, Unsaid
<1>. QED  BY <1>1, <1>2, <1>3, <1>4, <1>5, <1>6, <1>7 DEF Persistent

\* A crash leaves only the file, which is then to be replayed; where it
\* differs from what is wanted is excused.
LEMMA CrashStep ==
    ASSUME Persistent, Crash
    PROVE  Persistent'
<1>. USE DEF Crash, Start
<1>0. file' \subseteq Subscriptions /\ Cardinality(Links) \in Nat
  BY FS_CardinalityType DEF Collection, Persistent, TypeOK
<1>1. TypeOK'
  <2>1. world' \in [wanted : SUBSET Subscriptions, excused : SUBSET Subscriptions,
                    radio : Nat, crashes : Nat]
    <3>. DEFINE E == (world.wanted \ file') \cup (file' \ world.wanted)
    <3>1. E \in SUBSET Subscriptions  BY <1>0 DEF Persistent, TypeOK
    <3>2. world' = [world EXCEPT !.crashes = @ + 1, !.excused = E]  OBVIOUS
    <3>. HIDE DEF E
    <3>3. /\ world \in [wanted : SUBSET Subscriptions, excused : SUBSET Subscriptions,
                        radio : Nat, crashes : Nat]
          /\ world.crashes + 1 \in Nat
      BY DEF Persistent, TypeOK
    <3>. QED  BY ONLY <3>1, <3>2, <3>3
  <2>. QED  BY <1>0, <2>1 DEF Persistent, TypeOK
<1>2. ReadyCounted'
  <2>1. ReadyLinks' = {}  BY DEF ReadyLinks
  <2>. QED  BY <2>1, FS_EmptySet DEF ReadyCounted
<1>3. Staged'  BY DEF Staged, NoMail
<1>4. Reported'  BY DEF Reported
<1>5. Written'  BY DEF Written
<1>6. Addressed'  BY DEF Addressed
<1>7. Remembered'
  <2>. SUFFICES ASSUME NEW s \in Subscriptions \ world'.excused
                PROVE  /\ \A a : ~ Said(s, a)'
                       /\ ToReplay(s)' <=> s \in world'.wanted
                       /\ s \notin accepted'[LinkOf[s]]
    BY DEF Remembered
  <2>1. /\ \A a : ~ Said(s, a)'
        /\ s \notin accepted'[LinkOf[s]]
    BY AboutNothing DEF Said
  <2>2. ToReplay(s)' <=> s \in file'  BY DEF ToReplay
  <2>3. s \in file' <=> s \in world'.wanted
    BY DEF Persistent, TypeOK
  <2>. QED  BY <2>1, <2>2, <2>3
<1>. QED  BY <1>1, <1>2, <1>3, <1>4, <1>5, <1>6, <1>7 DEF Persistent

\* A link accepts what its mailbox says, and reports what it then accepts.
LEMMA AcceptStep ==
    ASSUME Persistent, NEW l \in Links, _accept_subscription(l)
    PROVE  Persistent'
<1>. DEFINE m == Head(rx[l])
            Report == [link : Links, subscriptions : SUBSET Subscriptions]
            A == IF m.action = "SUBSCRIBE" THEN accepted[l] \cup {m.subscription}
                 ELSE accepted[l] \ {m.subscription}
            mine == LinkOf[m.subscription] = l
<1>1. /\ UNCHANGED <<file, portal, link, ready, data_in, received_, world>>
      /\ rx' = [rx EXCEPT ![l] = Tail(rx[l])] /\ rx[l] # <<>> /\ link[l] = "ready"
      /\ accepted' = IF mine THEN [accepted EXCEPT ![l] = A] ELSE accepted
  BY DEF _accept_subscription
<1>2. /\ rx \in [Links -> Seq(Messages)] /\ accepted \in [Links -> SUBSET Subscriptions]
      /\ reports \in Seq(Report)
  BY DEF Persistent, TypeOK
<1>3. rx[l] \in Seq(Messages) /\ m \in Messages /\ Tail(rx[l]) \in Seq(Messages)
  BY <1>1, <1>2, HeadTailProperties
<1>4. A \in SUBSET Subscriptions /\ m.subscription \in Subscriptions /\ m.action \in Actions
  BY <1>2, <1>3 DEF Messages
<1>5. /\ accepted' \in [Links -> SUBSET Subscriptions]
      /\ \A k \in Links : accepted'[k] = IF mine /\ k = l THEN A ELSE accepted[k]
  <2>. HIDE DEF A, m
  <2>. QED  BY <1>1, <1>2, <1>4
<1>6. /\ mine => reports' = Append(reports, [link |-> l, subscriptions |-> A])
      /\ ~ mine => reports' = reports
  <2>1. mine => accepted'[l] = A  BY <1>5
  <2>. QED  BY <2>1 DEF _accept_subscription
<1>7. /\ rx' \in [Links -> Seq(Messages)] /\ rx'[l] = Tail(rx[l])
      /\ \A k \in Links : k # l => rx'[k] = rx[k]
  BY <1>1, <1>2, <1>3
<1>. HIDE DEF m, A, mine
<1>8. TypeOK'
  <2>1. reports' \in Seq(Report)
    <3>. DEFINE r == [link |-> l, subscriptions |-> A]
    <3>1. r \in Report /\ (reports' = Append(reports, r) \/ reports' = reports)  BY <1>4, <1>6
    <3>2. reports \in Seq(Report)  BY <1>2
    <3>. HIDE DEF Report, r
    <3>. QED  BY ONLY <3>1, <3>2, AppendProperties
  <2>. QED  BY <2>1, <1>1, <1>5, <1>7 DEF Persistent, TypeOK
<1>9. ReadyCounted'  BY <1>1 DEF Persistent, ReadyCounted, ReadyLinks
<1>10. Staged'
  <2>1. portal.at # "start"  BY <1>1 DEF Persistent, Staged
  <2>. QED  BY <2>1, <1>1 DEF Persistent, Staged
<1>11. Reported'
  <2>1. CASE ~ mine
    <3>1. reports' = reports /\ \A k \in Links : accepted'[k] = accepted[k]
      BY <1>5, <1>6, <2>1
    <3>. QED  BY <3>1, <1>1 DEF Persistent, Reported
  <2>2. CASE mine
    <3>. DEFINE n == Len(reports)
                r == [link |-> l, subscriptions |-> A]
    <3>1. /\ n \in Nat /\ Len(reports') = n + 1
          /\ \A i \in 1..n : reports'[i] = reports[i]
          /\ reports'[n + 1] = r /\ r.link = l /\ r.subscriptions = A
      <4>1. reports' = Append(reports, r) /\ r \in Report  BY <1>4, <1>6, <2>2
      <4>2. r.link = l /\ r.subscriptions = A  OBVIOUS
      <4>. HIDE DEF r, Report
      <4>. QED  BY <4>1, <4>2, <1>2, AppendProperties, LenProperties
    <3>. HIDE DEF n, r
    <3>. SUFFICES ASSUME NEW k \in Links
                  PROVE  /\ (\A i \in 1..(n + 1) : reports'[i].link # k)
                               => portal.sub_reports[k] = accepted'[k]
                         /\ \A i \in 1..(n + 1) :
                               (reports'[i].link = k
                                  /\ \A j \in (i + 1)..(n + 1) : reports'[j].link # k)
                                   => reports'[i].subscriptions = accepted'[k]
      BY <1>1, <3>1 DEF Reported
    <3>2. CASE k = l
      <4>1. accepted'[k] = A  BY <1>5, <2>2, <3>2
      <4>2. reports'[n + 1].link = k /\ n + 1 \in 1..(n + 1)  BY <3>1, <3>2
      <4>3. ASSUME NEW i \in 1..(n + 1), \A j \in (i + 1)..(n + 1) : reports'[j].link # k
            PROVE  i = n + 1
        BY <3>1, <4>2, <4>3
      <4>. QED  BY <4>1, <4>2, <4>3, <3>1
    <3>3. CASE k # l
      <4>1. accepted'[k] = accepted[k]  BY <1>5, <3>3
      <4>2. ASSUME \A i \in 1..(n + 1) : reports'[i].link # k
            PROVE  portal.sub_reports[k] = accepted[k]
        <5>1. \A i \in 1..n : reports[i].link # k  BY <3>1, <4>2
        <5>. QED  BY <5>1 DEF Persistent, Reported, n
      <4>3. ASSUME NEW i \in 1..(n + 1), reports'[i].link = k,
                   \A j \in (i + 1)..(n + 1) : reports'[j].link # k
            PROVE  reports'[i].subscriptions = accepted[k]
        <5>1. i \in 1..n /\ reports'[i] = reports[i]  BY <3>1, <3>3, <4>3
        <5>2. \A j \in (i + 1)..n : reports[j].link # k  BY <3>1, <4>3
        <5>. QED  BY <5>1, <5>2, <4>3 DEF Persistent, Reported, n
      <4>. QED  BY <4>1, <4>2, <4>3
    <3>. QED  BY <3>2, <3>3
  <2>. QED  BY <2>1, <2>2
<1>12. Written'  BY <1>1 DEF Persistent, Written, Collection
<1>13. Addressed'  BY <1>1 DEF Persistent, Addressed
<1>14. Remembered'
  <2>. SUFFICES ASSUME NEW s \in Subscriptions \ world.excused
                PROVE  /\ Said(s, "SUBSCRIBE")' => s \in world.wanted
                       /\ Said(s, "UNSUBSCRIBE")' => s \notin world.wanted
                       /\ Unsaid(s)' => (s \in world.wanted <=>
                                           s \in accepted'[LinkOf[s]] \/ ToReplay(s))
                       /\ ToReplay(s) => s \in world.wanted
    BY <1>1 DEF Remembered, ToReplay
  <2>1. CASE LinkOf[s] # l
    <3>1. rx'[LinkOf[s]] = rx[LinkOf[s]] /\ accepted'[LinkOf[s]] = accepted[LinkOf[s]]
      BY <1>5, <1>7, <2>1
    <3>2. (\A a : Said(s, a)' <=> Said(s, a)) /\ (Unsaid(s)' <=> Unsaid(s))
      BY <1>1, <3>1 DEF Said, Unsaid
    <3>. QED  BY <3>1, <3>2 DEF Persistent, Remembered
  <2>2. CASE LinkOf[s] = l
    <3>1. /\ Silent(rx[l], s) <=> m.subscription # s /\ Silent(rx'[l], s)
          /\ \A a : Ends(rx[l], s, a) <=>
                \/ Ends(rx'[l], s, a)
                \/ Silent(rx'[l], s) /\ m.subscription = s /\ m.action = a
      BY <1>1, <1>3, <1>7, AboutTail DEF m
    <3>2. CASE m.subscription # s
      <4>1. (\A a : Said(s, a)' <=> Said(s, a)) /\ (Unsaid(s)' <=> Unsaid(s))
        BY <1>1, <2>2, <3>1, <3>2 DEF Said, Unsaid
      <4>2. s \in accepted'[l] <=> s \in accepted[l]
        BY <1>5, <3>2 DEF A
      <4>. QED  BY <4>1, <4>2, <2>2 DEF Persistent, Remembered
    <3>3. CASE m.subscription = s
      <4>1. \A a : Said(s, a)' => Said(s, a)
        BY <1>1, <2>2, <3>1, <3>3 DEF Said
      <4>2. Unsaid(s)' => Said(s, m.action)
        BY <1>1, <2>2, <3>1, <3>3 DEF Said, Unsaid
      <4>3. s \in accepted'[l] <=> m.action = "SUBSCRIBE"
        BY <1>5, <2>2, <3>3 DEF A, mine
      <4>. QED  BY <4>1, <4>2, <4>3, <2>2, <1>4 DEF Persistent, Remembered, Actions
    <3>. QED  BY <3>2, <3>3
  <2>. QED  BY <2>1, <2>2
<1>. QED  BY <1>8, <1>9, <1>10, <1>11, <1>12, <1>13, <1>14 DEF Persistent

\* What was received goes on to the mailboxes of the links, in its order.
LEMMA PollStep ==
    ASSUME Persistent, _poll
    PROVE  Persistent'
<1>1. /\ UNCHANGED <<file, portal, link, accepted, ready, data_in, reports, world>>
      /\ received_' = <<>> /\ data_in = <<>> /\ portal.at # "start"
      /\ rx' = [l \in Links |-> IF link[l] = "starting" THEN rx[l] ELSE rx[l] \o received_]
  BY DEF _poll, Forwarded, Polling
<1>2. rx \in [Links -> Seq(Messages)] /\ received_ \in Seq(Messages)
  BY DEF Persistent, TypeOK
<1>3. rx' \in [Links -> Seq(Messages)]
  <2>1. \A l \in Links : rx[l] \o received_ \in Seq(Messages)  BY <1>2, ConcatProperties
  <2>. QED  BY <1>1, <1>2, <2>1
<1>4. TypeOK'  BY <1>1, <1>3 DEF Persistent, TypeOK
<1>5. ReadyCounted'  BY <1>1 DEF Persistent, ReadyCounted, ReadyLinks
<1>6. Staged'  BY <1>1 DEF Persistent, Staged
<1>7. Reported'  BY <1>1 DEF Persistent, Reported
<1>8. Written'  BY <1>1 DEF Persistent, Written, Collection
<1>9. Addressed'  BY <1>1 DEF Persistent, Addressed
<1>10. Remembered'
  <2>1. ASSUME NEW s \in Subscriptions
        PROVE  (\A a : Said(s, a)' <=> Said(s, a)) /\ (Unsaid(s)' <=> Unsaid(s))
    <3>. DEFINE l == LinkOf[s]
    <3>1. l \in Links /\ rx[l] \in Seq(Messages)  BY <1>2
    <3>2. /\ Silent(data_in, s) /\ Silent(data_in', s) /\ Silent(received_', s)
          /\ \A a : ~ Ends(data_in, s, a) /\ ~ Ends(data_in', s, a) /\ ~ Ends(received_', s, a)
      BY <1>1, AboutNothing
    <3>3. CASE link[l] = "starting"
      <4>1. rx'[l] = rx[l]  BY <1>1, <3>1, <3>3
      <4>2. Silent(received_, s)
        BY <3>3 DEF Persistent, Addressed, Silent
      <4>3. \A a : ~ Ends(received_, s, a)  BY <4>2 DEF Silent, Ends
      <4>. QED  BY <3>2, <4>1, <4>2, <4>3 DEF Said, Unsaid
    <3>4. CASE link[l] # "starting"
      <4>1. rx'[l] = rx[l] \o received_  BY <1>1, <3>1, <3>4
      <4>2. /\ Silent(rx'[l], s) <=> Silent(rx[l], s) /\ Silent(received_, s)
            /\ \A a : Ends(rx'[l], s, a) <=>
                  Ends(received_, s, a) \/ (Silent(received_, s) /\ Ends(rx[l], s, a))
        BY <1>2, <3>1, <4>1, AboutConcat
      <4>. QED  BY <3>2, <4>2 DEF Said, Unsaid
    <3>. QED  BY <3>3, <3>4
  <2>2. \A s : ToReplay(s)' <=> ToReplay(s)  BY <1>1 DEF ToReplay
  <2>. QED  BY <1>1, <2>1, <2>2 DEF Persistent, Remembered
<1>. QED  BY <1>4, <1>5, <1>6, <1>7, <1>8, <1>9, <1>10 DEF Persistent

\* The replay comes when all links are ready, so that none of it is lost.
LEMMA AllReady ==
    ASSUME Persistent, DriversReady
    PROVE  \A l \in Links : link[l] = "ready"
<1>1. /\ ReadyLinks \in SUBSET Links /\ Cardinality(Links) \in Nat
      /\ Cardinality(ReadyLinks) \in Nat /\ Cardinality(ReadyLinks) <= Cardinality(Links)
      /\ Cardinality(Links) = Cardinality(ReadyLinks) => Links = ReadyLinks
  BY FS_Subset, FS_CardinalityType DEF ReadyLinks
<1>2. Cardinality(ReadyLinks) >= Cardinality(Links)
  BY <1>1 DEF Persistent, TypeOK, ReadyCounted, DriversReady
<1>3. Links = ReadyLinks  BY <1>1, <1>2
<1>. QED  BY <1>3 DEF ReadyLinks

\* With every link ready the subscriptions of the file go into the links'
\* mailboxes.
LEMMA ReplayStep ==
    ASSUME Persistent, Replay
    PROVE  Persistent'
<1>. DEFINE R == Replayed(portal.former)
<1>1. \A l \in Links : link[l] = "ready"  BY AllReady DEF Replay
<1>2. /\ UNCHANGED <<file, link, accepted, ready, data_in, received_, reports, world>>
      /\ portal' = [portal EXCEPT !.at = "running", !.back = "running"]
      /\ portal.at = "init" /\ portal.back = "init"
      /\ rx' = [l \in Links |-> rx[l] \o R]
  BY <1>1 DEF Replay, Forwarded, Replayed, Persistent, Staged
<1>3. /\ rx \in [Links -> Seq(Messages)]
      /\ portal.former \in SUBSET Subscriptions
  BY DEF Persistent, TypeOK
<1>4. /\ R \in Seq(Messages)
      /\ \A s : Silent(R, s) <=> s \notin portal.former
      /\ \A s, a : Ends(R, s, a) => s \in portal.former /\ a = "SUBSCRIBE"
  BY <1>3, AboutReplayed
<1>. HIDE DEF R
<1>5. rx' \in [Links -> Seq(Messages)]
  <2>1. \A l \in Links : rx[l] \o R \in Seq(Messages)  BY <1>3, <1>4, ConcatProperties
  <2>. QED  BY <1>2, <2>1
<1>6. /\ portal'.at = "running" /\ portal'.back = "running" /\ portal'.former = portal.former
      /\ portal'.drivers_ready = portal.drivers_ready /\ portal'.sub_reports = portal.sub_reports
      /\ portal' \in [at : {"start", "init", "running", "writing"}, back : {"init", "running"},
                      former : SUBSET Subscriptions, drivers_ready : 0..Cardinality(Links),
                      sub_reports : [Links -> SUBSET Subscriptions]]
  BY <1>2 DEF Persistent, TypeOK
<1>7. TypeOK'  BY <1>2, <1>5, <1>6 DEF Persistent, TypeOK
<1>8. ReadyCounted'  BY <1>2, <1>6 DEF Persistent, ReadyCounted, ReadyLinks
<1>9. Staged'  BY <1>1, <1>2, <1>6 DEF Staged
<1>10. Reported'  BY <1>2, <1>6 DEF Persistent, Reported
<1>11. Written'  BY <1>2, <1>6 DEF Persistent, Written, Collection
<1>12. Addressed'  BY <1>2 DEF Persistent, Addressed
<1>13. Remembered'
  <2>. SUFFICES ASSUME NEW s \in Subscriptions \ world.excused
                PROVE  /\ Said(s, "SUBSCRIBE")' => s \in world.wanted
                       /\ Said(s, "UNSUBSCRIBE")' => s \notin world.wanted
                       /\ Unsaid(s)' => (s \in world.wanted <=> s \in accepted[LinkOf[s]])
    BY <1>2, <1>6 DEF Remembered, ToReplay
  <2>. DEFINE l == LinkOf[s]
  <2>1. rx[l] \in Seq(Messages) /\ rx'[l] = rx[l] \o R  BY <1>2, <1>3
  <2>2. /\ Silent(rx'[l], s) <=> Silent(rx[l], s) /\ Silent(R, s)
        /\ \A a : Ends(rx'[l], s, a) <=> Ends(R, s, a) \/ (Silent(R, s) /\ Ends(rx[l], s, a))
    <3>. DEFINE q == rx[l]
    <3>1. R \in Seq(Messages) /\ q \in Seq(Messages) /\ rx'[l] = q \o R  BY <1>4, <2>1
    <3>. HIDE DEF q
    <3>2. /\ Silent(q \o R, s) <=> Silent(q, s) /\ Silent(R, s)
          /\ \A a : Ends(q \o R, s, a) <=> Ends(R, s, a) \/ (Silent(R, s) /\ Ends(q, s, a))
      BY ONLY <3>1, AboutConcat
    <3>. QED  BY <3>1, <3>2 DEF q
  <2>3. ToReplay(s) <=> s \in portal.former  BY <1>2 DEF ToReplay
  <2>4. CASE s \in portal.former
    <3>1. s \in world.wanted  BY <2>3, <2>4 DEF Persistent, Remembered
    <3>2. Said(s, "UNSUBSCRIBE")' => Said(s, "UNSUBSCRIBE")
      <4>1. ~ Ends(rx'[l], s, "UNSUBSCRIBE")  BY <1>4, <2>2, <2>4
      <4>2. data_in' = data_in /\ received_' = received_  BY <1>2
      <4>. QED  BY <4>1, <4>2 DEF Said
    <3>3. ~ Unsaid(s)'  BY <1>4, <2>2, <2>4 DEF Unsaid
    <3>. QED  BY <3>1, <3>2, <3>3 DEF Persistent, Remembered
  <2>5. CASE s \notin portal.former
    <3>1. (\A a : Said(s, a)' <=> Said(s, a)) /\ (Unsaid(s)' <=> Unsaid(s))
      BY <1>2, <1>4, <2>2, <2>5 DEF Said, Unsaid
    <3>. QED  BY <3>1, <2>3, <2>5 DEF Persistent, Remembered
  <2>. QED  BY <2>4, <2>5
<1>. QED  BY <1>7, <1>8, <1>9, <1>10, <1>11, <1>12, <1>13 DEF Persistent

\* Nothing happens.
LEMMA StutterStep ==
    ASSUME Persistent, UNCHANGED vars
    PROVE  Persistent'
BY DEF Persistent, vars, mailboxes, TypeOK, ReadyCounted, ReadyLinks, Staged, NoMail, Reported,
       Written, Collection, Addressed, Remembered, Said, Unsaid, ToReplay

\* The inductive invariant is an invariant of the persistence of subscriptions.
THEOREM PersistentAlways == Spec => []Persistent
<1>1. Init => Persistent  BY InitPersistent
<1>2. Persistent /\ [Next]_vars => Persistent'
  <2>. SUFFICES ASSUME Persistent, [Next]_vars  PROVE Persistent'
    OBVIOUS
  <2>1. CASE MainThread
    BY <2>1, SetUpStep, ReplayStep, PrintCollectionStep, PollReadyStep, PollDataStep,
       PollReportStep, PollStep DEF MainThread
  <2>2. ASSUME NEW l \in Links, Link(l)  PROVE Persistent'
    BY <2>2, ConstructStep, DriverReadyStep, AcceptStep DEF Link
  <2>3. ASSUME NEW s \in Subscriptions, NEW action \in Actions, _receive(s, action)
        PROVE  Persistent'
    BY <2>3, ReceiveStep
  <2>4. CASE Crash  BY <2>4, CrashStep
  <2>5. CASE UNCHANGED vars  BY <2>5, StutterStep
  <2>. QED  BY <2>1, <2>2, <2>3, <2>4, <2>5 DEF Next
<1>. QED  BY <1>1, <1>2, PTL DEF Spec

\* For any links and subscriptions the state of the portal and of its links has
\* its type: drivers_ready_ never counts more drivers than there are, and what
\* is in the file, reported or accepted are subscriptions of other vehicles.
THEOREM PersistTypeCorrect == Spec => []TypeOK
<1>1. Persistent => TypeOK  BY DEF Persistent
<1>. QED  BY <1>1, PersistentAlways, PTL

\* FileMatchesLinks for any number of links, subscriptions and crashes: when
\* nothing is on its way the file that InterVehiclePortal writes at each
\* subscription report holds what the modem driver threads serve, all of them.
THEOREM FileAlwaysMatchesLinks == Spec => []FileMatchesLinks
<1>1. Persistent => FileMatchesLinks
  <2>. SUFFICES ASSUME Persistent, Settled  PROVE file = Collection /\ file = Accepted
    BY DEF FileMatchesLinks
  <2>1. file = Collection  BY DEF Persistent, Written, Settled
  <2>2. \A l \in Links : portal.sub_reports[l] = accepted[l]
    BY DEF Persistent, Reported, Settled, NoMail
  <2>. QED  BY <2>1, <2>2 DEF Collection, Accepted
<1>. QED  BY <1>1, PersistentAlways, PTL

\* NothingForgotten for any number of links, subscriptions and crashes: when
\* nothing is on its way every subscription that is not excused is served by the
\* link of its subnet if and only if its subscriber wants it, however messages,
\* reports, the replay of the file after a restart and crashes were interleaved.
THEOREM NothingEverForgotten == Spec => []NothingForgotten
<1>1. Persistent => NothingForgotten
  <2>. SUFFICES ASSUME Persistent, Settled, NEW s \in Subscriptions \ world.excused
                PROVE  s \in world.wanted <=> s \in accepted[LinkOf[s]]
    BY DEF NothingForgotten
  <2>1. Unsaid(s)  BY AboutNothing DEF Unsaid, Settled, NoMail
  <2>2. ~ ToReplay(s)  BY DEF ToReplay, Settled, Persistent, Staged
  <2>. QED  BY <2>1, <2>2 DEF Persistent, Remembered
<1>. QED  BY <1>1, PersistentAlways, PTL
=============================================================================
