------------------------ MODULE CycleSchedulerProofs ------------------------
(***************************************************************************)
(* Proofs about the cycle scheduler, for every modulus, every set of waits *)
(* and tick lengths below half of it, and every choice of triggers.        *)
(***************************************************************************)
EXTENDS CycleScheduler, SequenceTheorems, TLAPS

-----------------------------------------------------------------------------
(* Wrap-around time                                                        *)

(* The signed distance lies within half a modulus of zero.                 *)
LEMMA AheadRange ==
  ASSUME NEW now \in Time, NEW x \in Time
  PROVE  Ahead(now, x) \in Int /\ Ahead(now, x) >= -H /\ Ahead(now, x) < H
BY HAssumption DEF Ahead, U32, Time, W

(* A wait of n cycles ends n cycles ahead.                                 *)
LEMMA AheadOfSum ==
  ASSUME NEW now \in Time, NEW n \in 0..(H - 1)
  PROVE  U32(now + n) \in Time /\ Ahead(now, U32(now + n)) = n
BY HAssumption DEF Ahead, U32, Time, W

(* When the counter moves on by d cycles everything is d cycles nearer, as *)
(* long as nothing falls half a modulus behind.                            *)
LEMMA AheadAfter ==
  ASSUME NEW now \in Time, NEW later \in Time, NEW x \in Time,
         Ahead(now, later) >= 0,
         Ahead(now, x) - Ahead(now, later) >= -H
  PROVE  Ahead(later, x) = Ahead(now, x) - Ahead(now, later)
BY HAssumption DEF Ahead, U32, Time, W

(* The lag of a value behind the counter is its signed distance negated.   *)
LEMMA LagIsBehind ==
  ASSUME NEW now \in Time, NEW x \in Time, U32(now - x) <= H
  PROVE  U32(now - x) \in Nat /\ Ahead(now, x) = -U32(now - x)
BY HAssumption DEF Ahead, U32, Time, W

(* The order of two entries.                                               *)
LEMMA BeforeIsTransitive ==
  ASSUME NEW now \in Time, NEW a \in Time, NEW b \in Time, NEW c \in Time,
         NEW pa \in Int, NEW pb \in Int, NEW pc \in Int,
         Before(now, b, pb, c, pc), ~ Before(now, a, pa, c, pc)
  PROVE  ~ Before(now, a, pa, b, pb)
BY AheadRange DEF Before

LEMMA NotBeforeIsLater ==
  ASSUME NEW now \in Time, NEW a \in Time, NEW b \in Time, NEW pa, NEW pb,
         ~ Before(now, a, pa, b, pb)
  PROVE  Ahead(now, b) <= Ahead(now, a)
BY AheadRange DEF Before

-----------------------------------------------------------------------------
(* Sequences                                                               *)

LEMMA InsertAtElements ==
  ASSUME NEW S, NEW q \in Seq(S), NEW e \in S, NEW p \in 1..(Len(q) + 1)
  PROVE  /\ InsertAt(q, p, e) \in Seq(S)
         /\ Len(InsertAt(q, p, e)) = Len(q) + 1
         /\ \A i \in 1..(Len(q) + 1) : InsertAt(q, p, e)[i] =
                IF i < p THEN q[i] ELSE IF i = p THEN e ELSE q[i - 1]
<1> DEFINE a == SubSeq(q, 1, p - 1)
           b == SubSeq(q, p, Len(q))
           c == a \o <<e>>
<1>1. /\ a \in Seq(S) /\ Len(a) = p - 1
      /\ \A i \in 1..(p - 1) : a[i] = q[i]
  BY SubSeqProperties, Len(q) \in Nat
<1>2. /\ b \in Seq(S) /\ Len(b) = Len(q) - p + 1
      /\ \A i \in 1..(Len(q) - p + 1) : b[i] = q[p + i - 1]
  BY SubSeqProperties, Len(q) \in Nat
<1>3. /\ <<e>> \in Seq(S) /\ Len(<<e>>) = 1 /\ <<e>>[1] = e
  OBVIOUS
<1> HIDE DEF a, b
<1>4. /\ c \in Seq(S) /\ Len(c) = p
      /\ \A i \in 1..p : c[i] = IF i <= p - 1 THEN a[i] ELSE <<e>>[i - (p - 1)]
  BY <1>1, <1>3, ConcatProperties
<1> HIDE DEF c
<1>5. /\ c \o b \in Seq(S) /\ Len(c \o b) = Len(q) + 1
      /\ \A i \in 1..(Len(q) + 1) : (c \o b)[i] = IF i <= p THEN c[i] ELSE b[i - p]
  <2>1. /\ c \o b \in Seq(S) /\ Len(c \o b) = Len(c) + Len(b)
        /\ \A i \in 1..(Len(c) + Len(b)) :
               (c \o b)[i] = IF i <= Len(c) THEN c[i] ELSE b[i - Len(c)]
    BY <1>2, <1>4, ConcatProperties
  <2>2. Len(c) = p /\ Len(c) + Len(b) = Len(q) + 1
    BY <1>2, <1>4, Len(q) \in Nat
  <2> QED BY <2>1, <2>2
<1>6. InsertAt(q, p, e) = c \o b
  BY DEF InsertAt, a, b, c
<1>7. \A i \in 1..(Len(q) + 1) : InsertAt(q, p, e)[i] =
                IF i < p THEN q[i] ELSE IF i = p THEN e ELSE q[i - 1]
  <2> TAKE i \in 1..(Len(q) + 1)
  <2>0. InsertAt(q, p, e)[i] = IF i <= p THEN c[i] ELSE b[i - p]
    BY <1>5, <1>6
  <2>1. CASE i < p
    <3>1. i \in 1..p /\ i \in 1..(p - 1) /\ i <= p - 1 /\ i <= p
      BY <2>1, Len(q) \in Nat
    <3>2. c[i] = a[i] /\ a[i] = q[i]
      BY <3>1, <1>1, <1>4
    <3> QED BY <2>0, <2>1, <3>1, <3>2
  <2>2. CASE i = p
    <3>1. p \in 1..p /\ ~ p <= p - 1 /\ p - (p - 1) = 1 /\ p <= p /\ ~ p < p
      BY Len(q) \in Nat
    <3>2. c[p] = e
      BY <3>1, <1>3, <1>4
    <3> QED BY <2>0, <2>2, <3>1, <3>2
  <2>3. CASE i > p
    <3>1. i - p \in 1..(Len(q) - p + 1) /\ p + (i - p) - 1 = i - 1
      BY <2>3, Len(q) \in Nat
    <3>2. ~ i <= p /\ ~ i < p /\ i # p
      BY <2>3, Len(q) \in Nat
    <3>3. b[i - p] = q[i - 1]
      BY <3>1, <1>2
    <3> QED BY <2>0, <3>2, <3>3
  <2> QED BY <2>1, <2>2, <2>3
<1> QED BY <1>5, <1>6, <1>7

LEMMA RemoveAtElements ==
  ASSUME NEW S, NEW q \in Seq(S), NEW p \in 1..Len(q)
  PROVE  /\ RemoveAt(q, p) \in Seq(S)
         /\ Len(RemoveAt(q, p)) = Len(q) - 1
         /\ \A i \in 1..(Len(q) - 1) :
                RemoveAt(q, p)[i] = IF i < p THEN q[i] ELSE q[i + 1]
<1> DEFINE a == SubSeq(q, 1, p - 1)
           b == SubSeq(q, p + 1, Len(q))
<1>1. /\ a \in Seq(S) /\ Len(a) = p - 1
      /\ \A i \in 1..(p - 1) : a[i] = q[i]
  BY SubSeqProperties, Len(q) \in Nat
<1>2. /\ b \in Seq(S) /\ Len(b) = Len(q) - p
      /\ \A i \in 1..(Len(q) - p) : b[i] = q[p + i]
  BY SubSeqProperties, Len(q) \in Nat
<1> HIDE DEF a, b
<1>3. /\ a \o b \in Seq(S) /\ Len(a \o b) = Len(q) - 1
      /\ \A i \in 1..(Len(q) - 1) : (a \o b)[i] = IF i <= p - 1 THEN a[i] ELSE b[i - (p - 1)]
  <2>1. /\ a \o b \in Seq(S) /\ Len(a \o b) = Len(a) + Len(b)
        /\ \A i \in 1..(Len(a) + Len(b)) :
               (a \o b)[i] = IF i <= Len(a) THEN a[i] ELSE b[i - Len(a)]
    BY <1>1, <1>2, ConcatProperties
  <2>2. Len(a) = p - 1 /\ Len(a) + Len(b) = Len(q) - 1
    BY <1>1, <1>2, Len(q) \in Nat
  <2> QED BY <2>1, <2>2
<1>4. RemoveAt(q, p) = a \o b
  BY DEF RemoveAt, a, b
<1>5. \A i \in 1..(Len(q) - 1) : RemoveAt(q, p)[i] = IF i < p THEN q[i] ELSE q[i + 1]
  <2> TAKE i \in 1..(Len(q) - 1)
  <2>1. CASE i < p   BY <2>1, <1>1, <1>3, <1>4
  <2>2. CASE i >= p
    <3>1. i - (p - 1) \in 1..(Len(q) - p) /\ p + (i - (p - 1)) = i + 1
      BY <2>2, Len(q) \in Nat
    <3> QED BY <3>1, <2>2, <1>2, <1>3, <1>4
  <2> QED BY <2>1, <2>2
<1> QED BY <1>3, <1>4, <1>5

LEMMA FrontElements ==
  ASSUME NEW S, NEW q \in Seq(S), q # <<>>
  PROVE  /\ Len(q) >= 1 /\ Last(q) \in S
         /\ Front(q) \in Seq(S)
         /\ Len(Front(q)) = Len(q) - 1
         /\ \A i \in 1..(Len(q) - 1) : Front(q)[i] = q[i]
BY SubSeqProperties, EmptySeq, Len(q) \in Nat DEF Front, Last
-----------------------------------------------------------------------------
(* The queue                                                               *)

USE HAssumption DEF Runs

LEMMA EntryTypes ==
  ASSUME NEW e \in Entry
  PROVE  e.at \in Time /\ e.priority \in 0..3 /\ e.fn \in Frame
BY DEF Entry

(* sorted::push keeps the order: all before the insertion point run after  *)
(* the new entry or with it, all behind it run before it.                  *)
LEMMA PushKeepsOrder ==
  ASSUME NEW q \in Seq(Entry), NEW e \in Entry, cycle_counter \in Time,
         InOrder(cycle_counter, q), Ahead(cycle_counter, e.at) >= 0,
         Push(q, e)
  PROVE  /\ queued' \in Seq(Entry)
         /\ InOrder(cycle_counter, queued')
         /\ \A i \in 1..Len(queued') : queued'[i] = e \/ \E j \in 1..Len(q) : queued'[i] = q[j]
<1>1. PICK p \in 1..(Len(q) + 1) :
        /\ \A i \in 1..(p - 1) : ~ After(cycle_counter, e, q[i])
        /\ p <= Len(q) => After(cycle_counter, e, q[p])
        /\ queued' = InsertAt(q, p, e)
  BY DEF Push
<1>2. /\ queued' \in Seq(Entry) /\ Len(queued') = Len(q) + 1 /\ Len(q) \in Nat
      /\ \A i \in 1..(Len(q) + 1) : queued'[i] =
             IF i < p THEN q[i] ELSE IF i = p THEN e ELSE q[i - 1]
  <2>1. /\ InsertAt(q, p, e) \in Seq(Entry) /\ Len(InsertAt(q, p, e)) = Len(q) + 1
        /\ \A i \in 1..(Len(q) + 1) : InsertAt(q, p, e)[i] =
               IF i < p THEN q[i] ELSE IF i = p THEN e ELSE q[i - 1]
    BY InsertAtElements
  <2>2. Len(q) \in Nat
    OBVIOUS
  <2> QED BY <1>1, <2>1, <2>2
<1>3. \A i \in 1..Len(queued') : queued'[i] = e \/ \E j \in 1..Len(q) : queued'[i] = q[j]
  <2> TAKE i \in 1..Len(queued')
  <2>1. CASE i < p   BY <2>1, <1>2
  <2>2. CASE i = p   BY <2>2, <1>2
  <2>3. CASE i > p
    <3>1. queued'[i] = q[i - 1] /\ i - 1 \in 1..Len(q)   BY <2>3, <1>2
    <3> QED BY <3>1
  <2> QED BY <2>1, <2>2, <2>3
<1>4. \A i \in 1..Len(queued') : Ahead(cycle_counter, queued'[i].at) >= 0
  BY <1>3 DEF InOrder
<1>5. \A i \in 1..Len(q) : /\ Ahead(cycle_counter, q[i].at) \in Int
                           /\ q[i].priority \in Int
  <2> TAKE i \in 1..Len(q)
  <2>1. q[i].at \in Time /\ q[i].priority \in 0..3   BY EntryTypes, ElementOfSeq
  <2> QED BY <2>1, AheadRange
<1>6. Ahead(cycle_counter, e.at) \in Int /\ e.priority \in Int
  BY EntryTypes, AheadRange
<1>7. \A i \in p..Len(q) : ~ After(cycle_counter, q[i], e)
  <2> TAKE i \in p..Len(q)
  <2>1. p \in 1..Len(q) /\ i \in 1..Len(q) /\ (i = p \/ p < i)   BY <1>2
  <2>2. After(cycle_counter, e, q[p])   BY <1>1, <2>1
  <2>3. i = p \/ ~ After(cycle_counter, q[i], q[p])   BY <2>1 DEF InOrder
  <2> QED BY <2>1, <2>2, <2>3, <1>5, <1>6 DEF After, Before
<1>8. \A i, j \in 1..Len(queued') : i < j => ~ After(cycle_counter, queued'[j], queued'[i])
  <2> SUFFICES ASSUME NEW i \in 1..Len(queued'), NEW j \in 1..Len(queued'), i < j
               PROVE  ~ After(cycle_counter, queued'[j], queued'[i])
    OBVIOUS
  <2>1. CASE j < p
    BY <2>1, <1>2 DEF InOrder
  <2>2. CASE j = p
    <3>1. queued'[j] = e /\ queued'[i] = q[i] /\ i \in 1..(p - 1)   BY <2>2, <1>2
    <3> QED BY <3>1, <1>1
  <2>3. CASE j > p /\ i < p
    <3>1. queued'[j] = q[j - 1] /\ queued'[i] = q[i] /\ j - 1 \in 1..Len(q) /\ i \in 1..Len(q) /\ i < j - 1
      BY <2>3, <1>2
    <3> QED BY <3>1 DEF InOrder
  <2>4. CASE j > p /\ i = p
    <3>1. queued'[j] = q[j - 1] /\ queued'[i] = e /\ j - 1 \in p..Len(q)
      BY <2>4, <1>2
    <3> QED BY <3>1, <1>7
  <2>5. CASE j > p /\ i > p
    <3>1. /\ queued'[j] = q[j - 1] /\ queued'[i] = q[i - 1]
          /\ j - 1 \in 1..Len(q) /\ i - 1 \in 1..Len(q) /\ i - 1 < j - 1
      BY <2>5, <1>2
    <3> QED BY <3>1 DEF InOrder
  <2> QED BY <2>1, <2>2, <2>3, <2>4, <2>5
<1> QED BY <1>2, <1>3, <1>4, <1>8 DEF InOrder

(* Erasing an entry disturbs neither the order nor the bound.              *)
LEMMA RemoveKeepsOrder ==
  ASSUME NEW q \in Seq(Entry), NEW p \in 1..Len(q), NEW now, NEW at, NEW priority,
         InOrder(now, q), NoneBefore(now, q, at, priority)
  PROVE  /\ RemoveAt(q, p) \in Seq(Entry)
         /\ InOrder(now, RemoveAt(q, p))
         /\ NoneBefore(now, RemoveAt(q, p), at, priority)
<1> DEFINE r == RemoveAt(q, p)
           index(i) == IF i < p THEN i ELSE i + 1
<1>1. /\ r \in Seq(Entry) /\ Len(r) = Len(q) - 1
      /\ \A i \in 1..(Len(q) - 1) : r[i] = q[index(i)]
  BY RemoveAtElements
<1>2. \A i \in 1..Len(r) : index(i) \in 1..Len(q) /\ r[i] = q[index(i)]
  BY <1>1, Len(q) \in Nat
<1>3. \A i, j \in 1..Len(r) : i < j => index(i) < index(j)
  BY <1>1, Len(q) \in Nat
<1> HIDE DEF r, index
<1>4. InOrder(now, r) /\ NoneBefore(now, r, at, priority)
  BY <1>2, <1>3 DEF InOrder, NoneBefore
<1> QED BY <1>1, <1>4 DEF r

(* The comparator measures from the counter.  Moving the counter on, to no *)
(* later than the first entry, keeps the order and the bound.              *)
LEMMA OrderAfter ==
  ASSUME NEW q \in Seq(Entry), NEW now \in Time, NEW later \in Time,
         InOrder(now, q), Ahead(now, later) >= 0,
         \A i \in 1..Len(q) : Ahead(now, q[i].at) >= Ahead(now, later)
  PROVE  /\ InOrder(later, q)
         /\ \A at \in Time, priority \in Nat :
                /\ Ahead(now, at) - Ahead(now, later) >= -H
                /\ NoneBefore(now, q, at, priority)
                => NoneBefore(later, q, at, priority)
<1>1. \A i \in 1..Len(q) : q[i].at \in Time
  BY EntryTypes, ElementOfSeq
<1>2. Ahead(now, later) \in Int
  BY AheadRange
<1>3. \A i \in 1..Len(q) : /\ Ahead(now, q[i].at) \in Int
                           /\ Ahead(later, q[i].at) = Ahead(now, q[i].at) - Ahead(now, later)
  BY <1>1, <1>2, AheadRange, AheadAfter
<1>4. InOrder(later, q)
  <2>1. \A i \in 1..Len(q) : Ahead(later, q[i].at) >= 0
    BY <1>2, <1>3
  <2>2. \A i, j \in 1..Len(q) : i < j => ~ After(later, q[j], q[i])
    BY <1>2, <1>3 DEF InOrder, After, Before
  <2> QED BY <2>1, <2>2 DEF InOrder
<1>5. ASSUME NEW at \in Time, NEW priority \in Nat,
             Ahead(now, at) - Ahead(now, later) >= -H,
             NoneBefore(now, q, at, priority)
      PROVE  NoneBefore(later, q, at, priority)
  <2>1. Ahead(now, at) \in Int /\ Ahead(later, at) = Ahead(now, at) - Ahead(now, later)
    BY <1>5, AheadRange, AheadAfter
  <2> QED BY <1>2, <1>3, <1>5, <2>1 DEF NoneBefore, Before
<1> QED BY <1>4, <1>5
-----------------------------------------------------------------------------
(* Steps that actions share                                                *)

(* cycle_scheduler::queue keeps the invariant.                             *)
LEMMA QueueKeepsOrder ==
  ASSUME IInv, NEW at \in Time, NEW f \in Frame, Ahead(cycle_counter, at) >= 0,
         Queue(at, f), UNCHANGED <<cycle_counter, end, ticking>>
  PROVE  /\ queued' \in Seq(Entry) /\ next' \in Time /\ next_priority' \in 0..3
         /\ QueueInOrder' /\ NextIsLowerBound' /\ TickEndsAhead'
<1> DEFINE e == [at |-> at, priority |-> PriorityOf(f), fn |-> f]
<1>1. PriorityOf(f) \in 0..3
  BY DEF PriorityOf, UnitPriority, Frame, Unit, Callback
<1>2. e \in Entry /\ e.at = at /\ e.priority = PriorityOf(f)
  BY <1>1 DEF Entry
<1>3. /\ cycle_counter \in Time /\ end \in Time /\ next \in Time /\ next_priority \in 0..3
      /\ queued \in Seq(Entry) /\ InOrder(cycle_counter, queued)
  BY DEF IInv, TypeOK, QueueInOrder
<1>4. Push(queued, e)
  BY DEF Queue
<1> HIDE DEF e
<1>5. /\ queued' \in Seq(Entry) /\ InOrder(cycle_counter, queued')
      /\ \A i \in 1..Len(queued') : queued'[i] = e \/ \E j \in 1..Len(queued) : queued'[i] = queued[j]
  BY <1>2, <1>3, <1>4, PushKeepsOrder
<1>6. /\ Ahead(cycle_counter, at) \in Int /\ Ahead(cycle_counter, at) < H
      /\ Ahead(cycle_counter, next) \in Int /\ Ahead(cycle_counter, next) >= -H
      /\ Ahead(cycle_counter, end) \in Int /\ Ahead(cycle_counter, end) < H
  BY <1>3, AheadRange
<1>7. NoneBefore(cycle_counter, queued, next, next_priority)
  BY DEF IInv, NextIsLowerBound
<1>8. \A i \in 1..Len(queued) : queued[i].at \in Time /\ queued[i].priority \in 0..3
  BY <1>3, EntryTypes, ElementOfSeq
<1>9. CASE Before(cycle_counter, at, PriorityOf(f), next, next_priority)
  <2>1. next' = at /\ next_priority' = PriorityOf(f)
    BY <1>9 DEF Queue
  <2>2. NoneBefore(cycle_counter, queued', at, PriorityOf(f))
    <3> SUFFICES ASSUME NEW i \in 1..Len(queued')
                 PROVE ~ Before(cycle_counter, queued'[i].at, queued'[i].priority, at, PriorityOf(f))
      BY DEF NoneBefore
    <3>1. CASE queued'[i] = e   BY <3>1, <1>1, <1>2, <1>6 DEF Before
    <3>2. ASSUME NEW j \in 1..Len(queued), queued'[i] = queued[j]
          PROVE  ~ Before(cycle_counter, queued'[i].at, queued'[i].priority, at, PriorityOf(f))
      <4>1. ~ Before(cycle_counter, queued[j].at, queued[j].priority, next, next_priority)
        BY <1>7 DEF NoneBefore
      <4>2. ~ Before(cycle_counter, queued[j].at, queued[j].priority, at, PriorityOf(f))
        BY <4>1, <1>1, <1>3, <1>8, <1>9, BeforeIsTransitive
      <4> QED BY <3>2, <4>2
    <3> QED BY <3>1, <3>2, <1>5
  <2>3. Ahead(cycle_counter, at) <= Ahead(cycle_counter, end)
    BY <1>6, <1>9 DEF IInv, NextIsLowerBound, Before
  <2> QED
    BY <1>1, <1>3, <1>5, <1>6, <2>1, <2>2, <2>3
    DEF IInv, QueueInOrder, NextIsLowerBound, TickEndsAhead
<1>10. CASE ~ Before(cycle_counter, at, PriorityOf(f), next, next_priority)
  <2>1. next' = next /\ next_priority' = next_priority
    BY <1>10 DEF Queue
  <2>2. NoneBefore(cycle_counter, queued', next, next_priority)
    BY <1>2, <1>5, <1>7, <1>10 DEF NoneBefore
  <2> QED
    BY <1>3, <1>5, <2>1, <2>2 DEF IInv, QueueInOrder, NextIsLowerBound, TickEndsAhead
<1> QED BY <1>9, <1>10

(* Resuming a coroutine erases at most one entry.                          *)
LEMMA InterruptibleResumeTypes ==
  ASSUME TypeOK, NEW u \in Unit, NEW at, NEW q \in Seq(Entry), NEW ph \in [Frame -> Phase],
         InterruptibleResume(u, at, q, ph)
  PROVE  /\ phase' \in [Frame -> Phase] /\ current_unit' \in Unit \cup {"debug"}
         /\ queued' = q \/ \E i \in 1..Len(q) : queued' = RemoveAt(q, i)
BY DEF InterruptibleResume, TypeOK, Phase, Frame

LEMMA ResumeTypes ==
  ASSUME TypeOK, NEW u \in Unit, NEW q \in Seq(Entry),
         NEW b \in [Unit -> BOOLEAN], NEW ph \in [Frame -> Phase],
         Resume(u, q, b, ph)
  PROVE  /\ bound' \in [Unit -> BOOLEAN] /\ await' \in [Unit -> Await]
         /\ phase' \in [Frame -> Phase] /\ stack' \in Seq(Frame)
         /\ current_unit' \in Unit \cup {"debug"}
         /\ queued' = q \/ \E i \in 1..Len(q) : queued' = RemoveAt(q, i)
<1>1. stack' \in Seq(Frame)
  BY AppendProperties DEF Resume, TypeOK, Frame
<1>2. await' \in [Unit -> Await]
  BY DEF Resume, TypeOK, Await, NotWaiting, Time, W
<1>3. CASE await[u].kind \in {"sleep", "interrupt"}
  BY <1>1, <1>2, <1>3 DEF Resume, TypeOK, Phase, Frame
<1>4. CASE await[u].kind = "interruptible"
  <2>1. InterruptibleResume(u, await[u].until, q, ph) /\ bound' = [b EXCEPT ![u] = FALSE]
    BY <1>4 DEF Resume
  <2>2. bound' \in [Unit -> BOOLEAN]
    BY <2>1
  <2> QED BY <1>1, <1>2, <2>1, <2>2, InterruptibleResumeTypes
<1> QED BY <1>3, <1>4 DEF Resume

(* Time and the cached bound stand still: erasing an entry, or none, keeps *)
(* the invariant.                                                          *)
LEMMA EraseKeepsOrder ==
  ASSUME IInv, UNCHANGED <<cycle_counter, next, next_priority, end, ticking>>,
         queued' = queued \/ \E i \in 1..Len(queued) : queued' = RemoveAt(queued, i)
  PROVE  queued' \in Seq(Entry) /\ QueueInOrder' /\ NextIsLowerBound' /\ TickEndsAhead'
<1>1. /\ queued \in Seq(Entry) /\ InOrder(cycle_counter, queued)
      /\ NoneBefore(cycle_counter, queued, next, next_priority)
  BY DEF IInv, TypeOK, QueueInOrder, NextIsLowerBound
<1>2. /\ queued' \in Seq(Entry) /\ InOrder(cycle_counter, queued')
      /\ NoneBefore(cycle_counter, queued', next, next_priority)
  BY <1>1, RemoveKeepsOrder
<1> QED BY <1>2 DEF IInv, QueueInOrder, NextIsLowerBound, TickEndsAhead

LEMMA TriggerKeepsIInv ==
  ASSUME IInv, NEW t \in Unit, NEW ph \in [Frame -> Phase], TriggerInterrupt(t, ph),
         UNCHANGED <<cycle_counter, next, next_priority, end, ticking>>
  PROVE  IInv'
<1> DEFINE b == [bound EXCEPT ![t] = FALSE]
<1>1. TypeOK
  BY DEF IInv
<1>2. b \in [Unit -> BOOLEAN] /\ queued \in Seq(Entry)
  BY <1>1 DEF TypeOK
<1>3. CASE ~ bound[t]
  <2>1. UNCHANGED <<current_unit, queued, bound, await, stack>> /\ phase' = ph
        /\ is_triggered' \in [Unit -> BOOLEAN]
    BY <1>1, <1>3 DEF TriggerInterrupt, Resume, TypeOK
  <2> QED BY <1>1, <2>1, EraseKeepsOrder DEF IInv, TypeOK
<1>4. CASE bound[t]
  <2>1. Resume(t, queued, b, ph) /\ UNCHANGED is_triggered
    BY <1>4 DEF TriggerInterrupt
  <2> HIDE DEF b
  <2>2. /\ bound' \in [Unit -> BOOLEAN] /\ await' \in [Unit -> Await]
        /\ phase' \in [Frame -> Phase] /\ stack' \in Seq(Frame)
        /\ current_unit' \in Unit \cup {"debug"}
        /\ queued' = queued \/ \E i \in 1..Len(queued) : queued' = RemoveAt(queued, i)
    BY <1>1, <1>2, <2>1, ResumeTypes
  <2> QED BY <1>1, <2>1, <2>2, EraseKeepsOrder DEF IInv, TypeOK
<1> QED BY <1>3, <1>4
-----------------------------------------------------------------------------
(* The invariant                                                           *)

LEMMA InitIInv == Init => IInv
<1> SUFFICES ASSUME Init PROVE IInv
  OBVIOUS
<1> USE WaitAssumption
<1> DEFINE e == [at |-> StartDelay, priority |-> UnitPriority["cpu"], fn |-> "cpu"]
<1>1. e \in Entry /\ e.at = StartDelay /\ queued = <<e>>
  BY DEF Init, Entry, UnitPriority, Unit, Frame, Time, W
<1>2. queued \in Seq(Entry) /\ Len(queued) = 1 /\ queued[1] = e
  BY <1>1
<1> HIDE DEF e
<1>3. 0 \in Time /\ Ahead(0, 0) = 0 /\ StartDelay \in Time /\ Ahead(0, StartDelay) = StartDelay
  BY DEF Time, Ahead, U32, W
<1>4. TypeOK
  <2>1. await \in [Unit -> Await]
    BY <1>3 DEF Init, Unit, Await, Until, OnInterrupt
  <2>2. phase \in [Frame -> Phase] /\ stack \in Seq(Frame)
    BY DEF Init, Phase
  <2>3. bound \in [Unit -> BOOLEAN] /\ is_triggered \in [Unit -> BOOLEAN] /\ ticking \in BOOLEAN
    BY Zenon DEF Init
  <2>4. next_priority \in 0..3
    BY DEF Init
  <2> QED BY <1>2, <1>3, <2>1, <2>2, <2>3, <2>4 DEF Init, TypeOK
<1>5. QueueInOrder
  BY <1>1, <1>2, <1>3 DEF Init, QueueInOrder, InOrder
<1>6. NextIsLowerBound
  BY <1>1, <1>2, <1>3 DEF Init, NextIsLowerBound, NoneBefore, Before
<1>7. TickEndsAhead
  BY <1>3 DEF Init, TickEndsAhead
<1> QED BY <1>4, <1>5, <1>6, <1>7 DEF IInv

LEMMA TickIInv ==
  ASSUME IInv, NEW n \in TickSizes, Tick(n)
  PROVE  IInv'
<1>1. /\ cycle_counter \in Time /\ next \in Time /\ end = cycle_counter
  BY DEF IInv, TypeOK, Tick, TickEndsAhead
<1>2. n \in 1..(H - 1)
  BY TickAssumption
<1>3. end' \in Time /\ Ahead(cycle_counter, end') = n
  BY <1>1, <1>2, AheadOfSum DEF Tick
<1>4. Lag + n <= H /\ UNCHANGED <<cycle_counter, next, next_priority, queued>> /\ ticking' = TRUE
  BY DEF Tick
<1>5. Lag \in Nat
  BY <1>1 DEF Lag, U32, Time, W
<1>6. Ahead(cycle_counter, next) = -Lag
  BY <1>1, <1>2, <1>4, <1>5, LagIsBehind DEF Lag
<1>7. TypeOK'
  BY <1>3 DEF IInv, TypeOK, Tick
<1> QED
  BY <1>2, <1>3, <1>4, <1>5, <1>6, <1>7
  DEF IInv, QueueInOrder, NextIsLowerBound, TickEndsAhead

LEMMA EndTickIInv ==
  ASSUME IInv, EndTick
  PROVE  IInv'
<1>1. /\ cycle_counter \in Time /\ next \in Time /\ end \in Time
      /\ next_priority \in 0..3 /\ queued \in Seq(Entry)
      /\ InOrder(cycle_counter, queued) /\ NoneBefore(cycle_counter, queued, next, next_priority)
  BY DEF IInv, TypeOK, QueueInOrder, NextIsLowerBound
<1>2. /\ cycle_counter' = end /\ ticking' = FALSE
      /\ UNCHANGED <<next, next_priority, end, queued>>
  BY DEF EndTick
<1>3. /\ Ahead(cycle_counter, end) >= 0 /\ Ahead(cycle_counter, end) \in Int
      /\ Ahead(cycle_counter, next) \in Int
      /\ Ahead(cycle_counter, next) <= Ahead(cycle_counter, end)
      /\ Ahead(cycle_counter, next) - Ahead(cycle_counter, end) >= -H
  BY <1>1, AheadRange DEF IInv, TickEndsAhead, NextIsLowerBound
<1>4. \A i \in 1..Len(queued) : Ahead(cycle_counter, queued[i].at) >= Ahead(cycle_counter, end)
  <2> SUFFICES ASSUME NEW i \in 1..Len(queued)
               PROVE  Ahead(cycle_counter, queued[i].at) >= Ahead(cycle_counter, end)
    OBVIOUS
  <2>1. queued # <<>> /\ Len(queued) \in 1..Len(queued) /\ Last(queued) = queued[Len(queued)]
    BY <1>1, EmptySeq DEF Last
  <2>2. ~ (Ahead(cycle_counter, queued[Len(queued)].at) <= Ahead(cycle_counter, end))
    BY <2>1 DEF EndTick, Due
  <2>3. queued[i].at \in Time /\ queued[Len(queued)].at \in Time
    BY <1>1, <2>1, EntryTypes, ElementOfSeq
  <2>4. i = Len(queued) \/ ~ After(cycle_counter, queued[Len(queued)], queued[i])
    BY <1>1, <2>1 DEF InOrder
  <2>5. Ahead(cycle_counter, queued[Len(queued)].at) <= Ahead(cycle_counter, queued[i].at)
    <3>1. CASE i = Len(queued)   BY <3>1, <1>1, <2>3, AheadRange
    <3>2. CASE i # Len(queued)
      BY <3>2, <1>1, <2>3, <2>4, NotBeforeIsLater DEF After
    <3> QED BY <3>1, <3>2
  <2>6. /\ Ahead(cycle_counter, queued[i].at) \in Int
        /\ Ahead(cycle_counter, queued[Len(queued)].at) \in Int
    BY <1>1, <2>3, AheadRange
  <2> QED BY <1>3, <2>2, <2>5, <2>6
<1>5. /\ InOrder(end, queued) /\ NoneBefore(end, queued, next, next_priority)
  BY <1>1, <1>3, <1>4, OrderAfter
<1>6. Ahead(end, next) = Ahead(cycle_counter, next) - Ahead(cycle_counter, end)
      /\ Ahead(end, end) = 0
  BY <1>1, <1>3, AheadAfter
<1>7. TypeOK'
  BY <1>1 DEF IInv, TypeOK, EndTick
<1> QED
  BY <1>2, <1>3, <1>5, <1>6, <1>7 DEF IInv, QueueInOrder, NextIsLowerBound, TickEndsAhead

(* The new bound that tick() takes from the entry behind the one it runs.  *)
LEMMA NextAfterPop ==
  ASSUME NEW q \in Seq(Entry), NEW now \in Time, end \in Time, InOrder(now, q),
         Ahead(now, end) >= 0,
         IF q # <<>> /\ Ahead(now, Last(q).at) < Ahead(now, end)
         THEN next' = Last(q).at /\ next_priority' = Last(q).priority
         ELSE next' = end /\ next_priority' = 0
  PROVE  /\ next' \in Time /\ next_priority' \in 0..3
         /\ NoneBefore(now, q, next', next_priority')
         /\ Ahead(now, next') <= Ahead(now, end) /\ Ahead(now, next') >= 0
<1>1. Ahead(now, end) \in Int
  BY AheadRange
<1>2. \A i \in 1..Len(q) : q[i].at \in Time /\ q[i].priority \in 0..3 /\ Ahead(now, q[i].at) \in Int
  BY EntryTypes, ElementOfSeq, AheadRange
<1>3. CASE q = <<>>
  <2>1. Len(q) = 0
    BY <1>3
  <2> QED BY <1>1, <1>3, <2>1 DEF NoneBefore
<1>4. CASE q # <<>>
  <2>1. Len(q) \in 1..Len(q) /\ Last(q) = q[Len(q)]
    BY <1>4, EmptySeq DEF Last
  <2>2. \A i \in 1..Len(q) : ~ Before(now, q[i].at, q[i].priority, Last(q).at, Last(q).priority)
    <3> TAKE i \in 1..Len(q)
    <3>1. CASE i = Len(q)   BY <3>1, <2>1, <1>2 DEF Before
    <3>2. CASE i # Len(q)   BY <3>2, <2>1 DEF InOrder, After
    <3> QED BY <3>1, <3>2
  <2>3. CASE Ahead(now, Last(q).at) < Ahead(now, end)
    BY <1>1, <1>2, <1>4, <2>1, <2>2, <2>3 DEF NoneBefore, InOrder
  <2>4. CASE ~ (Ahead(now, Last(q).at) < Ahead(now, end))
    <3>1. \A i \in 1..Len(q) : Ahead(now, q[i].at) >= Ahead(now, Last(q).at)
      BY <1>2, <2>1, <2>2, NotBeforeIsLater
    <3>2. \A i \in 1..Len(q) : ~ Before(now, q[i].at, q[i].priority, end, 0)
      BY <1>1, <1>2, <2>1, <2>4, <3>1 DEF Before
    <3> QED BY <1>1, <2>4, <3>2 DEF NoneBefore
  <2> QED BY <2>3, <2>4
<1> QED BY <1>3, <1>4

LEMMA PopIInv ==
  ASSUME IInv, Pop
  PROVE  IInv'
<1> DEFINE top  == Last(queued)
           rest == Front(queued)
<1>1. /\ cycle_counter \in Time /\ end \in Time /\ queued \in Seq(Entry) /\ queued # <<>>
      /\ InOrder(cycle_counter, queued) /\ Ahead(cycle_counter, end) >= 0
      /\ Ahead(cycle_counter, top.at) <= Ahead(cycle_counter, end)
  BY DEF IInv, TypeOK, QueueInOrder, TickEndsAhead, Pop, Due
<1>2. /\ Len(queued) \in 1..Len(queued) /\ top = queued[Len(queued)] /\ top \in Entry
      /\ rest \in Seq(Entry) /\ Len(rest) = Len(queued) - 1
      /\ \A i \in 1..(Len(queued) - 1) : rest[i] = queued[i]
  BY <1>1, FrontElements DEF Last
<1>3. /\ cycle_counter' = top.at /\ UNCHANGED <<end, is_triggered, ticking>> /\ ticking = TRUE
      /\ IF rest # <<>> /\ Ahead(top.at, Last(rest).at) < Ahead(top.at, end)
         THEN next' = Last(rest).at /\ next_priority' = Last(rest).priority
         ELSE next' = end /\ next_priority' = 0
  BY DEF Pop, IInv, TypeOK
<1>4. \/ /\ queued' = rest /\ stack' = <<Callback>>
         /\ phase' = [phase EXCEPT ![Callback] = "running"]
         /\ UNCHANGED <<current_unit, bound, await>>
      \/ top.fn \in Unit /\ Resume(top.fn, rest, bound, phase)
  BY DEF Pop
<1>5. top.at \in Time /\ Ahead(cycle_counter, top.at) >= 0 /\ Ahead(cycle_counter, top.at) \in Int
      /\ Ahead(cycle_counter, end) \in Int
  BY <1>1, <1>2, EntryTypes, AheadRange DEF InOrder
<1>6. InOrder(cycle_counter, rest)
      /\ \A i \in 1..Len(rest) : Ahead(cycle_counter, rest[i].at) >= Ahead(cycle_counter, top.at)
  <2>1. \A i \in 1..Len(rest) : i \in 1..Len(queued) /\ i < Len(queued) /\ rest[i] = queued[i]
    BY <1>2
  <2>2. InOrder(cycle_counter, rest)
    BY <1>1, <2>1 DEF InOrder
  <2>3. \A i \in 1..Len(rest) : ~ After(cycle_counter, top, rest[i])
    BY <1>1, <1>2, <2>1 DEF InOrder
  <2>4. \A i \in 1..Len(rest) : rest[i].at \in Time
    BY <1>2, EntryTypes, ElementOfSeq
  <2>5. \A i \in 1..Len(rest) : Ahead(cycle_counter, rest[i].at) >= Ahead(cycle_counter, top.at)
    BY <1>1, <1>5, <2>3, <2>4, NotBeforeIsLater DEF After
  <2> QED BY <2>2, <2>5
<1> HIDE DEF top, rest
<1>7. InOrder(top.at, rest)
  BY <1>1, <1>2, <1>5, <1>6, OrderAfter
<1>8. Ahead(top.at, end) >= 0 /\ Ahead(top.at, end) \in Int /\ Ahead(top.at, end) < H
  BY <1>1, <1>5, AheadAfter, AheadRange
<1>9. /\ next' \in Time /\ next_priority' \in 0..3
      /\ NoneBefore(top.at, rest, next', next_priority')
      /\ Ahead(top.at, next') <= Ahead(top.at, end) /\ Ahead(top.at, next') >= 0
  BY <1>1, <1>2, <1>3, <1>5, <1>7, <1>8, NextAfterPop
<1>10. TypeOK /\ bound \in [Unit -> BOOLEAN] /\ phase \in [Frame -> Phase]
  BY DEF IInv, TypeOK
<1>11. /\ bound' \in [Unit -> BOOLEAN] /\ await' \in [Unit -> Await]
       /\ phase' \in [Frame -> Phase] /\ stack' \in Seq(Frame)
       /\ current_unit' \in Unit \cup {"debug"}
       /\ queued' = rest \/ \E i \in 1..Len(rest) : queued' = RemoveAt(rest, i)
  <2>1. CASE top.fn \in Unit /\ Resume(top.fn, rest, bound, phase)
    BY <2>1, <1>2, <1>10, ResumeTypes
  <2>2. CASE /\ queued' = rest /\ stack' = <<Callback>>
             /\ phase' = [phase EXCEPT ![Callback] = "running"]
             /\ UNCHANGED <<current_unit, bound, await>>
    BY <2>2, <1>10 DEF TypeOK, Frame, Callback, Phase
  <2> QED BY <1>4, <2>1, <2>2
<1>12. /\ queued' \in Seq(Entry) /\ InOrder(top.at, queued')
       /\ NoneBefore(top.at, queued', next', next_priority')
  BY <1>2, <1>7, <1>9, <1>11, RemoveKeepsOrder
<1>13. TypeOK'
  BY <1>1, <1>3, <1>5, <1>9, <1>10, <1>11, <1>12 DEF TypeOK
<1>14. Ahead(top.at, next') \in Int
  BY <1>5, <1>9, AheadRange
<1> QED
  BY <1>3, <1>8, <1>9, <1>12, <1>13, <1>14
  DEF IInv, QueueInOrder, NextIsLowerBound, TickEndsAhead

(* The fast path of await_ready is taken in tick() only, and the counter   *)
(* stays behind every entry and behind the cached bound.                   *)
LEMMA FastPathKeepsOrder ==
  ASSUME IInv, NEW u \in Unit, NEW n \in 1..(H - 1), Ready(u, U32(cycle_counter + n))
  PROVE  LET at == U32(cycle_counter + n) IN
         /\ at \in Time /\ ticking = TRUE
         /\ InOrder(at, queued) /\ NoneBefore(at, queued, next, next_priority)
         /\ Ahead(at, next) <= Ahead(at, end) /\ Ahead(at, end) >= 0
         /\ Ahead(at, end) - Ahead(at, next) <= H
<1> DEFINE at == U32(cycle_counter + n)
           p  == UnitPriority[u]
<1>1. /\ cycle_counter \in Time /\ end \in Time /\ next \in Time /\ next_priority \in 0..3
      /\ queued \in Seq(Entry) /\ InOrder(cycle_counter, queued) /\ ticking \in BOOLEAN
      /\ NoneBefore(cycle_counter, queued, next, next_priority)
  BY DEF IInv, TypeOK, QueueInOrder, NextIsLowerBound
<1>2. at \in Time /\ Ahead(cycle_counter, at) = n
  BY <1>1, AheadOfSum
<1>3. p \in 0..3
  BY DEF UnitPriority, Unit
<1> HIDE DEF at, p
<1>4. Before(cycle_counter, at, p, next, next_priority)
  BY DEF Ready, at, p
<1>5. /\ Ahead(cycle_counter, next) \in Int /\ Ahead(cycle_counter, end) \in Int
      /\ n <= Ahead(cycle_counter, next)
      /\ Ahead(cycle_counter, next) <= Ahead(cycle_counter, end)
  <2>1. Ahead(cycle_counter, next) \in Int /\ Ahead(cycle_counter, end) \in Int
    BY <1>1, AheadRange
  <2>2. n <= Ahead(cycle_counter, next)
    BY <1>2, <1>4, <2>1 DEF Before
  <2>3. Ahead(cycle_counter, next) <= Ahead(cycle_counter, end)
    BY DEF IInv, NextIsLowerBound
  <2> QED BY <2>1, <2>2, <2>3
<1>6. ticking = TRUE
  <2> SUFFICES ASSUME ticking = FALSE PROVE FALSE
    BY <1>1
  <2>1. end = cycle_counter
    BY DEF IInv, TickEndsAhead
  <2>2. Ahead(cycle_counter, cycle_counter) = 0
    BY <1>1, HAssumption DEF Ahead, U32, Time, W
  <2> QED BY <1>2, <1>5, <2>1, <2>2
<1>7. \A i \in 1..Len(queued) : Ahead(cycle_counter, queued[i].at) >= Ahead(cycle_counter, at)
  <2> TAKE i \in 1..Len(queued)
  <2>1. queued[i].at \in Time /\ queued[i].priority \in 0..3
    BY <1>1, EntryTypes, ElementOfSeq
  <2>2. ~ Before(cycle_counter, queued[i].at, queued[i].priority, next, next_priority)
    BY <1>1 DEF NoneBefore
  <2>3. ~ Before(cycle_counter, queued[i].at, queued[i].priority, at, p)
    BY <1>1, <1>2, <1>3, <1>4, <2>1, <2>2, BeforeIsTransitive
  <2> QED BY <1>1, <1>2, <2>1, <2>3, NotBeforeIsLater
<1>8. InOrder(at, queued) /\ NoneBefore(at, queued, next, next_priority)
  BY <1>1, <1>2, <1>5, <1>7, OrderAfter
<1>9. /\ Ahead(at, next) = Ahead(cycle_counter, next) - n
      /\ Ahead(at, end) = Ahead(cycle_counter, end) - n
  BY <1>1, <1>2, <1>5, AheadAfter
<1>10. Ahead(cycle_counter, end) - Ahead(cycle_counter, next) <= H
  BY DEF IInv, TickEndsAhead
<1> QED BY <1>2, <1>5, <1>6, <1>8, <1>9, <1>10 DEF at

LEMMA SuspendTypes ==
  ASSUME TypeOK, NEW u \in Unit, NEW w \in Await, Suspend(u, w), stack # <<>>
  PROVE  await' \in [Unit -> Await] /\ phase' \in [Frame -> Phase] /\ stack' \in Seq(Frame)
<1>1. stack \in Seq(Frame)
  BY DEF TypeOK
<1>2. Front(stack) \in Seq(Frame)
  BY <1>1, FrontElements
<1> QED BY <1>2 DEF Suspend, TypeOK, Phase, Frame

LEMMA AwaitCyclesIInv ==
  ASSUME IInv, NEW u \in Unit, NEW n \in Sleep[u], AwaitCycles(u, n)
  PROVE  IInv'
<1> DEFINE at == U32(cycle_counter + n)
<1>1. TypeOK /\ cycle_counter \in Time /\ stack # <<>>
  BY DEF IInv, TypeOK, AwaitCycles
<1>2. n \in 1..(H - 1)
  BY WaitAssumption
<1>3. at \in Time /\ Ahead(cycle_counter, at) = n
  BY <1>1, <1>2, AheadOfSum
<1> HIDE DEF at
<1>4. UNCHANGED <<current_unit, end, bound, is_triggered, ticking>>
  BY DEF AwaitCycles
<1>5. CASE Ready(u, at)
  <2>1. /\ cycle_counter' = at /\ phase' = [phase EXCEPT ![u] = "running"]
        /\ UNCHANGED <<next, next_priority, queued, await, stack>>
    BY <1>5 DEF AwaitCycles, at
  <2>2. /\ at \in Time /\ ticking = TRUE
        /\ InOrder(at, queued) /\ NoneBefore(at, queued, next, next_priority)
        /\ Ahead(at, next) <= Ahead(at, end) /\ Ahead(at, end) >= 0
        /\ Ahead(at, end) - Ahead(at, next) <= H
    BY <1>2, <1>5, FastPathKeepsOrder DEF at
  <2>3. TypeOK'
    BY <1>1, <1>3, <1>4, <2>1 DEF TypeOK, Phase, Frame
  <2> QED
    BY <1>4, <2>1, <2>2, <2>3 DEF IInv, QueueInOrder, NextIsLowerBound, TickEndsAhead
<1>6. CASE ~ Ready(u, at)
  <2>1. Queue(at, u) /\ Suspend(u, Until("sleep", at)) /\ UNCHANGED cycle_counter
    BY <1>6 DEF AwaitCycles, at
  <2>2. /\ queued' \in Seq(Entry) /\ next' \in Time /\ next_priority' \in 0..3
        /\ QueueInOrder' /\ NextIsLowerBound' /\ TickEndsAhead'
    BY <1>2, <1>3, <1>4, <2>1, QueueKeepsOrder DEF Frame
  <2>3. Until("sleep", at) \in Await
    BY <1>3 DEF Until, Await
  <2>4. await' \in [Unit -> Await] /\ phase' \in [Frame -> Phase] /\ stack' \in Seq(Frame)
    BY <1>1, <2>1, <2>3, SuspendTypes
  <2> QED BY <1>1, <1>4, <2>1, <2>2, <2>4 DEF IInv, TypeOK
<1> QED BY <1>5, <1>6

LEMMA AwaitInterruptibleIInv ==
  ASSUME IInv, NEW u \in Unit, NEW n \in InterruptibleSleep[u] \cup AfterPost,
         AwaitInterruptible(u, n)
  PROVE  IInv'
<1> DEFINE at == U32(cycle_counter + n)
<1>1. TypeOK /\ cycle_counter \in Time /\ stack # <<>> /\ queued \in Seq(Entry)
      /\ phase \in [Frame -> Phase] /\ bound \in [Unit -> BOOLEAN]
  BY DEF IInv, TypeOK, AwaitInterruptible
<1>2. n \in 1..(H - 1)
  BY WaitAssumption
<1>3. at \in Time /\ Ahead(cycle_counter, at) = n
  BY <1>1, <1>2, AheadOfSum
<1> HIDE DEF at
<1>4. UNCHANGED <<end, is_triggered, ticking>>
  BY DEF AwaitInterruptible
<1>5. CASE Ready(u, at) \/ is_triggered[u]
  <2> DEFINE now == IF Ready(u, at) THEN at ELSE cycle_counter
  <2>1. /\ cycle_counter' = now /\ bound' = [bound EXCEPT ![u] = FALSE]
        /\ InterruptibleResume(u, at, queued, phase)
        /\ UNCHANGED <<next, next_priority, await, stack>>
    BY <1>5 DEF AwaitInterruptible, at
  <2>2. /\ now \in Time /\ (Ready(u, at) => ticking = TRUE)
        /\ InOrder(now, queued) /\ NoneBefore(now, queued, next, next_priority)
        /\ Ahead(now, next) <= Ahead(now, end) /\ Ahead(now, end) >= 0
        /\ Ahead(now, end) - Ahead(now, next) <= H
        /\ (~ ticking => end = now)
    <3>1. CASE Ready(u, at)
      BY <1>2, <3>1, FastPathKeepsOrder DEF at
    <3>2. CASE ~ Ready(u, at)
      BY <1>1, <3>2 DEF IInv, QueueInOrder, NextIsLowerBound, TickEndsAhead
    <3> QED BY <3>1, <3>2
  <2> HIDE DEF now
  <2>3. /\ phase' \in [Frame -> Phase] /\ current_unit' \in Unit \cup {"debug"}
        /\ queued' = queued \/ \E i \in 1..Len(queued) : queued' = RemoveAt(queued, i)
    BY <1>1, <2>1, InterruptibleResumeTypes
  <2>4. /\ queued' \in Seq(Entry) /\ InOrder(now, queued')
        /\ NoneBefore(now, queued', next, next_priority)
    BY <1>1, <2>2, <2>3, RemoveKeepsOrder
  <2>5. TypeOK'
    BY <1>1, <1>4, <2>1, <2>2, <2>3, <2>4 DEF TypeOK
  <2> QED
    BY <1>4, <2>1, <2>2, <2>4, <2>5 DEF IInv, QueueInOrder, NextIsLowerBound, TickEndsAhead
<1>6. CASE ~ (Ready(u, at) \/ is_triggered[u])
  <2>1. /\ Queue(at, u) /\ bound' = [bound EXCEPT ![u] = TRUE]
        /\ Suspend(u, Until("interruptible", at)) /\ UNCHANGED <<cycle_counter, current_unit>>
    BY <1>6 DEF AwaitInterruptible, at
  <2>2. /\ queued' \in Seq(Entry) /\ next' \in Time /\ next_priority' \in 0..3
        /\ QueueInOrder' /\ NextIsLowerBound' /\ TickEndsAhead'
    BY <1>2, <1>3, <1>4, <2>1, QueueKeepsOrder DEF Frame
  <2>3. Until("interruptible", at) \in Await
    BY <1>3 DEF Until, Await
  <2>4. await' \in [Unit -> Await] /\ phase' \in [Frame -> Phase] /\ stack' \in Seq(Frame)
    BY <1>1, <2>1, <2>3, SuspendTypes
  <2>5. bound' \in [Unit -> BOOLEAN]
    BY <1>1, <2>1
  <2> QED BY <1>1, <1>4, <2>1, <2>2, <2>4, <2>5 DEF IInv, TypeOK
<1> QED BY <1>5, <1>6

LEMMA AwaitInterruptIInv ==
  ASSUME IInv, NEW u \in Unit, AwaitInterrupt(u)
  PROVE  IInv'
<1>1. TypeOK /\ stack # <<>>
  BY DEF IInv, AwaitInterrupt
<1>2. OnInterrupt \in Await
  BY DEF OnInterrupt, Await, Time, W
<1>3. Suspend(u, OnInterrupt)
  BY DEF AwaitInterrupt
<1>4. await' \in [Unit -> Await] /\ phase' \in [Frame -> Phase] /\ stack' \in Seq(Frame)
  BY <1>1, <1>2, <1>3, SuspendTypes
<1>5. /\ UNCHANGED <<cycle_counter, current_unit, next, next_priority, end, queued, ticking>>
      /\ is_triggered' \in [Unit -> BOOLEAN] /\ bound' \in [Unit -> BOOLEAN]
  BY <1>1 DEF AwaitInterrupt, TypeOK
<1>6. queued' \in Seq(Entry) /\ QueueInOrder' /\ NextIsLowerBound' /\ TickEndsAhead'
  BY <1>5, EraseKeepsOrder
<1> QED BY <1>1, <1>4, <1>5, <1>6 DEF IInv, TypeOK

LEMMA TriggerIInv ==
  ASSUME IInv, NEW f \in Frame, NEW t \in Unit, Trigger(f, t)
  PROVE  IInv'
<1> DEFINE ph == [phase EXCEPT ![f] = "triggered"]
<1>1. ph \in [Frame -> Phase]
  BY DEF IInv, TypeOK, Phase
<1> HIDE DEF ph
<1>2. TriggerInterrupt(t, ph) /\ UNCHANGED <<cycle_counter, next, next_priority, end, ticking>>
  BY DEF Trigger, ph
<1> QED BY <1>1, <1>2, TriggerKeepsIInv

LEMMA InputIInv ==
  ASSUME IInv, Input
  PROVE  IInv'
<1>1. phase \in [Frame -> Phase] /\ "cpu" \in Unit
  BY DEF IInv, TypeOK, Unit
<1> QED BY <1>1, TriggerKeepsIInv DEF Input

LEMMA PostIInv ==
  ASSUME IInv, Post
  PROVE  IInv'
<1> DEFINE at == U32(cycle_counter + PostDelay)
<1>1. TypeOK /\ cycle_counter \in Time
  BY DEF IInv, TypeOK
<1>2. at \in Time /\ Ahead(cycle_counter, at) = PostDelay /\ PostDelay \in Nat
  BY <1>1, WaitAssumption, AheadOfSum
<1> HIDE DEF at
<1>3. /\ Queue(at, Callback) /\ phase' = [phase EXCEPT !["ppu"] = "posted"]
      /\ UNCHANGED <<cycle_counter, current_unit, end, bound, is_triggered, await, stack, ticking>>
  BY DEF Post, at
<1>4. /\ queued' \in Seq(Entry) /\ next' \in Time /\ next_priority' \in 0..3
      /\ QueueInOrder' /\ NextIsLowerBound' /\ TickEndsAhead'
  BY <1>2, <1>3, QueueKeepsOrder DEF Frame
<1>5. phase' \in [Frame -> Phase]
  BY <1>1, <1>3 DEF TypeOK, Phase
<1> QED BY <1>1, <1>3, <1>4, <1>5 DEF IInv, TypeOK

LEMMA ReturnIInv ==
  ASSUME IInv, Return
  PROVE  IInv'
<1>1. TypeOK /\ stack # <<>> /\ stack \in Seq(Frame)
  BY DEF IInv, TypeOK, Return
<1>2. /\ stack' = Front(stack) /\ phase' = [phase EXCEPT ![Callback] = "idle"]
      /\ UNCHANGED <<cycle_counter, current_unit, next, next_priority, end, queued,
                     bound, is_triggered, await, ticking>>
  BY DEF Return
<1>3. stack' \in Seq(Frame) /\ phase' \in [Frame -> Phase]
  BY <1>1, <1>2, FrontElements DEF TypeOK, Phase
<1>4. queued' \in Seq(Entry) /\ QueueInOrder' /\ NextIsLowerBound' /\ TickEndsAhead'
  BY <1>2, EraseKeepsOrder
<1> QED BY <1>1, <1>2, <1>3, <1>4 DEF IInv, TypeOK

LEMMA StutterIInv ==
  ASSUME IInv, UNCHANGED vars
  PROVE  IInv'
BY DEF IInv, vars, TypeOK, QueueInOrder, NextIsLowerBound, TickEndsAhead

LEMMA NextIInv == IInv /\ [Next]_vars => IInv'
<1> SUFFICES ASSUME IInv, [Next]_vars PROVE IInv'
  OBVIOUS
<1>1. CASE Input                                          BY <1>1, InputIInv
<1>2. ASSUME NEW n \in TickSizes, Tick(n) PROVE IInv'     BY <1>2, TickIInv
<1>3. CASE Pop                                            BY <1>3, PopIInv
<1>4. CASE EndTick                                        BY <1>4, EndTickIInv
<1>5. ASSUME NEW u \in Unit, NEW n \in Sleep[u], AwaitCycles(u, n) PROVE IInv'
  BY <1>5, AwaitCyclesIInv
<1>6. ASSUME NEW u \in Unit, NEW n \in InterruptibleSleep[u] \cup AfterPost,
             AwaitInterruptible(u, n)
      PROVE  IInv'
  BY <1>6, AwaitInterruptibleIInv
<1>7. ASSUME NEW u \in Unit, AwaitInterrupt(u) PROVE IInv'
  BY <1>7, AwaitInterruptIInv
<1>8. ASSUME NEW f \in Frame, NEW t \in Unit, Trigger(f, t) PROVE IInv'
  BY <1>8, TriggerIInv
<1>9. CASE Post                                           BY <1>9, PostIInv
<1>10. CASE Return                                        BY <1>10, ReturnIInv
<1>11. CASE UNCHANGED vars                                BY <1>11, StutterIInv
<1> QED
  BY <1>1, <1>2, <1>3, <1>4, <1>5, <1>6, <1>7, <1>8, <1>9, <1>10, <1>11
  DEF Next, Host, Coroutine

(* The invariant holds in every reachable state, for every modulus.        *)
THEOREM Invariance == Spec => []IInv
BY InitIInv, NextIInv, PTL DEF Spec

-----------------------------------------------------------------------------
(* What follows from it                                                    *)

(* Every variable keeps its type.                                          *)
THEOREM TypeCorrect == Spec => []TypeOK
<1>1. IInv => TypeOK
  BY DEF IInv
<1> QED BY <1>1, Invariance, PTL

(* The queue stays sorted and nothing in it is ever past due, although the *)
(* fast path of await_ready moves the counter without looking at the queue *)
(* (gb_cycle_scheduler.h:145-155).                                         *)
THEOREM QueueStaysInOrder == Spec => []QueueInOrder
<1>1. IInv => QueueInOrder
  BY DEF IInv
<1> QED BY <1>1, Invariance, PTL

(* The cached bound `next` is never undercut by a queued entry.            *)
THEOREM NextStaysLowerBound == Spec => []NextIsLowerBound
<1>1. IInv => NextIsLowerBound
  BY DEF IInv
<1> QED BY <1>1, Invariance, PTL
-----------------------------------------------------------------------------
(* The queue as a set                                                      *)

\* The entries of a queue, no two of which share a key
EntriesIn(q) == {q[i] : i \in 1..Len(q)}
UniqueKeys(q) == \A i, j \in 1..Len(q) : SameKey(q[i], q[j].at, q[j].priority) => i = j

(* Pushing an entry with a new key adds it to the set (utils.h:149-158).   *)
LEMMA PushAdds ==
  ASSUME NEW q \in Seq(Entry), NEW e \in Entry, Push(q, e), UniqueKeys(q),
         \A x \in EntriesIn(q) : ~ SameKey(x, e.at, e.priority)
  PROVE  EntriesIn(queued') = EntriesIn(q) \cup {e} /\ UniqueKeys(queued')
<1>1. PICK p \in 1..(Len(q) + 1) : queued' = InsertAt(q, p, e)
  BY DEF Push
<1> DEFINE r == InsertAt(q, p, e)
<1>2. /\ Len(r) = Len(q) + 1 /\ Len(q) \in Nat
      /\ \A i \in 1..(Len(q) + 1) : r[i] = IF i < p THEN q[i] ELSE IF i = p THEN e ELSE q[i - 1]
  BY InsertAtElements
<1> HIDE DEF r
<1> DEFINE from(i) == IF i < p THEN i ELSE i - 1
           to(i) == IF i < p THEN i ELSE i + 1
<1>3. /\ r[p] = e /\ p \in 1..Len(r)
      /\ \A i \in 1..Len(r) : i # p => from(i) \in 1..Len(q) /\ r[i] = q[from(i)]
      /\ \A i \in 1..Len(q) : to(i) \in 1..Len(r) /\ r[to(i)] = q[i]
      /\ \A i, j \in 1..Len(r) : i # p /\ j # p /\ from(i) = from(j) => i = j
  BY <1>2
<1> HIDE DEF from, to
<1>4. EntriesIn(r) = EntriesIn(q) \cup {e}
  <2>1. ASSUME NEW x \in EntriesIn(r) PROVE x \in EntriesIn(q) \cup {e}
    <3>1. PICK i \in 1..Len(r) : x = r[i]
      BY DEF EntriesIn
    <3> QED BY <1>3, <3>1 DEF EntriesIn
  <2>2. ASSUME NEW x \in EntriesIn(q) PROVE x \in EntriesIn(r)
    <3>1. PICK i \in 1..Len(q) : x = q[i]
      BY DEF EntriesIn
    <3> QED BY <1>3, <3>1 DEF EntriesIn
  <2>3. e \in EntriesIn(r)
    BY <1>3 DEF EntriesIn
  <2> QED BY <2>1, <2>2, <2>3
<1>5. UniqueKeys(r)
  <2> SUFFICES ASSUME NEW i \in 1..Len(r), NEW j \in 1..Len(r), SameKey(r[i], r[j].at, r[j].priority)
               PROVE  i = j
    BY DEF UniqueKeys
  <2>1. \A k \in 1..Len(q) : ~ SameKey(q[k], e.at, e.priority) /\ ~ SameKey(e, q[k].at, q[k].priority)
    BY DEF EntriesIn, SameKey
  <2>2. CASE i = p \/ j = p
    BY <1>3, <2>1, <2>2
  <2>3. CASE i # p /\ j # p
    <3>1. from(i) \in 1..Len(q) /\ from(j) \in 1..Len(q) /\ r[i] = q[from(i)] /\ r[j] = q[from(j)]
      BY <1>3, <2>3
    <3>2. from(i) = from(j)
      BY <3>1 DEF UniqueKeys
    <3> QED BY <1>3, <2>3, <3>2
  <2> QED BY <2>2, <2>3
<1> QED BY <1>1, <1>4, <1>5 DEF r

(* Erasing an entry takes it, and no other, out of the set (utils.h:142).  *)
LEMMA RemoveTakes ==
  ASSUME NEW q \in Seq(Entry), NEW p \in 1..Len(q), UniqueKeys(q)
  PROVE  EntriesIn(RemoveAt(q, p)) = EntriesIn(q) \ {q[p]} /\ UniqueKeys(RemoveAt(q, p))
<1> DEFINE r == RemoveAt(q, p)
           index(i) == IF i < p THEN i ELSE i + 1
           back(i) == IF i < p THEN i ELSE i - 1
<1>1. /\ Len(r) = Len(q) - 1 /\ Len(q) \in Nat
      /\ \A i \in 1..(Len(q) - 1) : r[i] = q[index(i)]
  BY RemoveAtElements
<1> HIDE DEF r
<1>2. /\ \A i \in 1..Len(r) : index(i) \in 1..Len(q) /\ index(i) # p /\ r[i] = q[index(i)]
      /\ \A i \in 1..Len(q) : i # p => back(i) \in 1..Len(r) /\ r[back(i)] = q[i]
      /\ \A i, j \in 1..Len(r) : index(i) = index(j) => i = j
  <2>1. \A i \in 1..Len(r) : index(i) \in 1..Len(q) /\ index(i) # p /\ r[i] = q[index(i)]
    BY <1>1
  <2>2. ASSUME NEW i \in 1..Len(q), i # p PROVE back(i) \in 1..Len(r) /\ r[back(i)] = q[i]
    <3>1. back(i) \in 1..Len(r) /\ index(back(i)) = i
      BY <1>1, <2>2
    <3> QED BY <2>1, <3>1
  <2>3. \A i, j \in 1..Len(r) : index(i) = index(j) => i = j
    BY <1>1
  <2> QED BY <2>1, <2>2, <2>3
<1> HIDE DEF index, back
<1>3. \A i \in 1..Len(q) : i # p => q[i] # q[p]
  BY DEF UniqueKeys, SameKey
<1>4. EntriesIn(r) = EntriesIn(q) \ {q[p]}
  <2>1. ASSUME NEW x \in EntriesIn(r) PROVE x \in EntriesIn(q) \ {q[p]}
    <3>1. PICK i \in 1..Len(r) : x = r[i]
      BY DEF EntriesIn
    <3> QED BY <1>2, <1>3, <3>1 DEF EntriesIn
  <2>2. ASSUME NEW x \in EntriesIn(q) \ {q[p]} PROVE x \in EntriesIn(r)
    <3>1. PICK i \in 1..Len(q) : x = q[i]
      BY DEF EntriesIn
    <3> QED BY <1>2, <3>1 DEF EntriesIn
  <2> QED BY <2>1, <2>2
<1>5. UniqueKeys(r)
  BY <1>2 DEF UniqueKeys
<1> QED BY <1>4, <1>5 DEF r

(* So does popping the last one (gb_cycle_scheduler.cpp:22-24).            *)
LEMMA FrontTakes ==
  ASSUME NEW q \in Seq(Entry), q # <<>>, UniqueKeys(q)
  PROVE  /\ Last(q) \in EntriesIn(q)
         /\ EntriesIn(Front(q)) = EntriesIn(q) \ {Last(q)} /\ UniqueKeys(Front(q))
<1> DEFINE r == Front(q)
<1>1. /\ Len(q) \in Nat /\ Len(q) >= 1 /\ Len(r) = Len(q) - 1 /\ Last(q) = q[Len(q)]
      /\ \A i \in 1..(Len(q) - 1) : r[i] = q[i]
  BY FrontElements DEF Last
<1> HIDE DEF r
<1>2. /\ Len(q) \in 1..Len(q)
      /\ \A i \in 1..Len(r) : i \in 1..Len(q) /\ i # Len(q) /\ r[i] = q[i]
      /\ \A i \in 1..Len(q) : i # Len(q) => i \in 1..Len(r) /\ r[i] = q[i]
  BY <1>1
<1>3. \A i \in 1..Len(q) : i # Len(q) => q[i] # q[Len(q)]
  BY <1>2 DEF UniqueKeys, SameKey
<1>4. EntriesIn(r) = EntriesIn(q) \ {q[Len(q)]}
  <2>1. ASSUME NEW x \in EntriesIn(r) PROVE x \in EntriesIn(q) \ {q[Len(q)]}
    <3>1. PICK i \in 1..Len(r) : x = r[i]
      BY DEF EntriesIn
    <3> QED BY <1>2, <1>3, <3>1 DEF EntriesIn
  <2>2. ASSUME NEW x \in EntriesIn(q) \ {q[Len(q)]} PROVE x \in EntriesIn(r)
    <3>1. PICK i \in 1..Len(q) : x = q[i]
      BY DEF EntriesIn
    <3> QED BY <1>2, <3>1 DEF EntriesIn
  <2> QED BY <2>1, <2>2
<1>5. UniqueKeys(r)
  BY <1>2 DEF UniqueKeys
<1> QED BY <1>1, <1>2, <1>4, <1>5 DEF r, EntriesIn

(* The last entry runs before all others (gb_cycle_scheduler.cpp:20-22).   *)
LEMMA LastRunsFirst ==
  ASSUME NEW q \in Seq(Entry), q # <<>>, NEW now \in Time, InOrder(now, q),
         NEW e \in EntriesIn(q)
  PROVE  e = Last(q) \/ ~ Before(now, e.at, e.priority, Last(q).at, Last(q).priority)
<1>1. Len(q) \in Nat /\ Len(q) >= 1 /\ Last(q) = q[Len(q)]
  BY FrontElements DEF Last
<1>2. PICK i \in 1..Len(q) : e = q[i]
  BY DEF EntriesIn
<1> QED BY <1>1, <1>2 DEF InOrder, After

(* Each entry is an Entry, and none is past due.                           *)
LEMMA EntriesAhead ==
  ASSUME NEW q \in Seq(Entry), NEW now \in Time, InOrder(now, q), NEW e \in EntriesIn(q)
  PROVE  e \in Entry /\ e.at \in Time /\ e.fn \in Frame /\ Ahead(now, e.at) \in 0..(H - 1)
<1>1. PICK i \in 1..Len(q) : e = q[i]
  BY DEF EntriesIn
<1>2. e \in Entry
  BY <1>1, ElementOfSeq
<1>3. e.at \in Time /\ e.fn \in Frame
  BY <1>2, EntryTypes
<1>4. Ahead(now, e.at) >= 0
  BY <1>1 DEF InOrder
<1> QED BY <1>2, <1>3, <1>4, AheadRange
-----------------------------------------------------------------------------
(* The call stack                                                          *)

NoRepeat(s) == \A j, k \in 1..Len(s) : s[j] = s[k] => j = k
InStack(s, f) == \E k \in 1..Len(s) : s[k] = f

(* Calling a frame that is not on the stack                                *)
LEMMA Called ==
  ASSUME NEW s \in Seq(Frame), NEW u \in Frame, NoRepeat(s), ~ InStack(s, u)
  PROVE  LET t == Append(s, u) IN
         /\ t \in Seq(Frame) /\ Len(t) = Len(s) + 1 /\ Len(s) \in Nat
         /\ \A k \in 1..Len(s) : t[k] = s[k]
         /\ t[Len(s) + 1] = u /\ Last(t) = u /\ t # <<>>
         /\ NoRepeat(t)
         /\ \A f : InStack(t, f) <=> InStack(s, f) \/ f = u
<1> DEFINE t == Append(s, u)
<1>1. /\ t \in Seq(Frame) /\ Len(t) = Len(s) + 1 /\ Len(s) \in Nat
      /\ \A k \in 1..Len(s) : t[k] = s[k]
      /\ t[Len(s) + 1] = u
  BY AppendProperties
<1> HIDE DEF t
<1>2. Last(t) = u /\ t # <<>>
  BY <1>1, EmptySeq DEF Last
<1>3. NoRepeat(t)
  BY <1>1 DEF NoRepeat, InStack
<1>4. \A f : InStack(t, f) <=> InStack(s, f) \/ f = u
  <2> TAKE f
  <2>1. ASSUME InStack(t, f) PROVE InStack(s, f) \/ f = u
    <3>1. PICK k \in 1..Len(t) : t[k] = f
      BY <2>1 DEF InStack
    <3>2. k \in 1..Len(s) \/ k = Len(s) + 1
      BY <1>1
    <3> QED BY <1>1, <3>1, <3>2 DEF InStack
  <2>2. ASSUME InStack(s, f) PROVE InStack(t, f)
    <3>1. PICK k \in 1..Len(s) : s[k] = f
      BY <2>2 DEF InStack
    <3>2. k \in 1..Len(t)
      BY <1>1
    <3> QED BY <1>1, <3>1, <3>2 DEF InStack
  <2>3. InStack(t, u)
    <3>1. Len(s) + 1 \in 1..Len(t)
      BY <1>1
    <3> QED BY <1>1, <3>1 DEF InStack
  <2> QED BY <2>1, <2>2, <2>3
<1> QED BY <1>1, <1>2, <1>3, <1>4 DEF t

(* The innermost frame returning to its caller                             *)
LEMMA Returned ==
  ASSUME NEW s \in Seq(Frame), s # <<>>, NoRepeat(s)
  PROVE  LET t == Front(s) IN
         /\ t \in Seq(Frame) /\ Len(t) = Len(s) - 1 /\ Len(s) \in Nat /\ Len(s) >= 1
         /\ \A k \in 1..Len(t) : t[k] = s[k] /\ k \in 1..Len(s)
         /\ Last(s) = s[Len(s)] /\ Last(s) \in Frame
         /\ NoRepeat(t)
         /\ \A f : InStack(t, f) <=> InStack(s, f) /\ f # Last(s)
         /\ InStack(s, Last(s))
<1> DEFINE t == Front(s)
<1>1. /\ t \in Seq(Frame) /\ Len(t) = Len(s) - 1 /\ Len(s) \in Nat /\ Len(s) >= 1
      /\ \A k \in 1..(Len(s) - 1) : t[k] = s[k]
      /\ Last(s) = s[Len(s)] /\ Last(s) \in Frame
  BY FrontElements DEF Last
<1> HIDE DEF t
<1>2. /\ \A k \in 1..Len(t) : t[k] = s[k] /\ k \in 1..Len(s) /\ k # Len(s)
      /\ \A k \in 1..Len(s) : k # Len(s) => k \in 1..Len(t) /\ t[k] = s[k]
      /\ Len(s) \in 1..Len(s)
  BY <1>1
<1>3. NoRepeat(t)
  BY <1>2 DEF NoRepeat
<1>4. \A f : InStack(t, f) <=> InStack(s, f) /\ f # Last(s)
  <2> TAKE f
  <2>1. ASSUME InStack(t, f) PROVE InStack(s, f) /\ f # Last(s)
    BY <1>1, <1>2, <2>1 DEF InStack, NoRepeat
  <2>2. ASSUME InStack(s, f), f # Last(s) PROVE InStack(t, f)
    BY <1>1, <1>2, <2>2 DEF InStack
  <2> QED BY <2>1, <2>2
<1>5. InStack(s, Last(s))
  BY <1>1, <1>2 DEF InStack
<1> QED BY <1>1, <1>2, <1>3, <1>4, <1>5 DEF t
-----------------------------------------------------------------------------
(* Waits and frames                                                        *)

\* What the clients of the scheduler do, with one exception: the PPU waits
\* interruptibly only, nobody but the CPU wakes it (a write to LCDC), and the
\* wait that follows a call of update_stat outlasts the callback it queues.
\* The exception is the wait for line 153 (gb_ppu.cpp:513).
PpuClients ==
    /\ Sleep["ppu"] = {}
    /\ \A f \in Frame \ {"cpu"} : "ppu" \notin Triggers[f]
    /\ \A n \in AfterPost : n > PostDelay

Pending == EntriesIn(queued)
EntryOf(f, at) == [at |-> at, priority |-> PriorityOf(f), fn |-> f]
Left(e) == Ahead(cycle_counter, e.at)
OnStack(f) == InStack(stack, f)

EntriesKeyed == \A e \in Pending : e.priority = PriorityOf(e.fn)

\* WakeUpsMatchAwait, said of the set
WaitsMatch == \A u \in Unit :
    /\ bound[u] <=> await[u].kind \in {"interruptible", "interrupt"}
    /\ await[u].kind \in {"sleep", "interruptible"} => EntryOf(u, await[u].until) \in Pending
    /\ \A e \in Pending : e.fn = u => await[u].kind \in {"sleep", "interruptible"} /\ e.at = await[u].until
    /\ await[u].kind = "none" <=> OnStack(u)

FramesMatch ==
    /\ NoRepeat(stack)
    /\ \A k \in 2..Len(stack) : stack[k] = "ppu" => stack[k - 1] = "cpu"
    /\ \A f \in Frame : phase[f] = "idle" <=> ~ OnStack(f)
    /\ \A f \in Frame : phase[f] = "posted" => f = "ppu" /\ Last(stack) = f

\* current_unit is the unit that tick() resumed, whatever ran nested in it,
\* or one that the callback called directly
RunningIsCurrent ==
    /\ \A u \in Unit : phase[u] = "running" => current_unit = u
    /\ ticking /\ stack # <<>> /\ stack[1] \in Unit => current_unit = stack[1]
    /\ Len(stack) >= 3 /\ stack[1] = Callback => current_unit = stack[2]

\* The callbacks run before the PPU does
PostedNow == \E e \in Pending : e.fn = Callback /\ Left(e) = PostDelay
CallbacksFirst ==
    /\ ~ is_triggered["ppu"] /\ await["ppu"].kind # "sleep"
    /\ \A c \in Pending : c.fn = Callback =>
           /\ Left(c) <= PostDelay
           /\ \A e \in Pending : e.fn = "ppu" => Left(c) < Left(e)
           /\ phase["ppu"] # "running"
    /\ phase["ppu"] = "posted" => PostedNow

\* Once the PPU runs, the CPU has run as far as it can in this cycle
CpuHasRun ==
    /\ OnStack("ppu") \/ PostedNow => /\ phase["cpu"] # "running"
                                      /\ \A e \in Pending : e.fn = "cpu" => Left(e) # 0
    /\ PostedNow => phase["ppu"] \in {"idle", "posted"}

Matches ==
    /\ UniqueKeys(queued) /\ EntriesKeyed
    /\ WaitsMatch /\ FramesMatch /\ RunningIsCurrent
    /\ CallbacksFirst /\ CpuHasRun

CInv == IInv /\ Matches

(* What IInv and Matches say of an entry                                   *)
LEMMA PendingEntries ==
  ASSUME IInv, EntriesKeyed, NEW e \in Pending
  PROVE  /\ e.at \in Time /\ e.fn \in Frame /\ Left(e) \in 0..(H - 1)
         /\ e = EntryOf(e.fn, e.at) /\ e.priority = PriorityOf(e.fn)
<1>1. /\ queued \in Seq(Entry) /\ cycle_counter \in Time /\ InOrder(cycle_counter, queued)
  BY DEF IInv, TypeOK, QueueInOrder
<1>2. e \in Entry /\ e.at \in Time /\ e.fn \in Frame /\ Ahead(cycle_counter, e.at) \in 0..(H - 1)
  BY <1>1, EntriesAhead DEF Pending
<1>3. e.priority = PriorityOf(e.fn)
  BY DEF EntriesKeyed
<1> QED BY <1>2, <1>3 DEF Entry, EntryOf, Left

(* The priorities are those of the three units.                            *)
LEMMA Priorities ==
  /\ UnitPriority["dma"] = 1 /\ UnitPriority["cpu"] = 2 /\ UnitPriority["ppu"] = 3
  /\ PriorityOf(Callback) = 3 /\ PriorityOf("ppu") = 3 /\ PriorityOf("cpu") = 2 /\ PriorityOf("dma") = 1
  /\ \A u \in Unit : PriorityOf(u) = UnitPriority[u] /\ UnitPriority[u] \in 1..3
  /\ \A u \in Unit : u # Callback
  /\ \A f \in Frame, u \in Unit : PriorityOf(f) = PriorityOf(u) => f = u \/ (f = Callback /\ u = "ppu")
BY DEF PriorityOf, UnitPriority, Unit, Callback, Frame

(* The fast path of await_ready: no entry lies before the time it moves    *)
(* to, and every entry is so much nearer (gb_cycle_scheduler.h:145-155).   *)
LEMMA FastPathFacts ==
  ASSUME IInv, EntriesKeyed, NEW u \in Unit, NEW n \in 1..(H - 1), NEW at, at = U32(cycle_counter + n),
         Ready(u, at)
  PROVE  /\ ticking /\ current_unit = u /\ at \in Time
         /\ \A e \in Pending : /\ Left(e) >= n /\ Ahead(at, e.at) = Left(e) - n
                               /\ Left(e) = n => e.priority >= UnitPriority[u]
<1>1. /\ cycle_counter \in Time /\ next \in Time /\ next_priority \in 0..3
      /\ NoneBefore(cycle_counter, queued, next, next_priority)
  BY DEF IInv, TypeOK, NextIsLowerBound
<1>2. at \in Time /\ Ahead(cycle_counter, at) = n
  BY <1>1, AheadOfSum
<1>3. ticking
  BY FastPathKeepsOrder
<1>4. current_unit = u /\ Before(cycle_counter, at, UnitPriority[u], next, next_priority)
  BY DEF Ready
<1>5. UnitPriority[u] \in Int
  BY Priorities
<1>6. ASSUME NEW e \in Pending
      PROVE  /\ Left(e) >= n /\ Ahead(at, e.at) = Left(e) - n
             /\ Left(e) = n => e.priority >= UnitPriority[u]
  <2>1. e.at \in Time /\ Left(e) \in 0..(H - 1) /\ e.priority \in Int
    BY PendingEntries, Priorities DEF PriorityOf, Frame
  <2>2. ~ Before(cycle_counter, e.at, e.priority, next, next_priority)
    BY <1>1 DEF NoneBefore, Pending, EntriesIn
  <2>3. ~ Before(cycle_counter, e.at, e.priority, at, UnitPriority[u])
    BY <1>1, <1>2, <1>4, <1>5, <2>1, <2>2, BeforeIsTransitive
  <2>4. Left(e) >= n /\ (Left(e) = n => e.priority >= UnitPriority[u])
    BY <1>2, <1>5, <2>1, <2>3 DEF Before, Left
  <2>5. Ahead(at, e.at) = Ahead(cycle_counter, e.at) - Ahead(cycle_counter, at)
    BY <1>1, <1>2, <2>1, <2>4, AheadAfter DEF Left
  <2> QED BY <1>2, <2>4, <2>5 DEF Left
<1> QED BY <1>2, <1>3, <1>4, <1>6

(* tick() runs the first entry: no other lies before it, and every entry   *)
(* is nearer by the time it was ahead (gb_cycle_scheduler.cpp:20-36).      *)
LEMMA PopFacts ==
  ASSUME IInv, EntriesKeyed, UniqueKeys(queued), queued # <<>>, NEW top, top = Last(queued)
  PROVE  /\ top \in Pending /\ top.at \in Time /\ top.fn \in Frame /\ Left(top) \in 0..(H - 1)
         /\ \A e \in Pending : /\ Left(e) >= Left(top) /\ Ahead(top.at, e.at) = Left(e) - Left(top)
                               /\ Left(e) = Left(top) => e.priority >= top.priority
         /\ EntriesIn(Front(queued)) = Pending \ {top} /\ UniqueKeys(Front(queued))
<1>1. /\ queued \in Seq(Entry) /\ cycle_counter \in Time /\ InOrder(cycle_counter, queued)
  BY DEF IInv, TypeOK, QueueInOrder
<1>2. /\ top \in Pending
      /\ EntriesIn(Front(queued)) = Pending \ {top} /\ UniqueKeys(Front(queued))
  BY <1>1, FrontTakes DEF Pending
<1>3. top.at \in Time /\ top.fn \in Frame /\ Left(top) \in 0..(H - 1) /\ top.priority \in Int
  BY <1>2, PendingEntries, Priorities DEF PriorityOf, Frame
<1>4. ASSUME NEW e \in Pending
      PROVE  /\ Left(e) >= Left(top) /\ Ahead(top.at, e.at) = Left(e) - Left(top)
             /\ Left(e) = Left(top) => e.priority >= top.priority
  <2>1. e.at \in Time /\ Left(e) \in 0..(H - 1) /\ e.priority \in Int
    BY PendingEntries, Priorities DEF PriorityOf, Frame
  <2>2. e = top \/ ~ Before(cycle_counter, e.at, e.priority, top.at, top.priority)
    BY <1>1, LastRunsFirst DEF Pending
  <2>3. Left(e) >= Left(top) /\ (Left(e) = Left(top) => e.priority >= top.priority)
    BY <1>3, <2>1, <2>2 DEF Before, Left
  <2>4. Ahead(top.at, e.at) = Ahead(cycle_counter, e.at) - Ahead(cycle_counter, top.at)
    BY <1>1, <1>3, <2>1, <2>3, AheadAfter DEF Left
  <2> QED BY <2>3, <2>4 DEF Left
<1> QED BY <1>2, <1>3, <1>4
-----------------------------------------------------------------------------
(* What the steps do                                                       *)

(* Queueing an entry under a new key (gb_cycle_scheduler.cpp:6-14).        *)
LEMMA QueueAdds ==
  ASSUME IInv, Matches, NEW f \in Frame, NEW at \in Time, Queue(at, f),
         \A e \in Pending : ~ SameKey(e, at, PriorityOf(f))
  PROVE  Pending' = Pending \cup {EntryOf(f, at)} /\ UniqueKeys(queued')
<1> DEFINE e == EntryOf(f, at)
<1>1. e \in Entry /\ e.at = at /\ e.priority = PriorityOf(f)
  BY Priorities DEF Entry, EntryOf, PriorityOf, Frame
<1>2. queued \in Seq(Entry) /\ UniqueKeys(queued) /\ Push(queued, e)
  BY DEF IInv, TypeOK, Matches, Queue, EntryOf
<1> HIDE DEF e
<1>3. EntriesIn(queued') = EntriesIn(queued) \cup {e} /\ UniqueKeys(queued')
  BY <1>1, <1>2, PushAdds DEF Pending
<1> QED BY <1>3 DEF Pending, e

(* An interrupt wakes a unit: its entry, if it has one, leaves the queue   *)
(* (gb_cycle_scheduler.cpp:52-69).                                         *)
LEMMA WakeEffect ==
  ASSUME IInv, Matches, NEW t \in Unit, NEW ph \in [Frame -> Phase], TriggerInterrupt(t, ph), bound[t]
  PROVE  /\ stack' = Append(stack, t) /\ ~ OnStack(t)
         /\ await' = [await EXCEPT ![t] = NotWaiting]
         /\ bound' = [bound EXCEPT ![t] = FALSE]
         /\ UNCHANGED <<current_unit, is_triggered>>
         /\ \E w \in {"woken", "interrupted"} : phase' = [ph EXCEPT ![t] = w]
         /\ Pending' = {e \in Pending : e.fn # t} /\ UniqueKeys(queued')
<1> DEFINE b == [bound EXCEPT ![t] = FALSE]
           at == await[t].until
<1>1. /\ Resume(t, queued, b, ph) /\ UNCHANGED is_triggered
  BY DEF TriggerInterrupt
<1>2. /\ await[t].kind \in {"interruptible", "interrupt"}
      /\ await[t].kind = "interruptible" => EntryOf(t, at) \in Pending
      /\ \A e \in Pending : e.fn = t => await[t].kind = "interruptible" /\ e.at = at
      /\ ~ OnStack(t)
  BY DEF Matches, WaitsMatch
<1>3. queued \in Seq(Entry) /\ UniqueKeys(queued)
  BY DEF IInv, TypeOK, Matches
<1>4. stack' = Append(stack, t) /\ await' = [await EXCEPT ![t] = NotWaiting]
  BY <1>1 DEF Resume
<1>5. CASE await[t].kind = "interrupt"
  <2>1. queued' = queued /\ bound' = b /\ phase' = [ph EXCEPT ![t] = "woken"] /\ UNCHANGED current_unit
    BY <1>1, <1>5 DEF Resume
  <2>2. Pending' = {e \in Pending : e.fn # t}
    BY <1>2, <1>5, <2>1 DEF Pending
  <2> QED BY <1>1, <1>2, <1>3, <1>4, <2>1, <2>2
<1>6. CASE await[t].kind = "interruptible"
  <2> DEFINE e0 == EntryOf(t, at)
  <2>1. e0 \in Pending /\ e0.at = at /\ e0.priority = UnitPriority[t] /\ e0.fn = t
    BY <1>2, <1>6, Priorities DEF EntryOf
  <2>2. \A e \in Pending : e.fn = t => e = e0
    BY <1>2, PendingEntries DEF Matches
  <2>3. InterruptibleResume(t, at, queued, ph) /\ bound' = [b EXCEPT ![t] = FALSE]
    BY <1>1, <1>6 DEF Resume
  <2> HIDE DEF e0
  <2>4. PICK j \in 1..Len(queued) : queued[j] = e0
    BY <2>1 DEF Pending, EntriesIn
  <2>5. SameKey(queued[j], at, UnitPriority[t])
    BY <2>1, <2>4 DEF SameKey
  <2>6. PICK i \in 1..Len(queued) :
            /\ IsFirstWithKey(queued, i, at, UnitPriority[t])
            /\ queued' = RemoveAt(queued, i)
            /\ phase' = [ph EXCEPT ![t] = "interrupted"]
            /\ UNCHANGED current_unit
    BY <2>3, <2>5 DEF InterruptibleResume
  <2>7. i = j
    BY <1>3, <2>5, <2>6 DEF IsFirstWithKey, UniqueKeys, SameKey
  <2>8. EntriesIn(queued') = EntriesIn(queued) \ {e0} /\ UniqueKeys(queued')
    BY <1>3, <2>4, <2>6, <2>7, RemoveTakes
  <2>9. Pending' = {e \in Pending : e.fn # t}
    BY <2>1, <2>2, <2>8 DEF Pending
  <2>10. bound' = b
    BY <2>3 DEF IInv, TypeOK
  <2> QED BY <1>1, <1>2, <1>4, <2>6, <2>8, <2>9, <2>10
<1> QED BY <1>2, <1>5, <1>6

(* tick() resumes a unit: its wait has timed out (gb_cycle_scheduler.cpp:18-41). *)
LEMMA TimeoutEffect ==
  ASSUME IInv, Matches, Pop, NEW u \in Unit, Last(queued).fn = u
  PROVE  /\ cycle_counter' = Last(queued).at
         /\ stack = <<>> /\ stack' = <<u>> /\ ticking /\ ~ OnStack(u)
         /\ await[u].kind \in {"sleep", "interruptible"}
         /\ await' = [await EXCEPT ![u] = NotWaiting]
         /\ bound' = [bound EXCEPT ![u] = FALSE]
         /\ phase' = [phase EXCEPT ![u] = "running"] /\ current_unit' = u
         /\ UNCHANGED <<is_triggered, ticking>>
         /\ Pending' = Pending \ {Last(queued)} /\ UniqueKeys(queued')
<1> DEFINE top == Last(queued)
           rest == Front(queued)
           at == await[u].until
<1>1. /\ stack = <<>> /\ ticking /\ queued # <<>> /\ cycle_counter' = top.at
      /\ UNCHANGED <<is_triggered, ticking>>
  BY DEF Pop, Due
<1>2. Resume(u, rest, bound, phase)
  BY Priorities DEF Pop
<1>3. queued \in Seq(Entry) /\ UniqueKeys(queued)
  BY DEF IInv, TypeOK, Matches
<1>4. /\ top \in Pending /\ top.priority = UnitPriority[u]
      /\ EntriesIn(rest) = Pending \ {top} /\ UniqueKeys(rest)
  BY <1>1, PopFacts, PendingEntries, Priorities DEF Matches
<1>5. /\ await[u].kind \in {"sleep", "interruptible"} /\ top.at = at
      /\ bound[u] <=> await[u].kind = "interruptible"
  BY <1>4 DEF Matches, WaitsMatch
<1>6. stack' = <<u>> /\ await' = [await EXCEPT ![u] = NotWaiting] /\ ~ OnStack(u)
  <2>1. stack' = Append(stack, u) /\ await' = [await EXCEPT ![u] = NotWaiting]
    BY <1>2 DEF Resume
  <2>2. Append(<<>>, u) = <<u>> /\ Len(<<>>) = 0
    OBVIOUS
  <2> QED BY <1>1, <2>1, <2>2 DEF OnStack, InStack
<1>7. bound \in [Unit -> BOOLEAN]
  BY DEF IInv, TypeOK
<1>8. CASE await[u].kind = "sleep"
  <2>1. queued' = rest /\ bound' = bound /\ phase' = [phase EXCEPT ![u] = "running"] /\ current_unit' = u
    BY <1>2, <1>8 DEF Resume
  <2>2. bound' = [bound EXCEPT ![u] = FALSE]
    BY <1>5, <1>7, <1>8, <2>1
  <2> QED BY <1>1, <1>4, <1>5, <1>6, <2>1, <2>2 DEF Pending
<1>9. CASE await[u].kind = "interruptible"
  <2>1. InterruptibleResume(u, at, rest, phase) /\ bound' = [bound EXCEPT ![u] = FALSE]
    BY <1>2, <1>9 DEF Resume
  <2>2. \A i \in 1..Len(rest) : ~ SameKey(rest[i], at, UnitPriority[u])
    <3>1. /\ Len(queued) \in Nat /\ Len(queued) >= 1 /\ top = queued[Len(queued)]
          /\ Len(rest) = Len(queued) - 1 /\ \A i \in 1..(Len(queued) - 1) : rest[i] = queued[i]
      BY <1>1, <1>3, FrontElements DEF Last
    <3> SUFFICES ASSUME NEW i \in 1..Len(rest), SameKey(rest[i], at, UnitPriority[u]) PROVE FALSE
      OBVIOUS
    <3>2. SameKey(queued[i], queued[Len(queued)].at, queued[Len(queued)].priority)
      BY <1>4, <1>5, <3>1 DEF SameKey
    <3>3. i \in 1..Len(queued) /\ Len(queued) \in 1..Len(queued) /\ i # Len(queued)
      BY <3>1
    <3> QED BY <1>3, <3>2, <3>3 DEF UniqueKeys
  <2>3. queued' = rest /\ phase' = [phase EXCEPT ![u] = "running"] /\ current_unit' = u
    BY <2>1, <2>2 DEF InterruptibleResume, IsFirstWithKey
  <2> QED BY <1>1, <1>4, <1>5, <1>6, <2>1, <2>3 DEF Pending
<1> QED BY <1>5, <1>8, <1>9

(* tick() calls the callback (gb_cycle_scheduler.cpp:18-41).               *)
LEMMA CallbackEffect ==
  ASSUME IInv, Matches, Pop, Last(queued).fn = Callback
  PROVE  /\ cycle_counter' = Last(queued).at
         /\ stack = <<>> /\ stack' = <<Callback>> /\ ticking
         /\ phase' = [phase EXCEPT ![Callback] = "running"]
         /\ UNCHANGED <<current_unit, bound, await, is_triggered, ticking>>
         /\ Pending' = Pending \ {Last(queued)} /\ UniqueKeys(queued')
<1>1. /\ stack = <<>> /\ ticking /\ queued # <<>> /\ cycle_counter' = Last(queued).at
      /\ UNCHANGED <<is_triggered, ticking>>
  BY DEF Pop, Due
<1>2. /\ queued' = Front(queued) /\ stack' = <<Callback>>
      /\ phase' = [phase EXCEPT ![Callback] = "running"]
      /\ UNCHANGED <<current_unit, bound, await>>
  BY Priorities DEF Pop
<1>3. EntriesIn(Front(queued)) = Pending \ {Last(queued)} /\ UniqueKeys(Front(queued))
  BY <1>1, PopFacts DEF Matches
<1> QED BY <1>1, <1>2, <1>3 DEF Pending
-----------------------------------------------------------------------------
(* Waits and frames match after every step                                 *)

(* A running frame is on the stack and waits for nothing.                  *)
LEMMA RunsFacts ==
  ASSUME IInv, Matches, NEW f \in Frame, Runs(f)
  PROVE  /\ stack \in Seq(Frame) /\ stack # <<>> /\ Len(stack) >= 1 /\ Last(stack) = f /\ stack[Len(stack)] = f
         /\ OnStack(f) /\ phase[f] # "idle"
         /\ f \in Unit => await[f].kind = "none" /\ bound[f] = FALSE
         /\ f \in Unit => \A e \in Pending : e.fn # f
<1>1. stack \in Seq(Frame) /\ stack # <<>> /\ Last(stack) = f /\ NoRepeat(stack) /\ bound \in [Unit -> BOOLEAN]
  BY DEF IInv, TypeOK, Matches, FramesMatch
<1>2. OnStack(f) /\ Len(stack) >= 1 /\ stack[Len(stack)] = f
  BY <1>1, Returned DEF OnStack
<1> QED BY <1>1, <1>2 DEF Matches, FramesMatch, WaitsMatch

(* The current unit runs nested in the PPU never.                          *)
LEMMA NothingAbovePpu ==
  ASSUME IInv, Matches, NEW u \in Unit, Runs(u), ticking, current_unit = u, OnStack("ppu")
  PROVE  u = "ppu"
<1>1. PICK k \in 1..Len(stack) : stack[k] = "ppu"
  BY DEF OnStack, InStack
<1>2. Len(stack) \in Nat /\ Len(stack) >= 1 /\ stack[Len(stack)] = u /\ stack # <<>>
  BY RunsFacts, LenProperties DEF Frame, IInv, TypeOK
<1>3. NoRepeat(stack)
  BY DEF Matches, FramesMatch
<1>4. stack[1] \in Unit \cup {Callback}
  BY <1>2, ElementOfSeq DEF IInv, TypeOK, Frame
<1>5. CASE stack[1] \in Unit
  <2>1. stack[1] = u
    BY <1>2, <1>5 DEF Matches, RunningIsCurrent
  <2>2. Len(stack) = 1
    BY <1>2, <1>3, <2>1 DEF NoRepeat
  <2> QED BY <1>1, <1>2, <2>2
<1>6. CASE stack[1] = Callback /\ k < Len(stack)
  <2>1. k # 1
    BY <1>1, <1>6 DEF Callback
  <2>2. Len(stack) >= 3 /\ 2 \in 1..Len(stack) /\ Len(stack) \in 1..Len(stack)
    BY <1>1, <1>2, <1>6, <2>1
  <2>3. stack[2] = u
    BY <1>6, <2>2 DEF Matches, RunningIsCurrent
  <2>4. Len(stack) = 2
    BY <1>2, <1>3, <2>2, <2>3 DEF NoRepeat
  <2> QED BY <2>2, <2>4
<1> QED BY <1>1, <1>2, <1>4, <1>5, <1>6

(* Waking a unit, from input() or from a frame that has not yet triggered  *)
(* (gb_interrupt.h:22-38, gb_emu.cpp:151-157).                             *)
LEMMA WakeMatches ==
  ASSUME PpuClients, IInv, Matches, NEW t \in Unit, NEW ph \in [Frame -> Phase],
         TriggerInterrupt(t, ph), bound[t], UNCHANGED <<cycle_counter, ticking>>,
         \/ stack = <<>> /\ t = "cpu" /\ ph = phase /\ ~ ticking
         \/ \E f \in Frame : /\ Runs(f) /\ t \in Triggers[f] /\ ph = [phase EXCEPT ![f] = "triggered"]
                             /\ phase[f] # "posted" /\ (f \in {"cpu", "dma"} => phase[f] = "running")
  PROVE  Matches'
<1>1. /\ stack' = Append(stack, t) /\ ~ OnStack(t)
      /\ await' = [await EXCEPT ![t] = NotWaiting]
      /\ bound' = [bound EXCEPT ![t] = FALSE]
      /\ UNCHANGED <<current_unit, is_triggered>>
      /\ Pending' = {e \in Pending : e.fn # t} /\ UniqueKeys(queued')
  BY WakeEffect
<1>2. PICK w \in {"woken", "interrupted"} : phase' = [ph EXCEPT ![t] = w]
  BY WakeEffect
<1>3. /\ await \in [Unit -> Await] /\ bound \in [Unit -> BOOLEAN] /\ phase \in [Frame -> Phase]
      /\ stack \in Seq(Frame) /\ t \in Frame
  BY DEF IInv, TypeOK, Frame
<1>4. /\ stack' \in Seq(Frame) /\ Len(stack') = Len(stack) + 1 /\ Len(stack) \in Nat
      /\ \A k \in 1..Len(stack) : stack'[k] = stack[k]
      /\ stack'[Len(stack) + 1] = t /\ Last(stack') = t /\ stack' # <<>>
      /\ NoRepeat(stack')
      /\ \A f : OnStack(f)' <=> OnStack(f) \/ f = t
  BY <1>1, <1>3, Called DEF OnStack, Matches, FramesMatch
<1>5. phase'[t] = w /\ \A g \in Frame : g # t => phase'[g] = phase[g] \/ (phase'[g] = "triggered" /\ Runs(g))
  BY <1>2, <1>3 DEF Runs
<1>6. \A g \in Frame : phase'[g] # "posted"
  <2> SUFFICES ASSUME NEW g \in Frame, phase'[g] = "posted" PROVE FALSE
    OBVIOUS
  <2>1. g # t /\ phase[g] = "posted" /\ ph[g] = "posted"
    BY <1>2, <1>3, <1>5
  <2>2. stack # <<>> /\ Last(stack) = g
    BY <2>1 DEF Matches, FramesMatch, OnStack, InStack
  <2> QED BY <1>3, <2>1, <2>2
<1>7. \A e : Left(e)' = Left(e)
  BY DEF Left
<1>8. t = "ppu" => Runs("cpu") /\ phase["cpu"] = "running"
  BY DEF PpuClients
<1>9. EntriesKeyed'
  BY <1>1 DEF Matches, EntriesKeyed
<1>10. WaitsMatch'
  <2> SUFFICES ASSUME NEW v \in Unit
               PROVE  /\ bound'[v] <=> await'[v].kind \in {"interruptible", "interrupt"}
                      /\ await'[v].kind \in {"sleep", "interruptible"} => EntryOf(v, await'[v].until) \in Pending'
                      /\ \A e \in Pending' : e.fn = v => await'[v].kind \in {"sleep", "interruptible"} /\ e.at = await'[v].until
                      /\ await'[v].kind = "none" <=> OnStack(v)'
    BY DEF WaitsMatch
  <2>1. CASE v = t
    BY <1>1, <1>3, <1>4, <2>1 DEF NotWaiting
  <2>2. CASE v # t
    <3>1. await'[v] = await[v] /\ bound'[v] = bound[v] /\ (OnStack(v)' <=> OnStack(v))
      BY <1>1, <1>3, <1>4, <2>2
    <3> QED BY <1>1, <2>2, <3>1 DEF Matches, WaitsMatch, EntryOf
  <2> QED BY <2>1, <2>2
<1>11. FramesMatch'
  <2>1. ASSUME NEW k \in 2..Len(stack'), stack'[k] = "ppu" PROVE stack'[k - 1] = "cpu"
    <3>1. CASE k = Len(stack) + 1
      <4>1. Runs("cpu") /\ k - 1 \in 1..Len(stack) /\ k - 1 = Len(stack)
        BY <1>4, <1>8, <2>1, <3>1
      <4> QED BY <1>4, <4>1 DEF Last
    <3>2. CASE k # Len(stack) + 1
      <4>1. k \in 2..Len(stack) /\ k \in 1..Len(stack) /\ k - 1 \in 1..Len(stack)
        BY <1>4, <3>2
      <4> QED BY <1>4, <2>1, <4>1 DEF Matches, FramesMatch
    <3> QED BY <3>1, <3>2
  <2>2. ASSUME NEW g \in Frame PROVE phase'[g] = "idle" <=> ~ OnStack(g)'
    <3>1. CASE g = t
      BY <1>4, <1>5, <3>1
    <3>2. CASE g # t
      <4>1. phase[g] = "idle" <=> ~ OnStack(g)
        BY DEF Matches, FramesMatch
      <4>2. Runs(g) => OnStack(g)
        BY RunsFacts
      <4> QED BY <1>4, <1>5, <3>2, <4>1, <4>2
    <3> QED BY <3>1, <3>2
  <2> QED BY <1>4, <1>6, <2>1, <2>2 DEF FramesMatch
<1>12. RunningIsCurrent'
  <2>1. \A u \in Unit : phase'[u] = "running" => current_unit' = u
    BY <1>1, <1>5 DEF Matches, RunningIsCurrent, Frame
  <2>2. ticking' /\ stack' # <<>> /\ stack'[1] \in Unit => current_unit' = stack'[1]
    <3> SUFFICES ASSUME ticking, stack'[1] \in Unit PROVE current_unit = stack'[1]
      BY <1>1
    <3>1. stack # <<>> /\ 1 \in 1..Len(stack)
      BY <1>3, EmptySeq
    <3> QED BY <1>4, <3>1 DEF Matches, RunningIsCurrent
  <2>3. Len(stack') >= 3 /\ stack'[1] = Callback => current_unit' = stack'[2]
    <3>0. Len(stack') >= 3 => (Len(stack) >= 3 \/ Len(stack) = 2) /\ stack'[1] = stack[1] /\ stack'[2] = stack[2]
      <4>1. Len(stack') = Len(stack) + 1 /\ Len(stack) \in Nat
        BY <1>4
      <4>2. \A n \in Nat : n + 1 >= 3 => (n >= 3 \/ n = 2)
        OBVIOUS
      <4>3. Len(stack') >= 3 => (Len(stack) >= 3 \/ Len(stack) = 2)
        BY <4>1, <4>2
      <4>4. Len(stack') >= 3 => 1 \in 1..Len(stack) /\ 2 \in 1..Len(stack)
        BY <4>1
      <4>5. \A k \in 1..Len(stack) : stack'[k] = stack[k]
        BY <1>4
      <4> QED BY <4>3, <4>4, <4>5
    <3> SUFFICES ASSUME Len(stack) >= 3 \/ Len(stack) = 2, stack[1] = Callback PROVE current_unit = stack[2]
      BY <1>1, <3>0
    <3>1. CASE Len(stack) >= 3
      BY <3>1 DEF Matches, RunningIsCurrent
    <3>2. CASE Len(stack) = 2
      <4>1. PICK f \in Frame : Runs(f) /\ (f \in {"cpu", "dma"} => phase[f] = "running")
        <5>1. stack # <<>>
          BY <3>2
        <5> QED BY <5>1
      <4>2. f = stack[2]
        BY <3>2, <4>1 DEF Last
      <4>3. f # "ppu" /\ f # Callback
        BY <3>2, <4>2 DEF Matches, FramesMatch, NoRepeat, Callback
      <4>4. f \in Unit /\ phase[f] = "running"
        BY <4>1, <4>3 DEF Frame, Unit
      <4>5. current_unit = f
        BY <4>4 DEF Matches, RunningIsCurrent
      <4> QED BY <4>2, <4>5
    <3> QED BY <3>1, <3>2
  <2> QED BY <2>1, <2>2, <2>3 DEF RunningIsCurrent
<1>13. CallbacksFirst'
  <2>1. phase'["ppu"] # "running" \/ phase["ppu"] = "running"
    BY <1>5 DEF Frame, Unit
  <2>2. await'["ppu"].kind # "sleep"
    BY <1>1, <1>3 DEF Matches, CallbacksFirst, NotWaiting, Unit
  <2>3. "ppu" \in Frame
    BY DEF Frame, Unit
  <2> QED BY <1>1, <1>6, <1>7, <2>1, <2>2, <2>3 DEF Matches, CallbacksFirst
<1>14. CpuHasRun'
  <2>1. PostedNow' => PostedNow
    BY <1>1, <1>7 DEF PostedNow
  <2>2. "ppu" \in Frame /\ "cpu" \in Frame /\ "cpu" \in Unit /\ "ppu" \in Unit
    BY DEF Frame, Unit
  <2>3. ASSUME OnStack("ppu")' \/ PostedNow'
        PROVE  phase'["cpu"] # "running" /\ \A e \in Pending' : e.fn = "cpu" => Left(e)' # 0
    <3>1. CASE OnStack("ppu") \/ PostedNow
      BY <1>1, <1>5, <1>7, <2>2, <3>1 DEF Matches, CpuHasRun
    <3>2. CASE t = "ppu"
      <4>1. Runs("cpu") /\ phase'["cpu"] = "triggered"
        BY <1>2, <1>3, <1>8, <2>2, <3>2
      <4> QED BY <1>1, <2>2, <4>1, RunsFacts
    <3> QED BY <1>4, <2>1, <2>3, <3>1, <3>2
  <2>4. ASSUME PostedNow' PROVE phase'["ppu"] \in {"idle", "posted"}
    <3>1. phase["cpu"] # "running" /\ phase["ppu"] \in {"idle", "posted"} /\ t # "ppu"
      BY <1>8, <2>1, <2>4 DEF Matches, CpuHasRun
    <3>2. Runs("ppu") => phase["ppu"] = "posted"
      BY <2>2, <3>1, RunsFacts
    <3>3. phase'["ppu"] = phase["ppu"]
      <4>1. CASE stack = <<>>
        BY <1>2, <1>3, <2>2, <3>1, <4>1 DEF Runs
      <4>2. CASE stack # <<>>
        <5>1. PICK f \in Frame : Runs(f) /\ ph = [phase EXCEPT ![f] = "triggered"] /\ phase[f] # "posted"
          BY <4>2
        <5>2. f # "ppu"
          BY <3>2, <5>1
        <5> QED BY <1>2, <1>3, <2>2, <3>1, <5>1, <5>2
      <4> QED BY <4>1, <4>2
    <3> QED BY <3>1, <3>3
  <2> QED BY <2>3, <2>4 DEF CpuHasRun
<1> QED BY <1>1, <1>9, <1>10, <1>11, <1>12, <1>13, <1>14 DEF Matches

(* A frame triggers an interrupt (gb_interrupt.h:22-38).                   *)
LEMMA TriggerMatches ==
  ASSUME PpuClients, IInv, Matches, NEW f \in Frame, NEW t \in Unit, Trigger(f, t)
  PROVE  Matches'
<1> DEFINE ph == [phase EXCEPT ![f] = "triggered"]
<1>1. /\ Runs(f) /\ t \in Triggers[f] /\ TriggerInterrupt(t, ph) /\ ph \in [Frame -> Phase]
      /\ phase[f] # "posted" /\ (f \in {"cpu", "dma"} => phase[f] = "running")
      /\ UNCHANGED <<cycle_counter, ticking>>
  <2>1. phase \in [Frame -> Phase]
    BY DEF IInv, TypeOK
  <2>2. ph \in [Frame -> Phase]
    BY <2>1 DEF Phase
  <2> QED BY <2>2 DEF Trigger
<1>2. CASE bound[t]
  BY <1>1, <1>2, WakeMatches
<1>3. CASE ~ bound[t]
  <2>1. /\ UNCHANGED <<current_unit, queued, bound, await, stack>> /\ phase' = ph
        /\ is_triggered' = [is_triggered EXCEPT ![t] = TRUE]
    BY <1>1, <1>3 DEF TriggerInterrupt
  <2>2. t # "ppu"
    <3> SUFFICES ASSUME t = "ppu" PROVE FALSE
      OBVIOUS
    <3>1. f = "cpu" /\ phase["cpu"] = "running"
      BY <1>1 DEF PpuClients
    <3>2. ~ OnStack("ppu")
      BY <3>1 DEF Matches, CpuHasRun
    <3>3. await["ppu"].kind \notin {"none", "sleep"} /\ await["ppu"].kind \notin {"interruptible", "interrupt"}
      BY <1>3, <3>2 DEF Matches, WaitsMatch, CallbacksFirst, Unit
    <3>4. await["ppu"] \in Await
      BY DEF IInv, TypeOK, Unit
    <3> QED BY <3>3, <3>4 DEF Await
  <2>3. phase \in [Frame -> Phase] /\ is_triggered \in [Unit -> BOOLEAN]
    BY DEF IInv, TypeOK
  <2>4. /\ Pending' = Pending /\ \A e : Left(e)' = Left(e)
        /\ \A g : OnStack(g)' <=> OnStack(g)
        /\ PostedNow' <=> PostedNow
    <3>1. Pending' = Pending
      BY <2>1 DEF Pending
    <3>2. \A e : Left(e)' = Left(e)
      BY <1>1 DEF Left
    <3>3. \A g : OnStack(g)' <=> OnStack(g)
      BY <2>1 DEF OnStack
    <3> QED BY <3>1, <3>2, <3>3 DEF PostedNow
  <2>5. \A g \in Frame : phase'[g] = phase[g] \/ (phase'[g] = "triggered" /\ g = f)
    BY <2>1, <2>3
  <2>6. OnStack(f) /\ phase[f] # "idle" /\ Last(stack) = f
    BY <1>1, RunsFacts
  <2>7. UniqueKeys(queued') /\ EntriesKeyed' /\ WaitsMatch'
    BY <2>1, <2>4 DEF Matches, EntriesKeyed, WaitsMatch, EntryOf
  <2>8. FramesMatch'
    BY <2>1, <2>4, <2>5, <2>6 DEF Matches, FramesMatch
  <2>9. RunningIsCurrent'
    BY <1>1, <2>1, <2>5 DEF Matches, RunningIsCurrent, Frame
  <2>10. "ppu" \in Frame /\ "cpu" \in Frame /\ "ppu" \in Unit
    BY DEF Frame, Unit
  <2>11. CallbacksFirst'
    <3>1. is_triggered'["ppu"] = is_triggered["ppu"]
      BY <2>1, <2>2, <2>3, <2>10
    <3>2. phase'["ppu"] = "running" => phase["ppu"] = "running"
      BY <2>5, <2>10
    <3>3. phase'["ppu"] = "posted" => phase["ppu"] = "posted"
      BY <2>5, <2>10
    <3> QED BY <2>1, <2>4, <3>1, <3>2, <3>3 DEF Matches, CallbacksFirst
  <2>12. CpuHasRun'
    <3>1. phase'["cpu"] = "running" => phase["cpu"] = "running"
      BY <2>5, <2>10
    <3>2. PostedNow => phase'["ppu"] = phase["ppu"]
      BY <1>1, <2>5, <2>6, <2>10 DEF Matches, CpuHasRun
    <3> QED BY <2>4, <3>1, <3>2 DEF Matches, CpuHasRun
  <2> QED BY <2>7, <2>8, <2>9, <2>11, <2>12 DEF Matches
<1> QED BY <1>2, <1>3

(* input() between two ticks (gb_emu.cpp:151-157)                          *)
LEMMA InputMatches ==
  ASSUME PpuClients, IInv, Matches, Input
  PROVE  Matches'
<1>1. /\ stack = <<>> /\ ~ ticking /\ TriggerInterrupt("cpu", phase) /\ phase \in [Frame -> Phase]
      /\ "cpu" \in Unit /\ UNCHANGED <<cycle_counter, ticking>>
  BY DEF Input, IInv, TypeOK, Unit
<1>2. CASE bound["cpu"]
  BY <1>1, <1>2, WakeMatches
<1>3. CASE ~ bound["cpu"]
  <2>1. /\ UNCHANGED <<current_unit, queued, bound, await, stack, phase>>
        /\ is_triggered' = [is_triggered EXCEPT !["cpu"] = TRUE]
    BY <1>1, <1>3 DEF TriggerInterrupt
  <2>2. is_triggered'["ppu"] = is_triggered["ppu"]
    BY <2>1 DEF IInv, TypeOK, Unit
  <2>3. /\ Pending' = Pending /\ \A e : Left(e)' = Left(e)
        /\ \A g : OnStack(g)' <=> OnStack(g)
        /\ PostedNow' <=> PostedNow
    <3>1. Pending' = Pending
      BY <2>1 DEF Pending
    <3>2. \A e : Left(e)' = Left(e)
      BY <1>1 DEF Left
    <3>3. \A g : OnStack(g)' <=> OnStack(g)
      BY <2>1 DEF OnStack
    <3> QED BY <3>1, <3>2, <3>3 DEF PostedNow
  <2>4. UniqueKeys(queued') /\ EntriesKeyed' /\ WaitsMatch'
    BY <2>1, <2>3 DEF Matches, EntriesKeyed, WaitsMatch, EntryOf
  <2>5. FramesMatch' /\ RunningIsCurrent'
    BY <1>1, <2>1, <2>3 DEF Matches, FramesMatch, RunningIsCurrent
  <2>6. CallbacksFirst' /\ CpuHasRun'
    BY <2>1, <2>2, <2>3 DEF Matches, CallbacksFirst, CpuHasRun
  <2> QED BY <2>4, <2>5, <2>6 DEF Matches
<1> QED BY <1>2, <1>3

(* Suspending until a time, an interrupt, or whichever comes first         *)
(* (gb_cycle_scheduler.h:165-187, gb_interrupt.h:23-26).                   *)
LEMMA SuspendMatches ==
  ASSUME IInv, Matches, NEW u \in Unit, Runs(u), NEW w \in Await, Suspend(u, w),
         w.kind # "none", bound' = [bound EXCEPT ![u] = (w.kind # "sleep")],
         UniqueKeys(queued'),
         Pending' = IF w.kind = "interrupt" THEN Pending ELSE Pending \cup {EntryOf(u, w.until)},
         UNCHANGED <<cycle_counter, current_unit, ticking>>,
         ~ is_triggered'["ppu"],
         u = "ppu" => /\ w.kind # "sleep"
                      /\ w.kind = "interruptible" =>
                           \A c \in Pending : c.fn = Callback => Left(c) < Left(EntryOf(u, w.until)),
         w.kind # "interrupt" => Left(EntryOf(u, w.until)) > 0
  PROVE  Matches'
<1> DEFINE new == EntryOf(u, w.until)
<1>1. /\ stack \in Seq(Frame) /\ stack # <<>> /\ Last(stack) = u /\ OnStack(u)
      /\ await[u].kind = "none" /\ \A e \in Pending : e.fn # u
  BY RunsFacts DEF Frame
<1>2. /\ await \in [Unit -> Await] /\ bound \in [Unit -> BOOLEAN] /\ phase \in [Frame -> Phase]
      /\ u \in Frame /\ "ppu" \in Frame /\ "cpu" \in Frame /\ "ppu" \in Unit /\ u # Callback
  BY DEF IInv, TypeOK, Frame, Unit, Callback
<1>3. /\ stack' = Front(stack)
      /\ await' = [await EXCEPT ![u] = w] /\ phase' = [phase EXCEPT ![u] = "idle"]
  BY DEF Suspend
<1>4. /\ Len(stack') = Len(stack) - 1 /\ Len(stack) \in Nat /\ Len(stack) >= 1
      /\ \A k \in 1..Len(stack') : stack'[k] = stack[k] /\ k \in 1..Len(stack)
      /\ NoRepeat(stack')
      /\ \A f : OnStack(f)' <=> OnStack(f) /\ f # u
  BY <1>1, <1>3, Returned DEF OnStack, Matches, FramesMatch
<1>5. \A e : Left(e)' = Left(e)
  BY DEF Left
<1>6. /\ new.fn = u /\ new.at = w.until /\ new.priority = PriorityOf(u)
      /\ \A e \in Pending' : e \in Pending \/ (e = new /\ w.kind # "interrupt")
      /\ Pending \subseteq Pending'
      /\ w.kind # "interrupt" => new \in Pending'
  BY DEF EntryOf
<1> HIDE DEF new
<1>7. \A g \in Frame : g # u => phase'[g] = phase[g]
  BY <1>2, <1>3
<1>8. phase'[u] = "idle" /\ \A g \in Frame : phase'[g] # "posted"
  BY <1>1, <1>2, <1>3, <1>7 DEF Matches, FramesMatch
<1>9. EntriesKeyed'
  BY <1>6 DEF Matches, EntriesKeyed
<1>10. WaitsMatch'
  <2> SUFFICES ASSUME NEW v \in Unit
               PROVE  /\ bound'[v] <=> await'[v].kind \in {"interruptible", "interrupt"}
                      /\ await'[v].kind \in {"sleep", "interruptible"} => EntryOf(v, await'[v].until) \in Pending'
                      /\ \A e \in Pending' : e.fn = v => await'[v].kind \in {"sleep", "interruptible"} /\ e.at = await'[v].until
                      /\ await'[v].kind = "none" <=> OnStack(v)'
    BY DEF WaitsMatch
  <2>1. CASE v = u
    <3>1. await'[v] = w /\ bound'[v] = (w.kind # "sleep") /\ ~ OnStack(v)'
      BY <1>2, <1>3, <1>4, <2>1
    <3>2. w.kind \in {"sleep", "interruptible", "interrupt"}
      BY DEF Await
    <3>3. w.kind \in {"sleep", "interruptible"} => EntryOf(v, w.until) \in Pending'
      BY <1>6, <2>1 DEF new
    <3>4. \A e \in Pending' : e.fn = v => w.kind \in {"sleep", "interruptible"} /\ e.at = w.until
      BY <1>1, <1>6, <2>1, <3>2
    <3> QED BY <3>1, <3>2, <3>3, <3>4
  <2>2. CASE v # u
    <3>1. await'[v] = await[v] /\ bound'[v] = bound[v] /\ (OnStack(v)' <=> OnStack(v))
      BY <1>2, <1>3, <1>4, <2>2
    <3> QED BY <1>6, <2>2, <3>1 DEF Matches, WaitsMatch
  <2> QED BY <2>1, <2>2
<1>11. FramesMatch'
  <2>1. ASSUME NEW k \in 2..Len(stack'), stack'[k] = "ppu" PROVE stack'[k - 1] = "cpu"
    <3>1. k \in 1..Len(stack') /\ k - 1 \in 1..Len(stack') /\ k \in 2..Len(stack)
      BY <1>4
    <3> QED BY <1>4, <2>1, <3>1 DEF Matches, FramesMatch
  <2>2. ASSUME NEW g \in Frame PROVE phase'[g] = "idle" <=> ~ OnStack(g)'
    <3>1. phase[g] = "idle" <=> ~ OnStack(g)
      BY DEF Matches, FramesMatch
    <3> QED BY <1>4, <1>7, <1>8, <3>1
  <2> QED BY <1>4, <1>8, <2>1, <2>2 DEF FramesMatch
<1>12. RunningIsCurrent'
  <2>1. \A v \in Unit : phase'[v] = "running" => current_unit' = v
    BY <1>7, <1>8 DEF Matches, RunningIsCurrent, Frame
  <2>2. ticking' /\ stack' # <<>> /\ stack'[1] \in Unit => current_unit' = stack'[1]
    <3> SUFFICES ASSUME ticking, stack' # <<>>, stack'[1] \in Unit PROVE current_unit = stack'[1]
      OBVIOUS
    <3>1. stack' \in Seq(Frame)
      BY <1>1, <1>3, Returned DEF Matches, FramesMatch
    <3>2. 1 \in 1..Len(stack')
      BY <3>1, EmptySeq
    <3> QED BY <1>1, <1>4, <3>2 DEF Matches, RunningIsCurrent
  <2>3. Len(stack') >= 3 /\ stack'[1] = Callback => current_unit' = stack'[2]
    <3> SUFFICES ASSUME Len(stack') >= 3, stack'[1] = Callback PROVE current_unit = stack'[2]
      OBVIOUS
    <3>1. 1 \in 1..Len(stack') /\ 2 \in 1..Len(stack') /\ Len(stack) >= 3
      BY <1>4
    <3> QED BY <1>4, <3>1 DEF Matches, RunningIsCurrent
  <2> QED BY <2>1, <2>2, <2>3 DEF RunningIsCurrent
<1>13. CallbacksFirst'
  <2>1. phase'["ppu"] = "running" => phase["ppu"] = "running"
    BY <1>2, <1>7, <1>8
  <2>2. await'["ppu"].kind # "sleep"
    BY <1>2, <1>3 DEF Matches, CallbacksFirst
  <2>3. ASSUME NEW c \in Pending', c.fn = Callback
        PROVE  /\ Left(c)' <= PostDelay
               /\ \A e \in Pending' : e.fn = "ppu" => Left(c)' < Left(e)'
               /\ phase'["ppu"] # "running"
    <3>1. c \in Pending
      BY <1>2, <1>6, <2>3
    <3>2. /\ Left(c) <= PostDelay /\ phase["ppu"] # "running"
          /\ \A e \in Pending : e.fn = "ppu" => Left(c) < Left(e)
      BY <2>3, <3>1 DEF Matches, CallbacksFirst
    <3>3. ASSUME w.kind # "interrupt", u = "ppu" PROVE Left(c) < Left(new)
      <4>1. w.kind = "interruptible"
        BY <3>3 DEF Await
      <4> QED BY <2>3, <3>1, <3>3, <4>1 DEF new
    <3>4. ASSUME NEW e \in Pending', e.fn = "ppu" PROVE Left(c) < Left(e)
      BY <1>6, <3>2, <3>3, <3>4
    <3> QED BY <1>5, <2>1, <3>2, <3>4
  <2> QED BY <1>2, <1>8, <2>2, <2>3 DEF CallbacksFirst
<1>14. CpuHasRun'
  <2>1. PostedNow' => PostedNow
    BY <1>2, <1>5, <1>6 DEF PostedNow
  <2>2. phase'["cpu"] = "running" => phase["cpu"] = "running"
    BY <1>2, <1>7, <1>8
  <2>3. phase'["ppu"] \in {"idle", phase["ppu"]}
    BY <1>2, <1>7, <1>8
  <2>4. \A e \in Pending' : e \in Pending \/ Left(e)' > 0
    BY <1>5, <1>6 DEF new
  <2> QED BY <1>4, <1>5, <2>1, <2>2, <2>3, <2>4 DEF Matches, CpuHasRun
<1> QED BY <1>9, <1>10, <1>11, <1>12, <1>13, <1>14 DEF Matches

(* Time moving on by d cycles keeps the callbacks before the PPU, and      *)
(* leaves none of them at its full delay (gb_cycle_scheduler.cpp:18-41).   *)
LEMMA CallbacksMoveOn ==
  ASSUME IInv, Matches, NEW d \in Nat, Pending' \subseteq Pending,
         \A e \in Pending' : Left(e)' = Left(e) - d
  PROVE  /\ \A c \in Pending' : c.fn = Callback =>
                /\ Left(c)' <= PostDelay
                /\ \A e \in Pending' : e.fn = "ppu" => Left(c)' < Left(e)'
         /\ PostedNow' => PostedNow /\ d = 0
<1>1. /\ \A e \in Pending : Left(e) \in Int
      /\ PostDelay \in Int
  BY PendingEntries, WaitAssumption, HAssumption DEF Matches
<1>2. \A c \in Pending : c.fn = Callback =>
           Left(c) <= PostDelay /\ \A e \in Pending : e.fn = "ppu" => Left(c) < Left(e)
  BY DEF Matches, CallbacksFirst
<1>3. ASSUME NEW c \in Pending', c.fn = Callback
      PROVE  /\ Left(c)' <= PostDelay
             /\ \A e \in Pending' : e.fn = "ppu" => Left(c)' < Left(e)'
             /\ Left(c)' = PostDelay => Left(c) = PostDelay /\ d = 0
  <2>1. c \in Pending /\ Left(c)' = Left(c) - d /\ Left(c) \in Int /\ Left(c) <= PostDelay
    BY <1>1, <1>2, <1>3
  <2>2. ASSUME NEW e \in Pending', e.fn = "ppu" PROVE Left(c)' < Left(e)'
    <3>1. e \in Pending /\ Left(e)' = Left(e) - d /\ Left(e) \in Int /\ Left(c) < Left(e)
      BY <1>1, <1>2, <1>3, <2>1, <2>2
    <3> QED BY <2>1, <3>1
  <2> QED BY <1>1, <2>1, <2>2
<1>4. ASSUME PostedNow' PROVE PostedNow /\ d = 0
  <2>1. PICK c \in Pending' : c.fn = Callback /\ Left(c)' = PostDelay
    BY <1>4 DEF PostedNow
  <2> QED BY <1>3, <2>1 DEF PostedNow
<1> QED BY <1>3, <1>4

(* A wait that is over at once moves time on without going back to tick()  *)
(* (gb_cycle_scheduler.h:145-155).                                         *)
LEMMA FastPathMatches ==
  ASSUME IInv, Matches, NEW u \in Unit, Runs(u), NEW n \in 1..(H - 1),
         NEW at, at = U32(cycle_counter + n), Ready(u, at), cycle_counter' = at,
         phase' = [phase EXCEPT ![u] = "running"],
         UNCHANGED <<queued, bound, await, stack, current_unit, is_triggered, ticking>>,
         u = "ppu" => \A c \in Pending : c.fn # Callback
  PROVE  Matches'
<1>1. /\ ticking /\ current_unit = u
      /\ \A e \in Pending : /\ Left(e) >= n /\ Ahead(at, e.at) = Left(e) - n
                            /\ Left(e) = n => e.priority >= UnitPriority[u]
  BY FastPathFacts DEF Matches
<1>2. OnStack(u) /\ Last(stack) = u /\ phase[u] # "idle"
  BY RunsFacts DEF Frame
<1>3. /\ phase \in [Frame -> Phase] /\ u \in Frame /\ "ppu" \in Frame /\ "cpu" \in Frame
      /\ u # Callback /\ n \in Nat /\ n # 0
  BY HAssumption DEF IInv, TypeOK, Frame, Unit, Callback
<1>4. Pending' = Pending /\ \A g : OnStack(g)' <=> OnStack(g)
  BY DEF Pending, OnStack
<1>5. \A e \in Pending : Left(e)' = Left(e) - n
  BY <1>1 DEF Left
<1>6. \A g \in Frame : phase'[g] = phase[g] \/ (phase'[g] = "running" /\ g = u)
  BY <1>3
<1>7. \A g \in Frame : phase'[g] # "posted"
  BY <1>2, <1>3 DEF Matches, FramesMatch
<1>8. /\ \A c \in Pending' : c.fn = Callback =>
             Left(c)' <= PostDelay /\ \A e \in Pending' : e.fn = "ppu" => Left(c)' < Left(e)'
      /\ ~ PostedNow'
  BY <1>3, <1>4, <1>5, CallbacksMoveOn
<1>9. UniqueKeys(queued') /\ EntriesKeyed' /\ WaitsMatch'
  BY <1>4 DEF Matches, EntriesKeyed, WaitsMatch, EntryOf
<1>10. FramesMatch'
  <2>1. \A g \in Frame : phase'[g] = "idle" <=> ~ OnStack(g)'
    BY <1>2, <1>4, <1>6 DEF Matches, FramesMatch
  <2> QED BY <1>7, <2>1 DEF Matches, FramesMatch
<1>11. RunningIsCurrent'
  BY <1>1, <1>6 DEF Matches, RunningIsCurrent, Frame
<1>12. CallbacksFirst'
  <2>1. ASSUME NEW c \in Pending', c.fn = Callback PROVE phase'["ppu"] # "running"
    <3>1. u # "ppu" /\ phase["ppu"] # "running"
      BY <1>4, <2>1 DEF Matches, CallbacksFirst
    <3> QED BY <1>3, <1>6, <3>1
  <2>2. ~ is_triggered'["ppu"] /\ await'["ppu"].kind # "sleep"
    BY DEF Matches, CallbacksFirst
  <2> QED BY <1>3, <1>7, <1>8, <2>1, <2>2 DEF CallbacksFirst
<1>13. CpuHasRun'
  <2> SUFFICES ASSUME OnStack("ppu")
               PROVE  /\ phase'["cpu"] # "running"
                      /\ \A e \in Pending' : e.fn = "cpu" => Left(e)' # 0
    BY <1>4, <1>8 DEF CpuHasRun
  <2>1. u = "ppu"
    BY <1>1, NothingAbovePpu
  <2>2. phase'["cpu"] # "running"
    BY <1>3, <1>6, <2>1 DEF Matches, CpuHasRun
  <2>3. ASSUME NEW e \in Pending', e.fn = "cpu" PROVE Left(e)' # 0
    <3>1. e \in Pending /\ e.priority = 2 /\ UnitPriority[u] = 3 /\ Left(e) \in Int
      BY <1>4, <2>1, <2>3, PendingEntries, Priorities DEF Matches
    <3>2. Left(e) # n /\ Left(e)' = Left(e) - n
      BY <1>1, <1>5, <3>1
    <3> QED BY <1>3, <3>1, <3>2
  <2> QED BY <2>2, <2>3
<1> QED BY <1>9, <1>10, <1>11, <1>12, <1>13 DEF Matches

(* Nothing queued has the key of a new wait (gb_cycle_scheduler.h:100-104). *)
LEMMA KeyIsNew ==
  ASSUME IInv, Matches, NEW u \in Unit, Runs(u), NEW n \in 1..(H - 1),
         NEW at, at = U32(cycle_counter + n),
         u = "ppu" => \A c \in Pending : c.fn = Callback => Left(c) < n
  PROVE  at \in Time /\ \A e \in Pending : ~ SameKey(e, at, PriorityOf(u))
<1>1. cycle_counter \in Time /\ n \in Int
  BY HAssumption DEF IInv, TypeOK
<1>2. at \in Time /\ Ahead(cycle_counter, at) = n
  BY <1>1, AheadOfSum
<1>3. ASSUME NEW e \in Pending, SameKey(e, at, PriorityOf(u)) PROVE FALSE
  <2>1. e.fn # u /\ e.fn \in Frame /\ PriorityOf(e.fn) = PriorityOf(u) /\ e.at = at
    BY <1>3, RunsFacts, PendingEntries DEF Matches, SameKey, Frame
  <2>2. e.fn = Callback /\ u = "ppu"
    BY <2>1, Priorities
  <2>3. Left(e) < n /\ Left(e) = n
    BY <1>2, <2>1, <2>2 DEF Left
  <2> QED BY <1>1, <2>3
<1> QED BY <1>2, <1>3

(* co_await cycles(n) (gb_cycle_scheduler.h:145-172)                       *)
LEMMA AwaitCyclesMatches ==
  ASSUME PpuClients, IInv, Matches, NEW u \in Unit, NEW n \in Sleep[u], AwaitCycles(u, n)
  PROVE  Matches'
<1> DEFINE at == U32(cycle_counter + n)
           w  == Until("sleep", at)
<1>1. n \in 1..(H - 1) /\ u # "ppu" /\ Runs(u)
  BY WaitAssumption DEF PpuClients, AwaitCycles
<1>2. UNCHANGED <<current_unit, bound, is_triggered, ticking>>
  BY DEF AwaitCycles
<1>3. CASE Ready(u, at)
  <2>1. /\ cycle_counter' = at /\ phase' = [phase EXCEPT ![u] = "running"]
        /\ UNCHANGED <<queued, await, stack>>
    BY <1>3 DEF AwaitCycles
  <2> HIDE DEF at
  <2> QED BY <1>1, <1>2, <1>3, <2>1, FastPathMatches DEF at
<1>4. CASE ~ Ready(u, at)
  <2>1. Queue(at, u) /\ Suspend(u, w) /\ UNCHANGED cycle_counter
    BY <1>4 DEF AwaitCycles
  <2>2. at \in Time /\ \A e \in Pending : ~ SameKey(e, at, PriorityOf(u))
    BY <1>1, KeyIsNew
  <2>3. Ahead(cycle_counter, at) = n /\ n > 0
    BY <1>1, AheadOfSum, HAssumption DEF IInv, TypeOK
  <2> HIDE DEF at
  <2>4. Pending' = Pending \cup {EntryOf(u, at)} /\ UniqueKeys(queued')
    BY <2>1, <2>2, QueueAdds DEF Frame
  <2>5. w \in Await /\ w.kind = "sleep" /\ w.until = at
    BY <2>2 DEF Until, Await
  <2> HIDE DEF w
  <2>6. Left(EntryOf(u, w.until)) > 0
    BY <2>3, <2>5 DEF Left, EntryOf
  <2>7. bound' = [bound EXCEPT ![u] = (w.kind # "sleep")]
    <3>1. bound \in [Unit -> BOOLEAN] /\ bound[u] = FALSE
      BY <1>1, RunsFacts DEF Frame, IInv, TypeOK
    <3>2. bound = [bound EXCEPT ![u] = FALSE]
      BY <3>1
    <3>3. (w.kind # "sleep") = FALSE
      BY <2>5
    <3> QED BY <1>2, <3>2, <3>3
  <2>8. ~ is_triggered'["ppu"]
    BY <1>2 DEF Matches, CallbacksFirst
  <2>9. w.kind # "none" /\ w.kind # "interrupt"
    BY <2>5
  <2> QED BY <1>1, <1>2, <2>1, <2>4, <2>5, <2>6, <2>7, <2>8, <2>9, SuspendMatches
<1> QED BY <1>3, <1>4

(* Only the caller-visible `ticking` changes (gb_cycle_scheduler.cpp:16).  *)
LEMMA IdleMatches ==
  ASSUME Matches, ticking' => ticking \/ stack = <<>>,
         UNCHANGED <<cycle_counter, current_unit, queued, bound, is_triggered, await, phase, stack>>
  PROVE  Matches'
<1>1. /\ Pending' = Pending /\ \A e : Left(e)' = Left(e)
      /\ \A g : OnStack(g)' <=> OnStack(g)
      /\ PostedNow' <=> PostedNow
  <2>1. Pending' = Pending
    BY DEF Pending
  <2>2. \A e : Left(e)' = Left(e)
    BY DEF Left
  <2>3. \A g : OnStack(g)' <=> OnStack(g)
    BY DEF OnStack
  <2> QED BY <2>1, <2>2, <2>3 DEF PostedNow
<1>2. UniqueKeys(queued') /\ EntriesKeyed' /\ WaitsMatch'
  BY <1>1 DEF Matches, EntriesKeyed, WaitsMatch, EntryOf
<1>3. FramesMatch' /\ RunningIsCurrent'
  BY <1>1 DEF Matches, FramesMatch, RunningIsCurrent
<1>4. CallbacksFirst' /\ CpuHasRun'
  BY <1>1 DEF Matches, CallbacksFirst, CpuHasRun
<1> QED BY <1>2, <1>3, <1>4 DEF Matches

(* The PPU waits past every callback that is still queued (gb_ppu.cpp:726).    *)
LEMMA PpuWaitsPastCallbacks ==
  ASSUME PpuClients, IInv, Matches, NEW n \in InterruptibleSleep["ppu"] \cup AfterPost,
         AwaitInterruptible("ppu", n), NEW c \in Pending, c.fn = Callback
  PROVE  Left(c) < n
<1>1. Left(c) <= PostDelay /\ phase["ppu"] # "running"
  BY DEF Matches, CallbacksFirst
<1>2. n \in AfterPost
  BY <1>1 DEF AwaitInterruptible
<1>3. n > PostDelay
  BY <1>2 DEF PpuClients
<1>4. Left(c) \in Int /\ PostDelay \in Int /\ n \in Int
  BY <1>2, PendingEntries, WaitAssumption, HAssumption DEF Matches
<1> QED BY <1>1, <1>3, <1>4

(* co_await interruptible_cycles(n) (gb_cycle_scheduler.h:178-187)         *)
LEMMA AwaitInterruptibleMatches ==
  ASSUME PpuClients, IInv, Matches, NEW u \in Unit, NEW n \in InterruptibleSleep[u] \cup AfterPost,
         AwaitInterruptible(u, n)
  PROVE  Matches'
<1> DEFINE at == U32(cycle_counter + n)
           w  == Until("interruptible", at)
<1>1. n \in 1..(H - 1) /\ Runs(u) /\ phase[u] \in {"posted", "running"}
  BY WaitAssumption DEF AwaitInterruptible
<1>2. UNCHANGED <<is_triggered, ticking>>
  BY DEF AwaitInterruptible
<1>3. /\ bound \in [Unit -> BOOLEAN] /\ phase \in [Frame -> Phase] /\ u \in Frame
      /\ bound[u] = FALSE /\ OnStack(u)
  BY <1>1, RunsFacts DEF Frame, IInv, TypeOK
<1>4. phase[u] = "posted" => u = "ppu"
  BY <1>3 DEF Matches, FramesMatch
<1>5. u = "ppu" => \A c \in Pending : c.fn = Callback => Left(c) < n
  BY PpuWaitsPastCallbacks
<1>6. at \in Time /\ \A e \in Pending : ~ SameKey(e, at, PriorityOf(u))
  BY <1>1, <1>5, KeyIsNew
<1>7. Ahead(cycle_counter, at) = n /\ n > 0
  BY <1>1, AheadOfSum, HAssumption DEF IInv, TypeOK
<1>8. CASE Ready(u, at) \/ is_triggered[u]
  <2>1. /\ cycle_counter' = IF Ready(u, at) THEN at ELSE cycle_counter
        /\ bound' = [bound EXCEPT ![u] = FALSE]
        /\ InterruptibleResume(u, at, queued, phase)
        /\ UNCHANGED <<await, stack>>
    BY <1>8 DEF AwaitInterruptible
  <2>2. queued' = queued /\ phase' = [phase EXCEPT ![u] = "running"] /\ current_unit' = u
    <3>1. \A i \in 1..Len(queued) : ~ SameKey(queued[i], at, UnitPriority[u])
      BY <1>6, Priorities DEF Pending, EntriesIn
    <3> QED BY <2>1, <3>1 DEF InterruptibleResume, IsFirstWithKey
  <2>3. bound' = bound
    BY <1>3, <2>1
  <2>4. CASE Ready(u, at)
    <3>1. current_unit = u /\ cycle_counter' = at
      BY <2>1, <2>4 DEF Ready
    <3>2. u = "ppu" => \A c \in Pending : c.fn # Callback
      <4> SUFFICES ASSUME u = "ppu", NEW c \in Pending, c.fn = Callback PROVE FALSE
        OBVIOUS
      <4>1. Left(c) < n /\ Left(c) >= n
        BY <1>1, <1>5, <2>4, FastPathFacts DEF Matches
      <4>2. Left(c) \in Int /\ n \in Int
        BY <1>1, PendingEntries, HAssumption DEF Matches
      <4> QED BY <4>1, <4>2
    <3> HIDE DEF at
    <3> QED BY <1>1, <1>2, <2>1, <2>2, <2>3, <2>4, <3>1, <3>2, FastPathMatches DEF at
  <2>5. CASE ~ Ready(u, at)
    <3>1. is_triggered[u] /\ cycle_counter' = cycle_counter
      BY <1>8, <2>1, <2>5
    <3>2. u # "ppu" /\ phase[u] = "running"
      BY <1>1, <1>4, <3>1 DEF Matches, CallbacksFirst
    <3>3. current_unit = u
      BY <3>2 DEF Matches, RunningIsCurrent
    <3>4. phase' = phase
      BY <1>3, <2>2, <3>2
    <3> QED BY <1>2, <2>1, <2>2, <2>3, <3>1, <3>3, <3>4, IdleMatches
  <2> QED BY <2>4, <2>5
<1>9. CASE ~ (Ready(u, at) \/ is_triggered[u])
  <2>1. /\ Queue(at, u) /\ Suspend(u, w) /\ bound' = [bound EXCEPT ![u] = TRUE]
        /\ UNCHANGED <<cycle_counter, current_unit>>
    BY <1>9 DEF AwaitInterruptible
  <2> HIDE DEF at
  <2>2. Pending' = Pending \cup {EntryOf(u, at)} /\ UniqueKeys(queued')
    BY <1>3, <1>6, <2>1, QueueAdds
  <2>3. w \in Await /\ w.kind = "interruptible" /\ w.until = at
    BY <1>6 DEF Until, Await
  <2> HIDE DEF w
  <2>4. Left(EntryOf(u, w.until)) = n
    BY <1>7, <2>3 DEF Left, EntryOf
  <2>5. bound' = [bound EXCEPT ![u] = (w.kind # "sleep")]
    <3>1. (w.kind # "sleep") = TRUE
      BY <2>3
    <3> QED BY <2>1, <3>1
  <2>6. ~ is_triggered'["ppu"]
    BY <1>2 DEF Matches, CallbacksFirst
  <2>7. w.kind # "none" /\ w.kind # "interrupt" /\ w.kind # "sleep"
    BY <2>3
  <2>8. u = "ppu" => \A c \in Pending : c.fn = Callback => Left(c) < Left(EntryOf(u, w.until))
    BY <1>5, <2>4
  <2>9. Left(EntryOf(u, w.until)) > 0
    BY <1>7, <2>4
  <2> QED BY <1>1, <1>2, <2>1, <2>2, <2>3, <2>5, <2>6, <2>7, <2>8, <2>9, SuspendMatches
<1> QED BY <1>8, <1>9

(* reset() and co_await of an interrupt alone (gb_cpu.cpp:612-613)         *)
LEMMA AwaitInterruptMatches ==
  ASSUME IInv, Matches, NEW u \in Unit, AwaitInterrupt(u)
  PROVE  Matches'
<1> DEFINE w == OnInterrupt
<1>1. /\ Runs(u) /\ Suspend(u, w) /\ bound' = [bound EXCEPT ![u] = TRUE]
      /\ is_triggered' = [is_triggered EXCEPT ![u] = FALSE]
      /\ UNCHANGED <<cycle_counter, current_unit, queued, ticking>>
  BY DEF AwaitInterrupt
<1>2. w \in Await /\ w.kind = "interrupt"
  BY HAssumption DEF OnInterrupt, Await, Time, W
<1> HIDE DEF w
<1>3. UniqueKeys(queued') /\ Pending' = Pending
  BY <1>1 DEF Pending, Matches
<1>4. bound' = [bound EXCEPT ![u] = (w.kind # "sleep")]
  <2>1. (w.kind # "sleep") = TRUE
    BY <1>2
  <2> QED BY <1>1, <2>1
<1>5. ~ is_triggered'["ppu"]
  <2>1. is_triggered \in [Unit -> BOOLEAN] /\ ~ is_triggered["ppu"] /\ "ppu" \in Unit
    BY DEF IInv, TypeOK, Matches, CallbacksFirst, Unit
  <2> QED BY <1>1, <2>1
<1>6. w.kind # "none" /\ w.kind # "sleep" /\ w.kind # "interruptible"
  BY <1>2
<1> QED BY <1>1, <1>2, <1>3, <1>4, <1>5, <1>6, SuspendMatches

(* The end of a tick moves time on, and every wait is nearer by as much    *)
(* (gb_cycle_scheduler.cpp:40).                                            *)
LEMMA EndTickMatches ==
  ASSUME IInv, Matches, EndTick
  PROVE  Matches'
<1> DEFINE d == Ahead(cycle_counter, end)
<1>1. /\ stack = <<>> /\ ticking' = FALSE /\ cycle_counter' = end /\ ~ Due
      /\ UNCHANGED <<current_unit, queued, bound, is_triggered, await, phase, stack>>
  BY DEF EndTick
<1>2. /\ cycle_counter \in Time /\ end \in Time /\ queued \in Seq(Entry)
      /\ d \in Int /\ d >= 0 /\ d < H
  BY AheadRange DEF IInv, TypeOK, TickEndsAhead
<1>3. Pending' = Pending /\ \A g : OnStack(g)' <=> OnStack(g)
  BY <1>1 DEF Pending, OnStack
<1>4. \A g : ~ OnStack(g)
  BY <1>1 DEF OnStack, InStack
<1>5. \A g \in Frame : phase'[g] = "idle" /\ phase[g] = "idle"
  BY <1>1, <1>4 DEF Matches, FramesMatch
<1>6. ASSUME NEW e \in Pending
      PROVE  Left(e) \in Int /\ Left(e) > d /\ Left(e)' = Left(e) - d
  <2>1. e.at \in Time /\ Left(e) \in 0..(H - 1)
    BY PendingEntries DEF Matches
  <2>2. queued # <<>>
    BY <1>2, EmptySeq DEF Pending, EntriesIn
  <2> DEFINE top == Last(queued)
  <2>3. Left(top) > d /\ Left(top) \in 0..(H - 1) /\ Left(e) >= Left(top)
    <3>1. ~ (Left(top) <= d)
      BY <1>1, <2>2 DEF Due, Left
    <3>2. Left(top) \in 0..(H - 1) /\ Left(e) >= Left(top)
      BY <2>2, PopFacts DEF Matches
    <3> QED BY <1>2, <3>1, <3>2
  <2>4. Left(e) > d
    BY <1>2, <2>1, <2>3
  <2>5. Ahead(end, e.at) = Ahead(cycle_counter, e.at) - d
    BY <1>2, <2>1, <2>4, AheadAfter DEF Left
  <2> QED BY <1>1, <2>1, <2>4, <2>5 DEF Left
<1> HIDE DEF d
<1>7. d \in Nat
  BY <1>2
<1>8. /\ \A c \in Pending' : c.fn = Callback =>
             Left(c)' <= PostDelay /\ \A e \in Pending' : e.fn = "ppu" => Left(c)' < Left(e)'
      /\ PostedNow' => PostedNow /\ d = 0
  BY <1>3, <1>6, <1>7, CallbacksMoveOn
<1>9. UniqueKeys(queued') /\ EntriesKeyed' /\ WaitsMatch'
  BY <1>1, <1>3 DEF Matches, EntriesKeyed, WaitsMatch, EntryOf
<1>10. FramesMatch' /\ RunningIsCurrent'
  BY <1>1, <1>3 DEF Matches, FramesMatch, RunningIsCurrent
<1>11. "ppu" \in Frame /\ "cpu" \in Frame
  BY DEF Frame, Unit
<1>12. CallbacksFirst'
  BY <1>1, <1>5, <1>8, <1>11 DEF Matches, CallbacksFirst
<1>13. CpuHasRun'
  <2>1. \A e \in Pending' : Left(e)' # 0
    BY <1>2, <1>3, <1>6
  <2> QED BY <1>5, <1>11, <2>1 DEF CpuHasRun
<1> QED BY <1>9, <1>10, <1>12, <1>13 DEF Matches

(* tick() resumes a unit whose wait has timed out (gb_cycle_scheduler.cpp:18-41). *)
LEMMA TimeoutMatches ==
  ASSUME IInv, Matches, Pop, NEW u \in Unit, Last(queued).fn = u
  PROVE  Matches'
<1> DEFINE top == Last(queued)
           d == Left(top)
<1>1. /\ cycle_counter' = top.at /\ stack = <<>> /\ stack' = <<u>> /\ current_unit' = u
      /\ await' = [await EXCEPT ![u] = NotWaiting]
      /\ bound' = [bound EXCEPT ![u] = FALSE]
      /\ phase' = [phase EXCEPT ![u] = "running"]
      /\ UNCHANGED <<is_triggered, ticking>>
      /\ Pending' = Pending \ {top} /\ UniqueKeys(queued')
  BY TimeoutEffect
<1>2. /\ await \in [Unit -> Await] /\ bound \in [Unit -> BOOLEAN] /\ phase \in [Frame -> Phase]
      /\ u \in Frame /\ "ppu" \in Frame /\ "cpu" \in Frame /\ "ppu" \in Unit /\ u # Callback
  BY DEF IInv, TypeOK, Frame, Unit, Callback
<1>3. /\ top \in Pending /\ top.fn = u /\ d \in 0..(H - 1)
      /\ \A e \in Pending : /\ Left(e) >= d /\ Ahead(top.at, e.at) = Left(e) - d
                            /\ Left(e) = d => e.priority >= top.priority
  <2>1. queued # <<>>
    BY DEF Pop, Due
  <2> QED BY <2>1, PopFacts DEF Matches
<1>4. top = EntryOf(u, top.at) /\ top.priority = UnitPriority[u]
  BY <1>3, PendingEntries, Priorities DEF Matches
<1>5. \A g : ~ OnStack(g) /\ (OnStack(g)' <=> g = u)
  <2>1. \A g : ~ OnStack(g)
    BY <1>1 DEF OnStack, InStack
  <2>2. \A g : OnStack(g)' <=> g = u
    <3>1. Len(<<u>>) = 1 /\ <<u>>[1] = u
      OBVIOUS
    <3> QED BY <1>1, <3>1 DEF OnStack, InStack
  <2> QED BY <2>1, <2>2
<1>6. \A g \in Frame : phase[g] = "idle" /\ phase'[g] = IF g = u THEN "running" ELSE "idle"
  BY <1>1, <1>2, <1>5 DEF Matches, FramesMatch
<1> HIDE DEF top, d
<1>7. \A e \in Pending' : e \in Pending /\ e # top /\ Left(e)' = Left(e) - d
  BY <1>1, <1>3 DEF Left
<1>8. d \in Nat /\ Pending' \subseteq Pending
  BY <1>1, <1>3, HAssumption
<1>9. /\ \A c \in Pending' : c.fn = Callback =>
             Left(c)' <= PostDelay /\ \A e \in Pending' : e.fn = "ppu" => Left(c)' < Left(e)'
      /\ PostedNow' => PostedNow /\ d = 0
  BY <1>7, <1>8, CallbacksMoveOn
<1>10. EntriesKeyed'
  BY <1>1 DEF Matches, EntriesKeyed
<1>11. WaitsMatch'
  <2> SUFFICES ASSUME NEW v \in Unit
               PROVE  /\ bound'[v] <=> await'[v].kind \in {"interruptible", "interrupt"}
                      /\ await'[v].kind \in {"sleep", "interruptible"} => EntryOf(v, await'[v].until) \in Pending'
                      /\ \A e \in Pending' : e.fn = v => await'[v].kind \in {"sleep", "interruptible"} /\ e.at = await'[v].until
                      /\ await'[v].kind = "none" <=> OnStack(v)'
    BY DEF WaitsMatch
  <2>1. CASE v = u
    <3>1. await'[v].kind = "none" /\ bound'[v] = FALSE /\ OnStack(v)'
      BY <1>1, <1>2, <1>5, <2>1 DEF NotWaiting
    <3>2. \A e \in Pending' : e.fn # v
      <4> SUFFICES ASSUME NEW e \in Pending', e.fn = u PROVE FALSE
        BY <2>1
      <4>1. e.at = await[u].until /\ top.at = await[u].until
        BY <1>3, <1>7 DEF Matches, WaitsMatch
      <4>2. e = EntryOf(u, e.at)
        BY <1>7, PendingEntries DEF Matches
      <4> QED BY <1>4, <1>7, <4>1, <4>2
    <3> QED BY <3>1, <3>2
  <2>2. CASE v # u
    <3>1. await'[v] = await[v] /\ bound'[v] = bound[v] /\ (OnStack(v)' <=> OnStack(v))
      BY <1>1, <1>2, <1>5, <2>2
    <3>2. EntryOf(v, await[v].until) # top
      BY <1>3, <2>2 DEF EntryOf
    <3>3. /\ bound[v] <=> await[v].kind \in {"interruptible", "interrupt"}
          /\ await[v].kind \in {"sleep", "interruptible"} => EntryOf(v, await[v].until) \in Pending
          /\ \A e \in Pending : e.fn = v => await[v].kind \in {"sleep", "interruptible"} /\ e.at = await[v].until
          /\ await[v].kind = "none" <=> OnStack(v)
      BY DEF Matches, WaitsMatch
    <3>4. EntryOf(v, await[v].until) \in Pending => EntryOf(v, await[v].until) \in Pending'
      BY <1>1, <3>2
    <3>5. \A e \in Pending' : e.fn = v => await'[v].kind \in {"sleep", "interruptible"} /\ e.at = await'[v].until
      BY <1>7, <3>1, <3>3
    <3> QED BY <3>1, <3>3, <3>4, <3>5
  <2> QED BY <2>1, <2>2
<1>12. FramesMatch'
  <2>1. Len(<<u>>) = 1 /\ <<u>>[1] = u
    OBVIOUS
  <2>2. NoRepeat(stack') /\ \A k \in 2..Len(stack') : stack'[k] = "ppu" => stack'[k - 1] = "cpu"
    BY <1>1, <2>1 DEF NoRepeat
  <2> QED BY <1>5, <1>6, <2>2 DEF FramesMatch
<1>13. RunningIsCurrent'
  <2>1. Len(stack') = 1 /\ stack'[1] = u
    BY <1>1
  <2> QED BY <1>1, <1>6, <2>1 DEF RunningIsCurrent, Frame
<1>14. CallbacksFirst'
  <2>1. ~ is_triggered'["ppu"] /\ await'["ppu"].kind # "sleep"
    BY <1>1, <1>2 DEF Matches, CallbacksFirst, NotWaiting
  <2>2. ASSUME NEW c \in Pending', c.fn = Callback PROVE phase'["ppu"] # "running"
    <3> SUFFICES ASSUME u = "ppu" PROVE FALSE
      BY <1>2, <1>6
    <3>1. Left(c) < d /\ Left(c) >= d
      BY <1>3, <1>7, <2>2 DEF Matches, CallbacksFirst, d
    <3>2. Left(c) \in Int
      BY <1>7, PendingEntries DEF Matches
    <3> QED BY <1>8, <3>1, <3>2
  <2> QED BY <1>2, <1>6, <1>9, <2>1, <2>2 DEF CallbacksFirst
<1>15. CpuHasRun'
  <2>1. ASSUME PostedNow' PROVE u # "cpu" /\ u # "ppu" /\ d = 0 /\ PostedNow
    <3>1. PostedNow /\ d = 0
      BY <1>9, <2>1
    <3>2. u # "cpu"
      BY <1>3, <3>1 DEF Matches, CpuHasRun, d
    <3>3. PICK c \in Pending' : c.fn = Callback
      BY <2>1 DEF PostedNow
    <3>4. Left(c) >= 0 /\ (u = "ppu" => Left(c) < 0) /\ Left(c) \in Int
      BY <1>3, <1>7, <3>1, <3>3, PendingEntries DEF Matches, CallbacksFirst, d
    <3> QED BY <3>1, <3>2, <3>4
  <2>2. ASSUME OnStack("ppu")' \/ PostedNow' PROVE phase'["cpu"] # "running"
    BY <1>2, <1>5, <1>6, <2>1, <2>2
  <2>3. ASSUME OnStack("ppu")' \/ PostedNow', NEW e \in Pending', e.fn = "cpu" PROVE Left(e)' # 0
    <3>1. e \in Pending /\ Left(e) \in Int /\ Left(e)' = Left(e) - d /\ e.priority = 2
      BY <1>7, <2>3, PendingEntries, Priorities DEF Matches
    <3>2. CASE PostedNow'
      BY <2>1, <2>3, <3>1, <3>2 DEF Matches, CpuHasRun
    <3>3. CASE OnStack("ppu")'
      <4>1. top.priority = 3
        BY <1>4, <1>5, <3>3, Priorities
      <4>2. Left(e) # d
        BY <1>3, <3>1, <4>1
      <4> QED BY <1>8, <3>1, <4>2
    <3> QED BY <2>3, <3>2, <3>3
  <2>4. PostedNow' => phase'["ppu"] \in {"idle", "posted"}
    BY <1>2, <1>6, <2>1
  <2> QED BY <2>2, <2>3, <2>4 DEF CpuHasRun
<1> QED BY <1>1, <1>10, <1>11, <1>12, <1>13, <1>14, <1>15 DEF Matches

(* tick() calls the callback that update_stat queued                       *)
(* (gb_cycle_scheduler.cpp:18-41).                                         *)
LEMMA CallbackMatches ==
  ASSUME IInv, Matches, Pop, Last(queued).fn = Callback
  PROVE  Matches'
<1> DEFINE top == Last(queued)
           d == Left(top)
<1>1. /\ cycle_counter' = top.at /\ stack = <<>> /\ stack' = <<Callback>>
      /\ phase' = [phase EXCEPT ![Callback] = "running"]
      /\ UNCHANGED <<current_unit, bound, await, is_triggered, ticking>>
      /\ Pending' = Pending \ {top} /\ UniqueKeys(queued')
  BY CallbackEffect
<1>2. /\ phase \in [Frame -> Phase]
      /\ "ppu" \in Frame /\ "cpu" \in Frame /\ Callback \in Frame
      /\ "ppu" # Callback /\ "cpu" # Callback /\ \A v \in Unit : v # Callback /\ v \in Frame
  BY DEF IInv, TypeOK, Frame, Unit, Callback
<1>3. /\ top \in Pending /\ top.fn = Callback /\ d \in 0..(H - 1)
      /\ \A e \in Pending : Left(e) >= d /\ Ahead(top.at, e.at) = Left(e) - d
  <2>1. queued # <<>>
    BY DEF Pop, Due
  <2> QED BY <2>1, PopFacts DEF Matches
<1>4. \A g : ~ OnStack(g) /\ (OnStack(g)' <=> g = Callback)
  <2>1. \A g : ~ OnStack(g)
    BY <1>1 DEF OnStack, InStack
  <2>2. Len(<<Callback>>) = 1 /\ <<Callback>>[1] = Callback
    OBVIOUS
  <2> QED BY <1>1, <2>1, <2>2 DEF OnStack, InStack
<1>5. \A g \in Frame : phase[g] = "idle" /\ phase'[g] = IF g = Callback THEN "running" ELSE "idle"
  BY <1>1, <1>2, <1>4 DEF Matches, FramesMatch
<1> HIDE DEF top, d
<1>6. \A e \in Pending' : e \in Pending /\ e # top /\ Left(e)' = Left(e) - d
  BY <1>1, <1>3 DEF Left
<1>7. d \in Nat /\ Pending' \subseteq Pending
  BY <1>1, <1>3, HAssumption
<1>8. /\ \A c \in Pending' : c.fn = Callback =>
             Left(c)' <= PostDelay /\ \A e \in Pending' : e.fn = "ppu" => Left(c)' < Left(e)'
      /\ PostedNow' => PostedNow /\ d = 0
  BY <1>6, <1>7, CallbacksMoveOn
<1>9. EntriesKeyed'
  BY <1>1 DEF Matches, EntriesKeyed
<1>10. WaitsMatch'
  <2> SUFFICES ASSUME NEW v \in Unit
               PROVE  /\ bound'[v] <=> await'[v].kind \in {"interruptible", "interrupt"}
                      /\ await'[v].kind \in {"sleep", "interruptible"} => EntryOf(v, await'[v].until) \in Pending'
                      /\ \A e \in Pending' : e.fn = v => await'[v].kind \in {"sleep", "interruptible"} /\ e.at = await'[v].until
                      /\ await'[v].kind = "none" <=> OnStack(v)'
    BY DEF WaitsMatch
  <2>1. EntryOf(v, await[v].until) # top
    BY <1>2, <1>3 DEF EntryOf
  <2>2. OnStack(v)' <=> OnStack(v)
    BY <1>2, <1>4
  <2> QED BY <1>1, <1>6, <2>1, <2>2 DEF Matches, WaitsMatch
<1>11. FramesMatch'
  <2>1. Len(<<Callback>>) = 1 /\ <<Callback>>[1] = Callback
    OBVIOUS
  <2>2. NoRepeat(stack') /\ \A k \in 2..Len(stack') : stack'[k] = "ppu" => stack'[k - 1] = "cpu"
    BY <1>1, <2>1 DEF NoRepeat
  <2> QED BY <1>4, <1>5, <2>2 DEF FramesMatch
<1>12. RunningIsCurrent'
  <2>1. Len(stack') = 1 /\ stack'[1] = Callback
    BY <1>1
  <2> QED BY <1>2, <1>5, <2>1 DEF RunningIsCurrent
<1>13. CallbacksFirst'
  BY <1>1, <1>2, <1>5, <1>8 DEF Matches, CallbacksFirst
<1>14. CpuHasRun'
  <2>1. ASSUME PostedNow', NEW e \in Pending', e.fn = "cpu" PROVE Left(e)' # 0
    <3>1. PostedNow /\ d = 0 /\ Left(e) \in Int /\ Left(e)' = Left(e) - d
      BY <1>6, <1>8, <2>1, PendingEntries DEF Matches
    <3>2. Left(e) # 0
      BY <1>6, <2>1, <3>1 DEF Matches, CpuHasRun
    <3> QED BY <3>1, <3>2
  <2> QED BY <1>2, <1>4, <1>5, <2>1 DEF CpuHasRun
<1> QED BY <1>1, <1>9, <1>10, <1>11, <1>12, <1>13, <1>14 DEF Matches

(* ppu::update_stat queues its callback (gb_ppu.cpp:726).                  *)
LEMMA PostMatches ==
  ASSUME PpuClients, IInv, Matches, Post
  PROVE  Matches'
<1> DEFINE at == U32(cycle_counter + PostDelay)
           new == EntryOf(Callback, at)
<1>1. /\ Runs("ppu") /\ phase["ppu"] # "posted" /\ Queue(at, Callback)
      /\ phase' = [phase EXCEPT !["ppu"] = "posted"]
      /\ UNCHANGED <<cycle_counter, current_unit, bound, is_triggered, await, stack, ticking>>
  BY DEF Post
<1>2. /\ phase \in [Frame -> Phase]
      /\ "ppu" \in Frame /\ "cpu" \in Frame /\ Callback \in Frame /\ "ppu" \in Unit
      /\ "ppu" # Callback /\ "cpu" # Callback /\ \A v \in Unit : v # Callback /\ v \in Frame
  BY DEF IInv, TypeOK, Frame, Unit, Callback
<1>3. /\ stack # <<>> /\ Last(stack) = "ppu" /\ OnStack("ppu") /\ phase["ppu"] # "idle"
      /\ \A e \in Pending : e.fn # "ppu"
  BY <1>1, <1>2, RunsFacts
<1>4. at \in Time /\ Ahead(cycle_counter, at) = PostDelay /\ PostDelay \in Int
  <2>1. PostDelay \in 0..(H - 1)
    BY WaitAssumption, HAssumption
  <2> QED BY <2>1, AheadOfSum DEF IInv, TypeOK
<1> HIDE DEF at
<1>5. ~ PostedNow
  BY <1>1, <1>3 DEF Matches, CpuHasRun
<1>6. \A e \in Pending : ~ SameKey(e, at, PriorityOf(Callback))
  <2> SUFFICES ASSUME NEW e \in Pending, SameKey(e, at, PriorityOf(Callback)) PROVE FALSE
    OBVIOUS
  <2>1. e.fn # "ppu" /\ e.fn \in Frame /\ PriorityOf(e.fn) = PriorityOf("ppu") /\ e.at = at
    BY <1>3, PendingEntries, Priorities DEF Matches, SameKey
  <2>2. e.fn = Callback
    BY <1>2, <2>1, Priorities
  <2> QED BY <1>4, <1>5, <2>1, <2>2 DEF PostedNow, Left
<1>7. Pending' = Pending \cup {new} /\ UniqueKeys(queued')
  BY <1>1, <1>2, <1>4, <1>6, QueueAdds
<1>8. /\ new.fn = Callback /\ new.at = at /\ new.priority = PriorityOf(Callback)
      /\ \A e : Left(e)' = Left(e)
      /\ Left(new) = PostDelay
  BY <1>1, <1>4 DEF EntryOf, Left
<1> HIDE DEF new
<1>9. \A g : OnStack(g)' <=> OnStack(g)
  BY <1>1 DEF OnStack
<1>10. /\ phase'["ppu"] = "posted"
       /\ \A g \in Frame : g # "ppu" => phase'[g] = phase[g]
  BY <1>1, <1>2
<1>11. EntriesKeyed'
  BY <1>7, <1>8 DEF Matches, EntriesKeyed
<1>12. WaitsMatch'
  <2> SUFFICES ASSUME NEW v \in Unit
               PROVE  /\ bound'[v] <=> await'[v].kind \in {"interruptible", "interrupt"}
                      /\ await'[v].kind \in {"sleep", "interruptible"} => EntryOf(v, await'[v].until) \in Pending'
                      /\ \A e \in Pending' : e.fn = v => await'[v].kind \in {"sleep", "interruptible"} /\ e.at = await'[v].until
                      /\ await'[v].kind = "none" <=> OnStack(v)'
    BY DEF WaitsMatch
  <2>1. new.fn # v
    BY <1>2, <1>8
  <2> QED BY <1>1, <1>7, <1>9, <2>1 DEF Matches, WaitsMatch
<1>13. FramesMatch'
  <2>1. \A g \in Frame : phase'[g] = "idle" <=> ~ OnStack(g)'
    BY <1>3, <1>9, <1>10 DEF Matches, FramesMatch
  <2>2. \A g \in Frame : phase'[g] = "posted" => g = "ppu" /\ Last(stack') = g
    BY <1>1, <1>3, <1>10 DEF Matches, FramesMatch
  <2> QED BY <1>1, <2>1, <2>2 DEF Matches, FramesMatch
<1>14. RunningIsCurrent'
  BY <1>1, <1>2, <1>10 DEF Matches, RunningIsCurrent
<1>15. PostedNow'
  BY <1>7, <1>8 DEF PostedNow
<1>16. CallbacksFirst'
  <2>1. ASSUME NEW c \in Pending', c.fn = Callback
        PROVE  /\ Left(c)' <= PostDelay
               /\ \A e \in Pending' : e.fn = "ppu" => Left(c)' < Left(e)'
    <3>1. \A e \in Pending' : e.fn # "ppu"
      BY <1>2, <1>3, <1>7, <1>8
    <3>2. Left(c) <= PostDelay
      <4>1. CASE c \in Pending
        BY <2>1, <4>1 DEF Matches, CallbacksFirst
      <4>2. CASE c = new
        BY <1>4, <1>8, <4>2
      <4> QED BY <1>7, <4>1, <4>2
    <3> QED BY <1>8, <3>1, <3>2
  <2> QED BY <1>1, <1>10, <1>15, <2>1 DEF Matches, CallbacksFirst
<1>17. CpuHasRun'
  <2>1. \A e \in Pending' : e.fn = "cpu" => e \in Pending
    BY <1>2, <1>7, <1>8
  <2>2. phase["cpu"] # "running" /\ \A e \in Pending : e.fn = "cpu" => Left(e) # 0
    BY <1>3 DEF Matches, CpuHasRun
  <2> QED BY <1>2, <1>8, <1>10, <2>1, <2>2 DEF CpuHasRun
<1> QED BY <1>7, <1>11, <1>12, <1>13, <1>14, <1>16, <1>17 DEF Matches

(* The callback returns to tick() (gb_cycle_scheduler.cpp:37).             *)
LEMMA ReturnMatches ==
  ASSUME IInv, Matches, Return
  PROVE  Matches'
<1>1. /\ Runs(Callback) /\ stack' = Front(stack)
      /\ phase' = [phase EXCEPT ![Callback] = "idle"]
      /\ UNCHANGED <<cycle_counter, current_unit, queued, bound, is_triggered, await, ticking>>
  BY DEF Return
<1>2. /\ phase \in [Frame -> Phase]
      /\ "ppu" \in Frame /\ "cpu" \in Frame /\ Callback \in Frame
      /\ "ppu" # Callback /\ "cpu" # Callback /\ \A v \in Unit : v # Callback /\ v \in Frame
  BY DEF IInv, TypeOK, Frame, Unit, Callback
<1>3. stack \in Seq(Frame) /\ stack # <<>> /\ Last(stack) = Callback
  BY <1>1, <1>2, RunsFacts
<1>4. /\ stack' \in Seq(Frame) /\ Len(stack') = Len(stack) - 1 /\ Len(stack) \in Nat /\ Len(stack) >= 1
      /\ \A k \in 1..Len(stack') : stack'[k] = stack[k] /\ k \in 1..Len(stack)
      /\ NoRepeat(stack')
      /\ \A f : OnStack(f)' <=> OnStack(f) /\ f # Callback
  BY <1>1, <1>3, Returned DEF OnStack, Matches, FramesMatch
<1>5. Pending' = Pending /\ \A e : Left(e)' = Left(e)
  BY <1>1 DEF Pending, Left
<1>6. \A g \in Frame : phase'[g] = IF g = Callback THEN "idle" ELSE phase[g]
  BY <1>1, <1>2
<1>7. \A g \in Frame : phase'[g] # "posted"
  BY <1>2, <1>3, <1>6 DEF Matches, FramesMatch
<1>8. UniqueKeys(queued') /\ EntriesKeyed'
  BY <1>1, <1>5 DEF Matches, EntriesKeyed
<1>9. WaitsMatch'
  <2>1. \A v \in Unit : OnStack(v)' <=> OnStack(v)
    BY <1>2, <1>4
  <2> QED BY <1>1, <1>5, <2>1 DEF Matches, WaitsMatch, EntryOf
<1>10. FramesMatch'
  <2>1. ASSUME NEW k \in 2..Len(stack'), stack'[k] = "ppu" PROVE stack'[k - 1] = "cpu"
    <3>1. k \in 1..Len(stack') /\ k - 1 \in 1..Len(stack') /\ k \in 2..Len(stack)
      BY <1>4
    <3> QED BY <1>4, <2>1, <3>1 DEF Matches, FramesMatch
  <2>2. \A g \in Frame : phase'[g] = "idle" <=> ~ OnStack(g)'
    BY <1>4, <1>6 DEF Matches, FramesMatch
  <2> QED BY <1>4, <1>7, <2>1, <2>2 DEF FramesMatch
<1>11. RunningIsCurrent'
  <2>1. \A v \in Unit : phase'[v] = "running" => current_unit' = v
    BY <1>1, <1>2, <1>6 DEF Matches, RunningIsCurrent
  <2>2. ticking' /\ stack' # <<>> /\ stack'[1] \in Unit => current_unit' = stack'[1]
    <3> SUFFICES ASSUME ticking, stack' # <<>>, stack'[1] \in Unit PROVE current_unit = stack'[1]
      BY <1>1
    <3>1. 1 \in 1..Len(stack')
      BY <1>4, EmptySeq
    <3> QED BY <1>3, <1>4, <3>1 DEF Matches, RunningIsCurrent
  <2>3. Len(stack') >= 3 /\ stack'[1] = Callback => current_unit' = stack'[2]
    <3> SUFFICES ASSUME Len(stack') >= 3, stack'[1] = Callback PROVE current_unit = stack'[2]
      BY <1>1
    <3>1. 1 \in 1..Len(stack') /\ 2 \in 1..Len(stack') /\ Len(stack) >= 3
      BY <1>4
    <3> QED BY <1>4, <3>1 DEF Matches, RunningIsCurrent
  <2> QED BY <2>1, <2>2, <2>3 DEF RunningIsCurrent
<1>12. CallbacksFirst' /\ CpuHasRun'
  <2>1. phase'["ppu"] = phase["ppu"] /\ phase'["cpu"] = phase["cpu"]
    BY <1>2, <1>6
  <2>2. (OnStack("ppu")' <=> OnStack("ppu")) /\ (PostedNow' <=> PostedNow)
    BY <1>2, <1>4, <1>5 DEF PostedNow
  <2> QED BY <1>1, <1>5, <2>1, <2>2 DEF Matches, CallbacksFirst, CpuHasRun
<1> QED BY <1>8, <1>9, <1>10, <1>11, <1>12 DEF Matches

(* emu::start has queued the CPU, and the other two wait for an interrupt  *)
(* (gb_emu.h:81-89).                                                       *)
LEMMA InitMatches == Init => Matches
<1> SUFFICES ASSUME Init PROVE Matches
  OBVIOUS
<1> DEFINE new == EntryOf("cpu", StartDelay)
<1>1. /\ cycle_counter = 0 /\ ticking = FALSE /\ stack = <<>>
      /\ bound = [u \in Unit |-> u # "cpu"]
      /\ is_triggered = [u \in Unit |-> FALSE]
      /\ await = [u \in Unit |-> IF u = "cpu" THEN Until("sleep", StartDelay) ELSE OnInterrupt]
      /\ phase = [f \in Frame |-> "idle"]
  BY DEF Init
<1>2. queued = <<new>>
  BY Priorities DEF Init, EntryOf, PriorityOf, Callback
<1>3. new.fn = "cpu" /\ new.at = StartDelay /\ new.priority = PriorityOf("cpu")
  BY DEF EntryOf
<1>4. /\ "ppu" \in Unit /\ "cpu" \in Unit /\ "ppu" \in Frame /\ "cpu" \in Frame /\ "cpu" # Callback
      /\ \A u \in Unit : u \in Frame
  BY DEF Unit, Frame, Callback
<1> HIDE DEF new
<1>5. Len(<<new>>) = 1 /\ <<new>>[1] = new
  OBVIOUS
<1>6. Pending = {new} /\ UniqueKeys(queued)
  BY <1>2, <1>5 DEF Pending, EntriesIn, UniqueKeys
<1>7. \A g : ~ OnStack(g)
  BY <1>1 DEF OnStack, InStack
<1>8. EntriesKeyed
  BY <1>3, <1>6 DEF EntriesKeyed
<1>9. WaitsMatch
  <2> SUFFICES ASSUME NEW v \in Unit
               PROVE  /\ bound[v] <=> await[v].kind \in {"interruptible", "interrupt"}
                      /\ await[v].kind \in {"sleep", "interruptible"} => EntryOf(v, await[v].until) \in Pending
                      /\ \A e \in Pending : e.fn = v => await[v].kind \in {"sleep", "interruptible"} /\ e.at = await[v].until
                      /\ await[v].kind = "none" <=> OnStack(v)
    BY DEF WaitsMatch
  <2>1. CASE v = "cpu"
    <3>1. await[v].kind = "sleep" /\ await[v].until = StartDelay /\ bound[v] = FALSE
      BY <1>1, <2>1 DEF Until
    <3>2. EntryOf(v, await[v].until) \in Pending
      BY <1>6, <2>1, <3>1 DEF new
    <3> QED BY <1>3, <1>6, <1>7, <3>1, <3>2
  <2>2. CASE v # "cpu"
    <3>1. await[v].kind = "interrupt" /\ bound[v] = TRUE
      BY <1>1, <2>2 DEF OnInterrupt
    <3> QED BY <1>3, <1>6, <1>7, <2>2, <3>1
  <2> QED BY <2>1, <2>2
<1>10. FramesMatch
  <2>1. Len(stack) = 0
    BY <1>1
  <2>2. \A g \in Frame : phase[g] = "idle"
    BY <1>1
  <2> QED BY <1>7, <2>1, <2>2 DEF FramesMatch, NoRepeat
<1>11. RunningIsCurrent
  <2>1. Len(stack) = 0 /\ \A u \in Unit : phase[u] = "idle"
    BY <1>1, <1>4
  <2> QED BY <1>1, <2>1 DEF RunningIsCurrent
<1>12. CallbacksFirst /\ CpuHasRun
  <2>1. /\ is_triggered["ppu"] = FALSE /\ await["ppu"].kind = "interrupt"
        /\ phase["ppu"] = "idle"
    BY <1>1, <1>4 DEF OnInterrupt
  <2>2. ~ PostedNow /\ \A c \in Pending : c.fn # Callback
    BY <1>3, <1>4, <1>6 DEF PostedNow
  <2> QED BY <1>7, <2>1, <2>2 DEF CallbacksFirst, CpuHasRun
<1> QED BY <1>6, <1>8, <1>9, <1>10, <1>11, <1>12 DEF Matches

(* Every step of the scheduler and its clients keeps the invariant.        *)
LEMMA NextMatches == PpuClients /\ CInv /\ [Next]_vars => CInv'
<1> SUFFICES ASSUME PpuClients, IInv, Matches, [Next]_vars PROVE CInv'
  BY DEF CInv
<1>1. IInv'
  BY NextIInv
<1>2. ASSUME NEW n \in TickSizes, Tick(n) PROVE Matches'
  BY <1>2, IdleMatches DEF Tick
<1>3. ASSUME Input PROVE Matches'
  BY <1>3, InputMatches
<1>4. ASSUME Pop PROVE Matches'
  <2>1. Last(queued).fn \in Frame
    <3>1. queued # <<>>
      BY <1>4 DEF Pop, Due
    <3> QED BY <3>1, PopFacts DEF Matches
  <2> QED BY <1>4, <2>1, TimeoutMatches, CallbackMatches DEF Frame
<1>5. ASSUME EndTick PROVE Matches'
  BY <1>5, EndTickMatches
<1>6. ASSUME NEW u \in Unit, NEW n \in Sleep[u], AwaitCycles(u, n) PROVE Matches'
  BY <1>6, AwaitCyclesMatches
<1>7. ASSUME NEW u \in Unit, NEW n \in InterruptibleSleep[u] \cup AfterPost, AwaitInterruptible(u, n)
      PROVE  Matches'
  BY <1>7, AwaitInterruptibleMatches
<1>8. ASSUME NEW u \in Unit, AwaitInterrupt(u) PROVE Matches'
  BY <1>8, AwaitInterruptMatches
<1>9. ASSUME NEW f \in Frame, NEW t \in Unit, Trigger(f, t) PROVE Matches'
  BY <1>9, TriggerMatches
<1>10. ASSUME Post PROVE Matches'
  BY <1>10, PostMatches
<1>11. ASSUME Return PROVE Matches'
  BY <1>11, ReturnMatches
<1>12. ASSUME UNCHANGED vars PROVE Matches'
  BY <1>12, IdleMatches DEF vars
<1>13. Matches'
  BY <1>2, <1>3, <1>4, <1>5, <1>6, <1>7, <1>8, <1>9, <1>10, <1>11, <1>12 DEF Next, Host, Coroutine
<1> QED BY <1>1, <1>13 DEF CInv

(* With such clients the inductive invariant holds for every modulus, all  *)
(* wait and tick lengths, and any other choice of triggers.                *)
THEOREM WaitsStayMatched ==
  ASSUME PpuClients
  PROVE  Spec => []CInv
<1>1. Init => CInv
  BY InitIInv, InitMatches DEF CInv
<1>2. CInv /\ [Next]_vars => CInv'
  BY NextMatches
<1> QED BY <1>1, <1>2, PTL DEF Spec

(* A suspended unit has exactly the wake-ups its co_await registered.      *)
THEOREM WakeUpsStayMatched ==
  ASSUME PpuClients
  PROVE  Spec => []WakeUpsMatchAwait
<1>1. CInv => WakeUpsMatchAwait
  <2> SUFFICES ASSUME IInv, Matches PROVE WakeUpsMatchAwait
    BY DEF CInv
  <2> SUFFICES ASSUME NEW u \in Unit
               PROVE  /\ bound[u] <=> await[u].kind \in {"interruptible", "interrupt"}
                      /\ await[u].kind \in {"sleep", "interruptible"}
                            => \E i \in EntriesOf(u) : queued[i].at = await[u].until /\ EntriesOf(u) = {i}
                      /\ await[u].kind \in {"none", "interrupt"} => EntriesOf(u) = {}
                      /\ await[u].kind = "none" <=> \E k \in 1..Len(stack) : stack[k] = u
    BY DEF WakeUpsMatchAwait
  <2>1. /\ bound[u] <=> await[u].kind \in {"interruptible", "interrupt"}
        /\ await[u].kind \in {"sleep", "interruptible"} => EntryOf(u, await[u].until) \in Pending
        /\ \A e \in Pending : e.fn = u => await[u].kind \in {"sleep", "interruptible"} /\ e.at = await[u].until
        /\ await[u].kind = "none" <=> OnStack(u)
    BY DEF Matches, WaitsMatch
  <2>2. \A i \in EntriesOf(u) : i \in 1..Len(queued) /\ queued[i] \in Pending /\ queued[i].fn = u
    BY DEF EntriesOf, Pending, EntriesIn
  <2>3. ASSUME await[u].kind \in {"sleep", "interruptible"}
        PROVE  \E i \in EntriesOf(u) : queued[i].at = await[u].until /\ EntriesOf(u) = {i}
    <3>1. PICK i \in 1..Len(queued) : queued[i] = EntryOf(u, await[u].until)
      BY <2>1, <2>3 DEF Pending, EntriesIn
    <3>2. queued[i].at = await[u].until /\ queued[i].fn = u /\ i \in EntriesOf(u)
      BY <3>1 DEF EntryOf, EntriesOf
    <3>3. ASSUME NEW j \in EntriesOf(u) PROVE j = i
      <4>1. queued[j].at = queued[i].at /\ queued[j].priority = queued[i].priority
        BY <2>1, <2>2, <3>2, PendingEntries DEF Matches
      <4> QED BY <2>2, <3>2, <4>1 DEF Matches, UniqueKeys, SameKey
    <3> QED BY <3>2, <3>3
  <2>4. ASSUME await[u].kind \in {"none", "interrupt"} PROVE EntriesOf(u) = {}
    BY <2>1, <2>2, <2>4
  <2> QED BY <2>1, <2>3, <2>4 DEF OnStack, InStack
<1> QED BY <1>1, WaitsStayMatched, PTL

(* No two queued entries share a key.                                      *)
THEOREM KeysStayUnique ==
  ASSUME PpuClients
  PROVE  Spec => []KeysAreUnique
<1>1. CInv => KeysAreUnique
  BY DEF CInv, Matches, UniqueKeys, KeysAreUnique
<1> QED BY <1>1, WaitsStayMatched, PTL

(* What tick() resumes has waited to the end: it is never interrupted.     *)
THEOREM TimeoutsDoNotInterrupt ==
  ASSUME PpuClients
  PROVE  Spec => InterruptedOnlyByTrigger
<1>1. CInv /\ [Next]_vars =>
        [stack = <<>> /\ ticking =>
           \A u \in Unit : phase'[u] = "interrupted" => phase[u] = "interrupted"]_vars
  <2> SUFFICES ASSUME IInv, Matches, Next, stack = <<>>, ticking, NEW u \in Unit, phase'[u] = "interrupted"
               PROVE  phase[u] = "interrupted"
    BY DEF CInv
  <2>1. \A f : ~ Runs(f)
    BY DEF Runs
  <2>2. ~ Coroutine /\ ~ Host
    BY <2>1 DEF Coroutine, AwaitCycles, AwaitInterruptible, AwaitInterrupt, Trigger, Post, Return,
                Host, Input, Tick
  <2>3. Pop \/ EndTick
    BY <2>2 DEF Next
  <2>4. phase \in [Frame -> Phase] /\ u \in Frame
    BY DEF IInv, TypeOK, Frame
  <2>5. ASSUME Pop PROVE phase[u] = "interrupted"
    <3>1. queued # <<>>
      BY <2>5 DEF Pop, Due
    <3>2. Last(queued).fn \in Frame
      BY <3>1, PopFacts DEF Matches
    <3>3. phase' = [phase EXCEPT ![Last(queued).fn] = "running"]
      BY <2>5, <3>2, TimeoutEffect, CallbackEffect DEF Frame
    <3> QED BY <2>4, <3>2, <3>3
  <2>6. ASSUME EndTick PROVE phase[u] = "interrupted"
    BY <2>6 DEF EndTick
  <2> QED BY <2>3, <2>5, <2>6
<1> QED BY <1>1, WaitsStayMatched, PTL DEF Spec, InterruptedOnlyByTrigger

(* While a coroutine that triggered an interrupt waits for the trigger to  *)
(* return, the counter stands still.  Only the CPU that the callback of    *)
(* update_stat wakes may run on before the callback does.                  *)
THEOREM NestedCallsTakeNoTime ==
  ASSUME PpuClients
  PROVE  Spec => TimeStandsStillInNestedCalls
<1>1. CInv /\ [Next]_vars =>
        [cycle_counter' # cycle_counter =>
           /\ ticking
           /\ Len(stack) <= 1 \/ (Len(stack) = 2 /\ stack[1] = Callback)]_vars
  <2> SUFFICES ASSUME IInv, Matches, Next, cycle_counter' # cycle_counter
               PROVE  ticking /\ (Len(stack) <= 1 \/ (Len(stack) = 2 /\ stack[1] = Callback))
    BY DEF CInv
  <2>1. ASSUME NEW u \in Unit, NEW n \in 1..(H - 1), Runs(u), Ready(u, U32(cycle_counter + n))
        PROVE  ticking /\ (Len(stack) <= 1 \/ (Len(stack) = 2 /\ stack[1] = Callback))
    <3>1. ticking /\ current_unit = u
      BY <2>1, FastPathFacts DEF Matches
    <3>2. stack \in Seq(Frame) /\ stack # <<>> /\ Len(stack) >= 1 /\ stack[Len(stack)] = u
      BY <2>1, RunsFacts DEF Frame
    <3>3. Len(stack) \in Nat /\ 1 \in 1..Len(stack) /\ Len(stack) \in 1..Len(stack)
      BY <3>2
    <3>4. stack[1] \in Unit => stack[1] = stack[Len(stack)]
      BY <3>1, <3>2 DEF Matches, RunningIsCurrent
    <3>5. stack[1] \in Unit => Len(stack) = 1
      BY <3>3, <3>4 DEF Matches, FramesMatch, NoRepeat
    <3>6. stack[1] \in Frame
      BY <3>2, <3>3, ElementOfSeq
    <3>7. ASSUME Len(stack) >= 3, stack[1] = Callback
          PROVE  FALSE
      <4>1. stack[2] = stack[Len(stack)]
        BY <3>1, <3>2, <3>7 DEF Matches, RunningIsCurrent
      <4>2. 2 \in 1..Len(stack) /\ 2 # Len(stack)
        BY <3>3, <3>7
      <4> QED BY <3>3, <4>1, <4>2 DEF Matches, FramesMatch, NoRepeat
    <3>8. Len(stack) <= 1 \/ (Len(stack) = 2 /\ stack[1] = Callback)
      <4>1. \A m \in Nat : (m <= 1 \/ m = 2) \/ m >= 3
        OBVIOUS
      <4>2. \A m \in Nat : m = 1 => m <= 1
        OBVIOUS
      <4>3. Len(stack) <= 1 \/ Len(stack) = 2 \/ Len(stack) >= 3
        BY <3>3, <4>1, Zenon
      <4>4. stack[1] \in Unit => Len(stack) <= 1
        BY <3>3, <3>5, <4>2, Zenon
      <4>5. stack[1] \in Unit \/ stack[1] = Callback
        BY <3>6 DEF Frame
      <4> QED BY <3>7, <4>3, <4>4, <4>5, Zenon
    <3> QED BY <3>1, <3>8
  <2>2. ASSUME Pop \/ EndTick PROVE ticking /\ (Len(stack) <= 1 \/ (Len(stack) = 2 /\ stack[1] = Callback))
    BY <2>2 DEF Pop, EndTick
  <2>3. ASSUME NEW u \in Unit, NEW n \in Sleep[u], AwaitCycles(u, n)
        PROVE  ticking /\ (Len(stack) <= 1 \/ (Len(stack) = 2 /\ stack[1] = Callback))
    <3>1. n \in 1..(H - 1)
      BY WaitAssumption
    <3> QED BY <2>1, <2>3, <3>1 DEF AwaitCycles
  <2>4. ASSUME NEW u \in Unit, NEW n \in InterruptibleSleep[u] \cup AfterPost, AwaitInterruptible(u, n)
        PROVE  ticking /\ (Len(stack) <= 1 \/ (Len(stack) = 2 /\ stack[1] = Callback))
    <3>1. n \in 1..(H - 1)
      BY WaitAssumption
    <3> QED BY <2>1, <2>4, <3>1 DEF AwaitInterruptible
  <2>5. ~ Host /\ ~ Post /\ ~ Return
    BY DEF Host, Input, Tick, Post, Return
  <2>6. /\ \A u \in Unit : ~ AwaitInterrupt(u)
        /\ \A f \in Frame, t \in Unit : ~ Trigger(f, t)
    BY DEF AwaitInterrupt, Trigger
  <2> QED BY <2>2, <2>3, <2>4, <2>5, <2>6 DEF Next, Coroutine
<1> QED BY <1>1, WaitsStayMatched, PTL DEF Spec, TimeStandsStillInNestedCalls
-----------------------------------------------------------------------------
(* The timeline                                                            *)

\* An entry and the queue, seen as events of the timeline
EventAt(now, e) == [who |-> e.fn, priority |-> e.priority, left |-> Ahead(now, e.at)]
Events == {EventAt(cycle_counter, e) : e \in Pending}

(* The queue is the timeline's set of pending events.                      *)
LEMMA PendingIsEvents ==
  {[who      |-> queued[i].fn,
    priority |-> queued[i].priority,
    left     |-> Ahead(cycle_counter, queued[i].at)] : i \in 1..Len(queued)} = Events
BY DEF Events, EventAt, Pending, EntriesIn

LEMMA PendingIsEventsAfter ==
  ({[who      |-> queued[i].fn,
     priority |-> queued[i].priority,
     left     |-> Ahead(cycle_counter, queued[i].at)] : i \in 1..Len(queued)} = Events)'
<1>1. {[who      |-> queued[i].fn,
        priority |-> queued[i].priority,
        left     |-> Ahead(cycle_counter, queued[i].at)] : i \in 1..Len(queued)} = Events
  BY PendingIsEvents
<1> QED BY <1>1, PTL

(* Adding a wait to the counter is addition modulo the counter's width,    *)
(* and the end of a distance ahead is the value itself.                    *)
LEMMA CounterWraps ==
  ASSUME NEW now \in Time, NEW d \in 0..(H - 1)
  PROVE  U32(now + d) = (now + d) % W
<1>1. now + d \in (-W)..(2 * W - 1)
  BY HAssumption DEF Time, W
<1> QED BY <1>1, WrapAssumption

LEMMA AheadLeadsThere ==
  ASSUME NEW now \in Time, NEW x \in Time, Ahead(now, x) >= 0
  PROVE  U32(now + Ahead(now, x)) = x
BY HAssumption DEF Ahead, U32, Time, W

LEMMA AheadIsInjective ==
  ASSUME NEW now \in Time, NEW x \in Time, NEW y \in Time, Ahead(now, x) = Ahead(now, y)
  PROVE  x = y
BY HAssumption DEF Ahead, U32, Time, W

(* Every event is one of the timeline's.                                   *)
LEMMA EventsOfEntries ==
  ASSUME IInv, EntriesKeyed, NEW e \in Pending
  PROVE  /\ EventAt(cycle_counter, e) \in Timeline!Event
         /\ EventAt(cycle_counter, e) \in Events
         /\ EventAt(cycle_counter, e).left = Left(e)
         /\ EventAt(cycle_counter, e).priority = e.priority
<1>1. e.fn \in Frame /\ Left(e) \in 0..(H - 1) /\ e.priority \in 0..3
  BY PendingEntries, Priorities DEF PriorityOf, Frame
<1> QED BY <1>1 DEF Timeline!Event, Events, EventAt, Left

LEMMA EventsOfEntriesAfter ==
  ((IInv /\ EntriesKeyed) => \A e \in Pending : EventAt(cycle_counter, e) \in Timeline!Event)'
<1>1. (IInv /\ EntriesKeyed) => \A e \in Pending : EventAt(cycle_counter, e) \in Timeline!Event
  BY EventsOfEntries
<1> QED BY <1>1, PTL

(* Time moving on brings every event nearer.                               *)
LEMMA EventsLater ==
  ASSUME NEW d, NEW S, NEW now, NEW later, \A e \in S : Ahead(later, e.at) = Ahead(now, e.at) - d
  PROVE  {EventAt(later, e) : e \in S} = Timeline!Later(d, {EventAt(now, e) : e \in S})
<1>1. \A e \in S : EventAt(later, e) = [EventAt(now, e) EXCEPT !.left = @ - d]
  BY DEF EventAt
<1>2. Timeline!Later(d, {EventAt(now, e) : e \in S}) = {[EventAt(now, e) EXCEPT !.left = @ - d] : e \in S}
  BY DEF Timeline!Later
<1> QED BY <1>1, <1>2

(* Queueing an entry schedules an event (gb_cycle_scheduler.cpp:6-14).     *)
LEMMA QueueSchedules ==
  ASSUME IInv, Matches, IInv', Matches', NEW f \in Frame, NEW at \in Time, Queue(at, f),
         \A e \in Pending : ~ SameKey(e, at, PriorityOf(f)), UNCHANGED cycle_counter
  PROVE  Timeline!Schedule
<1> DEFINE new == EntryOf(f, at)
           ev  == EventAt(cycle_counter, new)
<1>1. Pending' = Pending \cup {new}
  BY QueueAdds
<1>2. cycle_counter \in Time /\ new.at = at /\ new.priority = PriorityOf(f)
  BY DEF IInv, TypeOK, EntryOf
<1> HIDE DEF new
<1>3. Events' = Events \cup {ev}
  <2>1. Events' = {EventAt(cycle_counter, e) : e \in Pending'}
    BY DEF Events
  <2> QED BY <1>1, <2>1 DEF Events
<1>4. ev \notin Events
  <2> SUFFICES ASSUME NEW e \in Pending, EventAt(cycle_counter, e) = ev PROVE FALSE
    BY DEF Events
  <2>1. e.priority = new.priority /\ Ahead(cycle_counter, e.at) = Ahead(cycle_counter, new.at)
    BY DEF EventAt
  <2>2. e.at \in Time
    BY PendingEntries DEF Matches
  <2>3. e.at = new.at
    BY <1>2, <2>1, <2>2, AheadIsInjective
  <2> QED BY <1>2, <2>1, <2>3 DEF SameKey
<1>5. ev \in Timeline!Event
  <2>1. (\A e \in Pending : EventAt(cycle_counter, e) \in Timeline!Event)'
    BY EventsOfEntriesAfter DEF Matches
  <2> QED BY <1>1, <2>1
<1> HIDE DEF ev
<1> QED BY <1>3, <1>4, <1>5, PendingIsEvents, PendingIsEventsAfter DEF Timeline!Schedule

(* An interrupt withdraws the event of the unit it wakes, if it has one    *)
(* (gb_cycle_scheduler.cpp:52-69).                                         *)
LEMMA TriggerCancels ==
  ASSUME IInv, Matches, NEW t \in Unit, NEW ph \in [Frame -> Phase], TriggerInterrupt(t, ph),
         UNCHANGED cycle_counter
  PROVE  Timeline!Cancel \/ UNCHANGED Timeline!vars
<1>1. CASE UNCHANGED queued
  BY <1>1 DEF Timeline!vars
<1>2. CASE ~ UNCHANGED queued
  <2>1. bound[t]
    BY <1>2 DEF TriggerInterrupt
  <2>2. Pending' = {e \in Pending : e.fn # t}
    BY <2>1, WakeEffect
  <2>3. Events' = {EventAt(cycle_counter, e) : e \in Pending'}
    BY DEF Events
  <2>4. CASE \A e \in Pending : e.fn # t
    <3>1. Pending' = Pending
      BY <2>2, <2>4
    <3>2. Events' = Events
      BY <2>3, <3>1 DEF Events
    <3> QED BY <3>2, PendingIsEvents, PendingIsEventsAfter DEF Timeline!vars
  <2>5. ASSUME NEW e0 \in Pending, e0.fn = t PROVE Timeline!Cancel
    <3> DEFINE ev == EventAt(cycle_counter, e0)
    <3>1. \A e \in Pending : e.fn = t => e = e0
      BY <2>5, PendingEntries DEF Matches, WaitsMatch
    <3>2. Pending' = Pending \ {e0}
      BY <2>2, <2>5, <3>1
    <3>3. ev \in Events
      BY DEF Events
    <3>4. \A e \in Pending : e # e0 => EventAt(cycle_counter, e) # ev
      <4>1. \A e \in Pending : e # e0 => e.fn # t
        BY <3>1
      <4> QED BY <2>5, <4>1 DEF EventAt
    <3>5. Events' = Events \ {ev}
      BY <2>3, <3>2, <3>4 DEF Events
    <3> HIDE DEF ev
    <3> QED BY <3>3, <3>5, PendingIsEvents, PendingIsEventsAfter DEF Timeline!Cancel
  <2> QED BY <2>4, <2>5
<1> QED BY <1>1, <1>2

(* The counter moving on, by a fast path or at the end of a tick           *)
(* (gb_cycle_scheduler.h:145-155, gb_cycle_scheduler.cpp:40).              *)
LEMMA TimeElapses ==
  ASSUME IInv, Matches, NEW d \in 1..(H - 1), UNCHANGED queued, cycle_counter' = U32(cycle_counter + d),
         \A e \in Pending : Left(e) >= d /\ Ahead(cycle_counter', e.at) = Left(e) - d
  PROVE  Timeline!Elapse
<1>1. cycle_counter \in Time /\ d \in 0..(H - 1)
  BY HAssumption DEF IInv, TypeOK
<1>2. cycle_counter' = (cycle_counter + d) % W
  BY <1>1, CounterWraps
<1>3. Events' = Timeline!Later(d, Events)
  <2>1. Events' = {EventAt(cycle_counter', e) : e \in Pending}
    BY DEF Events, Pending
  <2>2. \A e \in Pending : Ahead(cycle_counter', e.at) = Ahead(cycle_counter, e.at) - d
    BY DEF Left
  <2>3. {EventAt(cycle_counter', e) : e \in Pending} = Timeline!Later(d, Events)
    BY <2>2, EventsLater DEF Events
  <2> QED BY <2>1, <2>3
<1>4. \A ev \in Events : ev.left >= d
  <2> SUFFICES ASSUME NEW e \in Pending PROVE EventAt(cycle_counter, e).left >= d
    BY DEF Events
  <2> QED BY DEF EventAt, Left
<1> QED BY <1>2, <1>3, <1>4, PendingIsEvents, PendingIsEventsAfter DEF Timeline!Elapse

(* tick() runs the event that is due first (gb_cycle_scheduler.cpp:18-41). *)
LEMMA PopFires ==
  ASSUME IInv, Matches, Pop
  PROVE  Timeline!Fire
<1> DEFINE top == Last(queued)
           ev  == EventAt(cycle_counter, top)
           d   == Left(top)
<1>1. queued # <<>>
  BY DEF Pop, Due
<1>2. /\ top \in Pending /\ top.at \in Time /\ top.fn \in Frame /\ d \in 0..(H - 1)
      /\ \A e \in Pending : /\ Left(e) >= d /\ Ahead(top.at, e.at) = Left(e) - d
                            /\ Left(e) = d => e.priority >= top.priority
  BY <1>1, PopFacts DEF Matches
<1>3. cycle_counter' = top.at /\ Pending' = Pending \ {top}
  BY <1>2, TimeoutEffect, CallbackEffect DEF Frame
<1>4. cycle_counter \in Time /\ H \in Nat
  BY HAssumption DEF IInv, TypeOK
<1> HIDE DEF top
<1>5. cycle_counter' = (cycle_counter + d) % W
  <2>1. U32(cycle_counter + d) = top.at
    BY <1>2, <1>4, AheadLeadsThere DEF Left
  <2> HIDE DEF d
  <2> QED BY <1>2, <1>3, <1>4, <2>1, CounterWraps
<1>6. ev \in Events /\ ev.left = d /\ ev.priority = top.priority
  BY <1>2, EventsOfEntries DEF Matches
<1>7. \A e \in Pending : e # top => EventAt(cycle_counter, e) # ev
  <2> SUFFICES ASSUME NEW e \in Pending, EventAt(cycle_counter, e) = ev PROVE e = top
    OBVIOUS
  <2>1. e.fn = top.fn /\ Ahead(cycle_counter, e.at) = Ahead(cycle_counter, top.at)
    BY DEF EventAt
  <2>2. e.at \in Time /\ e = EntryOf(e.fn, e.at) /\ top = EntryOf(top.fn, top.at)
    BY <1>2, PendingEntries DEF Matches
  <2>3. e.at = top.at
    BY <1>2, <1>4, <2>1, <2>2, AheadIsInjective
  <2> QED BY <2>1, <2>2, <2>3
<1>8. Events \ {ev} = {EventAt(cycle_counter, e) : e \in Pending'}
  BY <1>3, <1>7 DEF Events
<1>9. Events' = Timeline!Later(d, Events \ {ev})
  <2>1. Events' = {EventAt(top.at, e) : e \in Pending'}
    BY <1>3 DEF Events
  <2>2. \A e \in Pending' : Ahead(top.at, e.at) = Ahead(cycle_counter, e.at) - d
    BY <1>2, <1>3 DEF Left
  <2> HIDE DEF d, ev
  <2>3. {EventAt(top.at, e) : e \in Pending'} = Timeline!Later(d, {EventAt(cycle_counter, e) : e \in Pending'})
    BY <2>2, EventsLater
  <2> QED BY <1>8, <2>1, <2>3
<1>10. \A x \in Events : x.left > ev.left \/ (x.left = ev.left /\ x.priority >= ev.priority)
  <2> SUFFICES ASSUME NEW e \in Pending
               PROVE  LET x == EventAt(cycle_counter, e)
                      IN  x.left > ev.left \/ (x.left = ev.left /\ x.priority >= ev.priority)
    BY DEF Events
  <2>1. EventAt(cycle_counter, e).left = Left(e) /\ EventAt(cycle_counter, e).priority = e.priority
    BY EventsOfEntries DEF Matches
  <2>2. Left(e) \in Int /\ d \in Int
    BY <1>2, PendingEntries DEF Matches
  <2>3. Left(e) > d \/ (Left(e) = d /\ e.priority >= top.priority)
    BY <1>2, <2>2
  <2> QED BY <1>6, <2>1, <2>3
<1> HIDE DEF ev, d
<1> QED BY <1>5, <1>6, <1>9, <1>10, PendingIsEvents, PendingIsEventsAfter DEF Timeline!Fire

(* A cycle wait is scheduled, or is over at once: time elapses             *)
(* (gb_cycle_scheduler.h:145-172).                                         *)
LEMMA AwaitCyclesOnTimeline ==
  ASSUME PpuClients, IInv, Matches, IInv', Matches', NEW u \in Unit, NEW n \in Sleep[u], AwaitCycles(u, n)
  PROVE  Timeline!Schedule \/ Timeline!Elapse
<1> DEFINE at == U32(cycle_counter + n)
<1>1. n \in 1..(H - 1) /\ u # "ppu" /\ u \in Frame /\ Runs(u)
  BY WaitAssumption DEF PpuClients, AwaitCycles, Frame
<1>2. CASE Ready(u, at)
  <2>1. cycle_counter' = at /\ UNCHANGED queued
    BY <1>2 DEF AwaitCycles
  <2>2. \A e \in Pending : Left(e) >= n /\ Ahead(cycle_counter', e.at) = Left(e) - n
    BY <1>1, <1>2, <2>1, FastPathFacts DEF Matches
  <2> QED BY <1>1, <2>1, <2>2, TimeElapses
<1>3. CASE ~ Ready(u, at)
  <2>1. Queue(at, u) /\ UNCHANGED cycle_counter
    BY <1>3 DEF AwaitCycles
  <2>2. at \in Time /\ \A e \in Pending : ~ SameKey(e, at, PriorityOf(u))
    BY <1>1, KeyIsNew
  <2> HIDE DEF at
  <2> QED BY <1>1, <2>1, <2>2, QueueSchedules
<1> QED BY <1>2, <1>3

(* So is an interruptible one, unless its interrupt has been triggered     *)
(* (gb_cycle_scheduler.h:178-187, gb_cycle_scheduler.cpp:52-69).           *)
LEMMA AwaitInterruptibleOnTimeline ==
  ASSUME PpuClients, IInv, Matches, IInv', Matches', NEW u \in Unit,
         NEW n \in InterruptibleSleep[u] \cup AfterPost, AwaitInterruptible(u, n)
  PROVE  Timeline!Schedule \/ Timeline!Elapse \/ UNCHANGED Timeline!vars
<1> DEFINE at == U32(cycle_counter + n)
<1>1. n \in 1..(H - 1) /\ u \in Frame /\ Runs(u)
  BY WaitAssumption DEF AwaitInterruptible, Frame
<1>2. at \in Time /\ \A e \in Pending : ~ SameKey(e, at, PriorityOf(u))
  <2>1. u = "ppu" => \A c \in Pending : c.fn = Callback => Left(c) < n
    BY PpuWaitsPastCallbacks
  <2> QED BY <1>1, <2>1, KeyIsNew
<1>3. CASE Ready(u, at) \/ is_triggered[u]
  <2>1. /\ cycle_counter' = IF Ready(u, at) THEN at ELSE cycle_counter
        /\ InterruptibleResume(u, at, queued, phase)
    BY <1>3 DEF AwaitInterruptible
  <2>2. \A i \in 1..Len(queued) : ~ SameKey(queued[i], at, UnitPriority[u])
    BY <1>2, Priorities DEF Pending, EntriesIn
  <2>3. UNCHANGED queued
    BY <2>1, <2>2 DEF InterruptibleResume, IsFirstWithKey
  <2>4. CASE Ready(u, at)
    <3>1. cycle_counter' = at
      BY <2>1, <2>4
    <3>2. \A e \in Pending : Left(e) >= n /\ Ahead(cycle_counter', e.at) = Left(e) - n
      BY <1>1, <2>4, <3>1, FastPathFacts DEF Matches
    <3>3. Timeline!Elapse
      BY <1>1, <2>3, <3>1, <3>2, TimeElapses
    <3> QED BY <3>3
  <2>5. CASE ~ Ready(u, at)
    BY <2>1, <2>3, <2>5 DEF Timeline!vars
  <2> QED BY <2>4, <2>5
<1>4. CASE ~ (Ready(u, at) \/ is_triggered[u])
  <2>1. Queue(at, u) /\ UNCHANGED cycle_counter
    BY <1>4 DEF AwaitInterruptible
  <2> HIDE DEF at
  <2>2. Timeline!Schedule
    BY <1>1, <1>2, <2>1, QueueSchedules
  <2> QED BY <2>2
<1> QED BY <1>3, <1>4

(* The callback of update_stat is scheduled (gb_ppu.cpp:726).              *)
LEMMA PostOnTimeline ==
  ASSUME PpuClients, IInv, Matches, IInv', Matches', Post
  PROVE  Timeline!Schedule
<1> DEFINE at == U32(cycle_counter + PostDelay)
<1>1. Runs("ppu") /\ Queue(at, Callback) /\ UNCHANGED cycle_counter /\ phase["ppu"] # "posted"
  BY DEF Post
<1>2. "ppu" \in Frame /\ "ppu" \in Unit /\ Callback \in Frame /\ PostDelay \in 0..(H - 1) /\ cycle_counter \in Time
  BY WaitAssumption, HAssumption DEF Frame, Unit, IInv, TypeOK
<1>3. at \in Time /\ Ahead(cycle_counter, at) = PostDelay
  BY <1>2, AheadOfSum
<1> HIDE DEF at
<1>4. \A e \in Pending : ~ SameKey(e, at, PriorityOf(Callback))
  <2> SUFFICES ASSUME NEW e \in Pending, SameKey(e, at, PriorityOf(Callback)) PROVE FALSE
    OBVIOUS
  <2>1. e.fn # "ppu" /\ e.fn \in Frame /\ PriorityOf(e.fn) = PriorityOf("ppu") /\ e.at = at
    BY <1>1, <1>2, RunsFacts, PendingEntries, Priorities DEF Matches, SameKey
  <2>2. e.fn = Callback
    BY <1>2, <2>1, Priorities
  <2>3. PostedNow /\ phase["ppu"] # "idle"
    BY <1>1, <1>2, <1>3, <2>1, <2>2, RunsFacts DEF PostedNow, Left
  <2> QED BY <1>1, <2>3 DEF Matches, CpuHasRun
<1> QED BY <1>1, <1>2, <1>3, <1>4, QueueSchedules

(* The end of a tick lets the rest of its time elapse, if any is left      *)
(* (gb_cycle_scheduler.cpp:40).                                            *)
LEMMA EndTickOnTimeline ==
  ASSUME IInv, Matches, EndTick
  PROVE  Timeline!Elapse \/ UNCHANGED Timeline!vars
<1> DEFINE d == Ahead(cycle_counter, end)
<1>1. cycle_counter' = end /\ ~ Due /\ UNCHANGED queued
  BY DEF EndTick
<1>2. /\ cycle_counter \in Time /\ end \in Time /\ queued \in Seq(Entry)
      /\ d \in Int /\ d >= 0 /\ d < H
  BY AheadRange DEF IInv, TypeOK, TickEndsAhead
<1>3. U32(cycle_counter + d) = end
  BY <1>2, AheadLeadsThere
<1>4. ASSUME NEW e \in Pending PROVE Left(e) >= d /\ Ahead(end, e.at) = Left(e) - d
  <2>1. queued # <<>>
    BY <1>2, EmptySeq DEF Pending, EntriesIn
  <2>2. ~ (Left(Last(queued)) <= d) /\ Left(Last(queued)) \in 0..(H - 1) /\ Left(e) >= Left(Last(queued))
    BY <1>1, <2>1, PopFacts DEF Due, Left, Matches
  <2>3. e.at \in Time /\ Left(e) \in 0..(H - 1)
    BY PendingEntries DEF Matches
  <2>4. Left(e) >= d
    BY <1>2, <2>2, <2>3
  <2> QED BY <1>2, <2>3, <2>4, AheadAfter DEF Left
<1> HIDE DEF d
<1>5. CASE d = 0
  <2>1. U32(cycle_counter + 0) = cycle_counter
    BY <1>2, HAssumption DEF U32, Time, W
  <2> QED BY <1>1, <1>3, <1>5, <2>1 DEF Timeline!vars
<1>6. CASE d # 0
  <2>1. d \in 1..(H - 1)
    BY <1>2, <1>6, HAssumption
  <2>2. Timeline!Elapse
    BY <1>1, <1>3, <1>4, <2>1, TimeElapses
  <2> QED BY <2>2
<1> QED BY <1>5, <1>6

(* Every step of the scheduler is one of the timeline's or changes nothing *)
(* that the timeline shows.                                                *)
LEMMA StepOnTimeline ==
  ASSUME PpuClients, IInv, Matches, IInv', Matches', [Next]_vars
  PROVE  Timeline!Schedule \/ Timeline!Cancel \/ Timeline!Elapse \/ Timeline!Fire \/ UNCHANGED Timeline!vars
<1> DEFINE Shown == Timeline!Schedule \/ Timeline!Cancel \/ Timeline!Elapse \/ Timeline!Fire
                    \/ UNCHANGED Timeline!vars
<1>1. ASSUME UNCHANGED <<cycle_counter, queued>> PROVE Shown
  BY <1>1 DEF Timeline!vars
<1>2. ASSUME NEW n \in TickSizes, Tick(n) PROVE UNCHANGED <<cycle_counter, queued>>
  BY <1>2 DEF Tick
<1>3. ASSUME Input PROVE Shown
  <2>1. TriggerInterrupt("cpu", phase) /\ phase \in [Frame -> Phase] /\ "cpu" \in Unit /\ UNCHANGED cycle_counter
    BY <1>3 DEF Input, IInv, TypeOK, Unit
  <2>2. Timeline!Cancel \/ UNCHANGED Timeline!vars
    BY <2>1, TriggerCancels
  <2> QED BY <2>2
<1>4. ASSUME Pop PROVE Shown
  BY <1>4, PopFires
<1>5. ASSUME EndTick PROVE Shown
  BY <1>5, EndTickOnTimeline
<1>6. ASSUME NEW u \in Unit, NEW n \in Sleep[u], AwaitCycles(u, n) PROVE Shown
  BY <1>6, AwaitCyclesOnTimeline
<1>7. ASSUME NEW u \in Unit, NEW n \in InterruptibleSleep[u] \cup AfterPost, AwaitInterruptible(u, n)
      PROVE  Shown
  BY <1>7, AwaitInterruptibleOnTimeline
<1>8. ASSUME NEW u \in Unit, AwaitInterrupt(u) PROVE UNCHANGED <<cycle_counter, queued>>
  BY <1>8 DEF AwaitInterrupt
<1>9. ASSUME NEW f \in Frame, NEW t \in Unit, Trigger(f, t) PROVE Shown
  <2> DEFINE ph == [phase EXCEPT ![f] = "triggered"]
  <2>1. TriggerInterrupt(t, ph) /\ UNCHANGED cycle_counter
    BY <1>9 DEF Trigger
  <2>2. phase \in [Frame -> Phase]
    BY DEF IInv, TypeOK
  <2>3. ph \in [Frame -> Phase]
    BY <2>2 DEF Phase
  <2> HIDE DEF ph
  <2>4. Timeline!Cancel \/ UNCHANGED Timeline!vars
    BY <2>1, <2>3, TriggerCancels
  <2> QED BY <2>4
<1>10. ASSUME Post PROVE Shown
  BY <1>10, PostOnTimeline
<1>11. ASSUME Return PROVE UNCHANGED <<cycle_counter, queued>>
  BY <1>11 DEF Return
<1>12. ASSUME UNCHANGED vars PROVE UNCHANGED <<cycle_counter, queued>>
  BY <1>12 DEF vars
<1> HIDE DEF Shown
<1>13. Shown
  BY <1>1, <1>2, <1>3, <1>4, <1>5, <1>6, <1>7, <1>8, <1>9, <1>10, <1>11, <1>12 DEF Next, Host, Coroutine
<1> QED BY <1>13 DEF Shown

(* At the start the CPU's first wait is the only event.                    *)
LEMMA InitOnTimeline == Init => Timeline!Init
<1> SUFFICES ASSUME Init PROVE Timeline!Init
  OBVIOUS
<1>1. IInv /\ EntriesKeyed
  BY InitIInv, InitMatches DEF Matches
<1>2. Events \subseteq Timeline!Event
  BY <1>1, EventsOfEntries DEF Events
<1>3. cycle_counter = 0
  BY DEF Init
<1> QED BY <1>2, <1>3, PendingIsEvents DEF Timeline!Init

(* The scheduler runs every entry at exactly the cycle it was queued for,  *)
(* in the order of time and unit, whatever the fast paths, the cached      *)
(* bound and the wrap-around of the counter do: it implements the timeline. *)
THEOREM ImplementsTimeline ==
  ASSUME PpuClients
  PROVE  Spec => TimelineRefinement
<1>1. Init => Timeline!Init
  BY InitOnTimeline
<1>2. CInv /\ CInv' /\ [Next]_vars =>
        [Timeline!Schedule \/ Timeline!Cancel \/ Timeline!Elapse \/ Timeline!Fire]_(Timeline!vars)
  BY StepOnTimeline DEF CInv
<1> QED BY <1>1, <1>2, WaitsStayMatched, PTL DEF Spec, Timeline!Spec, TimelineRefinement
=============================================================================
