-------------------------- MODULE TimerQueue_proofs --------------------------
(***************************************************************************)
(* The list of timer.c keeps its order and implements TimerMap, for every  *)
(* set of timers, offsets and every bound on the clock.                    *)
(*                                                                         *)
(* The lemmas go from the bottom up: a set of positions has a first one,   *)
(* what the list operations do to each position, what timer_set(),         *)
(* timer_stop() and timer_remove() do to an ordered list and to the map it *)
(* stands for.                                                             *)
(***************************************************************************)
EXTENDS TimerQueue, WellFoundedInduction, TLAPS

-----------------------------------------------------------------------------
(***************************************************************************)
(* Positions and lists.                                                    *)
(***************************************************************************)

\* A set of natural numbers has a least element, and Min() is that.
LEMMA LeastNat ==
    ASSUME NEW T \in SUBSET Nat, T # {}
    PROVE  /\ Min(T) \in T
           /\ \A k \in T : Min(T) <= k
<1>1. IsWellFoundedOn(OpToRel(<, Nat), Nat)
  BY Zenon, NatLessThanWellFounded
<1>2. PICK x \in T : \A y \in T : ~(<<y, x>> \in OpToRel(<, Nat))
  BY Zenon, <1>1, WFMin
<1>3. OpToRel(<, Nat) = {ss \in Nat \X Nat : ss[1] < ss[2]}
  BY DEF OpToRel
<1>4. \A y \in T : x <= y
  <2>1. ASSUME NEW y \in T, y < x
        PROVE  FALSE
    <3>1. <<y, x>> \in Nat \X Nat
      OBVIOUS
    <3>. QED  BY Zenon, <2>1, <3>1, <1>2, <1>3
  <2>. QED  BY <2>1
<1>. QED  BY Zenon, <1>4 DEF Min

\* SelectInSeq() is the first position that passes the test, or zero.
\* The two tests of timer.c: for a timer's type, ...
LEMMA TimerGet ==
    ASSUME NEW q, Len(q) \in Nat, NEW timer
    PROVE  /\ timer_get(q, timer) \in 0 .. Len(q)
           /\ timer_get(q, timer) # 0 => q[timer_get(q, timer)].type = timer
           /\ timer_get(q, timer) = 0 => \A i \in 1 .. Len(q) : q[i].type # timer
<1>. DEFINE I == {i \in 1 .. Len(q) : q[i].type = timer}
<1>1. timer_get(q, timer) = IF I # {} THEN Min(I) ELSE 0
  BY DEF timer_get, SelectInSeq
<1>2. CASE I = {}
  BY <1>1, <1>2
<1>3. CASE I # {}
  <2>1. Min(I) \in I
    BY SMTT(30), <1>3, LeastNat
  <2>. QED  BY <2>1, <1>1, <1>3
<1>. QED  BY <1>2, <1>3

\* ... and for the element a timer due at ms goes in front of.
LEMMA PlaceFound ==
    ASSUME NEW q, Len(q) \in Nat, NEW ms
    PROVE  /\ InsertPlace(q, ms) \in 1 .. Len(q) + 1
           /\ InsertPlace(q, ms) <= Len(q) =>
                 \/ ~monotime_valid(q[InsertPlace(q, ms)].val)
                 \/ q[InsertPlace(q, ms)].val > ms
           /\ \A i \in 1 .. InsertPlace(q, ms) - 1 :
                 monotime_valid(q[i].val) /\ ~(q[i].val > ms)
<1>. DEFINE I == {i \in 1 .. Len(q) : ~monotime_valid(q[i].val) \/ q[i].val > ms}
<1>1. InsertPlace(q, ms) =
          IF (IF I # {} THEN Min(I) ELSE 0) = 0
          THEN Len(q) + 1 ELSE (IF I # {} THEN Min(I) ELSE 0)
  BY DEF InsertPlace, SelectInSeq
<1>2. CASE I = {}
  BY <1>1, <1>2
<1>3. CASE I # {}
  <2>1. I \in SUBSET Nat
    OBVIOUS
  <2>2. Min(I) \in I /\ \A k \in I : Min(I) <= k
    <3>. HIDE DEF I
    <3>. QED  BY <1>3, <2>1, LeastNat
  <2>3. InsertPlace(q, ms) = Min(I) /\ Min(I) \in 1 .. Len(q)
    BY <2>2, <1>1, <1>3
  <2>4. ASSUME NEW i \in 1 .. Min(I) - 1
        PROVE  monotime_valid(q[i].val) /\ ~(q[i].val > ms)
    <3>1. i \in 1 .. Len(q) /\ ~(Min(I) <= i)
      BY <2>3
    <3>2. i \notin I
      BY <3>1, <2>2
    <3>. QED  BY <3>1, <3>2
  <2>. QED  BY <2>2, <2>3, <2>4
<1>. QED  BY <1>2, <1>3

\* Two lists in one.
LEMMA Joined ==
    ASSUME NEW S, NEW a \in Seq(S), NEW b \in Seq(S)
    PROVE  /\ a \o b \in Seq(S)
           /\ Len(a \o b) = Len(a) + Len(b)
           /\ \A i \in 1 .. Len(a) + Len(b) :
                 (a \o b)[i] = IF i <= Len(a) THEN a[i] ELSE b[i - Len(a)]
  OBVIOUS

\* What is left of a list from which one position is taken.
LEMMA Removed ==
    ASSUME NEW S, NEW q \in Seq(S), NEW p \in 1 .. Len(q)
    PROVE  /\ RemoveAt(q, p) \in Seq(S)
           /\ Len(RemoveAt(q, p)) = Len(q) - 1
           /\ \A i \in 1 .. Len(q) - 1 :
                 RemoveAt(q, p)[i] = IF i < p THEN q[i] ELSE q[i + 1]
<1>. DEFINE a == SubSeq(q, 1, p - 1)
            b == SubSeq(q, p + 1, Len(q))
<1>1. Len(a) = p - 1 /\ a \in Seq(S)
  OBVIOUS
<1>2. Len(b) = Len(q) - p /\ b \in Seq(S)
  OBVIOUS
<1>3. \A i \in 1 .. p - 1 : a[i] = q[i]
  OBVIOUS
<1>4. \A i \in 1 .. Len(q) - p : b[i] = q[i + p]
  OBVIOUS
<1>5. /\ a \o b \in Seq(S) /\ Len(a \o b) = Len(q) - 1
      /\ \A i \in 1 .. Len(q) - 1 :
            (a \o b)[i] = IF i <= p - 1 THEN a[i] ELSE b[i - (p - 1)]
  <2>. HIDE DEF a, b
  <2>1. a \in Seq(S) /\ b \in Seq(S) /\ Len(a) = p - 1 /\ Len(a) + Len(b) = Len(q) - 1
    BY <1>1, <1>2
  <2>2. /\ a \o b \in Seq(S) /\ Len(a \o b) = Len(a) + Len(b)
        /\ \A i \in 1 .. Len(a) + Len(b) :
              (a \o b)[i] = IF i <= Len(a) THEN a[i] ELSE b[i - Len(a)]
    BY Zenon, <2>1, Joined
  <2>. QED  BY Zenon, <2>1, <2>2
<1>6. ASSUME NEW i \in 1 .. Len(q) - 1
      PROVE  (a \o b)[i] = IF i < p THEN q[i] ELSE q[i + 1]
  <2>1. CASE i < p
    <3>. HIDE DEF a, b
    <3>. QED  BY <2>1, <1>3, <1>5
  <2>2. CASE ~(i < p)
    <3>1. i - (p - 1) \in 1 .. Len(q) - p /\ (i - (p - 1)) + p = i + 1
      BY <2>2
    <3>. HIDE DEF a, b
    <3>. QED  BY <2>2, <3>1, <1>4, <1>5
  <2>. QED  BY Zenon, <2>1, <2>2
<1>. QED  BY Zenon, <1>5, <1>6 DEF RemoveAt

\* A list into which one element is put.
LEMMA Inserted ==
    ASSUME NEW S, NEW q \in Seq(S), NEW p \in 1 .. Len(q) + 1, NEW e \in S
    PROVE  /\ InsertAt(q, p, e) \in Seq(S)
           /\ Len(InsertAt(q, p, e)) = Len(q) + 1
           /\ \A i \in 1 .. Len(q) + 1 :
                 InsertAt(q, p, e)[i] = IF i < p THEN q[i]
                                        ELSE IF i = p THEN e ELSE q[i - 1]
<1>. DEFINE a == SubSeq(q, 1, p - 1)
            b == SubSeq(q, p, Len(q))
<1>1. /\ a \in Seq(S) /\ Len(a) = p - 1
      /\ \A i \in 1 .. p - 1 : a[i] = q[i]
  OBVIOUS
<1>2. /\ b \in Seq(S) /\ Len(b) = Len(q) + 1 - p
      /\ \A i \in 1 .. Len(q) + 1 - p : b[i] = q[i + p - 1]
  OBVIOUS
<1>3. InsertAt(q, p, e) = (a \o <<e>>) \o b
  BY Zenon DEF InsertAt
<1>. HIDE DEF a, b
<1>. DEFINE c == a \o <<e>>
<1>4. /\ c \in Seq(S) /\ Len(c) = p
      /\ \A i \in 1 .. p : c[i] = IF i < p THEN q[i] ELSE e
  BY SMTT(30), <1>1
<1>. HIDE DEF c
<1>5. /\ c \o b \in Seq(S) /\ Len(c \o b) = Len(q) + 1
      /\ \A i \in 1 .. Len(q) + 1 : (c \o b)[i] = IF i <= p THEN c[i] ELSE b[i - p]
  <2>1. c \in Seq(S) /\ b \in Seq(S) /\ Len(c) = p /\ Len(c) + Len(b) = Len(q) + 1
    BY <1>2, <1>4
  <2>. QED  BY ZenonT(30), <2>1, Joined
<1>6. ASSUME NEW i \in 1 .. Len(q) + 1
      PROVE  (c \o b)[i] = IF i < p THEN q[i] ELSE IF i = p THEN e ELSE q[i - 1]
  <2>1. CASE i <= p
    BY <2>1, <1>4, <1>5
  <2>2. CASE ~(i <= p)
    <3>1. i - p \in 1 .. Len(q) + 1 - p /\ (i - p) + p - 1 = i - 1
      BY <2>2
    <3>. QED  BY <2>2, <3>1, <1>2, <1>5
  <2>. QED  BY Zenon, <2>1, <2>2
<1>. QED  BY Zenon, <1>3, <1>5, <1>6 DEF c

-----------------------------------------------------------------------------
(***************************************************************************)
(* Ordered lists and the maps they stand for.                              *)
(***************************************************************************)

Entries == [type : Timers, val : Times]

\* ListOrder of any list.
InOrder(q) ==
    \A i, j \in 1 .. Len(q) : i < j =>
        /\ q[i].type # q[j].type
        /\ monotime_valid(q[j].val) =>
               monotime_valid(q[i].val) /\ q[i].val <= q[j].val

\* When a timer of the list q is due; 0 when it is not running.
DueAt(q, t) == IF timer_running(q, t) THEN q[timer_get(q, t)].val ELSE 0

\* Times are natural numbers, and setting a timer gives one.
LEMMA TimesNat ==
    /\ Times \subseteq Nat /\ 0 \in Times
    /\ \A t \in 1 .. MaxTime, offset \in Offsets : t + offset \in Times /\ t + offset > 0
BY TimerQueueAssumption DEF Times

\* An element of an ordered list says when its timer is due.
LEMMA DueFound ==
    ASSUME NEW q \in Seq(Entries), InOrder(q), NEW i \in 1 .. Len(q)
    PROVE  DueAt(q, q[i].type) = q[i].val
<1>. DEFINE p == timer_get(q, q[i].type)
<1>1. p \in 1 .. Len(q) /\ q[p].type = q[i].type
  BY TimerGet
<1>2. p = i
  <2>. HIDE DEF p
  <2>. QED  BY <1>1 DEF InOrder
<1>3. q[i].val \in Nat
  <2>1. q[i] \in Entries
    OBVIOUS
  <2>2. q[i].val \in Times
    BY <2>1 DEF Entries
  <2>. QED  BY Zenon, <2>2, TimesNat
<1>. QED  BY <1>1, <1>2, <1>3 DEF DueAt, timer_running, monotime_valid

\* A timer that is not in the list is not running.
LEMMA DueMissing ==
    ASSUME NEW q \in Seq(Entries), NEW t, \A i \in 1 .. Len(q) : q[i].type # t
    PROVE  DueAt(q, t) = 0
BY TimerGet DEF DueAt, timer_running

\* No timer runs in an empty list.
LEMMA DueEmpty ==
    ASSUME NEW q, q = <<>>, NEW t
    PROVE  DueAt(q, t) = 0
<1>1. q \in Seq(Entries) /\ \A i \in 1 .. Len(q) : q[i].type # t
  OBVIOUS
<1>. QED  BY Zenon, <1>1, DueMissing

\* Two lists in which a timer has the same entry, or none, agree on it.
LEMMA SameDue ==
    ASSUME NEW q \in Seq(Entries), InOrder(q), NEW r \in Seq(Entries), InOrder(r), NEW t,
           \A i \in 1 .. Len(q) : q[i].type = t => \E j \in 1 .. Len(r) : r[j] = q[i],
           \A j \in 1 .. Len(r) : r[j].type = t => \E i \in 1 .. Len(q) : q[i].type = t
    PROVE  DueAt(r, t) = DueAt(q, t)
<1>1. CASE \E i \in 1 .. Len(q) : q[i].type = t
  <2>1. PICK i \in 1 .. Len(q) : q[i].type = t
    BY <1>1
  <2>2. PICK j \in 1 .. Len(r) : r[j] = q[i]
    BY <2>1
  <2>3. DueAt(q, t) = q[i].val
    BY <2>1, DueFound
  <2>4. DueAt(r, t) = r[j].val
    BY <2>1, <2>2, DueFound
  <2>. QED  BY <2>2, <2>3, <2>4
<1>2. CASE ~\E i \in 1 .. Len(q) : q[i].type = t
  <2>1. DueAt(q, t) = 0
    BY <1>2, DueMissing
  <2>2. DueAt(r, t) = 0
    BY <1>2, DueMissing
  <2>. QED  BY <2>1, <2>2
<1>. QED  BY <1>1, <1>2

\* timer_remove(): the list stays in order, without the timer; the other
\* timers keep their values.
LEMMA RemoveFrom ==
    ASSUME NEW q \in Seq(Entries), InOrder(q), NEW timer \in Timers,
           NEW r, r = timer_remove_from(q, timer)
    PROVE  /\ r \in Seq(Entries) /\ InOrder(r)
           /\ \A i \in 1 .. Len(r) : r[i].type # timer
           /\ \A t \in Timers : DueAt(r, t) = IF t = timer THEN 0 ELSE DueAt(q, t)
<1>. DEFINE p == timer_get(q, timer)
<1>1. CASE p = 0
  <2>1. r = q /\ \A i \in 1 .. Len(q) : q[i].type # timer
    BY <1>1, TimerGet DEF timer_remove_from
  <2>. QED  BY <2>1, DueMissing
<1>2. CASE p # 0
  <2>1. p \in 1 .. Len(q) /\ q[p].type = timer /\ r = RemoveAt(q, p)
    BY <1>2, TimerGet DEF timer_remove_from
  <2>. HIDE DEF p
  <2>2. /\ r \in Seq(Entries) /\ Len(r) = Len(q) - 1
        /\ \A i \in 1 .. Len(r) : r[i] = IF i < p THEN q[i] ELSE q[i + 1]
    BY Zenon, <2>1, Removed
  <2>3. InOrder(r)
    <3>1. SUFFICES ASSUME NEW i \in 1 .. Len(r), NEW j \in 1 .. Len(r), i < j
                   PROVE  /\ r[i].type # r[j].type
                          /\ monotime_valid(r[j].val) =>
                                monotime_valid(r[i].val) /\ r[i].val <= r[j].val
      BY DEF InOrder
    <3>2. PICK k \in 1 .. Len(q), l \in 1 .. Len(q) : r[i] = q[k] /\ r[j] = q[l] /\ k < l
      <4>1. CASE i < p /\ j < p
        BY SMTT(30), <4>1, <2>1, <2>2, <3>1
      <4>2. CASE i < p /\ ~(j < p)
        <5>1. j + 1 \in 1 .. Len(q) /\ i \in 1 .. Len(q) /\ i < j + 1
          BY <2>2, <3>1
        <5>. QED  BY <4>2, <5>1, <2>2
      <4>3. CASE ~(i < p)
        <5>1. /\ j + 1 \in 1 .. Len(q) /\ i + 1 \in 1 .. Len(q) /\ i + 1 < j + 1
              /\ ~(j < p)
          BY SMTT(30), <2>1, <2>2, <3>1, <4>3
        <5>. QED  BY Zenon, <4>3, <5>1, <2>2
      <4>. QED  BY <4>1, <4>2, <4>3
    <3>. QED  BY <3>2 DEF InOrder
  <2>4. ASSUME NEW i \in 1 .. Len(r)
        PROVE  \E k \in 1 .. Len(q) : r[i] = q[k] /\ k # p
    <3>1. CASE i < p
      BY <3>1, <2>1, <2>2
    <3>2. CASE ~(i < p)
      <4>1. i + 1 \in 1 .. Len(q) /\ i + 1 # p
        BY <3>2, <2>1, <2>2
      <4>. QED  BY <3>2, <4>1, <2>2
    <3>. QED  BY <3>1, <3>2
  <2>5. ASSUME NEW k \in 1 .. Len(q), k # p
        PROVE  \E i \in 1 .. Len(r) : r[i] = q[k]
    <3>1. CASE k < p
      BY <3>1, <2>1, <2>2
    <3>2. CASE ~(k < p)
      <4>1. k - 1 \in 1 .. Len(r) /\ ~(k - 1 < p) /\ (k - 1) + 1 = k
        BY SMTT(30), <3>2, <2>1, <2>2, <2>5
      <4>. QED  BY <3>2, <4>1, <2>2
    <3>. QED  BY <3>1, <3>2
  <2>6. \A i \in 1 .. Len(r) : r[i].type # timer
    BY <2>1, <2>4 DEF InOrder
  <2>7. ASSUME NEW t \in Timers, t # timer
        PROVE  DueAt(r, t) = DueAt(q, t)
    <3>1. \A k \in 1 .. Len(q) : q[k].type = t => \E i \in 1 .. Len(r) : r[i] = q[k]
      BY <2>1, <2>5, <2>7
    <3>2. \A i \in 1 .. Len(r) : r[i].type = t => \E k \in 1 .. Len(q) : q[k].type = t
      BY SMTT(30), <2>4
    <3>. QED  BY ZenonT(30), <3>1, <3>2, <2>2, <2>3, SameDue
  <2>8. DueAt(r, timer) = 0
    BY Zenon, <2>2, <2>6, DueMissing
  <2>. QED  BY Zenon, <2>2, <2>3, <2>6, <2>7, <2>8
<1>. QED  BY <1>1, <1>2

\* timer_stop(): the stopped timer goes to the end of the list, cleared.
LEMMA Stopped ==
    ASSUME NEW q \in Seq(Entries), InOrder(q), NEW timer \in Timers,
           NEW s, s = timer_stop(q, timer)
    PROVE  /\ s \in Seq(Entries) /\ InOrder(s)
           /\ \A t \in Timers : DueAt(s, t) = IF t = timer THEN 0 ELSE DueAt(q, t)
<1>1. CASE timer_get(q, timer) = 0
  <2>1. s = q /\ \A i \in 1 .. Len(q) : q[i].type # timer
    BY <1>1, TimerGet DEF timer_stop
  <2>. QED  BY <2>1, DueMissing
<1>2. CASE timer_get(q, timer) # 0
  <2>. DEFINE r == timer_remove_from(q, timer)
             e == [type |-> timer, val |-> 0]
  <2>1. /\ r \in Seq(Entries) /\ InOrder(r)
        /\ \A i \in 1 .. Len(r) : r[i].type # timer
        /\ \A t \in Timers : DueAt(r, t) = IF t = timer THEN 0 ELSE DueAt(q, t)
    BY RemoveFrom
  <2>2. s = Append(r, e)
    BY <1>2 DEF timer_stop
  <2>3. e \in Entries /\ e.type = timer /\ e.val = 0 /\ ~monotime_valid(e.val)
    BY TimesNat DEF Entries, monotime_valid
  <2>. HIDE DEF r, e
  <2>4. /\ s \in Seq(Entries) /\ Len(s) = Len(r) + 1 /\ s[Len(s)] = e
        /\ \A i \in 1 .. Len(r) : s[i] = r[i]
    BY SMTT(30), <2>1, <2>2, <2>3
  <2>5. InOrder(s)
    <3>1. SUFFICES ASSUME NEW i \in 1 .. Len(s), NEW j \in 1 .. Len(s), i < j
                   PROVE  /\ s[i].type # s[j].type
                          /\ monotime_valid(s[j].val) =>
                                monotime_valid(s[i].val) /\ s[i].val <= s[j].val
      BY DEF InOrder
    <3>2. i \in 1 .. Len(r) /\ s[i] = r[i]
      BY <2>1, <2>4, <3>1
    <3>3. CASE j = Len(s)
      BY ZenonT(30), <3>2, <3>3, <2>1, <2>3, <2>4
    <3>4. CASE j # Len(s)
      <4>1. j \in 1 .. Len(r) /\ s[j] = r[j]
        BY SMTT(30), <2>1, <2>4, <3>4
      <4>. QED  BY Zenon, <4>1, <3>1, <3>2, <2>1 DEF InOrder
    <3>. QED  BY <3>3, <3>4
  <2>6. DueAt(s, timer) = 0
    BY SMTT(30), <2>3, <2>4, <2>5, DueFound
  <2>7. ASSUME NEW t \in Timers, t # timer
        PROVE  DueAt(s, t) = DueAt(r, t)
    <3>1. \A i \in 1 .. Len(r) : r[i].type = t => \E j \in 1 .. Len(s) : s[j] = r[i]
      BY <2>1, <2>4
    <3>2. \A j \in 1 .. Len(s) : s[j].type = t => \E i \in 1 .. Len(r) : r[i].type = t
      BY SMTT(30), <2>1, <2>3, <2>4, <2>7
    <3>. QED  BY ZenonT(30), <3>1, <3>2, <2>1, <2>4, <2>5, SameDue
  <2>. QED  BY ZenonT(30), <2>1, <2>4, <2>5, <2>6, <2>7
<1>. QED  BY <1>1, <1>2

\* The insertion of timer_set(): the element goes behind those due at the same
\* moment or before it, and in front of all others.
LEMMA Placed ==
    ASSUME NEW r \in Seq(Entries), InOrder(r), NEW timer \in Timers,
           \A i \in 1 .. Len(r) : r[i].type # timer,
           NEW ms \in Times, ms > 0,
           NEW e \in Entries, e.type = timer, e.val = ms,
           NEW s, s = InsertAt(r, InsertPlace(r, ms), e)
    PROVE  /\ s \in Seq(Entries) /\ InOrder(s)
           /\ \A t \in Timers : DueAt(s, t) = IF t = timer THEN ms ELSE DueAt(r, t)
<1>. DEFINE p == InsertPlace(r, ms)
<1>1. /\ p \in 1 .. Len(r) + 1
      /\ p <= Len(r) => ~monotime_valid(r[p].val) \/ r[p].val > ms
      /\ \A i \in 1 .. p - 1 : monotime_valid(r[i].val) /\ ~(r[i].val > ms)
  BY PlaceFound
<1>2. s = InsertAt(r, p, e)
  OBVIOUS
<1>. HIDE DEF p
<1>4. /\ s \in Seq(Entries) /\ Len(s) = Len(r) + 1
      /\ \A i \in 1 .. Len(r) + 1 : s[i] = IF i < p THEN r[i]
                                           ELSE IF i = p THEN e ELSE r[i - 1]
  BY SMTT(30), <1>1, <1>2, Inserted
<1>5. ms \in Nat /\ \A i \in 1 .. Len(r) : r[i].val \in Nat
  <2>1. ASSUME NEW i \in 1 .. Len(r)
        PROVE  r[i].val \in Times
    <3>1. r[i] \in Entries
      OBVIOUS
    <3>. QED  BY <3>1 DEF Entries
  <2>. QED  BY <2>1, TimesNat
<1>6. s[p] = e /\ p \in 1 .. Len(s)
  BY <1>1, <1>4
<1>7. ASSUME NEW i \in 1 .. Len(s), i # p
      PROVE  \E k \in 1 .. Len(r) : s[i] = r[k] /\ (i < p => k = i) /\ (p < i => k + 1 = i)
  <2>0. i \in 1 .. Len(r) + 1
    BY <1>4
  <2>1. CASE i < p
    <3>1. i \in 1 .. Len(r) /\ ~(p < i)
      BY SMTT(30), <2>0, <2>1, <1>1
    <3>2. s[i] = r[i]
      BY SMTT(30), <2>0, <2>1, <1>4
    <3>. QED  BY <3>1, <3>2
  <2>2. CASE p < i
    <3>1. i - 1 \in 1 .. Len(r) /\ (i - 1) + 1 = i
      BY SMTT(30), <2>2, <1>1, <1>4
    <3>2. s[i] = r[i - 1] /\ ~(i < p)
      BY SMTT(30), <2>0, <2>2, <1>1, <1>4
    <3>. QED  BY SMTT(30), <3>1, <3>2
  <2>. QED  BY <2>0, <2>1, <2>2, <1>1, <1>7
<1>8. \* What follows the new element is stopped or due later.
      ASSUME NEW k \in p .. Len(r)
      PROVE  monotime_valid(r[k].val) => ms <= r[k].val
  <2>1. p \in 1 .. Len(r) /\ k \in 1 .. Len(r)
    BY <1>1
  <2>2. CASE k = p
    BY SMTT(30), <2>1, <2>2, <1>1, <1>5
  <2>3. CASE k # p
    <3>1. p < k
      BY SMTT(30), <2>1, <2>3
    <3>2. monotime_valid(r[k].val) => monotime_valid(r[p].val) /\ r[p].val <= r[k].val
      BY <2>1, <3>1 DEF InOrder
    <3>. QED  BY SMTT(30), <2>1, <3>2, <1>1, <1>5
  <2>. QED  BY <2>2, <2>3
<1>9. InOrder(s)
  <2>1. SUFFICES ASSUME NEW i \in 1 .. Len(s), NEW j \in 1 .. Len(s), i < j
                 PROVE  /\ s[i].type # s[j].type
                        /\ monotime_valid(s[j].val) =>
                              monotime_valid(s[i].val) /\ s[i].val <= s[j].val
    BY DEF InOrder
  <2>2. CASE i = p
    <3>0. j # p /\ p < j
      BY <2>1, <2>2
    <3>1. PICK k \in 1 .. Len(r) : s[j] = r[k] /\ k + 1 = j
      BY Zenon, <1>7, <2>1, <3>0
    <3>2. k \in p .. Len(r)
      BY <3>1, <2>1, <2>2, <1>1
    <3>. QED  BY ZenonT(30), <3>1, <3>2, <2>2, <1>5, <1>6, <1>8 DEF monotime_valid
  <2>3. CASE j = p
    <3>0. i # p /\ i < p
      BY <2>1, <2>3
    <3>1. PICK k \in 1 .. Len(r) : s[i] = r[k] /\ k = i
      BY Zenon, <1>7, <2>1, <3>0
    <3>2. monotime_valid(r[k].val) /\ ~(r[k].val > ms)
      BY <3>1, <2>1, <2>3, <1>1
    <3>. QED  BY SMTT(30), <3>1, <3>2, <2>3, <1>5, <1>6
  <2>4. CASE i # p /\ j # p
    <3>1. PICK k \in 1 .. Len(r) : s[i] = r[k] /\ (i < p => k = i) /\ (p < i => k + 1 = i)
      BY <1>7, <2>4
    <3>2. PICK l \in 1 .. Len(r) : s[j] = r[l] /\ (j < p => l = j) /\ (p < j => l + 1 = j)
      BY <1>7, <2>4
    <3>3. k < l
      BY SMTT(30), <3>1, <3>2, <2>1, <2>4, <1>1, <1>4
    <3>. QED  BY <3>1, <3>2, <3>3 DEF InOrder
  <2>. QED  BY ZenonT(30), <2>2, <2>3, <2>4
<1>10. DueAt(s, timer) = ms
  BY ZenonT(30), <1>4, <1>6, <1>9, DueFound
<1>11. ASSUME NEW t \in Timers, t # timer
       PROVE  DueAt(s, t) = DueAt(r, t)
  <2>1. ASSUME NEW k \in 1 .. Len(r)
        PROVE  \E j \in 1 .. Len(s) : s[j] = r[k]
    <3>1. CASE k < p
      <4>1. k \in 1 .. Len(s)
        BY <1>4
      <4>2. s[k] = r[k]
        BY <3>1, <4>1, <1>4
      <4>. QED  BY <4>1, <4>2
    <3>2. CASE ~(k < p)
      <4>1. k + 1 \in 1 .. Len(s) /\ ~(k + 1 < p) /\ k + 1 # p /\ (k + 1) - 1 = k
        BY SMTT(30), <3>2, <1>1, <1>4
      <4>. QED  BY Zenon, <4>1, <1>4
    <3>. QED  BY <3>1, <3>2
  <2>2. \A j \in 1 .. Len(s) : s[j].type = t => \E i \in 1 .. Len(r) : r[i].type = t
    BY SMTT(30), <1>6, <1>7, <1>11
  <2>. QED  BY ZenonT(30), <2>1, <2>2, <1>4, <1>9, SameDue
<1>. QED  BY Zenon, <1>4, <1>9, <1>10, <1>11

\* timer_set(): the timer is due at ms, the others as before.
LEMMA WasSet ==
    ASSUME NEW q \in Seq(Entries), InOrder(q), NEW timer \in Timers,
           NEW ms \in Times, ms > 0, NEW s, s = timer_set(q, timer, ms)
    PROVE  /\ s \in Seq(Entries) /\ InOrder(s)
           /\ \A t \in Timers : DueAt(s, t) = IF t = timer THEN ms ELSE DueAt(q, t)
<1>. DEFINE pos == timer_get(q, timer)
            r == timer_remove_from(q, timer)
<1>1. CASE pos # 0 /\ q[pos].val = ms
  <2>1. s = q
    BY <1>1 DEF timer_set
  <2>2. pos \in 1 .. Len(q) /\ q[pos].type = timer
    BY <1>1, TimerGet
  <2>3. DueAt(q, timer) = ms
    <3>. HIDE DEF pos
    <3>. QED  BY SMTT(30), <1>1, <2>2, DueFound
  <2>. QED  BY <2>1, <2>3
<1>2. CASE ~(pos # 0 /\ q[pos].val = ms)
  <2>. DEFINE e == [type |-> timer, val |-> ms]
  <2>1. /\ s = InsertAt(r, InsertPlace(r, ms), e)
        /\ e \in Entries /\ e.type = timer /\ e.val = ms
    BY <1>2 DEF timer_set, Entries
  <2>2. /\ r \in Seq(Entries) /\ InOrder(r)
        /\ \A i \in 1 .. Len(r) : r[i].type # timer
        /\ \A t \in Timers : DueAt(r, t) = IF t = timer THEN 0 ELSE DueAt(q, t)
    BY RemoveFrom
  <2>. HIDE DEF r, e
  <2>3. /\ s \in Seq(Entries) /\ InOrder(s)
        /\ \A t \in Timers : DueAt(s, t) = IF t = timer THEN ms ELSE DueAt(r, t)
    BY SMTT(30), <2>1, <2>2, Placed
  <2>. QED  BY <2>2, <2>3
<1>. QED  BY <1>1, <1>2

-----------------------------------------------------------------------------
(***************************************************************************)
(* The invariant.                                                          *)
(***************************************************************************)

\* The list part of the inductive invariant.
LEMMA InitKept == Init => TypeOK /\ ListOrder
BY TimerQueueAssumption DEF Init, TypeOK, ListOrder

\* What every operation leaves: a list of known timers, in order.
LEMMA StepKept ==
    ASSUME TypeOK, ListOrder, [Next]_vars
    PROVE  TypeOK' /\ ListOrder'
<1>1. th \in Seq(Entries) /\ InOrder(th)
  BY DEF TypeOK, ListOrder, Entries, InOrder
<1>2. SUFFICES now' \in 1 .. MaxTime /\ th' \in Seq(Entries) /\ InOrder(th')
               /\ pt' \in SUBSET Timers
  BY DEF TypeOK, ListOrder, Entries, InOrder
<1>3. ASSUME NEW timer \in Timers, NEW offset \in Offsets, TimerSet(timer, offset)
      PROVE  now' = now /\ th' \in Seq(Entries) /\ InOrder(th')
  <2>1. now + offset \in Times /\ now + offset > 0
    BY TimesNat DEF TypeOK
  <2>. QED  BY Zenon, <2>1, <1>1, <1>3, WasSet DEF TimerSet
<1>4. ASSUME NEW timer \in Timers, TimerStop(timer)
      PROVE  now' = now /\ th' \in Seq(Entries) /\ InOrder(th')
  BY SMTT(30), <1>1, <1>4, Stopped DEF TimerStop
<1>5. ASSUME NEW timer \in Timers, TimerRemove(timer)
      PROVE  now' = now /\ th' \in Seq(Entries) /\ InOrder(th')
  BY SMTT(30), <1>1, <1>5, RemoveFrom DEF TimerRemove
<1>6. CASE Dispatch
  <2>1. Head(th).type \in Timers \/ timer_nextisdue(th, now) = {}
    <3>1. CASE th = <<>>
      BY <3>1 DEF timer_nextisdue
    <3>2. CASE th # <<>>
      <4>1. Head(th) \in Entries
        BY <1>1, <3>2
      <4>. QED  BY <4>1 DEF Entries
    <3>. QED  BY <3>1, <3>2
  <2>. QED  BY SMTT(30), <1>1, <1>6, <2>1 DEF Dispatch, timer_nextisdue, TypeOK
<1>7. CASE Handle
  BY SMTT(30), <1>3, <1>4, <1>7 DEF Handle, TypeOK
<1>8. CASE Other
  <2>1. CASE timer_remove_all
    BY <2>1, <1>8 DEF timer_remove_all, Other, TypeOK, InOrder
  <2>2. CASE Tick
    <3>1. now' \in 1 .. MaxTime
      BY <2>2, TimerQueueAssumption DEF Tick, TypeOK
    <3>. QED  BY SMTT(30), <2>2, <3>1, <1>1, <1>8 DEF Tick, Other, TypeOK
  <2>. QED  BY SMTT(30), <2>1, <2>2, <1>3, <1>4, <1>5, <1>8 DEF Other, TypeOK
<1>9. CASE UNCHANGED vars
  BY <1>1, <1>9 DEF vars, TypeOK
<1>. QED  BY Zenon, <1>6, <1>7, <1>8, <1>9 DEF Next

\* due is the map the list stands for.
LEMMA DueIsMap ==
    /\ due = [t \in Timers |-> DueAt(th, t)]
    /\ due' = [t \in Timers |-> DueAt(th', t)]
BY DEF due, DueAt

\* The first element of an ordered list is due first.
LEMMA HeadFirst ==
    ASSUME NEW q \in Seq(Entries), InOrder(q), q # <<>>, NEW t \in Timers,
           DueAt(q, t) > 0
    PROVE  /\ monotime_valid(Head(q).val) /\ Head(q).val <= DueAt(q, t)
           /\ DueAt(q, Head(q).type) = Head(q).val /\ Head(q).type \in Timers
           /\ Head(q).val \in Nat
<1>1. Head(q) = q[1] /\ 1 \in 1 .. Len(q) /\ q[1] \in Entries
  OBVIOUS
<1>2. Head(q).type \in Timers /\ Head(q).val \in Nat
  BY Zenon, <1>1, TimesNat DEF Entries
<1>3. DueAt(q, Head(q).type) = Head(q).val
  BY <1>1, DueFound
<1>4. PICK i \in 1 .. Len(q) : q[i].type = t
  BY DueMissing
<1>5. DueAt(q, t) = q[i].val
  BY <1>4, DueFound
<1>6. CASE i = 1
  BY SMTT(30), <1>1, <1>5, <1>6, <1>2, <1>3 DEF monotime_valid
<1>7. CASE i # 1
  <2>1. 1 < i
    BY <1>7
  <2>2. monotime_valid(q[i].val)
    BY <1>5 DEF monotime_valid
  <2>3. monotime_valid(q[1].val) /\ q[1].val <= q[i].val
    BY SMTT(30), <1>1, <2>1, <2>2 DEF InOrder
  <2>. QED  BY ZenonT(30), <1>1, <1>2, <1>3, <1>5, <2>3
<1>. QED  BY <1>6, <1>7

\* What poll() is told.
LEMMA EarliestFirst ==
    ASSUME TypeOK, ListOrder
    PROVE  NextDueIsEarliest
<1>1. th \in Seq(Entries) /\ InOrder(th)
  BY DEF TypeOK, ListOrder, Entries, InOrder
<1>. DEFINE running == {due[t] : t \in {u \in Timers : due[u] > 0}}
<1>2. SUFFICES timer_nextduein(th) = IF running = {} THEN 0 ELSE Min(running)
  BY DEF NextDueIsEarliest
<1>3. \A t \in Timers : due[t] = DueAt(th, t)
  BY DueIsMap
<1>4. CASE running = {}
  <2>1. \A t \in Timers : ~(DueAt(th, t) > 0)
    BY <1>3, <1>4
  <2>2. CASE th = <<>>
    BY Zenon, <1>4, <2>2 DEF timer_nextduein
  <2>3. CASE th # <<>>
    <3>1. Head(th) = th[1] /\ 1 \in 1 .. Len(th) /\ th[1] \in Entries
      BY <1>1, <2>3
    <3>2. Head(th).type \in Timers /\ Head(th).val \in Nat
      BY Zenon, <3>1, TimesNat DEF Entries
    <3>3. DueAt(th, Head(th).type) = Head(th).val
      BY SMTT(30), <1>1, <3>1, DueFound
    <3>4. Head(th).val = 0
      BY SMTT(30), <2>1, <3>2, <3>3
    <3>. QED  BY SMTT(30), <3>4, <1>4, <2>3 DEF timer_nextduein
  <2>. QED  BY Zenon, <2>2, <2>3
<1>5. CASE running # {}
  <2>1. PICK t \in Timers : DueAt(th, t) > 0
    BY <1>3, <1>5
  <2>2. th # <<>>
    <3>1. CASE th = <<>>
      <4>1. \A i \in 1 .. Len(th) : th[i].type # t
        BY <3>1
      <4>2. DueAt(th, t) = 0
        BY <1>1, <4>1, DueMissing
      <4>. QED  BY <2>1, <4>2
    <3>. QED  BY <3>1
  <2>3. /\ Head(th).type \in Timers /\ Head(th).val \in Nat /\ Head(th).val > 0
        /\ DueAt(th, Head(th).type) = Head(th).val
    BY Zenon, <1>1, <2>1, <2>2, HeadFirst DEF monotime_valid
  <2>4. Head(th).val \in running
    BY <1>3, <2>3
  <2>5. \A k \in running : Head(th).val <= k
    BY SMTT(30), <1>1, <1>3, <2>2, HeadFirst
  <2>6. running \subseteq Nat
    <3>1. SUFFICES ASSUME NEW u \in Timers, due[u] > 0
                   PROVE  due[u] \in Nat
      OBVIOUS
    <3>2. PICK i \in 1 .. Len(th) : th[i].type = u
      BY SMTT(30), <1>1, <1>3, <3>1, DueMissing
    <3>3. due[u] = th[i].val /\ th[i] \in Entries
      BY SMTT(30), <1>1, <1>3, <3>2, DueFound
    <3>. QED  BY Zenon, <3>3, TimesNat DEF Entries
  <2>. HIDE DEF running
  <2>7. Min(running) \in running /\ \A k \in running : Min(running) <= k
    BY SMTT(30), <1>5, <2>6, LeastNat
  <2>8. Min(running) = Head(th).val
    <3>1. Min(running) \in Nat /\ Min(running) <= Head(th).val
      BY Zenon, <2>4, <2>6, <2>7
    <3>2. Head(th).val <= Min(running)
      BY <2>5, <2>7
    <3>. QED  BY <3>1, <3>2, <2>3
  <2>. QED  BY SMTT(30), <2>8, <2>2, <1>5 DEF timer_nextduein
<1>. QED  BY ZenonT(30), <1>4, <1>5

\* timer.c: no timer is in the list twice, running timers are in the order they
\* are due with the stopped ones behind them, and what timer_nextduein() tells
\* poll() is the earliest of all, however timers are set, stopped and removed.
THEOREM ListKept == Spec => []ListRight
<1>1. Init => TypeOK /\ ListOrder
  BY InitKept
<1>2. TypeOK /\ ListOrder /\ [Next]_vars => TypeOK' /\ ListOrder'
  BY StepKept
<1>3. TypeOK /\ ListOrder => ListRight
  BY EarliestFirst DEF ListRight
<1>. QED  BY <1>1, <1>2, <1>3, PTL DEF Spec

-----------------------------------------------------------------------------
(***************************************************************************)
(* The refinement of TimerMap.                                             *)
(***************************************************************************)

\* timer_set() sets one timer of the map, ...
LEMMA SetMaps ==
    ASSUME TypeOK, ListOrder, NEW timer \in Timers, NEW offset \in Offsets,
           TimerSet(timer, offset)
    PROVE  Abstract!Set(timer, offset)
<1>1. th \in Seq(Entries) /\ InOrder(th)
  BY DEF TypeOK, ListOrder, Entries, InOrder
<1>2. now + offset \in Times /\ now + offset > 0
  BY TimesNat DEF TypeOK
<1>3. \A t \in Timers : DueAt(th', t) = IF t = timer THEN now + offset ELSE DueAt(th, t)
  BY SMTT(30), <1>1, <1>2, WasSet DEF TimerSet
<1>4. due' = [due EXCEPT ![timer] = now + offset]
  BY <1>3, DueIsMap
<1>. QED  BY <1>4 DEF Abstract!Set, TimerSet

\* ... timer_stop() and timer_remove() stop one.
LEMMA StopMaps ==
    ASSUME TypeOK, ListOrder, NEW timer \in Timers,
           TimerStop(timer) \/ TimerRemove(timer)
    PROVE  Abstract!Stop(timer)
<1>1. th \in Seq(Entries) /\ InOrder(th)
  BY DEF TypeOK, ListOrder, Entries, InOrder
<1>2. \A t \in Timers : DueAt(th', t) = IF t = timer THEN 0 ELSE DueAt(th, t)
  <2>1. CASE TimerStop(timer)
    BY SMTT(30), <1>1, <2>1, Stopped DEF TimerStop
  <2>2. CASE TimerRemove(timer)
    BY SMTT(30), <1>1, <2>2, RemoveFrom DEF TimerRemove
  <2>. QED  BY <2>1, <2>2
<1>3. due' = [due EXCEPT ![timer] = 0]
  BY <1>2, DueIsMap
<1>. QED  BY <1>3 DEF Abstract!Stop, TimerStop, TimerRemove

\* The timer the main loop takes from the head of the list is due, and no
\* running timer is due earlier.
LEMMA DispatchMaps ==
    ASSUME TypeOK, ListOrder, Dispatch
    PROVE  pt = {} /\ \E t \in Timers : Abstract!Fire(t)
<1>1. th \in Seq(Entries) /\ InOrder(th)
  BY DEF TypeOK, ListOrder, Entries, InOrder
<1>. DEFINE t == Head(th).type
<1>2. /\ th # <<>> /\ monotime_valid(Head(th).val) /\ Head(th).val <= now
      /\ pt = {} /\ pt' = {t} /\ now' = now /\ th' = th
  BY DEF Dispatch, timer_nextisdue
<1>3. Head(th) = th[1] /\ 1 \in 1 .. Len(th) /\ th[1] \in Entries
  BY <1>1, <1>2
<1>4. t \in Timers
  BY <1>3 DEF Entries
<1>5. DueAt(th, t) = Head(th).val
  BY <1>1, <1>3, DueFound
<1>. HIDE DEF t
<1>6. due[t] = Head(th).val /\ due' = due
  BY ZenonT(30), <1>2, <1>4, <1>5, DueIsMap
<1>7. due[t] > 0 /\ due[t] <= now
  BY <1>2, <1>6 DEF monotime_valid
<1>8. \A u \in Timers : due[u] > 0 => due[t] <= due[u]
  BY ZenonT(30), <1>1, <1>2, <1>6, HeadFirst, DueIsMap
<1>9. Abstract!Fire(t)
  BY SMTT(30), <1>2, <1>6, <1>7, <1>8 DEF Abstract!Fire, Abstract!IsDue, Abstract!Running, Abstract!IsNext
<1>. QED  BY SMTT(30), <1>2, <1>4, <1>9

\* Every step of the list is a step of the map, or leaves it alone.
LEMMA StepMaps ==
    ASSUME TypeOK, ListOrder, [Next]_vars
    PROVE  [Abstract!Next]_(Abstract!vars)
<1>1. CASE Dispatch
  BY <1>1, DispatchMaps DEF Abstract!Next
<1>2. CASE Handle
  <2>1. PICK timer \in pt : /\ \/ TimerStop(timer)
                               \/ \E offset \in Offsets \ {0} : TimerSet(timer, offset)
                            /\ pt' = {}
    BY <1>2 DEF Handle
  <2>2. timer \in Timers
    BY DEF TypeOK
  <2>3. Abstract!Handler(timer)
    BY Zenon, <2>1, <2>2, SetMaps, StopMaps DEF Abstract!Handler
  <2>. QED  BY <2>3 DEF Abstract!Next
<1>3. CASE Other
  <2>1. pt = {} /\ pt' = pt
    BY <1>3 DEF Other
  <2>2. ASSUME NEW timer \in Timers, NEW offset \in Offsets, TimerSet(timer, offset)
        PROVE  Abstract!Idle
    BY SMTT(30), <2>1, <2>2, SetMaps DEF Abstract!Idle
  <2>3. ASSUME NEW timer \in Timers, TimerStop(timer) \/ TimerRemove(timer)
        PROVE  Abstract!Idle
    BY SMTT(30), <2>1, <2>3, StopMaps DEF Abstract!Idle
  <2>4. ASSUME timer_remove_all
        PROVE  Abstract!Idle
    <3>1. th' = <<>> /\ now' = now
      BY <2>4 DEF timer_remove_all
    <3>2. \A t \in Timers : DueAt(th', t) = 0
      BY <3>1, DueEmpty
    <3>3. due' = [t \in Timers |-> 0]
      BY <3>2, DueIsMap
    <3>. QED  BY SMTT(30), <2>1, <3>1, <3>3 DEF Abstract!Idle, Abstract!StopAll
  <2>5. ASSUME Tick
        PROVE  Abstract!Idle
    <3>1. due' = due
      BY <2>5, DueIsMap DEF Tick
    <3>. QED  BY SMTT(30), <2>1, <2>5, <3>1 DEF Tick, Abstract!Idle, Abstract!Tick
  <2>6. Abstract!Idle
    BY SMTT(30), <1>3, <2>2, <2>3, <2>4, <2>5 DEF Other
  <2>. QED  BY <2>1, <2>6 DEF Abstract!Next
<1>4. CASE UNCHANGED vars
  <2>1. due' = due
    BY <1>4, DueIsMap DEF vars
  <2>. QED  BY <1>4, <2>1 DEF vars, Abstract!vars
<1>. QED  BY SMTT(30), <1>1, <1>2, <1>3, <1>4 DEF Next

\* timer.c as its users know it: the sorted list behaves like a map from timers
\* to due times, and the dispatcher is only ever handed a timer that is due and
\* that no running timer precedes.
THEOREM ListImplementsMap == Spec => ImplementsTimerMap
<1>1. Init => Abstract!Init
  <2>1. SUFFICES ASSUME Init
                 PROVE  Abstract!Init
    OBVIOUS
  <2>2. \A t \in Timers : DueAt(th, t) = 0
    BY SMTT(30), <2>1, DueEmpty DEF Init
  <2>. QED  BY <2>1, <2>2, DueIsMap DEF Init, Abstract!Init
<1>2. Init => TypeOK /\ ListOrder
  BY InitKept
<1>3. TypeOK /\ ListOrder /\ [Next]_vars => TypeOK' /\ ListOrder'
  BY StepKept
<1>4. TypeOK /\ ListOrder /\ [Next]_vars => [Abstract!Next]_(Abstract!vars)
  BY StepMaps
<1>. QED  BY <1>1, <1>2, <1>3, <1>4, PTL DEF Spec, ImplementsTimerMap, Abstract!Spec
=============================================================================
