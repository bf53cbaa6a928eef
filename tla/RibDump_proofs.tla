--------------------------- MODULE RibDump_proofs ---------------------------
(***************************************************************************)
(* Proofs about the walks of a RIB, for any number of entries, walks,      *)
(* changes of routes and slices of any length.  The inductive invariant    *)
(* adds to the locks what a walk knows of the tree: everything it has      *)
(* visited is before the entry it goes on with, and what it must still     *)
(* visit is not.                                                           *)
(***************************************************************************)
EXTENDS RibDump, TLAPS, NaturalsInduction, WellFoundedInduction

\* The contexts: a record of ranges in the tree and of entries.
Contexts ==
  [sub: Nat \X Nat, at: 0..(N + 1), throttled: BOOLEAN,
   must: SUBSET Entries, saw: SUBSET Entries, twice: SUBSET Entries]

TypeOK ==
  /\ tree \in SUBSET Entries
  /\ routes \in SUBSET Entries
  /\ queued \in SUBSET Entries
  /\ locked \in SUBSET Entries
  /\ gone \in BOOLEAN
  /\ fatal \in BOOLEAN
  /\ left \in [walk: Nat, route: Nat, stop: Nat]
  /\ Ids \in SUBSET Nat
  /\ dumps \in [Ids -> Contexts]

\* The walk c is right about the entries behind it and in front of it: it has
\* visited only entries before the one it goes on with, none twice, and an
\* entry it must visit is visited or still in front, in its range and, as long
\* as the RIB exists, has its route.
WalkRight(c, r, g) ==
  /\ \A x \in c.saw : x < c.at
  /\ \A x \in c.must : x \in c.saw \/ x >= c.at
  /\ c.twice = {}
  /\ c.must \subseteq c.sub[1]..c.sub[2]
  /\ g \/ c.must \subseteq r

Walks == \A i \in Ids : WalkRight(dumps[i], routes, gone)

\* Numbers are given out downwards: a new context gets one that is free.
Fresh == \A i \in Ids : i > left.walk

Inv == TypeOK /\ LocksHeld /\ Collected /\ Walks /\ Fresh /\ missed = {}
-----------------------------------------------------------------------------
\* A set of naturals that is not empty has a least element.
LEMMA LeastNat ==
    ASSUME NEW T \in SUBSET Nat, T # {}
    PROVE  /\ Min(T) \in T
           /\ \A k \in T : Min(T) <= k
<1>1. IsWellFoundedOn(OpToRel(<, Nat), Nat)
  BY Zenon, NatLessThanWellFounded
<1>2. PICK x \in T : \A y \in T : ~(<<y, x>> \in OpToRel(<, Nat))
  BY Zenon, <1>1, WFMin
<1>3. OpToRel(<, Nat) = {ss \in Nat \X Nat : ss[1] < ss[2]}
  BY DEF OpToRel
<1>4. \A y \in T : x <= y
  <2>1. ASSUME NEW y \in T, y < x
        PROVE  FALSE
    <3>1. <<y, x>> \in Nat \X Nat
      OBVIOUS
    <3>. QED  BY Zenon, <2>1, <3>1, <1>2, <1>3
  <2>. QED  BY <2>1
<1>. QED  BY Zenon, <1>4 DEF Min

\* LIST_FIRST is an element of the list.
LEMMA FirstIn ==
    ASSUME NEW X \in SUBSET Nat
    PROVE  /\ First(X) \in X \cup {0}
           /\ X # {} => First(X) \in X
<1>1. CASE X = {}
  BY <1>1 DEF First
<1>2. CASE X # {}
  BY Zenon, <1>2, LeastNat DEF First
<1>. QED  BY <1>1, <1>2

\* What a context is, field by field.
LEMMA ContextFields ==
    ASSUME NEW c \in Contexts
    PROVE  /\ c.sub[1] \in Nat /\ c.sub[2] \in Nat
           /\ c.at \in 0..(N + 1)
           /\ c.throttled \in BOOLEAN
           /\ c.must \in SUBSET Entries
           /\ c.saw \in SUBSET Entries
           /\ c.twice \in SUBSET Entries
BY DEF Contexts

LEMMA InvInit == Init => Inv
<1>. SUFFICES ASSUME Init PROVE Inv
  OBVIOUS
<1>1. Ids = {}
  BY DEF Init, Ids
<1>2. dumps \in [Ids -> Contexts]
  BY <1>1 DEF Init
<1>3. left \in [walk: Nat, route: Nat, stop: Nat]
  BY BoundsAssumption DEF Init
<1>4. TypeOK
  BY Zenon, <1>1, <1>2, <1>3 DEF Init, TypeOK
<1>5. LocksHeld
  BY <1>1 DEF Init, LocksHeld, Paused
<1>6. Collected
  BY DEF Init, Collected
<1>. QED  BY <1>1, <1>4, <1>5, <1>6 DEF Inv, Walks, Fresh, Init

\* A bound is spent.
LEMMA Spent ==
    ASSUME left \in [walk: Nat, route: Nat, stop: Nat],
           NEW what \in {"walk", "route", "stop"}, Spend(what)
    PROVE  /\ left' \in [walk: Nat, route: Nat, stop: Nat]
           /\ left'.walk <= left.walk
           /\ what = "walk" => left.walk > 0 /\ left'.walk = left.walk - 1
<1>1. left[what] \in Nat /\ left[what] > 0
  BY DEF Spend
<1>2. CASE what = "walk"
  BY <1>1, <1>2 DEF Spend
<1>3. CASE what = "route"
  BY <1>1, <1>3 DEF Spend
<1>4. CASE what = "stop"
  BY <1>1, <1>4 DEF Spend
<1>. QED  BY <1>2, <1>3, <1>4

\* A step that leaves the contexts their entries leaves the locks right if it
\* takes no locked entry from the tree.
LEMMA LocksSame ==
    ASSUME LocksHeld, Ids' = Ids, \A i \in Ids : dumps'[i].at = dumps[i].at,
           locked' = locked, rib_dump_ctx' = rib_dump_ctx, locked \subseteq tree'
    PROVE  LocksHeld'
<1>1. Paused' = Paused
  BY DEF Paused
<1>2. Paused \subseteq Ids
  BY DEF Paused
<1>3. {dumps'[i].at : i \in Paused'} = {dumps[i].at : i \in Paused}
  BY <1>1, <1>2
<1>. QED  BY <1>1, <1>2, <1>3 DEF LocksHeld

LEMMA RouteAddKeeps ==
    ASSUME Inv, NEW x \in Entries, NEW q \in BOOLEAN, RouteAdd(x, q)
    PROVE  Inv'
<1>1. Ids' = Ids /\ dumps' = dumps
  BY DEF RouteAdd, Ids
<1>2. left' \in [walk: Nat, route: Nat, stop: Nat] /\ left'.walk <= left.walk
  BY Spent DEF RouteAdd, Inv, TypeOK
<1>3. TypeOK'
  BY <1>1, <1>2 DEF RouteAdd, Inv, TypeOK
<1>4. locked \subseteq tree'
  BY DEF Inv, LocksHeld, RouteAdd
<1>5. LocksHeld'
  BY <1>1, <1>4, LocksSame DEF RouteAdd, Inv
<1>6. Collected'
  BY DEF RouteAdd, Inv, Collected
<1>7. Walks'
  BY <1>1 DEF RouteAdd, Inv, Walks, WalkRight
<1>8. Fresh'
  BY <1>1, <1>2 DEF Inv, Fresh, TypeOK
<1>. QED  BY <1>3, <1>5, <1>6, <1>7, <1>8 DEF Inv, RouteAdd

LEMMA RouteDelKeeps ==
    ASSUME Inv, NEW x \in Entries, NEW q \in BOOLEAN, RouteDel(x, q)
    PROVE  Inv'
<1>1. Ids' = Ids /\ dumps' = [i \in Ids |-> [dumps[i] EXCEPT !.must = @ \ {x}]]
  BY DEF RouteDel, Forget, Ids
<1>2. left' \in [walk: Nat, route: Nat, stop: Nat] /\ left'.walk <= left.walk
  BY Spent DEF RouteDel, Inv, TypeOK
<1>3. ASSUME NEW i \in Ids
      PROVE  /\ dumps'[i] \in Contexts
             /\ dumps'[i] = [dumps[i] EXCEPT !.must = @ \ {x}]
             /\ dumps'[i].at = dumps[i].at
             /\ dumps'[i].saw = dumps[i].saw
             /\ dumps'[i].twice = dumps[i].twice
             /\ dumps'[i].sub = dumps[i].sub
             /\ dumps'[i].must = dumps[i].must \ {x}
  <2>1. dumps[i] \in Contexts
    BY DEF Inv, TypeOK
  <2>2. dumps'[i] = [dumps[i] EXCEPT !.must = @ \ {x}]
    BY <1>1
  <2>. QED  BY <2>1, <2>2 DEF Contexts
<1>4. TypeOK'
  <2>1. dumps' \in [Ids' -> Contexts]
    BY <1>1, <1>3
  <2>. QED  BY <1>1, <1>2, <2>1 DEF RouteDel, Inv, TypeOK, Kept
<1>5. locked \subseteq tree'
  BY DEF Inv, LocksHeld, RouteDel, Kept
<1>6. LocksHeld'
  BY Zenon, <1>1, <1>3, <1>5, LocksSame DEF RouteDel, Inv
<1>7. Collected'
  BY DEF RouteDel, Inv, Collected, Kept
<1>8. Walks'
  <2>1. ASSUME NEW i \in Ids
        PROVE  WalkRight(dumps'[i], routes', gone')
    <3>1. WalkRight(dumps[i], routes, gone)
      BY DEF Inv, Walks
    <3>. QED  BY Zenon, <3>1, <1>3 DEF WalkRight, RouteDel
  <2>. QED  BY <2>1, <1>1 DEF Walks
<1>9. Fresh'
  BY <1>1, <1>2 DEF Inv, Fresh, TypeOK
<1>. QED  BY <1>4, <1>6, <1>7, <1>8, <1>9 DEF Inv, RouteDel

LEMMA DequeueKeeps ==
    ASSUME Inv, NEW x \in Entries, rib_pq_dequeue(x)
    PROVE  Inv'
<1>1. Ids' = Ids /\ dumps' = dumps
  BY DEF rib_pq_dequeue, Ids
<1>2. TypeOK'
  BY <1>1 DEF rib_pq_dequeue, Inv, TypeOK, Kept
<1>3. locked \subseteq tree'
  BY DEF Inv, LocksHeld, rib_pq_dequeue, Kept
<1>4. LocksHeld'
  BY <1>1, <1>3, LocksSame DEF rib_pq_dequeue, Inv
<1>5. Collected'
  BY DEF rib_pq_dequeue, Inv, Collected, Kept
<1>6. Walks'
  BY <1>1 DEF rib_pq_dequeue, Inv, Walks
<1>7. Fresh'
  BY <1>1 DEF Inv, Fresh, rib_pq_dequeue
<1>. QED  BY <1>2, <1>4, <1>5, <1>6, <1>7 DEF Inv, rib_pq_dequeue

\* A new walk that is right about the tree, and whose entry, if it has one, is
\* in the tree and not locked.
LEMMA InsertKeeps ==
    ASSUME Inv, NEW c \in Contexts, WalkRight(c, routes, gone), Spend("walk"),
           dumps' = Inserted(c),
           c.at \in Entries => c.at \in tree /\ c.at \notin locked,
           locked' = locked \cup (Entries \cap {c.at}),
           UNCHANGED <<tree, routes, queued, rib_dump_ctx, gone, fatal, missed>>
    PROVE  Inv'
<1>. DEFINE w == left.walk
<1>1. /\ left' \in [walk: Nat, route: Nat, stop: Nat]
      /\ w \in Nat /\ left'.walk = w - 1
  BY Spent DEF Inv, TypeOK
<1>2. w \notin Ids
  BY <1>1 DEF Inv, Fresh, TypeOK
<1>3. Ids' = Ids \cup {w}
  BY DEF Ids, Inserted
<1>4. dumps'[w] = c /\ \A i \in Ids : dumps'[i] = dumps[i]
  BY <1>2 DEF Inserted
<1>5. TypeOK'
  <2>1. dumps' \in [Ids' -> Contexts]
    BY Zenon, <1>3, <1>4 DEF Inserted, Inv, TypeOK
  <2>2. Ids' \in SUBSET Nat
    BY Zenon, <1>1, <1>3 DEF Inv, TypeOK
  <2>. QED  BY <1>1, <2>1, <2>2 DEF Inv, TypeOK
<1>6. LocksHeld'
  <2>1. Paused' = Paused \cup (IF c.at \in Entries THEN {w} ELSE {})
    BY <1>3, <1>4 DEF Paused
  <2>2. \A i \in Paused : i \in Ids /\ dumps[i].at \in locked /\ i # w
    BY <1>2 DEF Paused, Inv, LocksHeld
  <2>3. locked' = {dumps'[i].at : i \in Paused'}
    <3>1. locked = {dumps[i].at : i \in Paused}
      BY DEF Inv, LocksHeld
    <3>2. CASE c.at \in Entries
      BY <3>1, <3>2, <2>1, <2>2, <1>4
    <3>3. CASE c.at \notin Entries
      <4>1. locked' = locked /\ Paused' = Paused
        BY <3>3, <2>1
      <4>. QED  BY <3>1, <4>1, <2>2, <1>4
    <3>. QED  BY <3>2, <3>3
  <2>4. ASSUME NEW i \in Paused', NEW j \in Paused', dumps'[i].at = dumps'[j].at
        PROVE  i = j
    <3>1. CASE i = w \/ j = w
      BY <3>1, <2>1, <2>2, <2>4, <1>4
    <3>2. CASE i # w /\ j # w
      BY <3>2, <2>1, <2>2, <2>4, <1>4 DEF Inv, LocksHeld
    <3>. QED  BY <3>1, <3>2
  <2>5. locked' \subseteq tree'
    BY DEF Inv, LocksHeld
  <2>6. rib_dump_ctx' \in Ids' \cup {0}
    BY <1>3 DEF Inv, LocksHeld
  <2>. QED  BY <2>3, <2>4, <2>5, <2>6 DEF LocksHeld
<1>7. Collected'
  BY DEF Inv, Collected
<1>8. Walks'
  BY <1>3, <1>4 DEF Inv, Walks
<1>9. Fresh'
  BY <1>1, <1>3 DEF Inv, Fresh, TypeOK
<1>. QED  BY <1>5, <1>6, <1>7, <1>8, <1>9 DEF Inv

LEMMA NewKeeps ==
    ASSUME Inv, rib_dump_new
    PROVE  Inv'
<1>. DEFINE c == Context(Whole, 0)
<1>1. /\ c \in Contexts /\ c.at = 0 /\ c.saw = {} /\ c.twice = {}
      /\ c.sub = Whole /\ c.must = routes \cap (1..N)
  BY BoundsAssumption DEF Context, Contexts, Whole, Inv, TypeOK, Entries
<1>2. WalkRight(c, routes, gone)
  <2>1. Whole[1] = 1 /\ Whole[2] = N
    BY DEF Whole
  <2>2. \A x \in c.must : x >= c.at
    BY <1>1, BoundsAssumption
  <2>. QED  BY <1>1, <2>1, <2>2 DEF WalkRight
<1>3. c.at \notin Entries
  BY <1>1 DEF Entries
<1>4. dumps' = Inserted(c)
  BY DEF rib_dump_new
<1>. HIDE DEF c
<1>. QED  BY <1>1, <1>2, <1>3, <1>4, InsertKeeps DEF rib_dump_new

\* RB_NFIND: the walk of a subtree begins with the first entry that is not
\* before the range.
LEMMA SubtreeKeeps ==
    ASSUME Inv, ~SharedStart, NEW sub \in Subtrees, rib_dump_subtree(sub)
    PROVE  Inv'
<1>. DEFINE from == {x \in tree : x >= sub[1]}
            at == IF from = {} THEN N + 1 ELSE Min(from)
            c == Context(sub, at)
<1>1. sub \in Nat \X Nat /\ sub[1] \in Entries /\ sub[2] \in Entries
  BY BoundsAssumption DEF Entries
<1>2. from # {} => Min(from) \in from /\ \A x \in from : Min(from) <= x
  <2>1. from \in SUBSET Nat
    <3>1. tree \in SUBSET Entries /\ Entries \in SUBSET Nat
      BY BoundsAssumption DEF Inv, TypeOK, Entries
    <3>. QED  BY Zenon, <3>1
  <2>. HIDE DEF from
  <2>. QED  BY <2>1, LeastNat
<1>3. at \in 0..(N + 1) /\ \A x \in routes \cap (sub[1]..sub[2]) : x >= at
  <2>1. routes \cap (sub[1]..sub[2]) \subseteq from
    <3>1. \A x \in sub[1]..sub[2] : x >= sub[1]
      BY <1>1 DEF Entries
    <3>. QED  BY <3>1 DEF Inv, Collected
  <2>2. CASE from = {}
    BY <2>1, <2>2, BoundsAssumption
  <2>3. CASE from # {}
    <3>1. Min(from) \in Entries
      BY <1>2, <2>3 DEF Inv, TypeOK
    <3>2. at = Min(from)
      BY <2>3
    <3>3. \A x \in from : x \in Entries /\ x >= at
      BY <3>1, <3>2, <1>2, <2>3 DEF Inv, TypeOK, Entries
    <3>4. at \in 0..(N + 1)
      BY <3>1, <3>2, BoundsAssumption DEF Entries
    <3>. QED  BY <3>3, <3>4, <2>1
  <2>. QED  BY <2>2, <2>3
<1>4. at \in Entries => at \in tree /\ at \notin locked
  <2>1. ASSUME from = {} PROVE at \notin Entries
    BY <2>1, BoundsAssumption DEF Entries
  <2>2. ASSUME from # {} PROVE at \in tree /\ at \notin locked
    BY <2>2, <1>2 DEF rib_dump_subtree
  <2>. QED  BY <2>1, <2>2
<1>5. locked' = locked \cup (Entries \cap {at})
  <2>1. CASE from = {}
    <3>1. at \notin Entries
      BY <2>1, BoundsAssumption DEF Entries
    <3>. QED  BY <3>1, <2>1 DEF rib_dump_subtree
  <2>2. CASE from # {}
    <3>1. at \in Entries
      BY <1>2, <2>2 DEF Inv, TypeOK
    <3>. QED  BY <3>1, <2>2 DEF rib_dump_subtree
  <2>. QED  BY <2>1, <2>2
<1>6. dumps' = Inserted(c)
  BY DEF rib_dump_subtree
<1>. HIDE DEF at
<1>7. /\ c \in Contexts /\ c.at = at /\ c.saw = {} /\ c.twice = {}
      /\ c.sub = sub /\ c.must = routes \cap (sub[1]..sub[2])
  BY <1>1, <1>3 DEF Context, Contexts, Inv, TypeOK
<1>8. WalkRight(c, routes, gone)
  BY <1>3, <1>7 DEF WalkRight
<1>. HIDE DEF c
<1>. QED  BY Zenon, <1>4, <1>5, <1>6, <1>7, <1>8, InsertKeeps DEF rib_dump_subtree

\* A walk that is throttled, or no longer, is otherwise what it was.
LEMMA ThrottleSame ==
    ASSUME Inv, NEW id \in Ids, NEW b \in BOOLEAN,
           dumps' = [dumps EXCEPT ![id].throttled = b],
           left' \in [walk: Nat, route: Nat, stop: Nat], left'.walk <= left.walk,
           UNCHANGED <<tree, routes, queued, locked, rib_dump_ctx, gone, fatal, missed>>
    PROVE  Inv'
<1>1. Ids' = Ids
  BY DEF Ids, Inv, TypeOK
<1>2. ASSUME NEW i \in Ids
      PROVE  /\ dumps'[i] \in Contexts
             /\ dumps'[i].at = dumps[i].at
             /\ dumps'[i].saw = dumps[i].saw
             /\ dumps'[i].twice = dumps[i].twice
             /\ dumps'[i].sub = dumps[i].sub
             /\ dumps'[i].must = dumps[i].must
  <2>1. dumps[i] \in Contexts
    BY DEF Inv, TypeOK
  <2>2. dumps'[i] = IF i = id THEN [dumps[i] EXCEPT !.throttled = b] ELSE dumps[i]
    BY DEF Inv, TypeOK
  <2>. QED  BY <2>1, <2>2 DEF Contexts
<1>3. TypeOK'
  <2>1. dumps' \in [Ids' -> Contexts]
    BY <1>1, <1>2 DEF Inv, TypeOK
  <2>. QED  BY <1>1, <2>1 DEF Inv, TypeOK
<1>4. LocksHeld'
  BY <1>1, <1>2, LocksSame DEF Inv, LocksHeld
<1>5. Walks'
  <2>1. ASSUME NEW i \in Ids
        PROVE  WalkRight(dumps'[i], routes', gone')
    <3>1. WalkRight(dumps[i], routes, gone)
      BY DEF Inv, Walks
    <3>. QED  BY <3>1, <1>2 DEF WalkRight
  <2>. QED  BY <2>1, <1>1 DEF Walks
<1>6. Fresh'
  BY <1>1 DEF Inv, Fresh, TypeOK
<1>. QED  BY <1>3, <1>4, <1>5, <1>6 DEF Inv, Collected

LEMMA ThrottleKeeps ==
    ASSUME Inv, NEW id \in Ids, Throttle(id)
    PROVE  Inv'
<1>1. left' \in [walk: Nat, route: Nat, stop: Nat] /\ left'.walk <= left.walk
  BY Spent DEF Throttle, Inv, TypeOK
<1>. QED  BY Zenon, <1>1, ThrottleSame DEF Throttle

LEMMA UnthrottleKeeps ==
    ASSUME Inv, NEW id \in Ids, Unthrottle(id)
    PROVE  Inv'
<1>1. left' \in [walk: Nat, route: Nat, stop: Nat] /\ left'.walk <= left.walk
  BY DEF Unthrottle, Inv, TypeOK
<1>. QED  BY Zenon, <1>1, ThrottleSame DEF Unthrottle

\* Contexts leave the list: the others keep their entries, which stay locked.
LEMMA RemovedLocks ==
    ASSUME Inv, NEW X \in SUBSET Ids, dumps' = Removed(X),
           locked' = locked \ {dumps[i].at : i \in X}
    PROVE  /\ Ids' = Ids \ X
           /\ \A i \in Ids' : dumps'[i] = dumps[i]
           /\ Paused' = Paused \ X
           /\ locked' = {dumps'[i].at : i \in Paused'}
           /\ \A i, j \in Paused' : dumps'[i].at = dumps'[j].at => i = j
           /\ dumps' \in [Ids' -> Contexts] /\ Ids' \in SUBSET Nat
<1>1. Ids' = Ids \ X
  BY DEF Ids, Removed
<1>2. \A i \in Ids' : dumps'[i] = dumps[i]
  BY <1>1 DEF Removed
<1>3. Paused' = Paused \ X
  BY <1>1, <1>2 DEF Paused
<1>4. /\ locked = {dumps[i].at : i \in Paused}
      /\ \A i, j \in Paused : dumps[i].at = dumps[j].at => i = j
  BY DEF Inv, LocksHeld
<1>5. Paused \subseteq Ids /\ Paused' \subseteq Ids'
  BY DEF Paused
<1>6. ASSUME NEW e \in locked' PROVE e \in {dumps'[i].at : i \in Paused'}
  <2>1. PICK i \in Paused : e = dumps[i].at
    BY <1>4
  <2>2. i \notin X
    BY <2>1, <1>6
  <2>. QED  BY <2>1, <2>2, <1>2, <1>3, <1>5
<1>7. ASSUME NEW i \in Paused' PROVE dumps'[i].at \in locked'
  <2>1. i \in Paused /\ i \notin X /\ dumps'[i].at = dumps[i].at
    BY <1>2, <1>3, <1>5
  <2>2. ASSUME NEW j \in X, dumps[j].at = dumps[i].at PROVE FALSE
    <3>1. j \in Paused
      BY <2>1, <2>2 DEF Paused
    <3>. QED  BY <3>1, <2>1, <2>2, <1>4
  <2>3. dumps[i].at \in locked
    BY <2>1, <1>4
  <2>. QED  BY <2>1, <2>2, <2>3
<1>8. locked' = {dumps'[i].at : i \in Paused'}
  BY <1>6, <1>7
<1>9. \A i, j \in Paused' : dumps'[i].at = dumps'[j].at => i = j
  BY <1>2, <1>3, <1>4, <1>5
<1>10. dumps' \in [Ids' -> Contexts] /\ Ids' \in SUBSET Nat
  BY <1>1, <1>2 DEF Inv, TypeOK, Removed
<1>. QED  BY <1>1, <1>2, <1>3, <1>8, <1>9, <1>10

\* The runner's place after contexts left the list.
LEMMA FreedPlace ==
    ASSUME Inv, NEW X \in SUBSET Ids, Freed(X), Ids' = Ids \ X
    PROVE  rib_dump_ctx' \in Ids' \cup {0}
<1>. DEFINE A == {i \in Ids \ X : i > rib_dump_ctx}
<1>1. A \in SUBSET Nat
  BY Zenon DEF Inv, TypeOK
<1>2. First(A) \in A \cup {0}
  BY <1>1, FirstIn
<1>. QED  BY <1>2 DEF Freed, Inv, LocksHeld

LEMMA TerminateKeeps ==
    ASSUME Inv, NEW id \in Ids, rib_dump_terminate(id)
    PROVE  Inv'
<1>1. left' \in [walk: Nat, route: Nat, stop: Nat] /\ left'.walk <= left.walk
  BY Spent DEF rib_dump_terminate, Inv, TypeOK
<1>2. /\ dumps' = Removed({id})
      /\ locked' = locked \ {dumps[id].at}
      /\ tree' = Kept(tree, {dumps[id].at}, routes, locked', queued)
      /\ Freed({id})
      /\ UNCHANGED <<routes, queued, gone, fatal, missed>>
  BY DEF rib_dump_terminate, Freed
<1>3. locked' = locked \ {dumps[i].at : i \in {id}}
  BY <1>2
<1>4. /\ Ids' = Ids \ {id}
      /\ \A i \in Ids' : dumps'[i] = dumps[i]
      /\ locked' = {dumps'[i].at : i \in Paused'}
      /\ \A i, j \in Paused' : dumps'[i].at = dumps'[j].at => i = j
      /\ dumps' \in [Ids' -> Contexts] /\ Ids' \in SUBSET Nat
  BY Zenon, <1>2, <1>3, RemovedLocks
<1>5. TypeOK'
  BY Zenon, <1>1, <1>2, <1>4 DEF Inv, TypeOK, Kept
<1>6. locked' \subseteq tree'
  BY <1>2 DEF Kept, Inv, LocksHeld
<1>7. LocksHeld'
  <2>1. rib_dump_ctx' \in Ids' \cup {0}
    BY <1>2, <1>4, FreedPlace
  <2>. QED  BY <1>4, <1>6, <2>1 DEF LocksHeld
<1>8. Collected'
  BY <1>2 DEF Inv, Collected, Kept
<1>9. Walks'
  BY Zenon, <1>2, <1>4 DEF Inv, Walks
<1>10. Fresh'
  <2>1. Ids' \subseteq Ids /\ Ids \subseteq Nat
    BY Zenon, <1>4 DEF Inv, TypeOK
  <2>2. left.walk \in Nat /\ left'.walk \in Nat /\ Fresh
    BY <1>1 DEF Inv, TypeOK
  <2>. QED  BY ONLY <1>1, <2>1, <2>2 DEF Fresh
<1>. QED  BY <1>2, <1>5, <1>7, <1>8, <1>9, <1>10 DEF Inv

LEMMA FreeKeeps ==
    ASSUME Inv, rib_free
    PROVE  Inv'
<1>. DEFINE X == {i \in Ids : dumps[i].at \in Entries}
<1>1. /\ dumps' = Removed(X)
      /\ locked' = locked \ {dumps[i].at : i \in X}
      /\ tree' = Kept(tree, Entries, {}, locked', queued)
      /\ Freed(X)
      /\ routes' = {} /\ gone' = TRUE
      /\ UNCHANGED <<queued, fatal, missed, left>>
  BY DEF rib_free, Freed
<1>2. X \in SUBSET Ids
  OBVIOUS
<1>. HIDE DEF X
<1>3. /\ Ids' = Ids \ X
      /\ \A i \in Ids' : dumps'[i] = dumps[i]
      /\ locked' = {dumps'[i].at : i \in Paused'}
      /\ \A i, j \in Paused' : dumps'[i].at = dumps'[j].at => i = j
      /\ dumps' \in [Ids' -> Contexts] /\ Ids' \in SUBSET Nat
  BY <1>1, <1>2, RemovedLocks
<1>4. TypeOK'
  BY <1>1, <1>3 DEF Inv, TypeOK, Kept
<1>5. locked' \subseteq tree'
  BY <1>1 DEF Kept, Inv, LocksHeld
<1>6. LocksHeld'
  <2>1. rib_dump_ctx' \in Ids' \cup {0}
    BY <1>1, <1>2, <1>3, FreedPlace
  <2>. QED  BY <1>3, <1>5, <2>1 DEF LocksHeld
<1>7. Collected'
  BY <1>1 DEF Inv, TypeOK, Collected, Kept
<1>8. Walks'
  <2>1. ASSUME NEW i \in Ids'
        PROVE  WalkRight(dumps'[i], routes', gone')
    <3>1. WalkRight(dumps[i], routes, gone) /\ dumps'[i] = dumps[i]
      BY <1>3 DEF Inv, Walks
    <3>. QED  BY <3>1, <1>1 DEF WalkRight
  <2>. QED  BY <2>1 DEF Walks
<1>9. Fresh'
  BY <1>1, <1>3 DEF Inv, Fresh, TypeOK
<1>. QED  BY <1>1, <1>4, <1>6, <1>7, <1>8, <1>9 DEF Inv

\* A slice visits entries in front of the walk only, and if it does not pause
\* every entry that is left of what the walk must visit.
LEMMA SliceRight ==
    ASSUME Inv, NEW id \in Ids, ~gone, NEW l
    PROVE  /\ PausesAt(dumps[id], l) \in SUBSET Nat
           /\ \A x \in PausesAt(dumps[id], l) :
                 x \in routes /\ x \notin l /\ x \in Entries /\ x >= dumps[id].at
           /\ Here(dumps[id]) \in SUBSET Entries
           /\ \A x \in Here(dumps[id]) : x >= dumps[id].at
           /\ dumps[id].saw \cap Here(dumps[id]) = {}
           /\ dumps[id].must \subseteq dumps[id].saw \cup Here(dumps[id])
<1>. DEFINE c == dumps[id]
<1>1. c \in Contexts
  BY DEF Inv, TypeOK
<1>2. c.sub[1] \in Nat /\ c.sub[2] \in Nat /\ c.at \in 0..(N + 1) /\ c.saw \in SUBSET Entries
  BY <1>1, ContextFields
<1>3. WalkRight(c, routes, gone)
  BY DEF Inv, Walks
<1>4. Here(c) \in SUBSET Entries /\ \A x \in Here(c) : x >= c.at /\ x \in routes
  BY DEF Here, Inv, TypeOK
<1>5. Entries \in SUBSET Nat
  BY BoundsAssumption DEF Entries
<1>6. c.saw \cap Here(c) = {}
  <2>1. ASSUME NEW x \in c.saw, x \in Here(c) PROVE FALSE
    <3>1. x < c.at /\ x >= c.at /\ x \in Nat
      BY Zenon, <2>1, <1>2, <1>3, <1>4, <1>5 DEF WalkRight
    <3>. QED  BY <3>1, <1>2
  <2>. QED  BY <2>1
<1>7. ASSUME NEW x \in c.must, x \notin c.saw PROVE x \in Here(c)
  <2>1. x \in routes /\ x >= c.at /\ x \in c.sub[1]..c.sub[2]
    BY <1>3, <1>7 DEF WalkRight
  <2>2. x \in tree
    BY <2>1 DEF Inv, Collected
  <2>3. x <= c.sub[2]
    BY <2>1, <1>2
  <2>. QED  BY <2>1, <2>2, <2>3 DEF Here
<1>8. PausesAt(c, l) \subseteq Here(c) /\ \A x \in PausesAt(c, l) : x \notin l
  BY DEF PausesAt
<1>. QED  BY Zenon, <1>4, <1>5, <1>6, <1>7, <1>8

\* The entry the walk leaves goes unless something else keeps it.
LEMMA RestartRight ==
    ASSUME Inv, NEW id \in Ids, tree' = rib_restart(dumps[id]),
           UNCHANGED <<routes, queued>>
    PROVE  /\ tree' \in SUBSET Entries
           /\ routes \subseteq tree'
           /\ locked \ {dumps[id].at} \subseteq tree'
           /\ tree' \subseteq routes \cup (locked \ {dumps[id].at}) \cup queued
BY DEF rib_restart, Kept, Inv, Collected, LocksHeld, TypeOK

\* A walk that comes to its end leaves the list.
LEMMA EndKeeps ==
    ASSUME Inv, NEW id \in Ids, ~gone,
           tree' = rib_restart(dumps[id]),
           locked' = locked \ {dumps[id].at},
           dumps' = Removed({id}),
           missed' = {},
           rib_dump_ctx' = First({i \in Ids : i > id}),
           UNCHANGED <<routes, queued, gone, fatal, left>>
    PROVE  Inv'
<1>1. locked' = locked \ {dumps[i].at : i \in {id}}
  OBVIOUS
<1>2. /\ Ids' = Ids \ {id}
      /\ \A i \in Ids' : dumps'[i] = dumps[i]
      /\ locked' = {dumps'[i].at : i \in Paused'}
      /\ \A i, j \in Paused' : dumps'[i].at = dumps'[j].at => i = j
      /\ dumps' \in [Ids' -> Contexts] /\ Ids' \in SUBSET Nat
  BY Zenon, <1>1, RemovedLocks
<1>3. /\ tree' \in SUBSET Entries
      /\ routes \subseteq tree'
      /\ locked' \subseteq tree'
      /\ tree' \subseteq routes \cup locked' \cup queued
  BY RestartRight
<1>4. rib_dump_ctx' \in Ids' \cup {0}
  <2>. DEFINE A == {i \in Ids : i > id}
  <2>1. A \in SUBSET Nat /\ A \subseteq Ids /\ id \in Nat
    BY Zenon DEF Inv, TypeOK
  <2>2. First(A) \in A \cup {0}
    BY <2>1, FirstIn
  <2>3. id \notin A
    BY <2>1
  <2>. QED  BY <2>1, <2>2, <2>3, <1>2
<1>5. TypeOK'
  BY Zenon, <1>2, <1>3 DEF Inv, TypeOK
<1>6. LocksHeld'
  BY Zenon, <1>2, <1>3, <1>4 DEF LocksHeld
<1>7. Collected'
  BY <1>3 DEF Collected
<1>8. Walks'
  BY Zenon, <1>2 DEF Inv, Walks
<1>9. Fresh'
  BY <1>2 DEF Inv, Fresh
<1>. QED  BY <1>5, <1>6, <1>7, <1>8, <1>9 DEF Inv

\* A walk that pauses at m has visited what is before m.
LEMMA PauseKeeps ==
    ASSUME Inv, NEW id \in Ids, ~gone,
           NEW m \in Entries, m \in routes, m \notin locked \ {dumps[id].at},
           NEW d \in Contexts, d.at = m, WalkRight(d, routes, gone),
           tree' = rib_restart(dumps[id]),
           locked' = (locked \ {dumps[id].at}) \cup {m},
           dumps' = [dumps EXCEPT ![id] = d],
           rib_dump_ctx' = First({i \in Ids : i > id}),
           UNCHANGED <<routes, queued, gone, fatal, left, missed>>
    PROVE  Inv'
<1>1. Ids' = Ids
  BY DEF Ids, Inv, TypeOK
<1>2. \A i \in Ids : dumps'[i] = IF i = id THEN d ELSE dumps[i]
  BY DEF Inv, TypeOK
<1>3. Paused' = Paused \cup {id}
  BY Zenon, <1>1, <1>2 DEF Paused
<1>4. /\ locked = {dumps[i].at : i \in Paused}
      /\ \A i, j \in Paused : dumps[i].at = dumps[j].at => i = j
      /\ Paused \subseteq Ids
  BY DEF Inv, LocksHeld, Paused
<1>5. ASSUME NEW i \in Paused, i # id
      PROVE  dumps'[i].at = dumps[i].at /\ dumps[i].at \in locked \ {dumps[id].at}
  <2>1. ASSUME dumps[i].at = dumps[id].at PROVE FALSE
    <3>1. id \in Paused
      BY <2>1 DEF Paused
    <3>. QED  BY <3>1, <2>1, <1>4, <1>5
  <2>. QED  BY <2>1, <1>2, <1>4, <1>5
<1>6. locked' = {dumps'[i].at : i \in Paused'}
  <2>1. ASSUME NEW e \in locked' PROVE e \in {dumps'[i].at : i \in Paused'}
    <3>1. CASE e = m
      BY <3>1, <1>2, <1>3
    <3>2. CASE e # m
      <4>1. e \in locked /\ e # dumps[id].at
        BY <3>2, <2>1
      <4>2. PICK i \in Paused : e = dumps[i].at
        BY <4>1, <1>4
      <4>. QED  BY <4>1, <4>2, <1>3, <1>5
    <3>. QED  BY <3>1, <3>2
  <2>2. ASSUME NEW i \in Paused' PROVE dumps'[i].at \in locked'
    BY <1>2, <1>3, <1>5
  <2>. QED  BY <2>1, <2>2
<1>7. ASSUME NEW i \in Paused', NEW j \in Paused', dumps'[i].at = dumps'[j].at
      PROVE  i = j
  <2>1. dumps'[id].at = m
    BY <1>2
  <2>2. CASE i = id /\ j # id
    BY Zenon, <2>1, <2>2, <1>3, <1>5, <1>7
  <2>3. CASE j = id /\ i # id
    BY Zenon, <2>1, <2>3, <1>3, <1>5, <1>7
  <2>4. CASE i # id /\ j # id
    BY <2>4, <1>3, <1>4, <1>5, <1>7
  <2>. QED  BY <2>2, <2>3, <2>4
<1>8. /\ tree' \in SUBSET Entries
      /\ routes \subseteq tree'
      /\ locked \ {dumps[id].at} \subseteq tree'
      /\ tree' \subseteq routes \cup (locked \ {dumps[id].at}) \cup queued
  BY RestartRight
<1>9. rib_dump_ctx' \in Ids' \cup {0}
  <2>. DEFINE A == {i \in Ids : i > id}
  <2>1. A \in SUBSET Nat /\ A \subseteq Ids
    BY Zenon DEF Inv, TypeOK
  <2>2. First(A) \in A \cup {0}
    BY <2>1, FirstIn
  <2>. QED  BY <2>1, <2>2, <1>1
<1>10. TypeOK'
  <2>1. dumps' \in [Ids' -> Contexts]
    BY <1>1 DEF Inv, TypeOK
  <2>. QED  BY <1>1, <1>8, <2>1 DEF Inv, TypeOK
<1>11. LocksHeld'
  BY <1>6, <1>7, <1>8, <1>9 DEF LocksHeld
<1>12. Collected'
  BY <1>8 DEF Collected
<1>13. Walks'
  BY <1>1, <1>2 DEF Inv, Walks
<1>14. Fresh'
  BY <1>1 DEF Inv, Fresh
<1>. QED  BY <1>10, <1>11, <1>12, <1>13, <1>14 DEF Inv

LEMMA SliceKeeps ==
    ASSUME Inv, NEW id \in Ids, rib_dump_r(id),
           rib_dump_ctx' = First({i \in Ids : i > id}),
           UNCHANGED <<routes, queued, gone, left>>
    PROVE  Inv'
<1>. DEFINE c == dumps[id]
            l == locked \ {c.at}
            P == PausesAt(c, l)
            sees == {x \in Here(c) : P = {} \/ x < Min(P)}
            d == [c EXCEPT !.saw = @ \cup sees, !.twice = @ \cup (c.saw \cap sees)]
<1>1. CASE gone
  <2>1. fatal' = TRUE /\ UNCHANGED <<tree, locked, dumps, missed>>
    BY <1>1 DEF rib_dump_r
  <2>2. Ids' = Ids /\ Paused' = Paused
    BY <2>1 DEF Ids, Paused
  <2>3. rib_dump_ctx' \in Ids' \cup {0}
    <3>. DEFINE A == {i \in Ids : i > id}
    <3>1. A \in SUBSET Nat /\ A \subseteq Ids
      BY Zenon DEF Inv, TypeOK
    <3>2. First(A) \in A \cup {0}
      BY <3>1, FirstIn
    <3>. QED  BY <3>1, <3>2, <2>2
  <2>4. LocksHeld'
    BY <2>1, <2>2, <2>3 DEF Inv, LocksHeld
  <2>5. TypeOK'
    BY <2>1, <2>2 DEF Inv, TypeOK
  <2>. QED  BY <2>1, <2>2, <2>4, <2>5 DEF Inv, Walks, Fresh, Collected
<1>2. CASE ~gone
  <2>1. /\ P \in SUBSET Nat
        /\ \A x \in P : x \in routes /\ x \notin l /\ x \in Entries /\ x >= c.at
        /\ Here(c) \in SUBSET Entries
        /\ \A x \in Here(c) : x >= c.at
        /\ c.saw \cap Here(c) = {}
        /\ c.must \subseteq c.saw \cup Here(c)
    BY ZenonT(30), <1>2, SliceRight
  <2>2. /\ c \in Contexts /\ c.sub \in Nat \X Nat /\ c.at \in 0..(N + 1)
        /\ c.must \in SUBSET Entries /\ c.saw \in SUBSET Entries
    BY DEF Inv, TypeOK, Contexts
  <2>3. WalkRight(c, routes, gone)
    BY DEF Inv, Walks
  <2>4. tree' = rib_restart(c) /\ UNCHANGED fatal
    BY <1>2 DEF rib_dump_r
  <2>5. CASE P = {}
    <3>1. /\ locked' = l
          /\ dumps' = Removed({id})
          /\ missed' = missed \cup (d.must \ d.saw) \cup d.twice
      BY <1>2, <2>5 DEF rib_dump_r
    <3>2. sees = Here(c)
      BY <2>5
    <3>3. d.must = c.must /\ d.saw = c.saw \cup sees /\ d.twice = c.twice \cup (c.saw \cap sees)
      BY <2>2 DEF Contexts
    <3>4. c.twice = {} /\ missed = {}
      BY <2>3 DEF WalkRight, Inv
    <3>5. missed' = {}
      BY Zenon, <3>1, <3>2, <3>3, <3>4, <2>1
    <3>. QED  BY Zenon, <3>1, <3>5, <2>4, <1>2, EndKeeps
  <2>6. CASE P # {}
    <3>. DEFINE m == Min(P)
                e == [d EXCEPT !.at = m]
    <3>1. /\ locked' = l \cup {m}
          /\ dumps' = [dumps EXCEPT ![id] = e]
          /\ UNCHANGED missed
      BY <1>2, <2>6 DEF rib_dump_r
    <3>2. m \in P
      <4>. HIDE DEF P
      <4>. QED  BY Zenon, <2>1, <2>6, LeastNat
    <3>3. m \in routes /\ m \notin l /\ m \in Entries /\ m >= c.at
      BY Zenon, <2>1, <3>2
    <3>4. m \in Nat /\ m \in 0..(N + 1) /\ Entries \in SUBSET Nat
      BY <3>3, BoundsAssumption DEF Entries
    <3>5. sees = {x \in Here(c) : x < m}
      BY SMTT(30), <2>6
    <3>. HIDE DEF m, P, sees
    <3>6. /\ e \in Contexts /\ e.at = m /\ e.must = c.must /\ e.sub = c.sub
          /\ e.saw = c.saw \cup sees /\ e.twice = c.twice \cup (c.saw \cap sees)
      BY Zenon, <2>1, <2>2, <3>4, <3>5 DEF Contexts
    <3>7. WalkRight(e, routes, gone)
      <4>1. ASSUME NEW x \in e.saw PROVE x < m
        <5>1. CASE x \in sees
          BY <5>1, <3>5
        <5>2. CASE x \in c.saw
          <6>1. x < c.at /\ x \in Nat
            BY <5>2, <2>2, <2>3, <3>4 DEF WalkRight
          <6>. QED  BY <6>1, <2>2, <3>3, <3>4
        <5>. QED  BY <5>1, <5>2, <3>6, <4>1
      <4>2. ASSUME NEW x \in e.must, x \notin e.saw PROVE x >= m
        <5>1. x \in Here(c) /\ x \in Nat
          BY <4>2, <2>1, <3>4, <3>6
        <5>2. ~(x < m)
          BY <5>1, <4>2, <3>5, <3>6
        <5>. QED  BY <5>1, <5>2, <3>4
      <4>3. e.twice = {}
        BY <2>1, <2>3, <3>5, <3>6 DEF WalkRight
      <4>. HIDE DEF e, c
      <4>. QED  BY <4>1, <4>2, <4>3, <2>3, <3>6 DEF WalkRight
    <3>. HIDE DEF e
    <3>. QED  BY Zenon, <3>1, <3>3, <3>6, <3>7, <2>4, <1>2, PauseKeeps
  <2>. QED  BY <2>5, <2>6
<1>. QED  BY <1>1, <1>2

LEMMA RunnerKeeps ==
    ASSUME Inv, rib_dump_runner
    PROVE  Inv'
<1>1. PICK id \in Ids :
        /\ id = IF rib_dump_ctx = 0 THEN First(Ids) ELSE rib_dump_ctx
        /\ rib_dump_ctx' = First({i \in Ids : i > id})
        /\ \/ ~dumps[id].throttled /\ rib_dump_r(id)
           \/ dumps[id].throttled /\ UNCHANGED <<tree, locked, dumps, missed, fatal>>
        /\ UNCHANGED <<routes, queued, gone, left>>
  <2>. DEFINE p == IF rib_dump_ctx = 0 THEN First(Ids) ELSE rib_dump_ctx
  <2>1. Ids # {} /\ Ids \in SUBSET Nat
    BY DEF rib_dump_runner, Inv, TypeOK
  <2>2. p \in Ids
    BY <2>1, FirstIn DEF Inv, LocksHeld
  <2>. QED  BY Zenon, <2>2 DEF rib_dump_runner
<1>2. CASE rib_dump_r(id)
  BY <1>1, <1>2, SliceKeeps
<1>3. CASE UNCHANGED <<tree, locked, dumps, missed, fatal>>
  <2>1. Ids' = Ids /\ Paused' = Paused
    BY <1>3 DEF Ids, Paused
  <2>2. rib_dump_ctx' \in Ids' \cup {0}
    <3>. DEFINE A == {i \in Ids : i > id}
    <3>1. A \in SUBSET Nat /\ A \subseteq Ids
      BY Zenon DEF Inv, TypeOK
    <3>2. First(A) \in A \cup {0}
      BY <3>1, FirstIn
    <3>. QED  BY <3>1, <3>2, <2>1, <1>1
  <2>3. LocksHeld'
    BY <1>3, <2>1, <2>2 DEF Inv, LocksHeld
  <2>4. TypeOK'
    BY <1>1, <1>3, <2>1 DEF Inv, TypeOK
  <2>. QED  BY <1>1, <1>3, <2>1, <2>3, <2>4 DEF Inv, Walks, Fresh, Collected
<1>. QED  BY <1>1, <1>2, <1>3

\* The walks keep the invariant unless the walk of a subtree may begin on an
\* entry another walk has locked.
LEMMA InvKept ==
    ASSUME ~SharedStart
    PROVE  Spec => []Inv
<1>1. ASSUME Inv, [Next]_vars
      PROVE  Inv'
  <2>1. CASE \E x \in Entries, q \in BOOLEAN : RouteAdd(x, q)
    BY <2>1, <1>1, RouteAddKeeps
  <2>2. CASE \E x \in Entries, q \in BOOLEAN : RouteDel(x, q)
    BY <2>2, <1>1, RouteDelKeeps
  <2>3. CASE \E x \in Entries : rib_pq_dequeue(x)
    BY <2>3, <1>1, DequeueKeeps
  <2>4. CASE rib_dump_new
    BY <2>4, <1>1, NewKeeps
  <2>5. CASE \E sub \in Subtrees : rib_dump_subtree(sub)
    BY <2>5, <1>1, SubtreeKeeps
  <2>6. CASE rib_dump_runner
    BY <2>6, <1>1, RunnerKeeps
  <2>7. CASE \E id \in Ids : Throttle(id)
    BY <2>7, <1>1, ThrottleKeeps
  <2>8. CASE \E id \in Ids : Unthrottle(id)
    BY Zenon, <2>8, <1>1, UnthrottleKeeps
  <2>9. CASE \E id \in Ids : rib_dump_terminate(id)
    BY <2>9, <1>1, TerminateKeeps
  <2>10. CASE rib_free
    BY <2>10, <1>1, FreeKeeps
  <2>11. CASE UNCHANGED vars
    BY <2>11, <1>1 DEF vars, Inv, TypeOK, LocksHeld, Collected, Walks, Fresh, Ids, Paused
  <2>. QED
    BY <1>1, <2>1, <2>2, <2>3, <2>4, <2>5, <2>6, <2>7, <2>8, <2>9, <2>10, <2>11 DEF Next
<1>. QED  BY <1>1, InvInit, PTL DEF Spec

\* The tree is right for any number of entries and walks: locked entries are
\* those of paused walks, one each, an entry outlives its last route only for
\* a walk or a queued evaluation, and rib_dump_ctx names a context of the list
\* (rib_remove, rib_restart, rib_dump_r, rib_dump_free).
THEOREM TreeKept ==
    ASSUME ~SharedStart
    PROVE  Spec => []TreeRight
<1>1. Inv => TreeRight
  BY DEF Inv, TreeRight
<1>. QED  BY <1>1, InvKept, PTL

\* A walk that comes to its end has visited every entry that had a route all
\* along, and none twice, in slices of any length (rib_dump_r).
THEOREM EachVisitedOnce ==
    ASSUME ~SharedStart
    PROVE  Spec => []EachOnce
<1>1. Inv => EachOnce
  BY DEF Inv, EachOnce
<1>. QED  BY <1>1, InvKept, PTL
=============================================================================
