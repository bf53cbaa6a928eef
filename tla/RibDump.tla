------------------------------ MODULE RibDump -------------------------------
(***************************************************************************)
(* Walks of a RIB in slices (rde_rib.c).  A walk that pauses locks the     *)
(* entry it will go on with, so that the entry outlives its last route; an *)
(* entry with a queued evaluation (re_is_queued) is kept as well.  One RIB *)
(* with entries 1..N in tree order, several walks with their slices        *)
(* interleaved by rib_dump_runner, routes that come and go between slices, *)
(* walks that are throttled or terminated, and the removal of the RIB.     *)
(***************************************************************************)
EXTENDS Integers, FiniteSets, FiniteSetsExt

CONSTANTS
  N,           \* entries
  Count,       \* entries a slice visits (RDE_RUNNER_ROUNDS)
  Subtrees,    \* ranges <<first, last>> of the walks of rib_dump_subtree
  MaxWalks,    \* bounds: walks started,
  MaxRoutes,   \* routes added or removed,
  MaxStops,    \* times a walk is throttled or terminated
  SharedStart, \* a subtree walk may start on an entry that is locked
  FreeBusy     \* the RIB may be freed while a walk has not started or an
               \* evaluation is queued

VARIABLES
  tree,    \* entries in the tree
  routes,  \* entries with a route
  queued,  \* entries with a queued evaluation
  locked,  \* entries with re->lock set
  dumps,   \* rib_dumps: the contexts by number.  The newest, which is the
           \* first of the list, has the least number.
  rib_dump_ctx, \* the context the runner goes on with, or 0
  gone,    \* the RIB has been freed
  fatal,   \* the process ended: something used the RIB after it was freed
  missed,  \* history: entries a walk had not visited once at its end
  left     \* what is left of the bounds

vars == <<tree, routes, queued, locked, dumps, rib_dump_ctx, gone, fatal,
          missed, left>>

Entries == 1..N
Whole == <<1, N>>

ASSUME BoundsAssumption ==
  /\ N \in Nat
  /\ Subtrees \subseteq Entries \X Entries
  /\ MaxWalks \in Nat /\ MaxRoutes \in Nat /\ MaxStops \in Nat

\* A context: ctx_re is at, 0 for a walk of the whole RIB that has not had a
\* slice and N + 1 for a subtree without an entry.  must (the entries that
\* have had a route since the walk began), saw and twice are history.
Context(sub, at) ==
  [sub |-> sub, at |-> at, throttled |-> FALSE,
   must |-> routes \cap (sub[1]..sub[2]), saw |-> {}, twice |-> {}]

Ids == DOMAIN dumps

\* LIST_FIRST of the contexts X, 0 if there is none
First(X) == IF X = {} THEN 0 ELSE Min(X)

\* rib_dump_insert, LIST_REMOVE
Inserted(c) ==
  [id \in Ids \cup {left.walk} |-> IF id = left.walk THEN c ELSE dumps[id]]
Removed(X) == [id \in Ids \ X |-> dumps[id]]

\* rib_remove: entries of X without a route leave the tree unless they are
\* locked or queued
Kept(t, X, r, l, q) == {x \in t : x \notin X \/ x \in r \cup l \cup q}
-----------------------------------------------------------------------------
Init ==
  /\ routes \in SUBSET Entries
  /\ tree = routes
  /\ queued = {}
  /\ locked = {}
  /\ dumps = [id \in {} |-> <<>>]
  /\ rib_dump_ctx = 0
  /\ gone = FALSE
  /\ fatal = FALSE
  /\ missed = {}
  /\ left = [walk |-> MaxWalks, route |-> MaxRoutes, stop |-> MaxStops]

Spend(what) == left[what] > 0 /\ left' = [left EXCEPT ![what] = @ - 1]

Forget(x) == [id \in Ids |-> [dumps[id] EXCEPT !.must = @ \ {x}]]

\* The first route of x is linked; the best path changed if q
RouteAdd(x, q) ==
  /\ ~gone /\ Spend("route")
  /\ x \notin routes
  /\ routes' = routes \cup {x}
  /\ tree' = tree \cup {x}
  /\ queued' = IF q THEN queued \cup {x} ELSE queued
  /\ UNCHANGED <<locked, dumps, rib_dump_ctx, gone, fatal, missed>>

\* The last route of x is unlinked (prefix_unlink)
RouteDel(x, q) ==
  /\ ~gone /\ Spend("route")
  /\ x \in routes
  /\ routes' = routes \ {x}
  /\ queued' = IF q THEN queued \cup {x} ELSE queued
  /\ tree' = Kept(tree, {x}, routes', locked, queued')
  /\ dumps' = Forget(x)
  /\ UNCHANGED <<locked, rib_dump_ctx, gone, fatal, missed>>

\* The entry of a RIB that is gone has no tree to be removed from
rib_pq_dequeue(x) ==
  /\ x \in queued /\ ~fatal
  /\ queued' = queued \ {x}
  /\ tree' = Kept(tree, {x}, routes, locked, queued')
  /\ fatal' = (gone /\ x \notin routes)
  /\ UNCHANGED <<routes, locked, dumps, rib_dump_ctx, gone, missed, left>>

rib_dump_new ==
  /\ ~gone /\ Spend("walk")
  /\ dumps' = Inserted(Context(Whole, 0))
  /\ UNCHANGED <<tree, routes, queued, locked, rib_dump_ctx, gone, fatal, missed>>

\* The walk of a subtree locks its first entry when it is created
rib_dump_subtree(sub) ==
  LET from == {x \in tree : x >= sub[1]}
      re == IF from = {} THEN {} ELSE {Min(from)}
  IN /\ ~gone /\ Spend("walk")
     /\ SharedStart \/ re \cap locked = {}
     /\ dumps' = Inserted(Context(sub, IF re = {} THEN N + 1 ELSE Min(from)))
     /\ locked' = locked \cup re
     /\ UNCHANGED <<tree, routes, queued, rib_dump_ctx, gone, fatal, missed>>

(***************************************************************************)
(* One slice: rib_restart and the loop of rib_dump_r.                      *)
(***************************************************************************)
\* Bug: a resumed walk starts behind the entry it stopped at.
Here_after(c) == {x \in routes \cap tree : x > c.at /\ x <= c.sub[2]}

\* The entries a slice of c visits and the entry it pauses on, if any.  The
\* walk does not pause on a locked entry.
Here(c) == {x \in routes \cap tree : x >= c.at /\ x <= c.sub[2]}

\* Bug: a walk may pause on a locked entry.
PausesAt_any(c, l) ==
  {x \in Here(c) : Cardinality({y \in Here(c) : y < x}) >= Count}

PausesAt(c, l) ==
  {x \in Here(c) : /\ Cardinality({y \in Here(c) : y < x}) >= Count
                   /\ x \notin l}

\* Bug: the entry a walk leaves is not collected.
rib_restart_early(c) == tree

\* The entry the walk had locked leaves the tree if nothing else keeps it.
rib_restart(c) == Kept(tree, {c.at}, routes, locked \ {c.at}, queued)

rib_dump_r(id) ==
  LET c == dumps[id]
      l == locked \ {c.at}
      pauses == PausesAt(c, l)
      sees == {x \in Here(c) : pauses = {} \/ x < Min(pauses)}
      d == [c EXCEPT !.saw = @ \cup sees, !.twice = @ \cup (c.saw \cap sees)]
  IN IF gone THEN fatal' = TRUE /\ UNCHANGED <<tree, locked, dumps, missed>>
     ELSE /\ tree' = rib_restart(c)
          /\ UNCHANGED fatal
          /\ \/ /\ pauses # {}
                /\ locked' = l \cup {Min(pauses)}
                /\ dumps' = [dumps EXCEPT ![id] = [d EXCEPT !.at = Min(pauses)]]
                /\ UNCHANGED missed
             \/ /\ pauses = {}
                /\ locked' = l
                /\ dumps' = Removed({id})
                /\ missed' = missed \cup (d.must \ d.saw) \cup d.twice

\* The runner goes through the list from where it stopped and passes over
\* throttled walks.  It may stop before any context, its time used up, and
\* then goes on from there: a call is one or more of these steps in a row.
rib_dump_runner ==
  LET id == IF rib_dump_ctx = 0 THEN First(Ids) ELSE rib_dump_ctx
  IN /\ ~fatal /\ Ids # {}
     /\ rib_dump_ctx' = First({i \in Ids : i > id})
     /\ \/ ~dumps[id].throttled /\ rib_dump_r(id)
        \/ dumps[id].throttled /\ UNCHANGED <<tree, locked, dumps, missed, fatal>>
     /\ UNCHANGED <<routes, queued, gone, left>>

\* The client of the walk stops reading, and reads again
Throttle(id) ==
  /\ Spend("stop")
  /\ ~dumps[id].throttled
  /\ dumps' = [dumps EXCEPT ![id].throttled = TRUE]
  /\ UNCHANGED <<tree, routes, queued, locked, rib_dump_ctx, gone, fatal, missed>>

\* Bug: the walk stays throttled.
Unthrottle_lost(id) ==
  /\ dumps[id].throttled
  /\ UNCHANGED vars

Unthrottle(id) ==
  /\ dumps[id].throttled
  /\ dumps' = [dumps EXCEPT ![id].throttled = FALSE]
  /\ UNCHANGED <<tree, routes, queued, locked, rib_dump_ctx, gone, fatal, missed, left>>

\* rib_dump_free of the contexts X, with rib_dump_cleanup of their entries:
\* the runner goes on with the next context of the list that stays
Freed(X) ==
  /\ dumps' = Removed(X)
  /\ locked' = locked \ {dumps[id].at : id \in X}
  /\ rib_dump_ctx' = IF rib_dump_ctx \notin X THEN rib_dump_ctx
                     ELSE First({id \in Ids \ X : id > rib_dump_ctx})

rib_dump_terminate(id) ==
  /\ Spend("stop")
  /\ Freed({id})
  /\ tree' = Kept(tree, {dumps[id].at}, routes, locked', queued)
  /\ UNCHANGED <<routes, queued, gone, fatal, missed>>

\* rib_free of a RIB a reload removed: rib_dump_abort ends the walks that
\* have an entry, every route goes, and the entries go with their routes
rib_free ==
  LET started == {d \in Ids : dumps[d].at \in Entries}
  IN /\ ~gone
     /\ FreeBusy \/ (started = Ids /\ queued = {})
     /\ gone' = TRUE
     /\ Freed(started)
     /\ routes' = {}
     /\ tree' = Kept(tree, Entries, {}, locked', queued)
     /\ UNCHANGED <<queued, fatal, missed, left>>

Next ==
  \/ \E x \in Entries, q \in BOOLEAN : RouteAdd(x, q)
  \/ \E x \in Entries, q \in BOOLEAN : RouteDel(x, q)
  \/ \E x \in Entries : rib_pq_dequeue(x)
  \/ rib_dump_new
  \/ \E sub \in Subtrees : rib_dump_subtree(sub)
  \/ rib_dump_runner
  \/ \E id \in Ids : Throttle(id)
  \/ \E id \in Ids : Unthrottle(id)
  \/ \E id \in Ids : rib_dump_terminate(id)
  \/ rib_free

Spec == Init /\ [][Next]_vars

\* The main loop calls the runner in every turn and does not wait while a walk
\* is left that is not throttled (rib_dump_pending); a client that holds its
\* walk up reads on.
Fairness ==
  /\ WF_vars(rib_dump_runner)
  /\ \A id \in 1..MaxWalks : WF_vars(id \in Ids /\ Unthrottle(id))
FairSpec == Spec /\ Fairness
-----------------------------------------------------------------------------
Paused == {id \in Ids : dumps[id].at \in Entries}

\* Locks belong to walks: every paused walk has an entry of its own, which is
\* locked and still in the tree, and no other entry is locked.
LocksHeld ==
  /\ locked = {dumps[i].at : i \in Paused}
  /\ locked \subseteq tree
  /\ \A i, j \in Paused : dumps[i].at = dumps[j].at => i = j
  /\ rib_dump_ctx \in Ids \cup {0}

\* An entry without a route is in the tree only while a walk or a queued
\* evaluation keeps it: whoever lets go of it last removes it.
Collected == routes \subseteq tree /\ tree \subseteq routes \cup locked \cup queued

\* The tree holds what it should: locked entries are those of paused walks, and
\* the others are there for a route or a queued evaluation.
TreeRight == LocksHeld /\ Collected

\* A walk that comes to its end has visited every entry that had a route all
\* along, and none twice, whatever came and went between its slices.
EachOnce == missed = {}

\* Every walk ends: other walks, throttled ones included, do not keep the
\* runner from it.
DumpEnds == \A id \in 1..MaxWalks : id \in Ids ~> id \notin Ids

\* Nothing depends on a RIB that is freed
FreedIsUnused == gone => queued = {} /\ Ids = {}

\* An entry is locked by one walk at a time
OneLock == \A i, j \in Paused : dumps[i].at = dumps[j].at => i = j
=============================================================================
