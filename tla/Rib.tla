-------------------------------- MODULE Rib --------------------------------
(***************************************************************************)
(* A Loc-RIB and the nexthops of its paths (rde_rib.c, rde_decide.c): the  *)
(* decision engine's side.  It asks the parent to track a nexthop when the *)
(* first path uses it, evaluates the paths again, some at a time, when the *)
(* parent says that the nexthop changed, and tells the parent which route  *)
(* to put into the kernel whenever the best path of a destination changes. *)
(***************************************************************************)
EXTENDS Decision, RoutePipe, FiniteSets

CONSTANTS
    Peers,          \* neighbors, numbers: the order of step 10 to 13
    Rounds,         \* RDE_RUNNER_ROUNDS, paths evaluated in one go
    Announces,      \* sets of announcements, one for each scenario
    MaxUpdates      \* updates and withdraws of the neighbors, in each of them

VARIABLES
    rib,        \* the paths of each destination, best first
    nh,         \* nexthoptable: state, oldstate, prefix_h, next_prefix
    runners,    \* nexthop_runners
    scene,      \* what the neighbors may announce
    updates     \* updates received so far

ribvars == <<rib, nh, runners, toMain, toRde, scene, updates>>

ASSUME RibAssumption ==
    /\ Peers \subseteq Nat /\ Rounds \in Nat \ {0} 
    /\ DOMAIN MaxUpdates = DOMAIN Announces
    /\ \A s \in DOMAIN Announces : \A a \in Announces[s] :
          a.peer \in Peers /\ a.dest \in Dests /\ a.nh \in Nexthops

-----------------------------------------------------------------------------
(***************************************************************************)
(* Helpers.  A step of the program is a record of the changed state, w.    *)
(***************************************************************************)

Now == [rib |-> rib, nh |-> nh, runners |-> runners, msgs |-> <<>>]

Becomes(w) ==
    /\ rib' = w.rib /\ nh' = w.nh /\ runners' = w.runners
    /\ toMain' = toMain \o w.msgs

Say(w, m) == [w EXCEPT !.msgs = Append(@, m)]

Key(d, p) == <<d, p>>

\* prefix_bypeer(): the position of the neighbor's path, 0 if there is none.
Pos(l, peer) == IF \E i \in DOMAIN l : l[i].id = peer
                THEN CHOOSE i \in DOMAIN l : l[i].id = peer ELSE 0

\* LIST_NEXT() of key in s
After(s, key) ==
    LET i == CHOOSE j \in DOMAIN s : s[j] = key
    IN  IF i < Len(s) THEN s[i + 1] ELSE None

-----------------------------------------------------------------------------
(***************************************************************************)
(* Nexthops.                                                               *)
(***************************************************************************)

\* nexthop_get(): a new nexthop is looked up; the lookup holds a reference.
nexthop_get(w, n) ==
    IF w.nh[n] # None THEN w
    ELSE Say([w EXCEPT !.nh[n] = [state |-> "lookup", old |-> "lookup",
                                  paths |-> <<>>, next |-> None]],
             nhmsg("ADD", n))

\* nexthop_link()
nexthop_link(w, n, key) == [w EXCEPT !.nh[n].paths = <<key>> \o @]

\* nexthop_unlink(): a runner that stands at the path moves on.
nexthop_unlink(w, n, key) ==
    LET h == w.nh[n]
        next == IF h.next = key THEN After(h.paths, key) ELSE h.next
    IN  [w EXCEPT !.nh[n].paths = Remove(@, key), !.nh[n].next = next,
                  !.runners = IF h.next = key /\ next = None THEN Remove(@, n) ELSE @]

\* nexthop_unref() by the last path: nobody uses the nexthop and its lookup
\* was answered.
nexthop_unref(w, n) ==
    IF w.nh[n].paths # <<>> \/ w.nh[n].state = "lookup" THEN w
    ELSE Say([w EXCEPT !.nh[n] = None], nhmsg("REMOVE", n))

-----------------------------------------------------------------------------
(***************************************************************************)
(* The decision process of a destination.                                  *)
(***************************************************************************)

\* rde_send_kroute() of the best path, or of none.
rde_send_kroute(w, d, new, old) ==
    IF new # None THEN Say(w, [type |-> "CHANGE", dest |-> d, nh |-> new.nh])
    ELSE IF old # None THEN Say(w, [type |-> "DELETE", dest |-> d]) ELSE w

\* The list of d is now l, with another path of neighbor id: the best path is
\* sent if it is another one or that path.
Selected(w, d, l, id, oldbest, newbest) ==
    LET w2 == [w EXCEPT !.rib[d] = l]
        same == \/ oldbest = None /\ newbest = None
                \/ /\ oldbest # None /\ newbest # None
                   /\ oldbest.id = newbest.id /\ newbest.id # id
    IN  IF same THEN w2 ELSE rde_send_kroute(w2, d, newbest, oldbest)

\* prefix_evaluate() of new instead of the path old of the same neighbor,
\* either of them None.
prefix_evaluate(w, d, new, old) ==
    LET l == w.rib[d]
        l1 == IF old = None THEN l ELSE prefix_remove(l, Pos(l, old.id))
        l2 == IF new = None THEN l1 ELSE prefix_insert(l1, new, 0)
    IN  Selected(w, d, l2, IF new # None THEN new.id ELSE old.id,
                 prefix_best(l), prefix_best(l2))

\* prefix_evaluate_nexthop()
prefix_evaluate_nexthop(w, n, key) ==
    LET h == w.nh[n]
        d == key[1]
        l == w.rib[d]
        k == Pos(l, key[2])
        p == l[k]
        new == [p EXCEPT !.valid = (h.state = "reach")]
        l2 == prefix_insert(prefix_remove(l, k), new, 0)
    IN  IF h.old = h.state
        THEN IF h.state = "reach" /\ k = 1 /\ prefix_eligible(p)
             THEN rde_send_kroute(w, d, p, None) ELSE w
        ELSE IF ~prefix_eligible(p) /\ ~prefix_eligible(new)
        THEN [w EXCEPT !.rib[d] = l2]
        ELSE Selected(w, d, l2, p.id, prefix_best(l), prefix_best(l2))

-----------------------------------------------------------------------------
(***************************************************************************)
(* Updates.                                                                *)
(***************************************************************************)

Path(w, a) ==
    [ok |-> a.ok, valid |-> w.nh[a.nh].state = "reach", pref |-> a.pref, nas |-> a.nas,
     med |-> a.med, ibgp |-> a.ibgp, weight |-> a.weight,
     since |-> IF RouteAge THEN updates + 1 ELSE 0, id |-> a.peer, dm |-> 0, nh |-> a.nh]

SamePath(p, q) ==
    /\ p.nh = q.nh /\ p.pref = q.pref /\ p.nas = q.nas /\ p.med = q.med
    /\ p.ibgp = q.ibgp /\ p.weight = q.weight

\* prefix_update() with nothing new but the time, and maybe the filter's
\* verdict.
Refresh(w, d, p, q) ==
    LET k == Pos(w.rib[d], p.id)
        w1 == [w EXCEPT !.rib[d][k].since = q.since]
        p1 == w1.rib[d][k]
    IN  IF p.ok = q.ok THEN w1
        ELSE prefix_evaluate(prefix_evaluate(w1, d, None, p1), d,
                             [p1 EXCEPT !.ok = q.ok], None)

\* prefix_add(), prefix_move()
Replace(w, d, old, new) ==
    LET key == Key(d, new.id)
        w1 == IF old = None THEN w ELSE nexthop_unlink(w, old.nh, key)
        w2 == prefix_evaluate(nexthop_link(w1, new.nh, key), d, new, old)
    IN  IF old = None THEN w2 ELSE nexthop_unref(w2, old.nh)

\* prefix_update() from rde_update_update()
prefix_update(a) ==
    /\ updates < MaxUpdates[scene] /\ updates' = updates + 1
    /\ LET w == nexthop_get(Now, a.nh)
           k == Pos(rib[a.dest], a.peer)
           p == At(rib[a.dest], k)
           q == Path(w, a)
       IN  IF p # None /\ SamePath(p, q) THEN Becomes(Refresh(w, a.dest, p, q))
           ELSE Becomes(Replace(w, a.dest, p, q))
    /\ UNCHANGED <<toRde, scene>>

\* prefix_withdraw(): prefix_destroy()
prefix_withdraw(d, peer) ==
    /\ updates < MaxUpdates[scene] /\ updates' = updates + 1
    /\ Pos(rib[d], peer) # 0
    /\ LET p == rib[d][Pos(rib[d], peer)]
           w == nexthop_unlink(prefix_evaluate(Now, d, None, p), p.nh, Key(d, peer))
       IN  Becomes(nexthop_unref(w, p.nh))
    /\ UNCHANGED <<toRde, scene>>

\* Bug: a change during a run is taken for the only one.
Flapped_no(h) == h.state

\* The oldstate of nexthop_update(): a run that is not finished starts again
\* and evaluates every path.
Flapped(h) == IF h.next # None THEN "flapped" ELSE h.state

\* Bug: a change that comes during a run is lost.
nexthop_update_busy ==
    /\ toRde # <<>> /\ toRde' = Tail(toRde)
    /\ LET m == Head(toRde)
           h == nh[m.nh]
           state == IF m.valid THEN "reach" ELSE "unreach"
       IN  Becomes(IF h = None THEN Now
                   ELSE IF h.paths = <<>>
                   THEN nexthop_unref([Now EXCEPT !.nh[m.nh].state = state], m.nh)
                   ELSE IF h.next # None THEN Now
                   ELSE [Now EXCEPT !.nh[m.nh] = [h EXCEPT !.state = state, !.old = h.state,
                                                           !.next = Head(h.paths)],
                                    !.runners = <<m.nh>> \o @])
    /\ UNCHANGED <<scene, updates>>

\* nexthop_update(), the answer or a change from the parent
nexthop_update ==
    /\ toRde # <<>> /\ toRde' = Tail(toRde)
    /\ LET m == Head(toRde)
           h == nh[m.nh]
           state == IF m.valid THEN "reach" ELSE "unreach"
           first == Head(h.paths)
           waiting == IF h.next # None THEN Remove(runners, m.nh) ELSE runners
       IN  \/ h = None /\ Becomes(Now)
           \/ /\ h # None /\ h.paths = <<>>
              /\ Becomes(nexthop_unref([Now EXCEPT !.nh[m.nh].state = state], m.nh))
           \/ /\ h # None /\ h.paths # <<>>
              /\ Becomes([Now EXCEPT
                    !.nh[m.nh] = [h EXCEPT !.state = state, !.old = Flapped(h),
                                           !.next = first],
                    !.runners = <<m.nh>> \o waiting])
    /\ UNCHANGED <<scene, updates>>

\* The loop of nexthop_runner(): up to k paths of nexthop n, from key on.
RECURSIVE Run(_, _, _, _)
Run(w, n, key, k) ==
    IF key = None \/ k = 0 THEN [w EXCEPT !.nh[n].next = key]
    ELSE Run(prefix_evaluate_nexthop(w, n, key), n, After(nh[n].paths, key), k - 1)

nexthop_runner ==
    /\ runners # <<>>
    /\ LET n == Head(runners)
           w == Run([Now EXCEPT !.runners = Tail(@)], n, nh[n].next, Rounds)
       IN  Becomes(IF w.nh[n].next = None THEN w
                   ELSE [w EXCEPT !.runners = Append(@, n)])
    /\ UNCHANGED <<toRde, scene, updates>>

-----------------------------------------------------------------------------
RibInit ==
    /\ rib = [d \in Dests |-> <<>>] /\ nh = [n \in Nexthops |-> None]
    /\ runners = <<>> /\ toMain = <<>> /\ toRde = <<>>
    /\ scene \in DOMAIN Announces /\ updates = 0

RibNext ==
    \/ \E a \in Announces[scene] : prefix_update(a)
    \/ \E d \in Dests, p \in Peers : prefix_withdraw(d, p)
    \/ nexthop_update \/ nexthop_runner

-----------------------------------------------------------------------------
(***************************************************************************)
(* Properties.                                                             *)
(***************************************************************************)

Paths(d) == {[rib[d][i] EXCEPT !.dm = 0] : i \in DOMAIN rib[d]}

\* The best of a set of paths, by its meaning: of each neighbor AS only the
\* path that its other paths do not beat is a candidate, and the best
\* candidate wins.
Candidate(s, p) == \A q \in s : q # p /\ q.nas = p.nas => prefix_cmp(p, q).cmp > 0
BestOf(s) == CHOOSE p \in s : /\ MedAlways \/ Candidate(s, p)
                              /\ \A q \in s : q # p /\ (MedAlways \/ Candidate(s, q)) =>
                                     prefix_cmp(p, q).cmp > 0

RECURSIVE Ranked(_)
Ranked(s) == IF s = {} THEN <<>> ELSE <<BestOf(s)>> \o Ranked(s \ {BestOf(s)})

\* The list of a destination depends on its paths alone and not on the order
\* in which they came, went or changed: the first is the best, the second the
\* best of the others, and so on, and ineligible paths are last; the metric of
\* a path is that of its comparison with the path before it, never negative
\* (rde_decide.c:328 "keeping the total order of the list", :321 "bad dmetric
\* in decision process").
PreferenceOrder ==
    \A d \in Dests :
        LET ok == {p \in Paths(d) : prefix_eligible(p)}
        IN  /\ [i \in 1 .. Cardinality(ok) |-> [rib[d][i] EXCEPT !.dm = 0]] = Ranked(ok)
            /\ \A i \in DOMAIN rib[d] :
                  /\ rib[d][i].dm >= 0
                  /\ rib[d][i].dm = dmetric(At(rib[d], i - 1), rib[d][i])

\* The paths of n that a runner has still to visit
Unvisited(n) ==
    LET h == nh[n]
        i == CHOOSE j \in DOMAIN h.paths : h.paths[j] = h.next
    IN  IF h.next = None THEN {} ELSE {h.paths[j] : j \in i .. Len(h.paths)}

\* Whatever comes between the turns of a runner, a path that it has passed or
\* that was added since carries the nexthop's state, and a nexthop with paths
\* to visit is queued (rde_rib.c:1394 "ensure that all prefixes are updated").
FlagsFollowNexthop ==
    \A n \in Nexthops : nh[n] # None =>
        /\ \A i \in DOMAIN nh[n].paths :
              LET key == nh[n].paths[i]
                  l == rib[key[1]]
              IN  /\ Pos(l, key[2]) # 0 /\ l[Pos(l, key[2])].nh = n
                  /\ key \notin Unvisited(n) =>
                        l[Pos(l, key[2])].valid = (nh[n].state = "reach")
        /\ (nh[n].next # None) = (n \in Range(runners))
=============================================================================
