------------------------------ MODULE Decision ------------------------------
(***************************************************************************)
(* The decision process (rde_decide.c): comparing two paths to the same    *)
(* destination, and keeping the list of a destination's paths in order of  *)
(* preference while paths come and go.                                     *)
(*                                                                         *)
(* MULTI_EXIT_DISC is only comparable between paths of the same neighbor   *)
(* AS, so the comparison is not transitive and a single insertion point    *)
(* does not exist: paths that the MED of a new path puts behind it are     *)
(* taken off the list and inserted again.                                  *)
(*                                                                         *)
(* A path is a record of what the comparison looks at: ok (not filtered,   *)
(* no loop or error), valid (the nexthop), pref (steps 2 to 4: local       *)
(* preference, AS path length, origin, as one rank, lower is better), nas  *)
(* (the neighbor AS), med, ibgp (0 for EBGP), weight (as a rank), since    *)
(* (lastchange) and id (steps 10 to 13, different for any two paths).  dm  *)
(* is dmetric.                                                             *)
(***************************************************************************)
EXTENDS Integers, Sequences, SequencesExt

CONSTANTS
    None,
    MedAlways,      \* "rde med compare always"
    RouteAge        \* "rde route-age evaluate"

\* PREFIX_DMETRIC_BEST, PREFIX_DMETRIC_INVALID
DmBest == 127
DmInvalid == 0

-----------------------------------------------------------------------------
prefix_eligible(p) == p.ok /\ p.valid

\* Lower is better: v if x is better, -v if y is.
better(x, y, v) == IF x < y THEN v ELSE -v

\* prefix_cmp(): cmp is positive when a is preferred, its absolute value says
\* how alike the paths are; testall tells that the MED may matter (1) or did
\* decide (2).
prefix_cmp(a, b) ==
    LET r(v, t) == [cmp |-> v, testall |-> t]
        late == IF MedAlways THEN 0 ELSE 1
        comparable == MedAlways \/ a.nas = b.nas
    IN  CASE a = None -> r(-1, 0)
          [] b = None -> r(1, 0)
          [] ~prefix_eligible(b) -> r(1, 0)
          [] ~prefix_eligible(a) -> r(-1, 0)
          [] a.pref # b.pref -> r(better(a.pref, b.pref, 2), 0)
          [] comparable /\ a.med # b.med -> r(better(a.med, b.med, 2), late * 2)
          [] a.ibgp # b.ibgp -> r(better(a.ibgp, b.ibgp, 2), late)
          [] a.weight # b.weight -> r(better(a.weight, b.weight, 3), late)
          [] RouteAge /\ a.since # b.since -> r(better(a.since, b.since, 4), late)
          [] OTHER -> r(better(a.id, b.id, 4), late)

\* prefix_set_dmetric() of np behind pp
dmetric(pp, np) ==
    IF pp = None THEN IF prefix_eligible(np) THEN DmBest ELSE DmInvalid
    ELSE prefix_cmp(pp, np).cmp

At(l, i) == IF i \in DOMAIN l THEN l[i] ELSE None
WithDmetric(l, i) ==
    IF i \in DOMAIN l THEN [l EXCEPT ![i].dm = dmetric(At(l, i - 1), l[i])] ELSE l

\* The scan of prefix_insert() of new into l, at position i: ins is the
\* insertion point, sel whether it is locked, rem whether the path before
\* position i was taken off, redo the paths taken off.  Compared goes on with
\* the result c of the comparison at i, Passed once the path at i stays.
RECURSIVE Scan(_, _, _, _, _, _, _)
Passed(l, new, i, ins, sel, redo, testall, preferred) ==
    LET ins2 == IF ~preferred /\ ~sel THEN i ELSE ins
    IN  IF preferred /\ testall = 0 THEN [list |-> l, ins |-> ins2, redo |-> redo]
        ELSE Scan(l, new, i + 1, ins2, sel, FALSE, redo)

Compared(l, new, i, ins, sel, rem, redo, c) ==
    IF c.cmp > 0 /\ c.testall = 2
    THEN Scan(RemoveAt(l, i), new, i, ins, sel, TRUE, Append(redo, l[i]))
    ELSE Passed(IF rem THEN WithDmetric(l, i) ELSE l, new, i, ins,
                IF c.cmp > 0 THEN sel \/ c.testall = 1 ELSE sel /\ c.testall # 2,
                redo, c.testall, c.cmp > 0)

Scan(l, new, i, ins, sel, rem, redo) ==
    IF i > Len(l) THEN [list |-> l, ins |-> ins, redo |-> redo]
    ELSE Compared(l, new, i, ins, sel, rem, redo, prefix_cmp(new, l[i]))

\* prefix_insert(): ep is the position to start from, 0 for the head.
RECURSIVE prefix_insert(_, _, _)
Put(l, new, at) == WithDmetric(WithDmetric(InsertAt(l, at, new), at), at + 1)
Inserted(s, new) ==
    FoldLeft(LAMBDA x, p : prefix_insert(x, p, CHOOSE i \in DOMAIN x : x[i].id = new.id),
             Put(s.list, new, s.ins + 1), s.redo)
prefix_insert(l, new, ep) ==
    Inserted(Scan(l, new, IF ep = 0 THEN 1 ELSE ep, ep, FALSE, FALSE, <<>>), new)

\* The scan of prefix_remove(): paths the MED of old was compared with.
RECURSIVE Rescan(_, _, _, _, _)
Rescan(l, old, i, rem, redo) ==
    IF i > Len(l) THEN [list |-> l, redo |-> redo]
    ELSE LET t == prefix_cmp(old, l[i]).testall
             l2 == IF rem THEN WithDmetric(l, i) ELSE l
         IN  IF t = 2 THEN Rescan(RemoveAt(l, i), old, i, TRUE, Append(redo, l[i]))
             ELSE IF t = 0 THEN [list |-> l2, redo |-> redo]
             ELSE Rescan(l2, old, i + 1, FALSE, redo)

\* Bug: paths that the MED of the removed one held back stay where they are.
prefix_remove_plain(l, k) == WithDmetric(RemoveAt(l, k), k)

\* prefix_remove() of the path at position k
prefix_remove(l, k) ==
    LET old == l[k]
        rest == RemoveAt(l, k)
        s == IF prefix_cmp(old, At(rest, k)).testall > 0
             THEN Rescan(rest, old, k, FALSE, <<>>)
             ELSE [list |-> rest, redo |-> <<>>]
    IN  FoldLeft(LAMBDA x, p : prefix_insert(x, p, 0), WithDmetric(s.list, k), s.redo)

\* prefix_best()
prefix_best(l) == IF l # <<>> /\ prefix_eligible(l[1]) THEN l[1] ELSE None
=============================================================================
