------------------------------- MODULE AdjOut -------------------------------
(***************************************************************************)
(* What one neighbor is told (rde_adjout.c, rde_update.c, rde_peer.c and   *)
(* the update queue of rde.c).  A change of a best path is queued on the   *)
(* Loc-RIB entry and evaluated later; the evaluation enters the result in  *)
(* the neighbor's Adj-RIB-Out and on its queue of pending updates and      *)
(* withdraws; the queue runner sends what is pending.  Beside that stream  *)
(* walks in slices load the Adj-RIB-Out from the Loc-RIB (peer_dump), send *)
(* it again (peer_blast), empty it (a reload that changes the RIB) or      *)
(* evaluate the Loc-RIB again (a reload that changes the filters).         *)
(*                                                                         *)
(* One address family, one path per prefix (no add-path) and slices of one *)
(* prefix (RDE_RUNNER_ROUNDS in the code).  What the neighbor may be sent  *)
(* of the Loc-RIB's best path is an attribute set of Attrs, Deny for a     *)
(* path that is filtered or came from this neighbor, or None without an    *)
(* eligible path.                                                          *)
(***************************************************************************)
EXTENDS Integers, FiniteSets, FiniteSetsExt, Sequences, SequencesExt

CONSTANTS
  N,            \* prefixes, 1..N in the order of the walks
  Attrs,        \* attribute sets a best path can be exported with
  TooBig,       \* those of them that do not fit a message
  Deny,
  None,
  Capas,        \* capabilities a session may have: [gr, err : BOOLEAN]
  Budgets       \* bounds, one of which a behavior starts with: changes of a
                \* best path, sessions, route refresh requests, reloads that
                \* concern the neighbor, and times the SE stops the RDE

VARIABLES
  rib,      \* what the best path of each prefix is for the neighbor
  pq,       \* Loc-RIB entries with a queued evaluation
  peer,     \* the rde_peer and the walks with the peer as argument; history:
            \* skipped, the prefixes a dump left in disagreement
  nbr,      \* the neighbor: its table, the part a BoRR made stale
  se_off,   \* the SE has sent XOFF and not yet XON
  left,     \* what is left of the bounds
  changed,  \* history: prefixes that changed since the session came up
  mixed,    \* history: another walk or marker got into the initial one
  unloaded  \* history: prefixes a dump was to load when it was terminated

vars == <<rib, pq, peer, nbr, se_off, left, changed, mixed, unloaded>>

Nets == 1..N
Values == Attrs \cup {Deny, None}
Walk == [kind : {"dump", "blast", "flush", "reeval"}, at : 1..N + 1]

Wanted(v) == IF v \in Attrs THEN v ELSE None

\* What an update tells the neighbor: a prefix whose attributes do not fit a
\* message is dropped, and withdrawn instead (up_dump_update).
Sendable(v) == IF v \in TooBig THEN None ELSE v
Up(s) == s.state = "up"

(***************************************************************************)
(* The pending queue.  A prefix is pending at most once, as a withdraw or  *)
(* under the attributes it will be sent with.  The End-of-RIB marker is a  *)
(* group without attributes.                                               *)
(***************************************************************************)
HasGroup(s, a) == \E i \in DOMAIN s.updates : s.updates[i].attrs = a

\* Bug: the marker is queued first.
pend_eor_add_head(s) ==
  IF HasGroup(s, None)
  THEN s
  ELSE [s EXCEPT !.updates = <<[attrs |-> None, prefixes |-> <<>>]>> \o @]

pend_eor_add(s) ==
  IF HasGroup(s, None)
  THEN s
  ELSE [s EXCEPT !.updates = Append(@, [attrs |-> None, prefixes |-> <<>>])]

\* Groups are kept while they hold a prefix (pend_attr_done)
pend_attr_done(groups) ==
  SelectSeq(groups, LAMBDA g : g.attrs = None \/ g.prefixes # <<>>)

\* Bug: a prefix stays where it was pending before.
pend_prefix_add_twice(s, a, x) ==
  LET groups == IF a = None \/ HasGroup(s, a) THEN s.updates
                ELSE Append(s.updates, [attrs |-> a, prefixes |-> <<>>])
  IN [s EXCEPT !.withdraws = IF a = None THEN Append(Remove(@, x), x) ELSE @,
               !.updates =
                 [i \in DOMAIN groups |->
                    IF a # None /\ groups[i].attrs = a
                    THEN [groups[i] EXCEPT !.prefixes = Append(Remove(@, x), x)]
                    ELSE groups[i]]]

pend_prefix_add(s, a, x) ==
  LET groups == IF a = None \/ HasGroup(s, a) THEN s.updates
                ELSE Append(s.updates, [attrs |-> a, prefixes |-> <<>>])
      Moved(g) == [g EXCEPT !.prefixes = Remove(@, x)
                              \o (IF a # None /\ g.attrs = a THEN <<x>> ELSE <<>>)]
  IN [s EXCEPT !.withdraws = Remove(@, x)
                               \o (IF a = None THEN <<x>> ELSE <<>>),
               !.updates = pend_attr_done([i \in DOMAIN groups |->
                                             Moved(groups[i])])]

adjout_peer_flush_pending(s) ==
  [s EXCEPT !.withdraws = <<>>, !.updates = <<>>]

(***************************************************************************)
(* The Adj-RIB-Out                                                         *)
(***************************************************************************)
\* Bug: a route that is already there is not sent again.
adjout_prefix_update_lazy(s, x, a, force_send) ==
  IF s.adjout[x] = a
  THEN s
  ELSE LET t == [s EXCEPT !.adjout[x] = a, !.bid = TRUE]
       IN IF Up(s) THEN pend_prefix_add(t, a, x) ELSE t

\* The first prefix linked gives the peer its adjout_bid
adjout_prefix_update(s, x, a, force_send) ==
  IF s.adjout[x] = a
  THEN IF force_send /\ Up(s) THEN pend_prefix_add(s, a, x) ELSE s
  ELSE LET t == [s EXCEPT !.adjout[x] = a, !.bid = TRUE]
       IN IF Up(s) THEN pend_prefix_add(t, a, x) ELSE t

\* Bug: a withdraw is never queued.
adjout_prefix_withdraw_silent(s, x, skip_send) ==
  [s EXCEPT !.adjout[x] = None]

adjout_prefix_withdraw(s, x, skip_send) ==
  LET t == IF Up(s) /\ ~skip_send THEN pend_prefix_add(s, None, x) ELSE s
  IN [t EXCEPT !.adjout[x] = None]

\* up_process_prefix and up_generate_updates for the best path
up_generate_updates(s, x, sync) ==
  CASE rib[x] \in Attrs     -> adjout_prefix_update(s, x, rib[x], sync)
    [] s.adjout[x] # None /\ rib[x] \notin Attrs
                            -> adjout_prefix_withdraw(s, x, sync)
    [] OTHER                -> s

\* Bug: the Adj-RIB-Out is not kept while the session is down.
peer_generate_update_up(s, x, sync) ==
  IF Up(s) THEN up_generate_updates(s, x, sync) ELSE s

peer_generate_update(s, x, sync) ==
  IF s.state = "none" THEN s ELSE up_generate_updates(s, x, sync)

(***************************************************************************)
(* Walks.  A new walk is put in front of the list.  A walk of an           *)
(* Adj-RIB-Out that never had a prefix has nothing to visit.               *)
(***************************************************************************)
Start(s, kind) ==
  [s EXCEPT !.walks =
     <<[kind |-> kind, at |-> IF kind \in {"blast", "flush"} /\ ~s.bid
                              THEN N + 1 ELSE 1]>> \o @]

peer_dump(s) == Start([s EXCEPT !.throttled = TRUE], "dump")

\* Bug: the peer stays throttled.
peer_blast_done_held(s) ==
  IF s.capa.gr THEN pend_eor_add(s) ELSE s

\* Bug: only the first table of a session gets a marker.
peer_blast_done_first(s) ==
  LET t == [s EXCEPT !.throttled = FALSE]
  IN IF s.capa.gr /\ ~s.sent_eor THEN pend_eor_add(t) ELSE t

peer_blast_done(s) ==
  LET t == [s EXCEPT !.throttled = FALSE]
  IN IF s.capa.gr THEN pend_eor_add(t) ELSE t

\* rde_softreconfig_in_done follows the flush of a neighbor whose RIB changed
ctx_done(s, kind) ==
  CASE kind \in {"dump", "blast"} -> peer_blast_done(s)
    [] kind = "flush"             -> peer_dump(s)
    [] kind = "reeval"            -> s

\* History: the dump comes to an entry without a route for the neighbor, and
\* its skip_send, or want of a best path, keeps it from telling the neighbor.
Skipped(s, x) ==
  IF Up(s) /\ s.adjout[x] # None /\ rib[x] \notin Attrs
  THEN [s EXCEPT !.skipped = @ \cup {x}] ELSE s

ctx_call(s, kind, x) ==
  CASE kind = "dump"   -> IF rib[x] = None THEN Skipped(s, x)
                          ELSE peer_generate_update(Skipped(s, x), x, TRUE)
    [] kind = "reeval" -> IF rib[x] = None THEN s
                          ELSE peer_generate_update(s, x, FALSE)
    [] kind = "blast"  -> IF s.adjout[x] = None THEN s
                          ELSE pend_prefix_add(s, s.adjout[x], x)
    [] kind = "flush"  -> IF s.adjout[x] = None THEN s
                          ELSE adjout_prefix_withdraw(s, x, FALSE)

\* Entries of the Loc-RIB on which one of the walks ws has paused
Locked(ws) == {ws[i].at : i \in {j \in DOMAIN ws :
                 ws[j].kind \in {"dump", "reeval"} /\ ws[j].at > 1}}

\* One slice of a walk: rib_dump_r and adjout_prefix_dump_r.  A walk of the
\* Loc-RIB does not pause on an entry another walk has locked.
Slice(s, c, locked) ==
  LET stops == {y \in c.at + 1..N :
                  c.kind \in {"blast", "flush"} \/ y \notin locked}
      to == IF stops = {} THEN N ELSE Min(stops) - 1
      t == FoldLeft(LAMBDA u, x : ctx_call(u, c.kind, x), s,
                    [i \in 1..to - c.at + 1 |-> c.at + i - 1])
  IN IF to < N THEN <<t, <<[c EXCEPT !.at = to + 1]>>>>
     ELSE <<ctx_done(t, c.kind), <<>>>>

\* Every walk has one slice, the newest first; acc is the peer, whose walks
\* are those started meanwhile, and the walks that go on.
Slices(s) ==
  LET ws == s.walks
      Turn(acc, i) ==
        LET r == Slice(acc[1], ws[i],
                       Locked(acc[2] \o SubSeq(ws, i + 1, Len(ws))))
        IN <<r[1], acc[2] \o r[2]>>
      end == FoldLeft(Turn, <<[s EXCEPT !.walks = <<>>], <<>>>>,
                      [i \in 1..Len(ws) |-> i])
  IN [end[1] EXCEPT !.walks = @ \o end[2]]

\* The walks of the peer end, each with its done callback
rib_dump_terminate(s) ==
  LET Mine(c) == c.kind # "reeval"
      ended == SelectSeq(s.walks, Mine)
  IN FoldLeft(LAMBDA t, c : ctx_done(t, c.kind),
              [s EXCEPT !.walks = SelectSeq(@, LAMBDA c : ~Mine(c))], ended)
-----------------------------------------------------------------------------
(***************************************************************************)
(* The neighbor, which handles BoRR and EoRR as this code does (rde.c,     *)
(* peer_begin_rrefresh).                                                   *)
(***************************************************************************)
Told(n, x, v) == [n EXCEPT !.table[x] = v, !.stale = @ \ {x}]

Flushed(n) ==
  [n EXCEPT !.table = [x \in Nets |-> IF x \in n.stale THEN None ELSE @[x]],
            !.stale = {}, !.open = FALSE]

BeginRR(n) ==
  LET m == Flushed(n)
  IN [m EXCEPT !.stale = {x \in Nets : m.table[x] # None}, !.open = TRUE]

EndRR(n) == IF n.open THEN Flushed(n) ELSE n

NoTable == [table |-> [x \in Nets |-> None], stale |-> {}, open |-> FALSE]

\* The last the neighbor hears of x if nothing more is queued
PendingGroup(s, x) ==
  {s.updates[i].attrs : i \in {j \in DOMAIN s.updates :
                                 Contains(s.updates[j].prefixes, x)}}
LastWord(s, n, x) ==
  CASE PendingGroup(s, x) # {}      -> Sendable(CHOOSE a \in PendingGroup(s, x) : TRUE)
    [] Contains(s.withdraws, x)     -> None
    [] x \in n.stale                -> None
    [] OTHER                        -> n.table[x]

\* A walk of one of the kinds will still come to x
Coming(x, kinds) ==
  \E i \in DOMAIN peer.walks : /\ peer.walks[i].kind \in kinds
                               /\ peer.walks[i].at <= x

\* History: what a dump skipped counts until the neighbor is told of it.
Disagreeing(s) ==
  [s EXCEPT !.skipped = {x \in @ : LastWord(s, nbr, x) # Sendable(s.adjout[x])}]
-----------------------------------------------------------------------------
Init ==
  /\ rib \in [Nets -> Values]
  /\ pq = {}
  /\ peer = [state |-> "none", capa |-> [gr |-> FALSE, err |-> FALSE],
             adjout |-> [x \in Nets |-> None], bid |-> FALSE,
             withdraws |-> <<>>, updates |-> <<>>, walks |-> <<>>,
             throttled |-> FALSE, sent_eor |-> FALSE, skipped |-> {}]
  /\ nbr = NoTable
  /\ se_off = FALSE
  /\ left \in Budgets
  /\ changed = {}
  /\ mixed = FALSE
  /\ unloaded = {}

Spend(what) == left[what] > 0 /\ left' = [left EXCEPT ![what] = @ - 1]

\* The best path of x changes: rde_enqueue_updates
BestChange(x, v) ==
  /\ Spend("change")
  /\ v # rib[x]
  /\ rib' = [rib EXCEPT ![x] = v]
  /\ pq' = pq \cup {x}
  /\ changed' = changed \cup {x}
  /\ UNCHANGED <<peer, nbr, se_off, mixed, unloaded>>

peer_process_updates(x) ==
  /\ x \in pq
  /\ pq' = pq \ {x}
  /\ peer' = Disagreeing(peer_generate_update(peer, x, FALSE))
  /\ unloaded' = unloaded \ {x}
  /\ UNCHANGED <<rib, nbr, se_off, left, changed, mixed>>

rib_dump_runner ==
  /\ peer.walks # <<>>
  /\ peer' = Disagreeing(Slices(peer))
  /\ unloaded' = {x \in unloaded : peer'.adjout[x] # Wanted(rib[x])}
  /\ UNCHANGED <<rib, pq, nbr, se_off, left, changed, mixed>>

\* What the neighbor sees of peer_blast before the first slice: BoRR
Refreshed(s, n) == IF s.capa.err /\ s.sent_eor THEN BeginRR(n) ELSE n

peer_up(capa, moved) ==
  LET force_sync == moved \/ capa # peer.capa
      s == [peer EXCEPT !.state = "up", !.capa = capa, !.sent_eor = ~capa.gr]
  IN /\ Spend("session")
     /\ peer.state # "up"
     /\ peer.state = "none" => moved
     /\ peer' = IF force_sync THEN peer_dump(s) ELSE Start(s, "blast")
     /\ nbr' = IF force_sync THEN NoTable ELSE Refreshed(s, NoTable)
     /\ changed' = pq
     /\ mixed' = (peer.walks # <<>> \/ peer.updates # <<>>)
     /\ UNCHANGED <<rib, pq, se_off, unloaded>>

\* peer_down, and peer_stale as far as the Adj-RIB-Out is concerned
peer_down ==
  /\ Up(peer)
  /\ peer' = adjout_peer_flush_pending(
               rib_dump_terminate([peer EXCEPT !.state = "down",
                                                !.skipped = {}]))
  /\ nbr' = NoTable
  /\ mixed' = FALSE
  /\ unloaded' = unloaded \cup {x \in Nets : Coming(x, {"dump"})}
  /\ UNCHANGED <<rib, pq, se_off, left, changed>>

\* ROUTE_REFRESH_REQUEST
Refresh ==
  /\ Up(peer)
  /\ Spend("refresh")
  /\ peer' = Start(peer, "blast")
  /\ nbr' = Refreshed(peer, nbr)
  /\ mixed' = (mixed \/ ~peer.sent_eor)
  /\ UNCHANGED <<rib, pq, se_off, changed, unloaded>>

\* A reload (rde_reload_done) after which the neighbor may see the RIB
\* differently: with another export type, evaluation or transparent-as its
\* Adj-RIB-Out is flushed and loaded again, with other filters the Loc-RIB
\* is evaluated again.
Reload(kind, r) ==
  /\ Spend("reload")
  /\ peer.state # "none"
  /\ \A x \in Nets : (r[x] = None) = (rib[x] = None)
  /\ rib' = r
  /\ peer' = Start(peer, kind)
  /\ changed' = changed \cup {x \in Nets : r[x] # rib[x]}
  /\ mixed' = (mixed \/ (Up(peer) /\ ~peer.sent_eor))
  /\ UNCHANGED <<pq, nbr, se_off, unloaded>>

\* The SE's queue for the neighbor is over the high mark, under the low mark
Xoff ==
  /\ Up(peer) /\ ~se_off
  /\ Spend("xoff")
  /\ se_off' = TRUE
  /\ peer' = [peer EXCEPT !.throttled = TRUE]
  /\ UNCHANGED <<rib, pq, nbr, changed, mixed, unloaded>>

Xon ==
  /\ se_off
  /\ se_off' = FALSE
  /\ peer' = [peer EXCEPT !.throttled = FALSE]
  /\ UNCHANGED <<rib, pq, nbr, left, changed, mixed, unloaded>>

(***************************************************************************)
(* The queue runner: the withdraws, then updates in the order of the       *)
(* groups, at most up to and including the marker; how many fit in the     *)
(* rounds is left open.                                                    *)
(***************************************************************************)
Flat(groups) ==
  FlattenSeq([i \in DOMAIN groups |->
    IF groups[i].attrs = None THEN <<[attrs |-> None, x |-> 0]>>
    ELSE [j \in DOMAIN groups[i].prefixes |->
            [attrs |-> groups[i].attrs, x |-> groups[i].prefixes[j]]]])

SentItem(acc, i) ==
  LET s == acc[1]
      n == acc[2]
      drop == [k \in DOMAIN s.updates |->
                 [s.updates[k] EXCEPT !.prefixes = Remove(@, i.x)]]
  IN IF i.attrs = None
     THEN <<[s EXCEPT !.updates = Tail(@), !.sent_eor = @ \/ s.capa.gr],
            IF s.capa.err /\ s.sent_eor THEN EndRR(n) ELSE n>>
     ELSE <<[s EXCEPT !.updates = pend_attr_done(drop)],
            Told(n, i.x, Sendable(i.attrs))>>

rde_update_queue_runner(count) ==
  LET n == FoldLeft(LAMBDA m, x : Told(m, x, None), nbr, peer.withdraws)
      items == Flat(peer.updates)
      sent == FoldLeft(SentItem, <<[peer EXCEPT !.withdraws = <<>>], n>>,
                       SubSeq(items, 1, count))
  IN /\ Up(peer) /\ ~peer.throttled
     /\ peer.withdraws # <<>> \/ peer.updates # <<>>
     /\ count \in (IF items = <<>> THEN {0} ELSE 1..Len(items))
     /\ \A i \in 1..count - 1 : items[i].attrs # None
     /\ peer' = sent[1]
     /\ nbr' = sent[2]
     /\ UNCHANGED <<rib, pq, se_off, left, changed, mixed, unloaded>>

Next ==
  \/ \E x \in Nets, v \in Values : BestChange(x, v)
  \/ \E x \in Nets : peer_process_updates(x)
  \/ rib_dump_runner
  \/ \E capa \in Capas, moved \in BOOLEAN : peer_up(capa, moved)
  \/ peer_down
  \/ Refresh
  \/ \E kind \in {"flush", "reeval"}, r \in [Nets -> Values] :
        Reload(kind, r)
  \/ Xoff
  \/ Xon
  \/ \E count \in 0..N + 1 : rde_update_queue_runner(count)

Spec == Init /\ [][Next]_vars
-----------------------------------------------------------------------------
Flatly(s) == s.withdraws
               \o FlattenSeq([i \in DOMAIN s.updates |-> s.updates[i].prefixes])

\* Types, and what the abort()s of the pending queue assert: a prefix is
\* pending at most once, there is one group for each attribute set and one
\* marker, and no group but the marker is empty.
TypeOK ==
  /\ rib \in [Nets -> Values]
  /\ pq \subseteq Nets
  /\ peer.state \in {"none", "down", "up"}
  /\ peer.adjout \in [Nets -> Attrs \cup {None}]
  /\ \A i \in DOMAIN peer.walks : peer.walks[i] \in Walk
  /\ nbr.table \in [Nets -> Attrs \cup {None}]
  /\ IsInjective(Flatly(peer))
  /\ \A i, j \in DOMAIN peer.updates :
       peer.updates[i].attrs = peer.updates[j].attrs => i = j
  /\ \A i \in DOMAIN peer.updates :
       (peer.updates[i].prefixes = <<>>) = (peer.updates[i].attrs = None)

\* The Adj-RIB-Out follows the Loc-RIB: once the queued evaluation of a
\* prefix is done and no walk has still to load it, the neighbor's entry is
\* what the best path is exported as, also when the session has been down.
ExportRight ==
  \A x \in Nets \ unloaded :
    peer.state = "none" \/ x \in pq \/ Coming(x, {"dump", "flush", "reeval"})
      \/ (\E i \in DOMAIN peer.walks : peer.walks[i].kind = "flush")
      \/ peer.adjout[x] = Wanted(rib[x])

\* The neighbor follows the Adj-RIB-Out: what it was last told of a prefix,
\* or will be told by what is queued, is what the Adj-RIB-Out records, when
\* no walk has still to send the prefix.  A dump withdraws without telling the
\* neighbor (skip_send), which may only leave it behind on prefixes that
\* changed since the session came up, or with other walks beside the dump
\* (see SkipSafe).
NeighborInSync ==
  Up(peer) =>
    \A x \in Nets \ {y \in peer.skipped : mixed \/ y \in changed} :
      \/ Coming(x, {"dump", "blast"})
      \/ LastWord(peer, nbr, x) = Sendable(peer.adjout[x])

\* A refresh that began with BoRR ends with EoRR when graceful restart was
\* negotiated: while the neighbor waits, a walk is under way that will queue
\* the marker, or the marker is queued.
RefreshEnds ==
  (Up(peer) /\ nbr.open /\ peer.capa.gr) =>
    \/ HasGroup(peer, None)
    \/ \E i \in DOMAIN peer.walks : peer.walks[i].kind \in {"dump", "blast", "flush"}

\* Nobody leaves the neighbor throttled: a throttled neighbor has a dump that
\* will release it or a SE that will send XON.
ThrottleEnds ==
  peer.throttled => \/ se_off
                    \/ \E i \in DOMAIN peer.walks : peer.walks[i].kind = "dump"

\* The types hold and the Adj-RIB-Out follows the Loc-RIB.
AdjOutRight == TypeOK /\ ExportRight

\* Whoever waits for the end of a walk has one to wait for: the neighbor for
\* EoRR and the session engine for the release of the queue.
WaitsEnd == RefreshEnds /\ ThrottleEnds

Initial == {x \in Nets \ (changed \cup unloaded) : Wanted(rib[x]) # None}

\* The End-of-RIB marker follows the initial table: when it is sent the
\* neighbor holds every route that has not changed since the session came up.
\* Stated for sessions without a second walk before the marker.
EorAfterTable ==
  [][(Up(peer) /\ ~peer.sent_eor /\ peer'.sent_eor /\ Up(peer') /\ ~mixed) =>
       \A x \in Initial : nbr'.table[x] = Sendable(rib[x])]_vars

\* As EorAfterTable, for every session
EorAlwaysAfterTable ==
  [][(Up(peer) /\ ~peer.sent_eor /\ peer'.sent_eor /\ Up(peer')) =>
       \A x \in Initial : nbr'.table[x] = Sendable(rib[x])]_vars

\* What a session needs is in the Adj-RIB-Out or on its way there: a dump
\* that ended early is made up for when the session comes back
TableLoaded ==
  Up(peer) => \A x \in unloaded :
                x \in pq \/ Coming(x, {"dump", "reeval"})
                  \/ \E i \in DOMAIN peer.walks : peer.walks[i].kind = "flush"

\* A withdraw is skipped only when the neighbor does not need it
SkipSafe == \A x \in peer.skipped : peer.adjout[x] # None

\* Every refresh that began with BoRR ends with EoRR
RefreshAlwaysEnds ==
  (Up(peer) /\ nbr.open) =>
    \/ HasGroup(peer, None)
    \/ \E i \in DOMAIN peer.walks : peer.walks[i].kind \in {"dump", "blast", "flush"}
=============================================================================
