------------------------------ MODULE Kroute -------------------------------
(***************************************************************************)
(* The parent's side of the routes (kroute.c): it follows the kernel's     *)
(* routing table, resolves the nexthops that the decision engine asked for *)
(* with the longest match in it, tells the decision engine when that       *)
(* changes, and puts the routes that the decision engine selects into the  *)
(* kernel with the gateway that their nexthop resolves to.                 *)
(*                                                                         *)
(* "nexthop qualify via bgp" is off, so that the daemon's own routes never *)
(* resolve a nexthop (bgpd_oknexthop()); no multipath routes in the kernel.*)
(* No other process changes or removes a route of the daemon's priority    *)
(* (F_BGPD in kr_fib_change() and kroute_remove()).                        *)
(***************************************************************************)
EXTENDS RoutePipe, Naturals, FiniteSets, SequencesExt

CONSTANTS
    Routes,         \* prefixes the kernel may have a route for
    Covers,         \* the nexthops in each of them
    Length,         \* prefixlen of each of them
    IfOf,           \* the interface of each of them
    Gateways,       \* gateways of the kernel's routes, or Connected
    Connected,      \* F_CONNECTED: the nexthop is its own gateway
    NoRoute,        \* NULL
    IfTracked,      \* interfaces that a nexthop is resolved through change
    MaxKernel       \* at most so many changes in the kernel

VARIABLES
    krt,        \* kt->krt, the kernel's own routes: nexthop, F_NEXTHOP
    knt,        \* knexthop_tree: kroute
    own,        \* kt->krt, F_BGPD routes: gateway, F_BGPD_INSERTED
    fib,        \* the kernel's routes that the daemon inserted
    fib_sync,   \* kt->fib_sync, "coupled"
    up,         \* kif->nh_reachable
    left        \* changes in the kernel that may still come

krvars == <<krt, knt, own, fib, fib_sync, up, left>>

ASSUME KrouteAssumption ==
    /\ \A r \in Routes : Covers[r] \subseteq Nexthops /\ Length[r] \in Nat
    /\ \A r, s \in Routes : Covers[r] \cap Covers[s] # {} /\ r # s => Length[r] # Length[s]
    /\ Connected \in Gateways /\ NoRoute \notin Routes /\ MaxKernel \in Nat

-----------------------------------------------------------------------------
(***************************************************************************)
(* Nexthops.  s is the record of the state a step changes.                 *)
(***************************************************************************)

KNow == [krt |-> krt, knt |-> knt, up |-> up, msgs |-> <<>>]

KBecomes(s) ==
    krt' = s.krt /\ knt' = s.knt /\ up' = s.up /\ toRde' = toRde \o s.msgs

\* knexthop_send_update(), kroute_validate()
knexthop_send_update(s, n) ==
    LET r == s.knt[n].kroute
    IN  [s EXCEPT !.msgs = Append(@,
            [nh |-> n, valid |-> r # NoRoute /\ s.up[IfOf[r]]])]

\* kroute_match(): the longest match
kroute_match(s, n) ==
    LET m == {r \in Routes : s.krt[r] # NoRoute /\ n \in Covers[r]}
    IN  IF m = {} THEN NoRoute
        ELSE CHOOSE r \in m : \A q \in m : Length[r] >= Length[q]

\* Bug: the flag goes although another nexthop depends on the route.
kroute_detach_nexthop_flag(s, n) ==
    LET r == s.knt[n].kroute
    IN  IF r = NoRoute \/ s.krt[r] = NoRoute
        THEN [s EXCEPT !.knt[n].kroute = NoRoute]
        ELSE [s EXCEPT !.knt[n].kroute = NoRoute, !.krt[r].used = FALSE]

\* kroute_detach_nexthop()
kroute_detach_nexthop(s, n) ==
    LET r == s.knt[n].kroute
        others == {m \in Nexthops \ {n} : s.knt[m] # NoRoute /\ s.knt[m].kroute = r}
        s1 == [s EXCEPT !.knt[n].kroute = NoRoute]
    IN  IF r = NoRoute \/ s.krt[r] = NoRoute \/ others # {} THEN s1
        ELSE [s1 EXCEPT !.krt[r].used = FALSE]

\* knexthop_validate(): an update is sent if the route is another one.
knexthop_validate(s, n) ==
    LET s1 == kroute_detach_nexthop(s, n)
        r == kroute_match(s1, n)
        s2 == IF r = NoRoute THEN s1
              ELSE [s1 EXCEPT !.knt[n].kroute = r, !.krt[r].used = TRUE]
    IN  IF r = s.knt[n].kroute THEN s2 ELSE knexthop_send_update(s2, n)

\* RB_FOREACH() over the nexthops in ns
Foreach(op(_, _), s, ns) == FoldLeft(op, s, SetToSeq(ns))

Known(ns) == {n \in ns : knt[n] # NoRoute}

-----------------------------------------------------------------------------
(***************************************************************************)
(* Changes in the kernel, read from the routing socket.                    *)
(***************************************************************************)

Kernel == left > 0 /\ left' = left - 1

\* kr_fib_change() of a route that is not known: kroute_insert()
FibAdd(r, gw) ==
    /\ Kernel /\ krt[r] = NoRoute
    /\ KBecomes(Foreach(knexthop_validate,
                        [KNow EXCEPT !.krt[r] = [gw |-> gw, used |-> FALSE]],
                        Known(Covers[r])))
    /\ UNCHANGED <<toMain, own, fib, fib_sync>>

\* kr_fib_change() of a route that is known, knexthop_update()
FibChange(r, gw) ==
    /\ Kernel /\ krt[r] # NoRoute /\ krt[r].gw # gw
    /\ KBecomes(Foreach(knexthop_send_update, [KNow EXCEPT !.krt[r].gw = gw],
                        IF krt[r].used THEN Known(Covers[r]) ELSE {}))
    /\ UNCHANGED <<toMain, own, fib, fib_sync>>

\* kr_fib_delete(): kroute_remove(), nexthops with this route look for another.
FibDelete(r) ==
    /\ Kernel /\ krt[r] # NoRoute
    /\ KBecomes(Foreach(knexthop_validate, [KNow EXCEPT !.krt[r] = NoRoute],
                        IF krt[r].used THEN {n \in Known(Nexthops) : knt[n].kroute = r}
                        ELSE {}))
    /\ UNCHANGED <<toMain, own, fib, fib_sync>>

\* if_change(), knexthop_track(): the route of a nexthop stays the same.
if_change(i) ==
    LET via == {n \in Known(Nexthops) : knt[n].kroute # NoRoute /\ IfOf[knt[n].kroute] = i}
    IN  /\ Kernel /\ (IfTracked \/ via = {})
        /\ KBecomes(Foreach(knexthop_validate, [KNow EXCEPT !.up[i] = ~@], via))
        /\ UNCHANGED <<toMain, own, fib, fib_sync>>

-----------------------------------------------------------------------------
(***************************************************************************)
(* Messages of the decision engine, dispatch_imsg().                       *)
(***************************************************************************)

Request(type) == toMain # <<>> /\ Head(toMain).type = type /\ toMain' = Tail(toMain)

\* kr_nexthop_add(), knexthop_insert()
kr_nexthop_add ==
    /\ Request("ADD")
    /\ LET n == Head(toMain).nh
       IN  KBecomes(IF knt[n] # NoRoute THEN knexthop_send_update(KNow, n)
                    ELSE knexthop_validate([KNow EXCEPT !.knt[n] = [kroute |-> NoRoute]], n))
    /\ UNCHANGED <<own, fib, fib_sync, left>>

\* kr_nexthop_delete(), knexthop_remove()
kr_nexthop_delete ==
    /\ Request("REMOVE")
    /\ LET n == Head(toMain).nh
       IN  KBecomes(IF knt[n] = NoRoute THEN KNow
                    ELSE [kroute_detach_nexthop(KNow, n) EXCEPT !.knt[n] = NoRoute])
    /\ UNCHANGED <<own, fib, fib_sync, left>>

\* Bug: a connected route's gateway is taken for an address.
knexthop_true_nexthop_raw(n) ==
    IF knt[n] = NoRoute \/ knt[n].kroute = NoRoute THEN NoRoute
    ELSE krt[knt[n].kroute].gw

\* knexthop_true_nexthop(): the gateway of a nexthop, NoRoute if there is none
knexthop_true_nexthop(n) ==
    IF knt[n] = NoRoute \/ knt[n].kroute = NoRoute THEN NoRoute
    ELSE LET gw == krt[knt[n].kroute].gw IN IF gw = Connected THEN n ELSE gw

\* kroute_remove() of the daemon's route
kroute_remove(d) ==
    /\ own' = [own EXCEPT ![d] = NoRoute]
    /\ fib' = IF own[d] # NoRoute /\ own[d].inserted /\ fib_sync
              THEN [fib EXCEPT ![d] = NoRoute] ELSE fib

\* kr4_change(), kr6_change(), kroute_insert() and send_rtmsg()
kr4_change(d, gw) ==
    /\ own' = [own EXCEPT ![d] = [gw |-> gw,
          inserted |-> fib_sync \/ (own[d] # NoRoute /\ own[d].inserted)]]
    /\ fib' = IF fib_sync THEN [fib EXCEPT ![d] = gw] ELSE fib

\* Bug: a route whose nexthop has no gateway is left as it is.
kr_change_keep ==
    /\ Request("CHANGE")
    /\ LET d == Head(toMain).dest
           gw == knexthop_true_nexthop(Head(toMain).nh)
       IN  IF gw = NoRoute THEN UNCHANGED <<own, fib>> ELSE kr4_change(d, gw)
    /\ UNCHANGED <<toRde, krt, knt, fib_sync, up, left>>

\* kr_change()
kr_change ==
    /\ Request("CHANGE")
    /\ LET d == Head(toMain).dest
           gw == knexthop_true_nexthop(Head(toMain).nh)
       IN  IF gw = NoRoute THEN kroute_remove(d) ELSE kr4_change(d, gw)
    /\ UNCHANGED <<toRde, krt, knt, fib_sync, up, left>>

\* kr_delete()
kr_delete ==
    /\ Request("DELETE")
    /\ kroute_remove(Head(toMain).dest)
    /\ UNCHANGED <<toRde, krt, knt, fib_sync, up, left>>

-----------------------------------------------------------------------------
\* kr_fib_couple(), on request of bgpctl
kr_fib_couple ==
    /\ Kernel /\ ~fib_sync /\ fib_sync' = TRUE
    /\ own' = [d \in Dests |-> IF own[d] = NoRoute THEN NoRoute
                               ELSE [own[d] EXCEPT !.inserted = TRUE]]
    /\ fib' = [d \in Dests |-> IF own[d] = NoRoute THEN fib[d] ELSE own[d].gw]
    /\ UNCHANGED <<toMain, toRde, krt, knt, up>>

\* Bug: the routes are still taken for inserted.
kr_fib_decouple_keep ==
    /\ Kernel /\ fib_sync /\ fib_sync' = FALSE
    /\ UNCHANGED <<toMain, toRde, krt, knt, own, fib, up>>

\* kr_fib_decouple()
kr_fib_decouple ==
    /\ Kernel /\ fib_sync /\ fib_sync' = FALSE
    /\ own' = [d \in Dests |-> IF own[d] = NoRoute THEN NoRoute
                               ELSE [own[d] EXCEPT !.inserted = FALSE]]
    /\ fib' = [d \in Dests |-> IF own[d] # NoRoute /\ own[d].inserted THEN NoRoute
                               ELSE fib[d]]
    /\ UNCHANGED <<toMain, toRde, krt, knt, up>>

KrouteInit ==
    /\ krt = [r \in Routes |-> NoRoute] /\ knt = [n \in Nexthops |-> NoRoute]
    /\ own = [d \in Dests |-> NoRoute] /\ fib = [d \in Dests |-> NoRoute]
    /\ fib_sync = TRUE /\ up = [i \in {IfOf[r] : r \in Routes} |-> TRUE] /\ left \in 0 .. MaxKernel

KrouteNext ==
    \/ \E r \in Routes, gw \in Gateways : FibAdd(r, gw) \/ FibChange(r, gw)
    \/ \E r \in Routes : FibDelete(r)
    \/ \E i \in DOMAIN up : if_change(i)
    \/ kr_nexthop_add \/ kr_nexthop_delete \/ kr_change \/ kr_delete
    \/ kr_fib_couple \/ kr_fib_decouple

-----------------------------------------------------------------------------
(***************************************************************************)
(* Properties.                                                             *)
(***************************************************************************)

\* A tracked nexthop points at the longest match among the routes that are
\* there, never at one that was freed, and exactly the routes that a nexthop
\* points at are marked: the mark is what makes kroute_remove() and
\* kr_fib_change() look for the nexthops (kroute.c:1808, 3227).
MatchRight ==
    /\ \A n \in Nexthops : knt[n] # NoRoute => knt[n].kroute = kroute_match(KNow, n)
    /\ \A r \in Routes : krt[r] # NoRoute =>
          krt[r].used = (\E n \in Nexthops : knt[n] # NoRoute /\ knt[n].kroute = r)

\* Across coupling, decoupling and changes in between, the kernel has exactly
\* the daemon's routes while coupled and none of them while not.
KernelInSync ==
    \A d \in Dests :
        fib[d] = IF fib_sync /\ own[d] # NoRoute THEN own[d].gw ELSE NoRoute
=============================================================================
