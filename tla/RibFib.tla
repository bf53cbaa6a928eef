------------------------------ MODULE RibFib -------------------------------
(***************************************************************************)
(* The decision engine's RIB and the parent's routes together: nexthops    *)
(* and routes change on both sides while messages about them are on their  *)
(* way.                                                                    *)
(***************************************************************************)
EXTENDS Rib, Kroute

CONSTANT KernelOf       \* changes in the kernel in each scenario

vars == <<ribvars, krvars>>

Init == RibInit /\ KrouteInit /\ left = KernelOf[scene]

Next == (RibNext /\ UNCHANGED krvars)
        \/ (KrouteNext /\ UNCHANGED <<rib, nh, runners, scene, updates>>)

Spec == Init /\ [][Next]_vars

-----------------------------------------------------------------------------
TypeOK ==
    /\ \A d \in Dests : \A i \in DOMAIN rib[d] : rib[d][i].id \in Peers
    /\ Range(runners) \subseteq {n \in Nexthops : nh[n] # None}
    /\ own \in [Dests -> {NoRoute} \cup
                [gw : (Gateways \cup Nexthops) \ {Connected}, inserted : BOOLEAN]]
    /\ updates \in 0 .. MaxUpdates[scene] /\ left \in 0 .. MaxKernel

\* Nothing is on its way and no path waits for its evaluation.
Quiet == toMain = <<>> /\ toRde = <<>> /\ runners = <<>>

Reachable(n) == /\ knt[n] # NoRoute /\ knt[n].kroute # NoRoute
                /\ up[IfOf[knt[n].kroute]]

\* Once everything settled, both sides know the same nexthops, and one that
\* the parent resolves with a route is reachable for the decision process
\* exactly if that route's interface is.
NexthopInSync ==
    Quiet => \A n \in Nexthops :
        /\ (nh[n] = None) = (knt[n] = NoRoute)
        /\ nh[n] # None /\ knt[n].kroute # NoRoute =>
              (nh[n].state = "reach") = Reachable(n)

\* Once everything settled, a nexthop without a route is not reachable for the
\* decision process: the parent need not send an update when it finds no route
\* again, kroute.c:2245 "Send update if nexthop route changed under us if the
\* route remains the same then the NH state has not changed."
LostNexthop ==
    Quiet => \A n \in Nexthops :
        nh[n] # None /\ knt[n].kroute = NoRoute => nh[n].state # "reach"

\* Once everything settled, the daemon's routing table has for each
\* destination the best path's nexthop as the kernel now resolves it, and
\* nothing for a destination without a best path or whose nexthop has no
\* route, whatever happened while the messages were on their way.
FibInSync ==
    Quiet => \A d \in Dests :
        LET best == prefix_best(rib[d])
            gw == IF best = None THEN NoRoute ELSE knexthop_true_nexthop(best.nh)
        IN  IF gw = NoRoute THEN own[d] = NoRoute
            ELSE own[d] # NoRoute /\ own[d].gw = gw

\* What the daemon wants in the kernel is there: the parent's table follows the
\* best paths and the kernel follows the parent's table.
FibAgrees == KernelInSync /\ FibInSync

\* Nexthop states agree along the chain from the parent's resolution to the
\* flag of each path.
NexthopsAgree == FlagsFollowNexthop /\ NexthopInSync

\* The types hold and every nexthop points at its longest match.
MatchesRight == TypeOK /\ MatchRight
=============================================================================
