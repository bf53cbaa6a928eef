------------------------------- MODULE MCRtr -------------------------------
(***************************************************************************)
(* Small instances of Rtr.                                                 *)
(***************************************************************************)
EXTENDS Rtr, TLC

CONSTANTS r1, r2, roa1, as1, p1, p2

MCIds == {r1, r2}
MCBoot == {r1}
MCRoas == {roa1}
MCCustomers == {as1}
MCProviders == {p1, p2}
MCFeeds == 
    (r1 :> [roa |-> {roa1}, aspa |-> {}]) @@
    (r2 :> [roa |-> {}, aspa |-> {{}, {p1}, {p1, p2}}])
MCStaticConfs ==
    {NoRecords, [roa |-> {roa1}, aspa |-> [a \in MCCustomers |-> {p2}]]}

=============================================================================
