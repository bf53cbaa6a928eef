------------------------------ MODULE MCRibFib ------------------------------
EXTENDS RibFib

CONSTANTS g1, n1, n2, d1, d2, r1, r2, i1, i2

An(p, d, n, pref, nas, med) ==
    [peer |-> p, dest |-> d, nh |-> n, ok |-> TRUE, pref |-> pref, nas |-> nas,
     med |-> med, ibgp |-> 0, weight |-> 0]

Deny(a) == [a EXCEPT !.ok = FALSE]

\* Two nexthops and two destinations, one kernel route inside the
\* other; four neighbors of two neighbor ASes that differ in the MED.
MCAnnounces ==
    << {An(1, d1, n1, 1, 1, 0), An(1, d1, n2, 1, 1, 0), An(2, d1, n2, 1, 2, 0),
        An(2, d2, n1, 1, 2, 0),
        Deny(An(1, d1, n1, 1, 1, 0))},
       {An(p, d1, n1, 1, p % 2, m) : p \in {1, 2, 3, 4}, m \in {0, 1}} >>
MCUpdates == <<3, 5>>
MCKernel == <<3, 1>>

MCCovers == [r \in {r1, r2} |-> IF r = r1 THEN {n1, n2} ELSE {n1}]
MCLength == [r \in {r1, r2} |-> IF r = r1 THEN 8 ELSE 16]
MCIfOf == [r \in {r1, r2} |-> IF r = r1 THEN i1 ELSE i2]
=============================================================================
