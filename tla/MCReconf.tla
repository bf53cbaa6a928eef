------------------------------ MODULE MCReconf ------------------------------
(***************************************************************************)
(* Small instances of Reconf.                                              *)
(***************************************************************************)
EXTENDS Reconf

CONSTANTS p1, p2, l1, l2, r1, r2

conf(ls, rs, ps) == [listeners |-> ls, ribs |-> rs, peers |-> ps]

\* A second neighbor, another listen address, and a RIB of its own for the
\* first neighbor.
MovedRib == {conf({l1}, {r1}, [p \in {p1} |-> r1]),
             conf({l2}, {r1, r2}, [p \in {p1, p2} |-> IF p = p1 THEN r2 ELSE r1])}

\* A neighbor that comes and goes together with its RIB.
OwnRib == {conf({l1}, {r1}, [p \in {p1} |-> r1]),
           conf({l1}, {r1, r2}, [p \in {p1, p2} |-> IF p = p1 THEN r1 ELSE r2])}

MCPeers == {p1, p2}
=============================================================================
