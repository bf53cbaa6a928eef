----------------------------- MODULE RoutePipe -----------------------------
(***************************************************************************)
(* The messages about nexthops and kernel routes between the decision      *)
(* engine and the parent, one queue in each direction.                     *)
(***************************************************************************)
EXTENDS Sequences

CONSTANTS
    Dests,          \* destinations
    Nexthops

VARIABLES
    toMain,     \* IMSG_NEXTHOP_ADD, _REMOVE, IMSG_KROUTE_CHANGE, _DELETE
    toRde       \* IMSG_NEXTHOP_UPDATE

nhmsg(type, n) == [type |-> type, nh |-> n]
=============================================================================
