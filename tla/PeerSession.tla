----------------------------- MODULE PeerSession -----------------------------
(***************************************************************************)
(* What the session engine promises the RDE about one neighbor.  The RDE   *)
(* is told when the session comes up and goes down; across a graceful      *)
(* restart it keeps the routes of some families as stale; and it is told   *)
(* to clean a family exactly when it holds that family stale.              *)
(***************************************************************************)
CONSTANT AIDs

VARIABLES
    known,     \* the RDE has been told of the peer
    up,        \* the session is established
    stale      \* families whose routes are kept from an earlier session

Init == ~known /\ ~up /\ stale = {}

\* A session is established.  Stale routes stay until they are replaced.
Up ==
    /\ ~up
    /\ known' = TRUE /\ up' = TRUE
    /\ UNCHANGED stale

\* The session is lost, with all its routes.
Down ==
    /\ up
    /\ up' = FALSE /\ stale' = {}
    /\ UNCHANGED known

\* The session is lost, and the routes of some families are kept.
Restart ==
    /\ up
    /\ up' = FALSE /\ stale' \in SUBSET AIDs
    /\ UNCHANGED known

\* The restart of some families is over, one way or the other.
Clean ==
    /\ stale' \in SUBSET stale
    /\ UNCHANGED <<known, up>>

\* The RDE is told to forget the peer.
Forget ==
    /\ known
    /\ known' = FALSE /\ up' = FALSE /\ stale' = {}

Next == Up \/ Down \/ Restart \/ Clean \/ Forget

Spec == Init /\ [][Next]_<<known, up, stale>>
=============================================================================
