-------------------------- MODULE GracefulRestart --------------------------
(***************************************************************************)
(* Graceful restart of one address family across two processes: the        *)
(* session engine (SE) and the RDE, joined by one FIFO imsg pipe in each   *)
(* direction.  The SE decides which routes outlive a session and for how   *)
(* long; the RDE, some messages behind, marks them stale, replaces them    *)
(* and removes them.  The state machine that brings the session up is in   *)
(* SessionFSM; here a session is down, negotiated or up.                   *)
(*                                                                         *)
(* The RDE compares a route's lastchange with the peer's staletime.  Only  *)
(* the latest staletime is ever used, and setting it waits for the clock   *)
(* to move, so a route is either old (lastchange <= staletime) or not.     *)
(***************************************************************************)
EXTENDS Naturals, Sequences

CONSTANTS
    Prefixes,
    MaxSessions,   \* sessions the neighbor opens
    MaxQueue,      \* in a session, the neighbor sends only while fewer imsgs
                   \* than this are waiting
    RefreshSubtypes \* what an enhanced route refresh may send

ASSUME GracefulRestartAssumption ==
    /\ MaxSessions \in Nat
    /\ MaxQueue \in [1 .. MaxSessions -> Nat]
    /\ RefreshSubtypes \subseteq {"BORR", "EORR"}

VARIABLES
    se,        \* session engine: struct peer
    toRde,     \* imsgs SE -> RDE
    toSe,      \* imsgs RDE -> SE
    rde        \* RDE: struct rde_peer and its Adj-RIB-In; refreshed is history,
               \* the neighbor has used enhanced route refresh in this session

vars == <<se, toRde, toSe, rde>>

None == [sess |-> 0, old |-> FALSE]

NoPeer == [state |-> "none", sess |-> 0, staletime |-> FALSE, recv_eor |-> FALSE,
           refreshed |-> FALSE, ibufq |-> <<>>, routes |-> [x \in Prefixes |-> None]]

Init ==
    /\ se = [phase |-> "down", sess |-> 0, present |-> FALSE, restart |-> 0,
             flag |-> "none", timer |-> FALSE, downtimer |-> FALSE,
             rdesession |-> FALSE, flushes |-> 0]
    /\ toRde = <<>> /\ toSe = <<>>
    /\ rde = NoPeer

imsg(type, sess, arg) == [type |-> type, sess |-> sess, arg |-> arg]

imsg_rde(type) == toRde' = Append(toRde, imsg(type, se.sess, 0))

-----------------------------------------------------------------------------
(***************************************************************************)
(* The session engine.  The family is one both sides announce.  se.flag is *)
(* its GR flag in capa.neg: "none", "RESTARTING" or "FINISHED"; se.present *)
(* its CAPA_GR_PRESENT; se.restart is capa.neg.grestart.restart.           *)
(* se.flushes counts the clean-ups ordered since routes were last kept.    *)
(***************************************************************************)

session_graceful_flush(s) == [s EXCEPT !.flushes = @ + 1]

\* capa_neg_calc(), with graceful restart configured.
negotiated(s, restart, present, forward) ==
    LET pending == s.flag = "RESTARTING"
        q == IF pending /\ ~forward THEN session_graceful_flush(s) ELSE s
    IN  [q EXCEPT !.phase = "negotiated", !.restart = restart, !.present = present,
                  !.flag = IF pending /\ forward THEN @ ELSE "none"]

\* An OPEN is parsed: it may offer graceful restart, for this family or for
\* others, and may say that the routes of this one were kept.
Negotiate ==
    /\ se.phase = "down" /\ se.sess < MaxSessions
    /\ \E restart \in 0 .. 2, present, forward \in BOOLEAN :
          /\ present => restart = 2
          /\ forward => present
          /\ se' = negotiated(se, restart, present, forward)
          /\ IF se.flag = "RESTARTING" /\ ~forward THEN imsg_rde("FLUSH")
             ELSE UNCHANGED toRde
    /\ UNCHANGED <<toSe, rde>>

\* The session fails before it is established.
OpenFails ==
    /\ se.phase = "negotiated"
    /\ se' = [se EXCEPT !.phase = "down"]
    /\ UNCHANGED <<toRde, toSe, rde>>

\* change_state(ESTABLISHED), session_up()
session_up ==
    /\ se.phase = "negotiated"
    /\ LET up == imsg("UP", se.sess + 1, se.restart)
       IN  toRde' = IF se.rdesession THEN Append(toRde, up)
                    ELSE toRde \o <<imsg("ADD", se.sess + 1, 0), up>>
    /\ se' = [se EXCEPT !.phase = "up", !.sess = @ + 1, !.rdesession = TRUE,
                        !.downtimer = FALSE]
    /\ UNCHANGED <<toSe, rde>>

\* session_down(): the session ends without a graceful restart.
session_down ==
    /\ se.phase = "up"
    /\ imsg_rde("DOWN")
    /\ se' = [se EXCEPT !.phase = "down", !.flag = "none", !.present = FALSE,
                        !.restart = 0, !.downtimer = TRUE]

\* session_graceful_restart(), from change_state(IDLE) or session_accept()
session_graceful_restart ==
    /\ se.phase = "up" /\ se.restart = 2
    /\ imsg_rde(IF se.present THEN "STALE" ELSE "NOGRACE")
    /\ se' = [se EXCEPT !.phase = "down", !.timer = TRUE, !.downtimer = TRUE,
                        !.flag = IF se.present THEN "RESTARTING" ELSE "none",
                        !.present = FALSE,
                        !.flushes = IF se.present THEN 0 ELSE @]

\* The session ends, one way or the other.
SessionEnds ==
    /\ session_down \/ session_graceful_restart
    /\ UNCHANGED <<toSe, rde>>

\* Bug: the timeout does not record that the restart is over.
session_graceful_stop_unrecorded ==
    IF se.flag = "RESTARTING"
    THEN /\ imsg_rde("FLUSH")
         /\ se' = [session_graceful_flush(se) EXCEPT !.timer = FALSE]
    ELSE /\ UNCHANGED toRde
         /\ se' = [se EXCEPT !.timer = FALSE]

\* Bug: the timeout is put off while the session is up.
session_graceful_stop_put_off ==
    IF se.flag = "RESTARTING" /\ se.phase # "up"
    THEN /\ imsg_rde("FLUSH")
         /\ se' = [session_graceful_flush(se)
                      EXCEPT !.timer = FALSE, !.flag = "FINISHED"]
    ELSE UNCHANGED <<toRde, se>>

session_graceful_stop ==
    IF se.flag = "RESTARTING"
    THEN /\ imsg_rde("FLUSH")
         /\ se' = [session_graceful_flush(se)
                      EXCEPT !.timer = FALSE, !.flag = "FINISHED"]
    ELSE /\ UNCHANGED toRde
         /\ se' = [se EXCEPT !.timer = FALSE, !.flag = "FINISHED"]

RestartTimeout ==
    /\ se.timer
    /\ session_graceful_stop
    /\ UNCHANGED <<toSe, rde>>

\* session_graceful_restart() arms RestartTimeout for a shorter interval than
\* SessionDown: while a restart is unfinished, SessionDown is not the first.
SessionDown ==
    /\ se.downtimer /\ se.flag # "RESTARTING"
    /\ imsg_rde("DELETE")
    /\ se' = [se EXCEPT !.downtimer = FALSE, !.rdesession = FALSE]
    /\ UNCHANGED <<toSe, rde>>

\* IMSG_SESSION_RESTARTED from the RDE
SeRestarted ==
    /\ toSe # <<>> /\ Head(toSe).type = "RESTARTED"
    /\ toSe' = Tail(toSe)
    /\ IF se.flag = "RESTARTING"
       THEN /\ imsg_rde("RESTARTED")
            /\ se' = [session_graceful_flush(se) EXCEPT !.flag = "FINISHED"]
       ELSE UNCHANGED <<toRde, se>>
    /\ UNCHANGED rde

\* IMSG_UPDATE_ERR from the RDE: a prefix limit stops the session, any other
\* error is EVNT_CON_FATAL, and a graceful restart if one was agreed on.
SeUpdateErr ==
    /\ toSe # <<>> /\ Head(toSe).type = "UPDATE_ERR"
    /\ toSe' = Tail(toSe)
    /\ \/ /\ se.phase # "up"
          /\ se' = [se EXCEPT !.phase = "down"]
          /\ UNCHANGED toRde
       \/ session_down
       \/ session_graceful_restart
    /\ UNCHANGED rde

\* session_handle_update() and session_handle_rrefresh(): what the neighbor
\* sends on an established session is passed on.
NeighborSends ==
    /\ se.phase = "up" /\ Len(toRde) + Len(rde.ibufq) + Len(toSe) < MaxQueue[se.sess]
    /\ \/ \E x \in Prefixes, type \in {"ANNOUNCE", "WITHDRAW"} :
             toRde' = Append(toRde, imsg(type, se.sess, x))
       \/ \E type \in {"EOR", "ERROR"} \cup RefreshSubtypes : imsg_rde(type)
    /\ UNCHANGED <<se, toSe, rde>>

-----------------------------------------------------------------------------
(***************************************************************************)
(* The RDE.  staletime says whether the peer's staletime is valid.         *)
(***************************************************************************)

\* Bug: a route's age is not looked at.
peer_flush_regardless(r) ==
    [r EXCEPT !.staletime = FALSE, !.routes = [x \in Prefixes |-> None]]

\* peer_flush() with the peer's staletime: without one, every route goes.
peer_flush(r) ==
    [r EXCEPT !.staletime = FALSE,
              !.routes = [x \in Prefixes |->
                             IF r.staletime /\ ~@[x].old THEN @[x] ELSE None]]

peer_flush_all(r) == peer_flush([r EXCEPT !.staletime = FALSE])

\* The staletime is set to now.  Routes marked before go first.
mark_stale(r) ==
    LET q == IF r.staletime THEN peer_flush(r) ELSE r
    IN  [q EXCEPT !.staletime = TRUE,
                  !.routes = [x \in Prefixes |->
                                 IF @[x] = None THEN None
                                 ELSE [@[x] EXCEPT !.old = TRUE]]]

\* Bug: the peer stays up.
peer_stale_up(r, flushall) ==
    LET q == [mark_stale(r) EXCEPT !.ibufq = <<>>]
    IN  IF flushall THEN peer_flush_all(q) ELSE q

\* Bug: imsgs of the old session stay queued.
peer_stale_keep_queue(r, flushall) ==
    LET q == [mark_stale(r) EXCEPT !.state = "down"]
    IN  IF flushall THEN peer_flush_all(q) ELSE q

peer_stale(r, flushall) ==
    LET q == [mark_stale(r) EXCEPT !.state = "down", !.ibufq = <<>>]
    IN  IF flushall THEN peer_flush_all(q) ELSE q

peer_down(r) == peer_flush_all([r EXCEPT !.state = "down", !.ibufq = <<>>])

\* Bug: a new session clears the staletime.
peer_up_unstale(r, m) ==
    [(IF r.state = "err" THEN peer_down(r) ELSE r)
        EXCEPT !.state = "up", !.sess = m.sess, !.recv_eor = m.arg = 0,
               !.refreshed = FALSE,
               !.staletime = FALSE]

\* "There is a race condition when doing PEER_ERR -> PEER_DOWN.  So just do a
\* full reset of the peer here."
peer_up(r, m) ==
    [(IF r.state = "err" THEN peer_down(r) ELSE r)
        EXCEPT !.state = "up", !.sess = m.sess, !.recv_eor = m.arg = 0,
               !.refreshed = FALSE]

PeerMsgs == {"ANNOUNCE", "WITHDRAW", "EOR", "BORR", "EORR", "ERROR"}

\* rde_dispatch_imsg_session()
rde_dispatch(r, m) ==
    CASE m.type = "ADD" -> IF r.state = "none" THEN [r EXCEPT !.state = "down"] ELSE r
      [] m.type # "ADD" /\ r.state = "none" -> r
      [] r.state # "none" /\ m.type \in PeerMsgs ->
             IF r.state = "up" THEN [r EXCEPT !.ibufq = Append(@, m)] ELSE r
      [] r.state # "none" /\ m.type = "UP" -> peer_up(r, m)
      [] r.state # "none" /\ m.type = "DOWN" -> peer_down(r)
      [] r.state # "none" /\ m.type = "DELETE" -> NoPeer
      [] r.state # "none" /\ m.type = "STALE" -> peer_stale(r, FALSE)
      [] r.state # "none" /\ m.type = "NOGRACE" -> peer_stale(r, TRUE)
      [] r.state # "none" /\ m.type = "FLUSH" -> peer_flush(r)
      [] r.state # "none" /\ m.type = "RESTARTED" ->
             IF r.staletime THEN peer_flush(r) ELSE r

RdeSession ==
    /\ toRde # <<>>
    /\ toRde' = Tail(toRde)
    /\ rde' = rde_dispatch(rde, Head(toRde))
    /\ UNCHANGED <<se, toSe>>

\* One imsg of the peer's queue, rde_dispatch_imsg_peer(): an update ...
RdeUpdate(m) ==
    /\ m.type \in {"ANNOUNCE", "WITHDRAW"}
    /\ rde' = [rde EXCEPT !.ibufq = Tail(@),
                          !.routes[m.arg] = IF m.type = "WITHDRAW" THEN None
                                            ELSE [sess |-> m.sess, old |-> FALSE]]
    /\ UNCHANGED toSe

\* ... an update that ends the session ...
rde_update_err(m) ==
    /\ m.type = "ERROR"
    /\ rde' = [rde EXCEPT !.ibufq = Tail(@), !.state = "err"]
    /\ toSe' = Append(toSe, imsg("UPDATE_ERR", rde.sess, 0))

\* Bug: the engine is asked to flush.
rde_peer_recv_eor_flush(m) ==
    /\ m.type = "EOR"
    /\ rde' = [rde EXCEPT !.ibufq = Tail(@), !.recv_eor = TRUE]
    /\ toSe' = Append(toSe, imsg("FLUSH", rde.sess, 0))

\* ... the End-of-RIB marker ...
rde_peer_recv_eor(m) ==
    /\ m.type = "EOR"
    /\ rde' = [rde EXCEPT !.ibufq = Tail(@), !.recv_eor = TRUE]
    /\ toSe' = Append(toSe, imsg("RESTARTED", rde.sess, 0))

\* ... or the begin and the end of an enhanced route refresh.
peer_begin_rrefresh(m) ==
    /\ m.type = "BORR"
    /\ rde' = [(IF rde.recv_eor THEN mark_stale(rde) ELSE rde)
                   EXCEPT !.ibufq = Tail(@), !.refreshed = TRUE]
    /\ UNCHANGED toSe

peer_end_rrefresh(m) ==
    /\ m.type = "EORR"
    /\ rde' = [(IF rde.recv_eor /\ rde.staletime THEN peer_flush(rde) ELSE rde)
                   EXCEPT !.ibufq = Tail(@), !.refreshed = TRUE]
    /\ UNCHANGED toSe

RdePeer ==
    /\ rde.ibufq # <<>>
    /\ IF rde.state = "up"
       THEN LET m == Head(rde.ibufq)
            IN  \/ RdeUpdate(m) \/ rde_update_err(m) \/ rde_peer_recv_eor(m)
                \/ peer_begin_rrefresh(m) \/ peer_end_rrefresh(m)
       ELSE /\ rde' = [rde EXCEPT !.ibufq = <<>>]
            /\ UNCHANGED toSe
    /\ UNCHANGED <<se, toRde>>

Next ==
    \/ Negotiate \/ OpenFails \/ session_up \/ SessionEnds
    \/ RestartTimeout \/ SessionDown \/ SeRestarted \/ SeUpdateErr
    \/ NeighborSends \/ RdeSession \/ RdePeer

Spec == Init /\ [][Next]_vars

\* Both processes keep reading their pipes and serving their queues, and the
\* engine its timers.  Nothing is assumed of the neighbor.
FairSpec ==
    /\ Spec
    /\ WF_vars(RdeSession) /\ WF_vars(RdePeer)
    /\ WF_vars(SeRestarted \/ SeUpdateErr) /\ WF_vars(RestartTimeout)

-----------------------------------------------------------------------------
(***************************************************************************)
(* Properties.                                                             *)
(***************************************************************************)

\* Types.  The RDE only ever sends the two messages the engine has a case for.
TypeOK ==
    /\ se.phase \in {"down", "negotiated", "up"}
    /\ se.sess \in 0 .. MaxSessions /\ se.restart \in 0 .. 2
    /\ se.flag \in {"none", "RESTARTING", "FINISHED"}
    /\ se.flushes \in Nat
    /\ {se.present, se.timer, se.downtimer, se.rdesession} \subseteq BOOLEAN
    /\ rde.state \in {"none", "down", "up", "err"}
    /\ rde.sess \in 0 .. MaxSessions
    /\ {rde.staletime, rde.recv_eor, rde.refreshed} \subseteq BOOLEAN
    /\ rde.routes \in [Prefixes -> [sess : 0 .. MaxSessions, old : BOOLEAN]]
    /\ \A i \in DOMAIN toSe : toSe[i].type \in {"RESTARTED", "UPDATE_ERR"}
    /\ \A i \in DOMAIN rde.ibufq : rde.ibufq[i].type \in PeerMsgs

\* rde_peer_recv_eor(): "The logic in the SE is so that only one of FLUSH or
\* RESTARTED will be sent back to the RDE", whether the timeout, the OPEN of
\* the next session or the End-of-RIB marker comes first.
OneFlush == se.flushes <= 1

\* An update is only applied in the session it was received in: what is
\* queued when a session ends does not survive into the next one.
QueueOfSession ==
    \A i \in DOMAIN rde.ibufq : rde.state = "up" => rde.ibufq[i].sess = rde.sess

\* When no imsg is on its way, the two processes agree: the peer is up in the
\* RDE exactly while its session is, and it is the same session.
Agreement ==
    toRde = <<>> /\ toSe = <<>> =>
        /\ rde.state = "up" <=> se.phase = "up"
        /\ se.phase = "up" => rde.sess = se.sess
        /\ se.rdesession <=> rde.state # "none"

Pending(types) == \E i \in DOMAIN toRde : toRde[i].type \in types

\* A route that outlives its session is never forgotten: either an imsg that
\* removes or marks it is on its way, or it is marked and the engine still has
\* the restart on record, with its timeout running.
OrphansCovered ==
    \A x \in Prefixes :
        rde.routes[x] # None /\ ~(se.phase = "up" /\ rde.routes[x].sess = se.sess) =>
            \/ Pending({"DOWN", "DELETE", "STALE", "NOGRACE", "FLUSH", "RESTARTED"})
            \/ /\ rde.staletime /\ rde.routes[x].old
               /\ se.flag = "RESTARTING" /\ se.timer

\* The two processes agree and nothing is passed on to a later session.
InAgreement == TypeOK /\ QueueOfSession /\ Agreement

\* Every restart is cleaned up once: no route is forgotten, and none is flushed
\* twice.
CleanedUpOnce == OneFlush /\ OrphansCovered

\* The RDE handles the end of a graceful restart in a session that is up.
RestartEnds ==
    /\ toRde # <<>> /\ toRde' = Tail(toRde)
    /\ Head(toRde).type \in {"FLUSH", "RESTARTED"}
    /\ rde.state = "up"

\* The end of a graceful restart removes old routes only: no route received in
\* a session that is up, and in which the neighbor has not used enhanced route
\* refresh, is lost.
FlushSparesSession ==
    [][ RestartEnds /\ ~rde.refreshed =>
            \A x \in Prefixes :
                rde.routes[x].sess = rde.sess => rde'.routes[x] = rde.routes[x] ]_vars

\* The same with enhanced route refresh: rde_peer.c says that its stale routes
\* are removed "Once the route refresh ends".
FlushSparesRefreshed ==
    [][ RestartEnds =>
            \A x \in Prefixes :
                rde.routes[x].sess = rde.sess => rde'.routes[x] = rde.routes[x] ]_vars

\* Every route that outlives its session goes away in the end.
OrphansEnd ==
    \A x \in Prefixes :
        LET orphan == /\ rde.routes[x] # None
                      /\ ~(se.phase = "up" /\ rde.routes[x].sess = se.sess)
        IN  orphan ~> ~orphan
=============================================================================
