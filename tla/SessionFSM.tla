----------------------------- MODULE SessionFSM -----------------------------
(***************************************************************************)
(* The session engine's view of one neighbor: the BGP finite state machine *)
(* of session_bgp.c with its timers, the TCP connection handling, graceful *)
(* restart, reconfiguration and neighbor commands of session.c and         *)
(* control.c, and what the engine tells the other two processes: the RDE   *)
(* (session up, down, stale, flush) and the parent (carp demotion).        *)
(*                                                                         *)
(* The code's functions on struct peer are operators from a peer to a      *)
(* peer, with the source's names.  A handler runs to completion in the     *)
(* single threaded engine, so each one is one step.  What a handler cannot *)
(* know in advance (whether memory can be allocated, what the socket calls *)
(* return) is an input record:                                             *)
(*    in.mem    allocations of this handler succeed                        *)
(*    in.sock   session_connect(): "fail", "inprogress" or "ok"            *)
(***************************************************************************)
EXTENDS Integers, FiniteSets

CONSTANTS
    AIDs,          \* address families (AID_MIN .. AID_MAX - 1)
    AID_INET,      \* the default one
    Groups,        \* carp interface groups
    NoGroup,       \* an empty demote_group
    Confs,         \* the configurations the neighbor may be given
    Opens,         \* the OPEN messages the neighbor may send
    IsClone,       \* the peer is a clone of a template neighbor
    Allocs,        \* outcomes of memory allocation
    Accepts,       \* outcomes of the checks on an accepted connection
    Commands,      \* what the operator, the parent and the RDE ask for
    INTERVAL_IDLE_HOLD_INITIAL,
    MAX_IDLE_HOLD,
    INTERVAL_HOLD_INITIAL

States == {"NONE", "IDLE", "CONNECT", "ACTIVE", "OPENSENT", "OPENCONFIRM",
           "ESTABLISHED"}

OpenStates == {"OPENSENT", "OPENCONFIRM", "ESTABLISHED"}

Timers == {"ConnectRetry", "Keepalive", "Hold", "SendHold", "IdleHold",
           "IdleHoldReset", "CarpUndemote", "RestartTimeout", "SessionDown"}

\* The timers that end with the connection.
ConnTimers == {"ConnectRetry", "Keepalive", "Hold", "SendHold", "IdleHold",
               "IdleHoldReset"}

GRFlags == {"PRESENT", "FORWARD", "RESTARTING", "FINISHED"}

\* struct peer_config, the parts the state machine looks at.
ConfType == [down : BOOLEAN, passive : BOOLEAN, if_depend : BOOLEAN,
             demote_group : Groups \cup {NoGroup}, mp : SUBSET AIDs,
             restart : 0 .. 2, grnotification : BOOLEAN, holdtime : Nat,
             max_prefix_restart : Nat, refresh : BOOLEAN]

\* An OPEN message.  parse says where parse_open() gives up: "ok" nowhere,
\* "bad" before capabilities are negotiated, "as0" inside the AS4BYTE
\* capability, "refused" on a capability the configuration enforces.
OpenType == [parse : {"ok", "bad", "as0", "refused"}, holdtime : Nat,
             mp : SUBSET AIDs, unknown_mp : BOOLEAN, restart : 0 .. 2,
             present : SUBSET AIDs, forward : SUBSET AIDs,
             grnotification : BOOLEAN, refresh : BOOLEAN]

AcceptOutcomes == {"ok", "refused", "setup"}

ASSUME SessionAssumption ==
    /\ AID_INET \in AIDs
    /\ NoGroup \notin Groups
    /\ Confs \subseteq ConfType
    /\ Opens \subseteq OpenType
    /\ \A o \in Opens : /\ o.forward \subseteq o.present
                        /\ o.restart = 2 <=> o.present # {}
    /\ IsClone \in BOOLEAN
    /\ Allocs \subseteq BOOLEAN
    /\ Accepts \subseteq AcceptOutcomes
    /\ INTERVAL_IDLE_HOLD_INITIAL \in Nat \ {0}
    /\ MAX_IDLE_HOLD \in Nat
    /\ INTERVAL_IDLE_HOLD_INITIAL <= MAX_IDLE_HOLD
    /\ INTERVAL_HOLD_INITIAL \in Nat \ {0}

Inputs == [mem : Allocs, sock : {"fail", "inprogress", "ok"}]

-----------------------------------------------------------------------------
(***************************************************************************)
(* What the other processes make of the messages they are sent.            *)
(***************************************************************************)

\* The parent, IMSG_DEMOTE: carp_demote_set() on a group it does not know,
\* or below zero, changes nothing.
carp_demote_set(carp, group, level) ==
    IF group \in Groups /\ carp[group] + level >= 0
    THEN [carp EXCEPT ![group] = @ + level]
    ELSE carp

\* The RDE.  Messages for a peer it does not know are dropped.
rde_session_add(r) == [r EXCEPT !.state = IF @ = "none" THEN "new" ELSE @]

\* Bug: a new session takes the stale mark off the old routes.
rde_session_up_unstale(r) ==
    IF r.state = "none" THEN r ELSE [r EXCEPT !.state = "up", !.stale = {}]

rde_session_up(r) ==
    IF r.state = "none" THEN r ELSE [r EXCEPT !.state = "up"]

rde_session_down(r) ==
    IF r.state = "none" THEN r ELSE [r EXCEPT !.state = "down", !.stale = {}]

rde_session_delete == [state |-> "none", stale |-> {}, wiped |-> {}]

\* IMSG_SESSION_STALE for the families in keep, IMSG_SESSION_NOGRACE for the
\* families in drop.
rde_session_stale(r, keep, drop) ==
    IF r.state = "none" \/ keep \cup drop = {} THEN r
    ELSE [r EXCEPT !.state = "down", !.stale = (@ \ drop) \cup keep]

\* IMSG_SESSION_FLUSH: peer_flush() with the staletime of the family.  With
\* no staletime set it removes every route, those of a live session too.
rde_session_flush(r, aids) ==
    IF r.state = "none" THEN r
    ELSE [r EXCEPT !.stale = @ \ aids,
                   !.wiped = IF r.state = "up" THEN @ \cup (aids \ r.stale)
                             ELSE @]

\* IMSG_SESSION_RESTARTED: the same, but only with a staletime.
rde_session_restarted(r, aid) ==
    IF r.state = "none" THEN r ELSE [r EXCEPT !.stale = @ \ {aid}]

-----------------------------------------------------------------------------
(***************************************************************************)
(* session.c: the pieces the state machine is made of.                     *)
(***************************************************************************)

timer_set(p, timer) == [p EXCEPT !.timers = @ \cup {timer}]

timer_stop(p, timer) == [p EXCEPT !.timers = @ \ {timer}]

timer_running(p, timer) == timer \in p.timers

session_close(p) == [p EXCEPT !.fd = "none"]

\* start_timer_holdtime(), start_timer_keepalive(), start_timer_sendholdtime()
start_timer(p, timer) ==
    IF p.holdtime > 0 THEN timer_set(p, timer) ELSE timer_stop(p, timer)

session_demote(p, level) ==
    [p EXCEPT !.carp = carp_demote_set(@, p.conf.demote_group, level),
              !.demoted = @ + level]

NoFlags == [aid \in AIDs |-> {}]

NoNeg == [restart |-> 0, grnotification |-> FALSE, refresh |-> FALSE,
          mp |-> {}, flags |-> NoFlags]

session_down(p) ==
    [p EXCEPT !.neg = NoNeg,
              !.timers = @ \cup {"SessionDown"},
              !.rde = rde_session_down(@)]

session_up(p) ==
    [p EXCEPT !.timers = @ \ {"SessionDown"},
              !.rdesession = TRUE,
              !.rde = rde_session_up(IF p.rdesession THEN @
                                     ELSE rde_session_add(@))]

Restarting(flags) == flags \cap {"RESTARTING", "FINISHED"} = {"RESTARTING"}

\* Bug: SessionDown is not armed.
session_graceful_restart_no_session_down(p) ==
    LET keep == {aid \in AIDs : "PRESENT" \in p.neg.flags[aid]}
        drop == p.neg.mp \ keep
    IN  [p EXCEPT !.timers = @ \cup {"RestartTimeout"},
                  !.rde = rde_session_stale(@, keep, drop),
                  !.neg.flags = [aid \in AIDs |->
                                    IF aid \in keep THEN {"RESTARTING"}
                                    ELSE IF aid \in drop THEN {}
                                    ELSE @[aid]]]

\* Bug: RestartTimeout is not armed.
session_graceful_restart_no_timeout(p) ==
    LET keep == {aid \in AIDs : "PRESENT" \in p.neg.flags[aid]}
        drop == p.neg.mp \ keep
    IN  [p EXCEPT !.timers = @ \cup {"SessionDown"},
                  !.rde = rde_session_stale(@, keep, drop),
                  !.neg.flags = [aid \in AIDs |->
                                    IF aid \in keep THEN {"RESTARTING"}
                                    ELSE IF aid \in drop THEN {}
                                    ELSE @[aid]]]

session_graceful_restart(p) ==
    LET keep == {aid \in AIDs : "PRESENT" \in p.neg.flags[aid]}
        drop == p.neg.mp \ keep
    IN  [p EXCEPT !.timers = @ \cup {"RestartTimeout", "SessionDown"},
                  !.rde = rde_session_stale(@, keep, drop),
                  !.neg.flags = [aid \in AIDs |->
                                    IF aid \in keep THEN {"RESTARTING"}
                                    ELSE IF aid \in drop THEN {}
                                    ELSE @[aid]]]

\* Bug: a family whose restart has finished is flushed all the same.
session_graceful_stop_unfinished(p) ==
    [p EXCEPT !.rde = rde_session_flush(@, {aid \in AIDs :
                                               "RESTARTING" \in p.neg.flags[aid]}),
              !.neg.flags = [aid \in AIDs |-> @[aid] \cup {"FINISHED"}]]

\* The restart timeout fired.
session_graceful_stop(p) ==
    [p EXCEPT !.rde = rde_session_flush(@, {aid \in AIDs :
                                               Restarting(p.neg.flags[aid])}),
              !.neg.flags = [aid \in AIDs |-> @[aid] \cup {"FINISHED"}]]

-----------------------------------------------------------------------------
(***************************************************************************)
(* session_bgp.c: change_state(), one operator per state that has effects. *)
(***************************************************************************)

\* "don't punish graceful restart"
GracefulEvent(p, event) ==
    /\ p.neg.restart = 2
    /\ \/ event \in {"CON_CLOSED", "CON_FATAL"}
       \/ /\ p.neg.grnotification
          /\ event \in {"RCVD_GRACE_NOTIFICATION", "TIMER_HOLDTIME",
                        "TIMER_SENDHOLD"}

\* Bug: the limit is checked before the time is doubled.
Backoff_uncapped(t) ==
    IF t = 0 THEN INTERVAL_IDLE_HOLD_INITIAL
    ELSE IF t > MAX_IDLE_HOLD THEN MAX_IDLE_HOLD ELSE 2 * t

Backoff(t) ==
    LET doubled == IF 2 * t = 0 THEN INTERVAL_IDLE_HOLD_INITIAL ELSE 2 * t
    IN  IF doubled > MAX_IDLE_HOLD THEN MAX_IDLE_HOLD ELSE doubled

Announced(conf) == [mp |-> conf.mp, restart |-> conf.restart,
                    grnotification |-> conf.grnotification,
                    refresh |-> conf.refresh]

\* The part of change_state(IDLE) every way there has in common.
EnterIdle(p) ==
    LET demote == /\ p.state = "ESTABLISHED"
                  /\ p.conf.demote_group # NoGroup
                  /\ p.demoted = 0
        q == IF demote THEN session_demote(p, 1) ELSE p
    IN  [q EXCEPT !.prev_state = p.state,
                  !.state = "IDLE",
                  !.holdtime = INTERVAL_HOLD_INITIAL,
                  !.timers = @ \ ConnTimers,
                  !.fd = "none",
                  !.rq = FALSE,
                  !.ann = IF p.state \in {"NONE", "ESTABLISHED"}
                          THEN Announced(p.conf) ELSE @]

PunishIdle(p) == [p EXCEPT !.IdleHoldTime = Backoff(@)]

\* Bug: a stop is taken for granted, the RDE not told.
change_state_idle_stop_silent(p, event) ==
    LET q == EnterIdle(p)
    IN  CASE p.state = "NONE" \/ (p.state = "ESTABLISHED" /\ event = "STOP") -> q
          [] p.state = "ESTABLISHED" /\ event # "STOP" /\ GracefulEvent(p, event) ->
                 session_graceful_restart(timer_set(q, "IdleHold"))
          [] p.state = "ESTABLISHED" /\ event # "STOP" /\ ~GracefulEvent(p, event) ->
                 PunishIdle(session_down(timer_set(q, "IdleHold")))
          [] p.state \notin {"NONE", "ESTABLISHED"} /\ event = "STOP" ->
                 PunishIdle(q)
          [] OTHER -> PunishIdle(timer_set(q, "IdleHold"))

\* Bug: only a session that was up is started again.
change_state_idle_no_hold(p, event) ==
    LET q == EnterIdle(p)
    IN  CASE p.state = "NONE" -> q
          [] p.state = "ESTABLISHED" /\ event = "STOP" -> session_down(q)
          [] p.state = "ESTABLISHED" /\ event # "STOP" /\ GracefulEvent(p, event) ->
                 session_graceful_restart(timer_set(q, "IdleHold"))
          [] p.state = "ESTABLISHED" /\ event # "STOP" /\ ~GracefulEvent(p, event) ->
                 PunishIdle(session_down(timer_set(q, "IdleHold")))
          [] OTHER -> PunishIdle(q)

change_state_idle(p, event) ==
    LET q == EnterIdle(p)
    IN  CASE p.state = "NONE" -> q
          [] p.state = "ESTABLISHED" /\ event = "STOP" -> session_down(q)
          [] p.state = "ESTABLISHED" /\ event # "STOP" /\ GracefulEvent(p, event) ->
                 session_graceful_restart(timer_set(q, "IdleHold"))
          [] p.state = "ESTABLISHED" /\ event # "STOP" /\ ~GracefulEvent(p, event) ->
                 PunishIdle(session_down(timer_set(q, "IdleHold")))
          [] p.state \notin {"NONE", "ESTABLISHED"} /\ event = "STOP" ->
                 PunishIdle(q)
          [] OTHER -> PunishIdle(timer_set(q, "IdleHold"))

\* Bug: CarpUndemote is not armed.
change_state_established_no_undemote(p) ==
    session_up([p EXCEPT !.prev_state = p.state, !.state = "ESTABLISHED",
                         !.timers = @ \cup {"IdleHoldReset"}])

change_state_established(p) ==
    LET q == [p EXCEPT !.prev_state = p.state, !.state = "ESTABLISHED",
                       !.timers = @ \cup {"IdleHoldReset"}]
    IN  session_up(IF p.demoted > 0 THEN timer_set(q, "CarpUndemote") ELSE q)

\* ESTABLISHED -> CONNECT, taken by session_accept() only.
change_state_connect_graceful(p) ==
    LET q == session_graceful_restart([p EXCEPT !.prev_state = p.state,
                                                !.state = "CONNECT"])
    IN  [q EXCEPT !.holdtime = INTERVAL_HOLD_INITIAL,
                  !.timers = @ \ ConnTimers,
                  !.fd = "none",
                  !.rq = FALSE]

\* CONNECT, ACTIVE, OPENSENT and OPENCONFIRM change nothing but the state.
change_state(p, state) == [p EXCEPT !.prev_state = p.state, !.state = state]

\* bgp_fsm(EVNT_CON_FATAL): IDLE from every state that is not IDLE yet.
con_fatal(p) ==
    IF p.state \in {"NONE", "IDLE"} THEN p ELSE change_state_idle(p, "CON_FATAL")

session_notification(p, in) ==
    IF p.state \in OpenStates /\ ~in.mem THEN con_fatal(p) ELSE p

session_keepalive(p, in) ==
    IF in.mem THEN start_timer(p, "Keepalive") ELSE con_fatal(p)

session_open(p, in) == IF in.mem THEN p ELSE con_fatal(p)

\* Send a notification, then go to IDLE.
notify_and_idle(p, event, in) ==
    change_state_idle(session_notification(p, in), event)

\* session_rrefresh() for some families; no state is checked.
session_rrefresh(p, in) == IF in.mem THEN p ELSE con_fatal(p)

session_update(p, in) ==
    IF p.state # "ESTABLISHED" THEN p
    ELSE IF in.mem THEN start_timer(p, "Keepalive") ELSE con_fatal(p)

-----------------------------------------------------------------------------
(***************************************************************************)
(* bgp_fsm(), one operator per event, and the parsers it calls.  An event  *)
(* a state has no case for is ignored in IDLE, ends CONNECT and ACTIVE,    *)
(* and ends an open session with a notification.                           *)
(***************************************************************************)

unexpected(p, event, in) ==
    CASE p.state \in {"NONE", "IDLE"} -> p
      [] p.state \in {"CONNECT", "ACTIVE"} -> change_state_idle(p, event)
      [] p.state \in OpenStates -> notify_and_idle(p, event, in)

\* Bug: ConnectRetry keeps running.
con_open_keep_retry(p, in) ==
    LET q == session_open([p EXCEPT !.rq = TRUE], in)
    IN  change_state(start_timer([q EXCEPT !.holdtime = INTERVAL_HOLD_INITIAL],
                                 "Hold"),
                     "OPENSENT")

\* EVNT_CON_OPEN.  What session_open() did is not looked at.
con_open(p, in) ==
    LET q == timer_stop(session_open([p EXCEPT !.rq = TRUE], in), "ConnectRetry")
    IN  change_state(start_timer([q EXCEPT !.holdtime = INTERVAL_HOLD_INITIAL],
                                 "Hold"),
                     "OPENSENT")

con_openfail(p) ==
    change_state(session_close(timer_set(p, "ConnectRetry")), "ACTIVE")

session_connect(p, in) ==
    CASE p.fd # "none" -> p
      [] p.fd = "none" /\ in.sock = "fail" -> con_openfail(p)
      [] p.fd = "none" /\ in.sock = "inprogress" -> [p EXCEPT !.fd = "out"]
      [] p.fd = "none" /\ in.sock = "ok" -> con_open([p EXCEPT !.fd = "out"], in)

\* ConnectRetry is armed, then the connection tried.
connect_now(p, in) ==
    session_connect(change_state(timer_set(p, "ConnectRetry"), "CONNECT"), in)

\* Bug: ACTIVE does not ask for the interface.
fsm_start_no_depend(p, in) ==
    LET q == [p EXCEPT !.timers = @ \ {"Hold", "SendHold", "Keepalive", "IdleHold"}]
    IN  CASE p.state = "IDLE" /\ p.conf.passive ->
                 timer_stop(change_state(q, "ACTIVE"), "ConnectRetry")
          [] p.state = "IDLE" /\ ~p.conf.passive -> connect_now(q, in)
          [] p.state = "ACTIVE" -> connect_now(p, in)
          [] OTHER -> p

\* Bug: a session that failed is held off again instead of tried again.
fsm_start_hold_again(p, in) ==
    LET q == [p EXCEPT !.timers = @ \ {"Hold", "SendHold", "Keepalive", "IdleHold"}]
        fresh == p.prev_state = "NONE"
    IN  CASE p.state = "IDLE" /\ ~p.depend_ok -> timer_stop(q, "ConnectRetry")
          [] p.state = "IDLE" /\ p.depend_ok /\ p.conf.passive ->
                 timer_stop(change_state(q, "ACTIVE"), "ConnectRetry")
          [] p.state = "IDLE" /\ p.depend_ok /\ ~p.conf.passive /\ fresh ->
                 timer_set(change_state(q, "ACTIVE"), "ConnectRetry")
          [] p.state = "IDLE" /\ p.depend_ok /\ ~p.conf.passive /\ ~fresh ->
                 timer_set(q, "IdleHold")
          [] p.state = "ACTIVE" /\ p.depend_ok -> connect_now(p, in)
          [] OTHER -> p

fsm_start(p, in) ==
    LET q == [p EXCEPT !.timers = @ \ {"Hold", "SendHold", "Keepalive", "IdleHold"}]
        fresh == \/ p.prev_state = "NONE"
                 \/ p.IdleHoldTime = INTERVAL_IDLE_HOLD_INITIAL
    IN  CASE p.state = "IDLE" /\ ~p.depend_ok -> timer_stop(q, "ConnectRetry")
          [] p.state = "IDLE" /\ p.depend_ok /\ p.conf.passive ->
                 timer_stop(change_state(q, "ACTIVE"), "ConnectRetry")
          [] p.state = "IDLE" /\ p.depend_ok /\ ~p.conf.passive /\ fresh ->
                 timer_set(change_state(q, "ACTIVE"), "ConnectRetry")
          [] p.state = "IDLE" /\ p.depend_ok /\ ~p.conf.passive /\ ~fresh ->
                 connect_now(q, in)
          [] p.state = "ACTIVE" /\ p.depend_ok -> connect_now(p, in)
          [] OTHER -> p

fsm_stop(p) ==
    CASE p.state = "NONE" -> p
      [] p.state = "IDLE" -> timer_stop(p, "IdleHold")
      [] OTHER -> change_state_idle(p, "STOP")

\* Bug: the socket of a connection lost in OPENSENT is not closed.
fsm_con_closed_leak(p) ==
    CASE p.state \in {"NONE", "IDLE"} -> p
      [] p.state = "OPENSENT" ->
             change_state(timer_set(p, "ConnectRetry"), "ACTIVE")
      [] OTHER -> change_state_idle(p, "CON_CLOSED")

\* Bug: ConnectRetry is not armed after a connection lost in OPENSENT.
fsm_con_closed_no_retry(p) ==
    CASE p.state \in {"NONE", "IDLE"} -> p
      [] p.state = "OPENSENT" -> change_state(session_close(p), "ACTIVE")
      [] OTHER -> change_state_idle(p, "CON_CLOSED")

fsm_con_closed(p) ==
    CASE p.state \in {"NONE", "IDLE"} -> p
      [] p.state = "OPENSENT" ->
             change_state(timer_set(session_close(p), "ConnectRetry"), "ACTIVE")
      [] OTHER -> change_state_idle(p, "CON_CLOSED")

fsm_timer_connretry(p, in) ==
    CASE p.state = "CONNECT" -> session_connect(timer_set(p, "ConnectRetry"), in)
      [] p.state = "ACTIVE" -> connect_now(p, in)
      [] OTHER -> unexpected(p, "TIMER_CONNRETRY", in)

fsm_timer_keepalive(p, in) ==
    IF p.state \in {"OPENCONFIRM", "ESTABLISHED"} THEN session_keepalive(p, in)
    ELSE unexpected(p, "TIMER_KEEPALIVE", in)

fsm_rcvd_keepalive(p, in) ==
    CASE p.state = "OPENCONFIRM" -> change_state_established(start_timer(p, "Hold"))
      [] p.state = "ESTABLISHED" -> start_timer(p, "Hold")
      [] OTHER -> unexpected(p, "RCVD_KEEPALIVE", in)

fsm_rcvd_update(p, in) ==
    IF p.state = "ESTABLISHED" THEN start_timer(p, "Hold")
    ELSE unexpected(p, "RCVD_UPDATE", in)

\* kind: "plain", "hard" (RFC 8538 hard reset) or "bad" (too short).
parse_notification(p, kind) ==
    change_state_idle(p, IF p.neg.grnotification /\ kind = "plain"
                         THEN "RCVD_GRACE_NOTIFICATION"
                         ELSE "RCVD_NOTIFICATION")

fsm_rcvd_notification(p, kind, in) ==
    IF p.state \in OpenStates THEN parse_notification(p, kind)
    ELSE unexpected(p, "RCVD_NOTIFICATION", in)

\* Bug: a family that did not come back is forgotten instead of flushed.
capa_neg_calc_no_flush(p, o) ==
    LET mp == p.ann.mp \cap o.mp
    IN  [p EXCEPT !.neg = [mp |-> mp,
                           flags |-> [aid \in AIDs |->
                                         {"PRESENT" : x \in {aid} \cap o.present}],
                           restart |-> IF p.ann.restart = 0 THEN 0 ELSE o.restart,
                           grnotification |-> p.ann.grnotification
                                              /\ o.grnotification,
                           refresh |-> p.ann.refresh /\ o.refresh]]

\* The multiprotocol and graceful restart part of capa_neg_calc().
capa_neg_calc(p, o) ==
    LET both == p.ann.mp \cap o.mp
        hasmp == o.unknown_mp \/ p.ann.mp \cup o.mp # {}
        mp == IF hasmp THEN both ELSE {AID_INET}
        peerflags == [aid \in AIDs |->
                         {"PRESENT" : x \in {aid} \cap o.present \cap mp}
                         \cup {"FORWARD" : x \in {aid} \cap o.forward \cap mp}]
        pending == {aid \in AIDs : Restarting(p.neg.flags[aid])}
        back == {aid \in pending : p.ann.restart # 0
                                   /\ "FORWARD" \in peerflags[aid]}
        flags == IF p.ann.restart = 0 THEN p.neg.flags
                 ELSE [aid \in AIDs |->
                          IF aid \in back THEN peerflags[aid] \cup {"RESTARTING"}
                          ELSE peerflags[aid]]
    IN  [p EXCEPT !.rde = rde_session_flush(@, pending \ back),
                  !.neg = [mp |-> mp,
                           flags |-> flags,
                           restart |-> IF p.ann.restart = 0 THEN 0 ELSE o.restart,
                           grnotification |-> p.ann.grnotification
                                              /\ o.grnotification,
                           refresh |-> p.ann.refresh /\ o.refresh]]

\* parse_open() and, when it succeeds, the rest of OPENSENT/RCVD_OPEN.
parse_open(p, o, in) ==
    LET negotiated ==
            capa_neg_calc([p EXCEPT !.holdtime = IF o.holdtime < p.conf.holdtime
                                                 THEN o.holdtime
                                                 ELSE p.conf.holdtime], o)
    IN  CASE o.parse = "ok" ->
                 change_state(session_keepalive(negotiated, in), "OPENCONFIRM")
          [] o.parse = "bad" -> notify_and_idle(p, "RCVD_OPEN", in)
          [] o.parse = "as0" ->
                 change_state_idle(notify_and_idle(p, "RCVD_OPEN", in), "RCVD_OPEN")
          [] o.parse = "refused" -> notify_and_idle(negotiated, "RCVD_OPEN", in)

fsm_rcvd_open(p, o, in) ==
    IF p.state = "OPENSENT" THEN parse_open(p, o, in)
    ELSE unexpected(p, "RCVD_OPEN", in)

session_stop(p, in) == fsm_stop(session_notification(p, in))

-----------------------------------------------------------------------------
(***************************************************************************)
(* session.c: peers come, are reconfigured and go.                         *)
(***************************************************************************)

\* reconf: "REINIT" configured and not yet initialised, "CLONE" the same for
\* a clone, "NONE" initialised, "DELETE" to be deleted, "ABSENT" not there.
new_peer(conf, reconf, carp) ==
    [state |-> "NONE", prev_state |-> "NONE", fd |-> "none", rq |-> FALSE,
     timers |-> {}, holdtime |-> 0, IdleHoldTime |-> 0, depend_ok |-> FALSE,
     conf |-> conf, ann |-> Announced(conf), neg |-> NoNeg, demoted |-> 0,
     rdesession |-> FALSE, reconf |-> reconf, rde |-> rde_session_delete,
     carp |-> carp]

init_peer(p, in) ==
    LET q == change_state_idle([p EXCEPT !.depend_ok = @ \/ ~p.conf.if_depend],
                               "NONE")
        r == IF p.conf.down THEN q ELSE fsm_start(q, in)
        s == IF p.reconf # "REINIT" /\ p.conf.demote_group # NoGroup
             THEN session_demote(r, 1) ELSE r
    IN  [s EXCEPT !.reconf = "NONE"]

\* getpeerbyip(): the first connection from an address creates the clone.
\* It has the template's view of the interface it depends on.
clone_peer(p, conf, depend_ok, in) ==
    fsm_start(timer_set(init_peer([new_peer(conf, "CLONE", p.carp)
                                      EXCEPT !.depend_ok = depend_ok], in),
                        "SessionDown"), in)

\* The open: part of session_accept().
accept_open(p, outcome, in) ==
    CASE outcome = "refused" -> p
      [] outcome = "setup" -> [p EXCEPT !.fd = "stale"]
      [] outcome = "ok" -> con_open([p EXCEPT !.fd = "in"], in)

session_accept(p, outcome, in) ==
    CASE p.state = "CONNECT" -> accept_open(session_close(p), outcome, in)
      [] p.state = "ACTIVE" /\ p.fd = "none" -> accept_open(p, outcome, in)
      [] p.state = "ESTABLISHED" /\ p.neg.restart = 2 ->
             accept_open(change_state_connect_graceful(p), outcome, in)
      [] OTHER -> p

\* Bug: the demotion is taken back after the group has been cleared.
delete_peer_clear_first(p, in) ==
    LET q == [p EXCEPT !.conf.demote_group = NoGroup]
        r == session_stop(IF q.demoted > 0 THEN session_demote(q, -1) ELSE q, in)
    IN  new_peer(r.conf, "ABSENT", r.carp)

\* The part of the main loop that deletes a peer.
delete_peer(p, in) ==
    LET q == IF p.demoted > 0 THEN session_demote(p, -1) ELSE p
        r == session_stop([q EXCEPT !.conf.demote_group = NoGroup], in)
    IN  new_peer(r.conf, "ABSENT", r.carp)

\* merge_peers() for a peer that stays: the new configuration is copied
\* first.  Clones get their template's and nothing else happens to them.
merge_peer(p, conf) ==
    LET q == [p EXCEPT !.conf = conf,
                       !.rde = IF p.rdesession THEN rde_session_add(@) ELSE @]
    IN  IF ~IsClone /\ q.demoted > 0 /\ conf.demote_group = NoGroup
        THEN session_demote(q, -1) ELSE q

\* The main loop's switch over the timer that is due.
timer_handler(p, timer, in) ==
    CASE timer = "Hold" -> unexpected(p, "TIMER_HOLDTIME", in)
      [] timer = "SendHold" -> unexpected(p, "TIMER_SENDHOLD", in)
      [] timer = "ConnectRetry" -> fsm_timer_connretry(p, in)
      [] timer = "Keepalive" -> fsm_timer_keepalive(p, in)
      [] timer = "IdleHold" -> fsm_start(p, in)
      [] timer = "IdleHoldReset" ->
             timer_stop([p EXCEPT !.IdleHoldTime = 0], "IdleHoldReset")
      [] timer = "CarpUndemote" ->
             LET q == timer_stop(p, "CarpUndemote")
             IN  IF p.demoted > 0 /\ p.state = "ESTABLISHED"
                 THEN session_demote(q, -1) ELSE q
      [] timer = "RestartTimeout" ->
             session_graceful_stop(timer_stop(p, "RestartTimeout"))
      [] timer = "SessionDown" ->
             [timer_stop(p, "SessionDown")
                 EXCEPT !.rde = rde_session_delete,
                        !.rdesession = FALSE,
                        !.reconf = IF IsClone THEN "DELETE" ELSE @]

-----------------------------------------------------------------------------
VARIABLE peer

vars == <<peer>>

Init ==
    \E conf \in Confs :
        peer = new_peer(conf, IF IsClone THEN "ABSENT" ELSE "REINIT",
                     [g \in Groups |-> 0])

\* The peer is in the tree and initialised.
Live == peer.state # "NONE"

\* The peer is in the tree.  With "early", a request is read in the round of
\* the main loop that added the peer, before the next one initialises it.
Addressed == Live \/ ("early" \in Commands /\ peer.reconf = "REINIT")

\* The next main loop iteration initialises a new peer.
InitPeer ==
    /\ peer.reconf = "REINIT"
    /\ \E in \in Inputs : peer' = init_peer(peer, in)

\* session_graceful_restart() arms RestartTimeout for a shorter interval than
\* SessionDown: while a restart is unfinished, SessionDown is not the first.
TimerDue(timer) ==
    /\ timer \in peer.timers
    /\ timer = "SessionDown" => \A aid \in AIDs : ~Restarting(peer.neg.flags[aid])

TimerExpired(timer) ==
    /\ Live
    /\ TimerDue(timer)
    /\ \E in \in Inputs : peer' = timer_handler(peer, timer, in)

\* session_dispatch_msg() in CONNECT: the connection is there, has failed, or
\* poll() reports an error.
ConnectDone ==
    /\ peer.state = "CONNECT" /\ peer.fd # "none"
    /\ \/ \E in \in Inputs : peer' = con_open(peer, in)
       \/ peer' = con_openfail(peer)
       \/ peer' = con_fatal(peer)

\* The same in the other states: end of file or hang-up, an error, ...
ConnectionLost ==
    /\ peer.state # "CONNECT" /\ peer.fd # "none"
    /\ \/ peer' = fsm_con_closed(peer)
       \/ peer' = con_fatal(peer)

\* ... queued output written, ...
Written ==
    /\ peer.state \in OpenStates /\ peer.fd # "none"
    /\ peer' = start_timer(peer, "SendHold")

\* ... or input that parse_header() refuses.
BadHeader ==
    /\ peer.state \in OpenStates /\ peer.fd # "none"
    /\ \E in \in Inputs : peer' = con_fatal(session_notification(peer, in))

\* session_process_msg() on what has been read.
RcvdOpen ==
    /\ peer.rq
    /\ \E o \in Opens, in \in Inputs : peer' = fsm_rcvd_open(peer, o, in)

RcvdKeepalive ==
    /\ peer.rq
    /\ \E in \in Inputs : peer' = fsm_rcvd_keepalive(peer, in)

RcvdUpdate ==
    /\ peer.rq
    /\ \E in \in Inputs : peer' = fsm_rcvd_update(peer, in)

RcvdNotification ==
    /\ peer.rq
    /\ \E kind \in {"plain", "hard", "bad"}, in \in Inputs :
          peer' = fsm_rcvd_notification(peer, kind, in)

\* parse_rrefresh(): a good one is passed on to the RDE, whatever the state;
\* one of a wrong length ends the session.
RcvdBadRrefresh ==
    /\ peer.rq
    /\ peer.neg.refresh
    /\ \E in \in Inputs : peer' = con_fatal(session_notification(peer, in))

\* A connection was accepted from the neighbor's address.
Accept ==
    \E outcome \in Accepts, in \in Inputs :
        \/ /\ Live
           /\ peer' = session_accept(peer, outcome, in)
        \/ /\ IsClone /\ peer.reconf = "ABSENT"
           /\ \E conf \in Confs, depend_ok \in BOOLEAN :
                 peer' = session_accept(clone_peer(peer, conf, depend_ok, in),
                                        outcome, in)

\* The RDE, IMSG_UPDATE: an update to send.
UpdateFromRde ==
    /\ Live /\ peer.rdesession
    /\ \E in \in Inputs : peer' = session_update(peer, in)

\* The RDE, IMSG_UPDATE_ERR for a prefix limit or for anything else.  It may
\* come when the session it is about has ended.
UpdateErr ==
    /\ "update_err" \in Commands
    /\ Live /\ peer.rdesession
    /\ \E in \in Inputs :
          LET q == session_notification(peer, in)
              stopped == fsm_stop(q)
          IN  \/ peer' = con_fatal(q)
              \/ peer' = IF peer.conf.max_prefix_restart > 0
                         THEN timer_set(stopped, "IdleHold") ELSE stopped

\* The RDE, IMSG_SESSION_RESTARTED: it has seen the End-of-RIB marker.
SessionRestarted ==
    /\ Live /\ peer.rdesession
    /\ \E aid \in AIDs :
          /\ Restarting(peer.neg.flags[aid])
          /\ peer' = [peer EXCEPT !.rde = rde_session_restarted(@, aid),
                                  !.neg.flags[aid] = @ \cup {"FINISHED"}]

\* The RDE's IMSG_REFRESH and bgpctl neighbor refresh.
Rrefresh ==
    /\ Live /\ peer.neg.refresh
    /\ \E in \in Inputs : peer' = session_rrefresh(peer, in)

\* The parent, IMSG_SESSION_DEPENDON: the interface went up or down.
DependOn ==
    /\ Addressed /\ peer.conf.if_depend
    /\ \E depend_ok \in BOOLEAN, in \in Inputs :
          /\ depend_ok # peer.depend_ok
          /\ peer' = LET q == [peer EXCEPT !.depend_ok = depend_ok]
                     IN  IF depend_ok THEN fsm_start(q, in) ELSE session_stop(q, in)

\* bgpctl neighbor up
NeighborUp ==
    /\ "up" \in Commands
    /\ Addressed
    /\ \E in \in Inputs :
          peer' = [fsm_start(peer, in) EXCEPT !.conf.down = FALSE,
                                              !.IdleHoldTime = 0]

\* bgpctl neighbor down
NeighborDown ==
    /\ "down" \in Commands
    /\ Addressed
    /\ \E in \in Inputs :
          peer' = session_stop([peer EXCEPT !.conf.down = TRUE], in)

\* bgpctl neighbor clear
NeighborClear ==
    /\ "clear" \in Commands
    /\ Addressed
    /\ \E in \in Inputs :
          LET q == session_stop([peer EXCEPT !.IdleHoldTime = 0], in)
          IN  peer' = IF peer.conf.down THEN q ELSE timer_set(q, "IdleHold")

\* bgpctl neighbor destroy
NeighborDestroy ==
    /\ IsClone /\ peer.state = "IDLE" /\ peer.reconf = "NONE"
    /\ peer' = [peer EXCEPT !.reconf = "DELETE"]

\* IMSG_RECONF_DONE, merge_peers(): the neighbor stays, ...
Reload ==
    /\ "reload" \in Commands
    /\ Live /\ (IsClone \/ peer.reconf = "NONE")
    /\ \E conf \in Confs : peer' = merge_peer(peer, conf)

\* ... is gone from the configuration, ...
Unconfigure ==
    /\ "remove" \in Commands
    /\ Live /\ ~IsClone /\ peer.reconf = "NONE"
    /\ peer' = [peer EXCEPT !.reconf = "DELETE"]

\* ... or is new.
Configure ==
    /\ ~IsClone /\ peer.reconf = "ABSENT"
    /\ \E conf \in Confs : peer' = new_peer(conf, "REINIT", peer.carp)

\* The main loop deletes a peer marked so.
DeletePeer ==
    /\ peer.reconf = "DELETE"
    /\ \E in \in Inputs : peer' = delete_peer(peer, in)

Socket ==
    ConnectDone \/ ConnectionLost \/ Written \/ BadHeader \/ Accept

Message ==
    \/ RcvdOpen \/ RcvdKeepalive \/ RcvdUpdate \/ RcvdNotification
    \/ RcvdBadRrefresh

Imsg ==
    \/ UpdateFromRde \/ UpdateErr \/ SessionRestarted \/ Rrefresh \/ DependOn
    \/ Reload \/ Unconfigure \/ Configure

Control == NeighborUp \/ NeighborDown \/ NeighborClear \/ NeighborDestroy

Next ==
    \/ InitPeer \/ DeletePeer
    \/ \E timer \in Timers : TimerExpired(timer)
    \/ Socket \/ Message \/ Imsg \/ Control

Spec == Init /\ [][Next]_vars

\* What can arm a timer again before it is due, and so put it off for ever: the
\* session lost once more, the operator clearing it or the RDE stopping it for
\* its prefix limit once more.
Lost == peer.state = "ESTABLISHED" /\ peer'.state # "ESTABLISHED"

Cleared == NeighborClear \/ UpdateErr

\* The main loop keeps serving the timers that are due (see TimerQueue) and
\* the peers to be initialised or deleted.  A timer comes to be due unless it
\* is armed again and again; Hold, SendHold and Keepalive, which the traffic of
\* a healthy session keeps putting off, are not assumed to be due ever.
\* Nothing is assumed of the neighbor, the operator or the sockets.
FairSpec ==
    /\ Spec
    /\ WF_vars(InitPeer) /\ WF_vars(DeletePeer)
    /\ WF_vars(TimerExpired("ConnectRetry")) /\ WF_vars(TimerExpired("CarpUndemote"))
    /\ WF_vars(TimerExpired("IdleHold")) \/ []<><<Cleared>>_vars
    /\ WF_vars(TimerExpired("RestartTimeout")) \/ []<><<Lost>>_vars

-----------------------------------------------------------------------------
(***************************************************************************)
(* Properties.                                                             *)
(***************************************************************************)

AnnType == [mp : SUBSET AIDs, restart : 0 .. 2, grnotification : BOOLEAN,
            refresh : BOOLEAN]

NegType == [mp : SUBSET AIDs, restart : 0 .. 2, grnotification : BOOLEAN,
            refresh : BOOLEAN, flags : [AIDs -> SUBSET GRFlags]]

RdeType == [state : {"none", "new", "down", "up"}, stale : SUBSET AIDs,
            wiped : SUBSET AIDs]

PeerType ==
    [state : States, prev_state : States, rq : BOOLEAN,
     fd : {"none", "out", "in", "stale"}, timers : SUBSET Timers,
     holdtime : Nat, IdleHoldTime : 0 .. MAX_IDLE_HOLD, depend_ok : BOOLEAN,
     conf : ConfType, demoted : 0 .. 1, rdesession : BOOLEAN, ann : AnnType,
     neg : NegType, reconf : {"REINIT", "CLONE", "NONE", "DELETE", "ABSENT"},
     rde : RdeType, carp : [Groups -> Nat]]

\* Every field of struct peer keeps its type.  In particular the idle hold
\* time stays within MAX_IDLE_HOLD however often it is doubled, and a peer is
\* demoted at most once: the uint8_t demoted is a flag, not a count.
TypeOK == peer \in PeerType

\* A timer only runs in a state whose bgp_fsm() case for its event stops or
\* re-arms it.  One that ran elsewhere would be due forever: the main loop
\* serves the first timer of the queue only, so it would spin on it and
\* starve the others.
TimerHome ==
    /\ "IdleHold" \in peer.timers => peer.state = "IDLE"
    /\ "ConnectRetry" \in peer.timers => peer.state \in {"CONNECT", "ACTIVE"}
    /\ "Keepalive" \in peer.timers => peer.state \in {"OPENCONFIRM", "ESTABLISHED"}
    /\ "IdleHoldReset" \in peer.timers => peer.state = "ESTABLISHED"
    /\ peer.timers \cap {"Hold", "SendHold"} # {} => peer.state \notin {"NONE", "IDLE"}

\* No state is a dead end: each one is left when a timer fires, unless the
\* neighbor is down by configuration or for want of its interface, stopped by
\* a prefix limit without restart, passive and waiting, or has agreed on a
\* hold time of zero.
Guarded ==
    /\ peer.state = "IDLE" =>
          \/ "IdleHold" \in peer.timers
          \/ peer.conf.down
          \/ ~peer.depend_ok
          \/ peer.conf.max_prefix_restart = 0 /\ "update_err" \in Commands
    /\ peer.state = "CONNECT" => "ConnectRetry" \in peer.timers
    /\ peer.state = "ACTIVE" => "ConnectRetry" \in peer.timers \/ peer.conf.passive
    /\ peer.state \in {"OPENSENT", "OPENCONFIRM"} => "Hold" \in peer.timers
    /\ peer.state = "ESTABLISHED" => "Hold" \in peer.timers \/ peer.holdtime = 0

\* Open sessions, and only they, have a connection that is in use: one that is
\* over has been closed, and "there is only ever one" (session_connect).
Connected ==
    /\ peer.state \in OpenStates => peer.fd \in {"in", "out"}
    /\ peer.state \in {"NONE", "IDLE", "ACTIVE"} => peer.fd = "none"

\* The RDE takes the session for up exactly while it is ESTABLISHED, whichever
\* of the ways down it went: stop, error, graceful restart, deletion.
RdeInSync == peer.rde.state = "up" <=> peer.state = "ESTABLISHED"

\* The RDE knows the peer exactly as long as the engine thinks so, and then
\* the session is up or SessionDown is running to remove it again.
RdeSession ==
    /\ peer.rdesession <=> peer.rde.state # "none"
    /\ peer.rdesession => \/ peer.state = "ESTABLISHED"
                          \/ "SessionDown" \in peer.timers

\* Stale routes are never left behind: for every family the RDE holds stale,
\* the engine still has the restart on record and RestartTimeout is running.
StaleGuarded ==
    \A aid \in peer.rde.stale :
        /\ Restarting(peer.neg.flags[aid])
        /\ "RestartTimeout" \in peer.timers

\* A flush never hits the routes of a live session: a family is only flushed
\* while stale ("In all other cases the session was already flushed").
NoFreshFlush == peer.rde.wiped = {}

\* Each carp group's counter is what this peer has added to it.
DemotionBalanced ==
    \A g \in Groups :
        peer.carp[g] = IF peer.conf.demote_group = g THEN peer.demoted ELSE 0

\* An ESTABLISHED session that is demoted has its demotion timer running.
UndemotePending ==
    peer.state = "ESTABLISHED" /\ peer.demoted > 0 => "CarpUndemote" \in peer.timers

\* What the decision engine was told: of the session, of the engine's record
\* of it and of the stale routes that wait for their flush.
RdeTold == RdeInSync /\ RdeSession /\ StaleGuarded

\* Nothing waits for an event that nobody will deliver: a state has the timer
\* or the descriptor that leads out of it, and a demotion its undemotion.
NoDeadEnd == Guarded /\ Connected /\ UndemotePending

\* The peer's records agree with its state: the timers that run, what the
\* decision engine was told and the demotion counters of its group.
Consistent == TimerHome /\ RdeTold /\ DemotionBalanced

\* "The neighbor session will be kept in state IDLE as long as interface
\* reports no link" (bgpd.conf(5), depend on), whatever else happens.
DependKept == ~peer.depend_ok => peer.state \in {"NONE", "IDLE"}

\* The engine keeps its promise to the RDE.
Contract == INSTANCE PeerSession WITH
    known <- peer.rdesession,
    up    <- peer.state = "ESTABLISHED",
    stale <- peer.rde.stale

ImplementsPeerSession == Contract!Spec

\* A neighbor that is not down and has its interface leaves IDLE, unless the
\* operator or the RDE never stops clearing it.
LeavesIdle ==
    LET idle == /\ peer.state = "IDLE" /\ peer.reconf = "NONE"
                /\ ~peer.conf.down /\ peer.depend_ok
    IN  []<><<Cleared>>_vars \/ (idle ~> ~idle)

\* Stale routes are not kept for ever, whatever becomes of the session, unless
\* it is established and lost for ever, faster than the restart time.
StaleEnds ==
    \/ []<><<Lost>>_vars
    \/ \A aid \in AIDs : aid \in peer.rde.stale ~> aid \notin peer.rde.stale

\* A session that stays ESTABLISHED ends its demotion.
DemotionEnds == <>[](peer.state = "ESTABLISHED") => <>[](peer.demoted = 0)

\* What is to pass passes: a hold-off in IDLE, stale routes, a demotion.
TransientsEnd == LeavesIdle /\ StaleEnds /\ DemotionEnds

-----------------------------------------------------------------------------
(***************************************************************************)
(* What the documentation and the comments say, and the code does not      *)
(* always do.                                                              *)
(***************************************************************************)

\* A neighbor without a connection does not stay in CONNECT: bgpd.conf(5)
\* has connect-retry, the time "to wait before attempting to re-open a connection".
RetriesConnect ==
    LET waiting == peer.state = "CONNECT" /\ peer.fd = "none"
    IN  waiting ~> ~waiting

\* merge_peers(): "had demotion, is demoted, demote removed?"  A neighbor
\* without a demote group has given back what it had added.
DemotionReturned ==
    peer.conf.demote_group = NoGroup => \A g \in Groups : peer.carp[g] = 0

\* bgpctl(8), neighbor clear: "Stop and restart the BGP session".  The timer
\* that restarts it is set on a list init_peer() has made.
TimersInitialised == peer.state = "NONE" => peer.timers = {}
=============================================================================
