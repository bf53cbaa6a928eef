-------------------------------- MODULE Rtr --------------------------------
(***************************************************************************)
(* The RTR engine (rtr.c, rtr_proto.c): the sessions to the RPKI caches,   *)
(* their state machine and timers, the semaphore that holds back the       *)
(* recalculation of the validation table, and the parent process that      *)
(* opens the TCP connections (bgpd.c).                                     *)
(*                                                                         *)
(* The caches are the environment: they send any PDU at any time.  Of a    *)
(* PDU's contents the model keeps what the engine branches on.             *)
(***************************************************************************)
EXTENDS Integers, FiniteSets, Sequences, Functions

CONSTANTS
    None,           \* no session id, no configuration, no session
    Ids,            \* the sessions the configuration may name
    Boot,           \* the sessions of the first configuration
    Roas,           \* ROA records
    Customers,      \* customer ASes of ASPA records
    Providers,      \* provider ASes of ASPA records
    MaxSpas,        \* MAX_ASPA_SPAS_COUNT
    Feeds,          \* what each cache publishes: ROAs, sets of providers
    SessIds,        \* session_id values of the caches
    Versions,       \* protocol versions the caches use
    MinVersions,    \* min-version values a configuration may have
    StaticConfs,    \* static records a configuration may have
    MaxConnect,     \* MAX_CONNECT_CNT
    MaxReloads,     \* configuration reloads
    NoDataAnytime,  \* a cache reports NO_DATA_AVAILABLE unasked, too
    RetryOverlaps   \* the retry interval may be shorter than a connect()

\* Static and received records: a set of ROAs, and the providers of each
\* customer AS (none: no record).
Records == [roa : SUBSET Roas, aspa : [Customers -> SUBSET Providers]]
NoAspa == [c \in Customers |-> {}]
NoRecords == [roa |-> {}, aspa |-> NoAspa]

ASSUME RtrAssumption ==
    /\ IsFiniteSet(Ids) /\ None \notin Ids /\ Boot \subseteq Ids
    /\ Feeds \in [Ids -> [roa : SUBSET Roas, aspa : SUBSET SUBSET Providers]]
    /\ StaticConfs \subseteq Records /\ None \notin StaticConfs
    /\ Versions \subseteq 0 .. 2 /\ MinVersions \subseteq 0 .. 2
    /\ MaxSpas \in Nat /\ MaxConnect \in Nat /\ MaxReloads \in Nat
    /\ NoDataAnytime \in BOOLEAN /\ RetryOverlaps \in BOOLEAN

VARIABLES
    rs,         \* rtrs: the sessions, NoSession for an id without one
    sem,        \* rtr_recalc_semaphore
    conf,       \* static records of the running configuration
    nconf,      \* the configuration being received, or None
    table,      \* the records the RDE was last given
    cur,        \* the session whose read buffer is being worked off, or None
    toMain,     \* IMSG_SOCKET_SETUP RTR -> parent: session ids
    toRtr,      \* imsgs parent -> RTR
    main        \* the parent: its rtr configs and its connection queues

vars == <<rs, sem, conf, nconf, table, cur, toMain, toRtr, main>>

NoSession == [state |-> "NONE"]
RTR_DEFAULT_VERSION == 1

\* The refresh timer only sends a query, see below.
Timers == {"Retry", "Expire", "Active"}

Live(r) == {i \in Ids : r[i].state # "NONE"}

-----------------------------------------------------------------------------
(***************************************************************************)
(* The table.  rtr_recalc() merges the static records and those of all     *)
(* sessions, and does nothing while a session holds the semaphore.         *)
(***************************************************************************)

rtr_roa_merge(r, c) == c.roa \cup UNION {r[i].roa : i \in Live(r)}

\* A record that grows too large by merging is left out.
rtr_aspa_merge(r, c) ==
    [a \in Customers |->
        LET tas == c.aspa[a] \cup UNION {r[i].aspa[a] : i \in Live(r)}
        IN  IF Cardinality(tas) > MaxSpas THEN {} ELSE tas]

Merged(r, c) == [roa |-> rtr_roa_merge(r, c), aspa |-> rtr_aspa_merge(r, c)]

\* Bug: the semaphore is not looked at.
rtr_recalc_unguarded(r, c, n) == table' = Merged(r, c)

rtr_recalc(r, c, n) ==
    IF n > 0 THEN table' = table ELSE table' = Merged(r, c)

-----------------------------------------------------------------------------
(***************************************************************************)
(* What the events of rtr_fsm() do to a session s; s.lock is active_lock,  *)
(* s.open says that s.fd is a connection, s.delete that reconf_action is   *)
(* RECONF_DELETE.                                                          *)
(* The queries it sends, and with them the refresh timer, are left out:    *)
(* what the caches answer, and when, is open.                              *)
(*                                                                         *)
(* s.part and s.late are history: records of an unfinished exchange are    *)
(* in the session's trees, and its activity timer has fired.               *)
(***************************************************************************)

timer_set(s, t) == [s EXCEPT !.timers = @ \cup {t}]
timer_stop(s, t) == [s EXCEPT !.timers = @ \ {t}]

rtr_max_session_version(s) ==
    IF s.min > RTR_DEFAULT_VERSION THEN s.min ELSE RTR_DEFAULT_VERSION

rtr_reset_cache(s) ==
    [s EXCEPT !.sid = None, !.timers = @ \ {"Expire"}, !.roa = {}, !.aspa = NoAspa,
              !.part = FALSE]

\* Is the cache reset when the connection closes?
CloseResets(s, event) == event = "RESET_AND_CLOSE" \/ s.lock = 1

\* Bug: the session is not reopened.
fsm_close_final(s, event) ==
    LET q == IF CloseResets(s, event)
             THEN [rtr_reset_cache(s) EXCEPT !.lock = 0] ELSE s
    IN  [q EXCEPT !.open = FALSE, !.state = IF @ = "NEGOTIATION" THEN @ ELSE "CLOSED"]

\* RTR_EVNT_CON_CLOSE, RTR_EVNT_RESET_AND_CLOSE
fsm_close(s, event) ==
    LET q == IF CloseResets(s, event)
             THEN [rtr_reset_cache(s) EXCEPT !.lock = 0] ELSE s
    IN  [timer_set(q, "Retry") EXCEPT
            !.open = FALSE, !.state = IF @ = "NEGOTIATION" THEN @ ELSE "CLOSED"]

\* Bug: the retry timer keeps running.
fsm_open_retrying(s) == [s EXCEPT !.state = "NEGOTIATION"]

\* RTR_EVNT_CON_OPEN
fsm_open(s) ==
    [timer_stop(s, "Retry") EXCEPT !.state = "NEGOTIATION"]

\* RTR_EVNT_SEND_ERROR, after the error PDU is queued
fsm_send_error(s) == [rtr_reset_cache(s) EXCEPT !.state = "ERROR"]

\* Bug: the activity timer is not started.
fsm_cache_response_untimed(s) ==
    [s EXCEPT !.state = "EXCHANGE", !.lock = 1, !.late = FALSE, !.timers = @ \ {"Retry"}]

\* RTR_EVNT_CACHE_RESPONSE
fsm_cache_response(s) ==
    [s EXCEPT !.state = "EXCHANGE", !.lock = 1, !.late = FALSE,
              !.timers = (@ \ {"Retry"}) \cup {"Active"}]

\* RTR_EVNT_END_OF_DATA
fsm_end_of_data(s) ==
    [s EXCEPT !.state = "ESTABLISHED", !.lock = 0,
              !.timers = (@ \ {"Active"}) \cup {"Expire"},
              !.part = FALSE, !.late = FALSE]

\* RTR_EVNT_NO_DATA
fsm_no_data(s) ==
    [s EXCEPT !.state = "ESTABLISHED", !.timers = @ \cup {"Retry"}]

-----------------------------------------------------------------------------
(***************************************************************************)
(* Engine steps built from these.                                          *)
(***************************************************************************)

\* Session i becomes s; neither semaphore nor table is touched.
Quietly(i, s) == rs' = [rs EXCEPT ![i] = s] /\ UNCHANGED <<sem, table>>

\* Session i becomes s, then rtr_recalc(); sem' is given by the caller.
Recalculated(i, s) ==
    /\ rs' = [rs EXCEPT ![i] = s]
    /\ rtr_recalc(rs', conf, sem')

imsg(type, i) == [type |-> type, id |-> i]

\* Bug: the semaphore is released whether or not the session holds it.
CloseSession_always(i, event) ==
    IF CloseResets(rs[i], event)
    THEN sem' = sem - 1 /\ Recalculated(i, fsm_close(rs[i], event))
    ELSE Quietly(i, fsm_close(rs[i], event))

\* Bug: the lock is dropped without releasing the semaphore.
CloseSession_leak(i, event) ==
    IF CloseResets(rs[i], event)
    THEN sem' = sem /\ Recalculated(i, fsm_close(rs[i], event))
    ELSE Quietly(i, fsm_close(rs[i], event))

\* rtr_fsm(CON_CLOSE or RESET_AND_CLOSE)
CloseSession(i, event) ==
    IF CloseResets(rs[i], event)
    THEN sem' = sem - rs[i].lock /\ Recalculated(i, fsm_close(rs[i], event))
    ELSE Quietly(i, fsm_close(rs[i], event))

\* rtr_send_error()
SendError(i, s) == sem' = sem /\ Recalculated(i, fsm_send_error(s))

\* rtr_new()
rtr_new(min) ==
    LET v == IF min > RTR_DEFAULT_VERSION THEN min ELSE RTR_DEFAULT_VERSION
    IN  [state |-> "CLOSED", open |-> FALSE, sid |-> None, lock |-> 0, min |-> min,
         version |-> v, prev |-> v,
         timers |-> {"Expire", "Retry"}, roa |-> {}, aspa |-> NoAspa,
         delete |-> FALSE, part |-> FALSE, late |-> FALSE]

\* The requests of the sessions S, one for each, in some order.
InSomeOrder(S) == CHOOSE f \in [1 .. Cardinality(S) -> S] : IsInjective(f)

\* The engine after the configuration that bgpd was started with.
Init ==
    /\ \E min \in [Boot -> MinVersions] :
          rs = [i \in Ids |-> IF i \in Boot THEN rtr_new(min[i]) ELSE NoSession]
    /\ sem = 0 /\ conf \in StaticConfs /\ nconf = None /\ table = Merged(rs, conf)
    /\ cur = None /\ toMain = InSomeOrder(Boot) /\ toRtr = <<>>
    /\ main = [rtrs |-> Boot, used |-> Boot, phase |-> "idle", reloads |-> 0,
               connect |-> [i \in Ids |-> 0]]

-----------------------------------------------------------------------------
(***************************************************************************)
(* Connections.  rtr_poll_events() polls every session that is not closed, *)
(* for input only when it is not in state ERROR.                           *)
(***************************************************************************)

Idle == cur = None

Polled(i) == rs[i].state \notin {"NONE", "CLOSED"} /\ rs[i].open

\* IMSG_SOCKET_SETUP with a connected socket: rtr_open().  The engine closes
\* the socket of a session it no longer has.
rtr_open ==
    /\ Idle /\ toRtr # <<>> /\ Head(toRtr).type = "SOCKET"
    /\ toRtr' = Tail(toRtr)
    /\ LET i == Head(toRtr).id
           s == rs[i]
           bad == s.state \notin {"CLOSED", "NEGOTIATION"}
           q == IF bad THEN fsm_close(s, "CON_CLOSE") ELSE s
           v == rtr_max_session_version(s)
           o == IF q.state = "CLOSED" THEN [q EXCEPT !.version = v, !.prev = v] ELSE q
       IN  IF s.state = "NONE" THEN UNCHANGED <<rs, sem, table>>
           ELSE /\ rs' = [rs EXCEPT ![i] = fsm_open([o EXCEPT !.open = TRUE])]
                /\ IF bad /\ s.lock = 1
                   THEN sem' = sem - 1 /\ rtr_recalc(rs', conf, sem')
                   ELSE UNCHANGED <<sem, table>>
    /\ UNCHANGED <<conf, nconf, cur, toMain, main>>

\* rtr_dispatch_msg(): hang-up, a failed write, a failed read, end of file
Hangup(i) ==
    /\ Idle /\ Polled(i)
    /\ CloseSession(i, "CON_CLOSE")
    /\ UNCHANGED <<conf, nconf, cur, toMain, toRtr, main>>

\* rtr_dispatch_msg(): once the error PDU is written the connection is closed.
ErrorWritten(i) ==
    /\ Idle /\ Polled(i) /\ rs[i].state = "ERROR"
    /\ CloseSession(i, "CON_CLOSE")
    /\ UNCHANGED <<conf, nconf, cur, toMain, toRtr, main>>

-----------------------------------------------------------------------------
(***************************************************************************)
(* PDUs, handled by rtr_process_msg().  Outside the negotiation a PDU      *)
(* other than an error report must have the session's version; one that    *)
(* has not, or whose encoding is bad, is Garbled.                          *)
(***************************************************************************)

\* rtr_parse_header(): the version of the first response, ver, may lower
\* the session's, but not below min_version.
BadVersion(s, ver) == ver < s.version /\ ver < s.min
Lowered(s, ver) ==
    IF ver < s.version THEN [s EXCEPT !.prev = s.version, !.version = ver] ELSE s

\* Session s after the header of a cache response or cache reset.
Header(s, ver) ==
    IF s.state = "NEGOTIATION" THEN [Lowered(s, ver) EXCEPT !.state = "ESTABLISHED"]
    ELSE s

\* rtr_parse_notify() and rtr_parse_cache_response(): the session id is
\* learned when none is known.
Learned(s, sid) == IF s.sid = None THEN [s EXCEPT !.sid = sid] ELSE s

SerialNotify(i, sid) ==
    LET s == rs[i]
        q == Learned(s, sid)
    IN  IF s.state = "NEGOTIATION" THEN Quietly(i, s)
        ELSE IF q.sid # sid THEN SendError(i, q)
        ELSE Quietly(i, q)

CacheResponse(i, sid, ver) ==
    LET s == rs[i]
        q == Learned(Header(s, ver), sid)
    IN  IF s.state = "NEGOTIATION" /\ BadVersion(s, ver) THEN SendError(i, s)
        ELSE IF q.sid # sid \/ q.state # "ESTABLISHED" THEN SendError(i, q)
        ELSE /\ rs' = [rs EXCEPT ![i] = fsm_cache_response(q)]
             /\ sem' = sem + 1
             /\ UNCHANGED table

\* Bug: the table keeps the records of the reset cache.
CacheReset_silent(i, ver) ==
    LET s == rs[i]
        q == Header(s, ver)
    IN  IF s.state = "NEGOTIATION" /\ BadVersion(s, ver) THEN SendError(i, s)
        ELSE IF q.state # "ESTABLISHED" THEN SendError(i, q)
        ELSE Quietly(i, timer_set(rtr_reset_cache(q), "Retry"))

CacheReset(i, ver) ==
    LET s == rs[i]
        q == Header(s, ver)
    IN  IF s.state = "NEGOTIATION" /\ BadVersion(s, ver) THEN SendError(i, s)
        ELSE IF q.state # "ESTABLISHED" THEN SendError(i, q)
        ELSE /\ sem' = sem
             /\ Recalculated(i, timer_set(rtr_reset_cache(q), "Retry"))

\* rtr_parse_ipv4_prefix(), rtr_parse_ipv6_prefix()
Prefix(i, announce, roa) ==
    LET s == rs[i] IN
    IF s.state # "EXCHANGE" \/ announce = (roa \in s.roa) THEN SendError(i, s)
    ELSE Quietly(i, [s EXCEPT !.roa = IF announce THEN @ \cup {roa} ELSE @ \ {roa},
                              !.part = TRUE])

\* rtr_parse_aspa(): an announcement replaces the record, one with too many
\* providers removes it; tas is empty in a withdrawal and only there.
Aspa(i, as, tas) ==
    LET s == rs[i]
        withdraw == tas = {}
        tas0 == IF Cardinality(tas) > MaxSpas THEN {} ELSE tas
    IN  IF s.version < 2 \/ s.state # "EXCHANGE" \/ (withdraw /\ s.aspa[as] = {})
        THEN SendError(i, s)
        ELSE Quietly(i, [s EXCEPT !.aspa[as] = tas0, !.part = TRUE])

\* rtr_parse_end_of_data(): valid says that the timer values are in range.
EndOfData(i, sid, valid) ==
    LET s == rs[i] IN
    IF s.state # "EXCHANGE" \/ s.sid # sid \/ ~valid THEN SendError(i, s)
    ELSE sem' = sem - s.lock /\ Recalculated(i, fsm_end_of_data(s))

ErrorCodes == {"CACHE_RESTART", "NO_DATA", "UNSUPP_PROTOCOL_VERS", "OTHER"}

\* rtr_parse_error().  The engine does not look at the session's state.
ErrorReport(i, code, ver) ==
    LET s == rs[i]
        q == IF s.state = "NEGOTIATION" /\ code \in {"UNSUPP_PROTOCOL_VERS", "NO_DATA"}
             THEN Lowered(s, ver) ELSE s
    IN  \/ /\ code = "CACHE_RESTART"
           /\ Quietly(i, s)
        \/ /\ code = "NO_DATA"
           /\ NoDataAnytime \/ s.state \in {"NEGOTIATION", "ESTABLISHED"}
           /\ Quietly(i, fsm_no_data(q))
        \/ /\ code = "UNSUPP_PROTOCOL_VERS"
           /\ IF q.prev = q.version \/ q.version < q.min
              THEN SendError(i, [q EXCEPT !.version = rtr_max_session_version(q)])
              ELSE Quietly(i, q)
        \/ /\ code = "OTHER"
           /\ CloseSession(i, "RESET_AND_CLOSE")

\* A PDU with a bad length, type or version, or one that is out of context
\* whatever its contents.
Garbled(i) == SendError(i, rs[i])

\* rtr_dispatch_msg(), rtr_process_msg(): a PDU is read when the session is
\* polled for input.  The PDUs of one read are all worked off, whatever the
\* state becomes (cur = i), unless the connection closes.
rtr_process_msg(i) ==
    /\ cur = i \/ (Idle /\ Polled(i) /\ rs[i].state # "ERROR")
    /\ \/ \E sid \in SessIds : SerialNotify(i, sid)
       \/ \E sid \in SessIds, ver \in Versions : CacheResponse(i, sid, ver)
       \/ \E ver \in Versions : CacheReset(i, ver)
       \/ \E announce \in BOOLEAN, roa \in Feeds[i].roa : Prefix(i, announce, roa)
       \/ \E as \in Customers, tas \in Feeds[i].aspa : Aspa(i, as, tas)
       \/ \E sid \in SessIds, valid \in BOOLEAN : EndOfData(i, sid, valid)
       \/ \E code \in ErrorCodes, ver \in Versions : ErrorReport(i, code, ver)
       \/ Garbled(i)
    /\ cur' \in IF rs'[i].state = "ERROR" THEN {i, None} ELSE {None}
    /\ UNCHANGED <<conf, nconf, toMain, toRtr, main>>

-----------------------------------------------------------------------------
(***************************************************************************)
(* Timers: rtr_check_events() stops the timer and runs its event.          *)
(***************************************************************************)

Fires(i, t) ==
    /\ Idle /\ rs[i].state # "NONE" /\ t \in rs[i].timers
    /\ UNCHANGED <<conf, nconf, cur, toRtr, main>>

\* A connection that session i asked for and has not got.
SetupPending(i) ==
    \/ main.connect[i] > 0
    \/ \E k \in DOMAIN toMain : toMain[k] = i
    \/ \E k \in DOMAIN toRtr : toRtr[k].type = "SOCKET" /\ toRtr[k].id = i

TimerRetry(i) ==
    LET s == rs[i]
        q == timer_stop(s, "Retry")
    IN  /\ Fires(i, "Retry")
        /\ \/ /\ s.state = "ERROR"
              /\ CloseSession(i, "CON_CLOSE") /\ UNCHANGED toMain
           \/ /\ s.state \in {"CLOSED", "NEGOTIATION"}
              /\ RetryOverlaps \/ ~SetupPending(i)
              /\ Quietly(i, s)
              /\ toMain' = Append(toMain, i)
           \/ /\ s.state \in {"ESTABLISHED", "EXCHANGE"}
              /\ Quietly(i, q) /\ UNCHANGED toMain

TimerExpire(i) ==
    /\ Fires(i, "Expire")
    /\ sem' = sem /\ Recalculated(i, rtr_reset_cache(rs[i]))
    /\ UNCHANGED toMain

TimerActive(i) ==
    /\ Fires(i, "Active")
    /\ sem' = sem - rs[i].lock
    /\ Recalculated(i, [timer_stop(rs[i], "Active") EXCEPT !.lock = 0,
                                                       !.late = rs[i].state = "EXCHANGE"])
    /\ UNCHANGED toMain

\* rtr_expire_roas(), rtr_expire_aspa(): static records reach their end.
ExpireStatic ==
    /\ Idle
    /\ \E c \in StaticConfs :
          /\ c # conf /\ c.roa \subseteq conf.roa
          /\ \A a \in Customers : c.aspa[a] \in {{}, conf.aspa[a]}
          /\ conf' = c
          /\ rtr_recalc(rs, c, sem)
    /\ UNCHANGED <<rs, sem, nconf, cur, toMain, toRtr, main>>

-----------------------------------------------------------------------------
(***************************************************************************)
(* Reconfiguration.  The RTR engine replies to the drain message at once;  *)
(* the handshake itself is in Reconf.                                      *)
(***************************************************************************)

\* IMSG_RECONF_CONF, _ROA_ITEM, _ASPA..., _RTR_CONFIG and _DRAIN: sessions
\* are marked, new ones are started.
RecvConf ==
    /\ Idle /\ toRtr # <<>> /\ Head(toRtr).type = "CONF"
    /\ LET m == Head(toRtr)
           wanted == DOMAIN m.rtrs
           new == wanted \ Live(rs)
       IN  /\ rs' = [i \in Ids |->
                        IF i \in new THEN rtr_new(m.rtrs[i])
                        ELSE IF i \in wanted
                        THEN [rs[i] EXCEPT !.min = m.rtrs[i], !.delete = FALSE]
                        ELSE IF i \in Live(rs) THEN [rs[i] EXCEPT !.delete = TRUE]
                        ELSE rs[i]]
           /\ toMain' = toMain \o InSomeOrder(new)
           /\ nconf' = m.recs
    /\ toRtr' = Tail(toRtr)
    /\ UNCHANGED <<sem, conf, table, cur, main>>

\* IMSG_RECONF_DONE: rtr_config_merge(), and the table is recalculated.
\* Records that have expired by now are not in nconf.
RecvDone ==
    /\ Idle /\ toRtr # <<>> /\ Head(toRtr).type = "DONE"
    /\ LET gone == {i \in Live(rs) : rs[i].delete}
           held == {i \in gone : rs[i].lock = 1}
       IN  /\ rs' = [i \in Ids |-> IF i \in gone THEN NoSession ELSE rs[i]]
           /\ sem' = sem - Cardinality(held)
    /\ conf' = nconf
    /\ rtr_recalc(rs', nconf, sem')
    /\ nconf' = None
    /\ main' = [main EXCEPT !.phase = "idle"]
    /\ toRtr' = Tail(toRtr)
    /\ UNCHANGED <<cur, toMain>>

-----------------------------------------------------------------------------
(***************************************************************************)
(* The parent process.                                                     *)
(***************************************************************************)

\* reconfigure(), as far as the RTR engine is concerned.  insert_rtr() gives
\* a new cache an id that was never used before.
Reload ==
    /\ main.phase = "idle" /\ main.reloads < MaxReloads
    /\ \E ids \in SUBSET (main.rtrs \cup (Ids \ main.used)), c \in StaticConfs :
       \E min \in [ids -> MinVersions] :
          /\ toRtr' = Append(toRtr, [type |-> "CONF", rtrs |-> min, recs |-> c])
          /\ main' = [main EXCEPT !.rtrs = ids, !.used = @ \cup ids,
                                  !.phase = "sent", !.reloads = @ + 1]
    /\ UNCHANGED <<rs, sem, conf, nconf, table, cur, toMain>>

ReloadDone ==
    /\ main.phase = "sent" /\ nconf # None
    /\ toRtr' = Append(toRtr, [type |-> "DONE"])
    /\ main' = [main EXCEPT !.phase = "done"]
    /\ UNCHANGED <<rs, sem, conf, nconf, table, cur, toMain>>

Connected(i, m) == toRtr' = Append(toRtr, imsg("SOCKET", i)) /\ main' = m

connect_cnt == LET Plus(a, b) == a + b IN FoldFunction(Plus, 0, main.connect)

\* IMSG_SOCKET_SETUP: bgpd_rtr_conn_setup().  Nothing is said to the engine
\* when the connection cannot be set up.
bgpd_rtr_conn_setup ==
    /\ toMain # <<>>
    /\ toMain' = Tail(toMain)
    /\ LET i == Head(toMain) IN
       \/ UNCHANGED <<toRtr, main>>
       \/ /\ i \in main.rtrs /\ connect_cnt < MaxConnect
          /\ \/ Connected(i, main)
             \/ /\ main' = [main EXCEPT !.connect[i] = @ + 1]
                /\ UNCHANGED toRtr
    /\ UNCHANGED <<rs, sem, conf, nconf, table, cur>>

\* bgpd_rtr_conn_setup_done()
bgpd_rtr_conn_setup_done(i) ==
    /\ main.connect[i] > 0
    /\ LET m == [main EXCEPT !.connect[i] = @ - 1] IN
       \/ main' = m /\ UNCHANGED toRtr
       \/ i \in main.rtrs /\ Connected(i, m)
    /\ UNCHANGED <<rs, sem, conf, nconf, table, cur, toMain>>

-----------------------------------------------------------------------------
Next ==
    \/ \E i \in Ids :
          \/ Hangup(i) \/ ErrorWritten(i) \/ rtr_process_msg(i)
          \/ TimerRetry(i) \/ TimerExpire(i) \/ TimerActive(i)
          \/ bgpd_rtr_conn_setup_done(i)
    \/ rtr_open \/ ExpireStatic \/ RecvConf \/ RecvDone
    \/ Reload \/ ReloadDone \/ bgpd_rtr_conn_setup

Spec == Init /\ [][Next]_vars

-----------------------------------------------------------------------------
(***************************************************************************)
(* Properties.                                                             *)
(***************************************************************************)

Session ==
    [state : {"CLOSED", "ERROR", "ESTABLISHED", "EXCHANGE", "NEGOTIATION"},
     open : BOOLEAN, sid : SessIds \cup {None}, lock : 0 .. 1,
     min : MinVersions, version : 0 .. 2, prev : 0 .. 2,
     timers : SUBSET Timers, roa : SUBSET Roas,
     aspa : [Customers -> SUBSET Providers],
     delete : BOOLEAN, part : BOOLEAN, late : BOOLEAN]

\* Type invariant.  The semaphore is a natural number: rtr_sem_release()'s
\* fatalx("rtr recalc semaphore underflow") is never reached.
TypeOK ==
    /\ rs \in [Ids -> Session \cup {NoSession}]
    /\ sem \in Nat /\ conf \in Records /\ table \in Records
    /\ nconf \in Records \cup {None} /\ cur \in Ids \cup {None}
    /\ main \in [rtrs : SUBSET Ids, used : SUBSET Ids, phase : {"idle", "sent", "done"},
                  reloads : 0 .. MaxReloads, connect : [Ids -> Nat]]

\* The semaphore counts the sessions that hold active_lock, and a session
\* holds it only during an exchange or until its error is written: no error
\* path, timeout, hang-up or deletion loses or doubles a release.
SemaphoreBalanced ==
    /\ sem = Cardinality({i \in Live(rs) : rs[i].lock = 1})
    /\ \A i \in Live(rs) : rs[i].lock = 1 => rs[i].state \in {"EXCHANGE", "ERROR"}

\* Whenever nobody holds the semaphore the RDE has the union of the static
\* records and of all the sessions' records: no change is forgotten because
\* rtr_recalc() was held back when it happened.  Excepted are sessions with
\* the remains of an exchange that outlasted its activity timer.
TableFresh ==
    sem = 0 /\ (\A i \in Live(rs) : ~(rs[i].part /\ rs[i].late))
    => table = Merged(rs, conf)

\* The RDE is never given part of an exchange: when the table changes no
\* session is between Cache Response and End of Data with records already
\* inserted, unless that exchange outlasted its activity timer.
PartialNotPublished ==
    [][table' # table => \A i \in Live(rs') : rs'[i].part => rs'[i].late]_vars

\* A session without a connection has its retry timer running: whatever
\* closed it, another connection will be asked for.
ClosedRetries ==
    \A i \in Live(rs) :
        rs[i].state \in {"CLOSED", "NEGOTIATION"} /\ ~rs[i].open
        => "Retry" \in rs[i].timers

\* A socket that arrives from the parent never replaces one in use: when
\* the retry interval is longer than a connect, no session asks twice.
NoSocketReplaced ==
    \A k \in DOMAIN toRtr :
        toRtr[k].type = "SOCKET" /\ toRtr[k].id \in Live(rs)
        => ~rs[toRtr[k].id].open

\* A session that holds back the table has its activity timer running, also
\* after an error: a cache that falls silent cannot hold it back for ever.
LockTimed ==
    \A i \in Live(rs) : rs[i].lock = 1 => "Active" \in rs[i].timers

\* The semaphore is held for good reason: exactly by sessions in an exchange,
\* each with a timer that ends it.
LockRight == TypeOK /\ SemaphoreBalanced /\ LockTimed

\* Every session without a connection gets one, and only one.
Reconnects == ClosedRetries /\ NoSocketReplaced

\* rtr_fsm(): "Reset cache after an error or if the connection is reset
\* during a delta exchange. The internal state in that moment is possibly
\* corrupt and should not be used."
ClosedIsWhole == \A i \in Live(rs) : rs[i].part => rs[i].open

\* bgpd.conf(5), rtr min-version: "Require a minimal RTR version of number."
VersionFloor ==
    \A i \in Live(rs) :
        rs[i].state \in {"ESTABLISHED", "EXCHANGE"} => rs[i].version >= rs[i].min

=============================================================================
