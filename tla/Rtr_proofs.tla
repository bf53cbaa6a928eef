----------------------------- MODULE Rtr_proofs -----------------------------
(***************************************************************************)
(* Theorems about Rtr for any number of caches, records, versions and      *)
(* reloads: the recalculation semaphore counts the sessions that hold it,  *)
(* the RDE's table is neither stale nor half an exchange, and a session    *)
(* without a connection gets one and only one.                             *)
(*                                                                         *)
(* What keeps the sessions apart is that every handler changes one session *)
(* and moves the semaphore by the change of that session's lock.  So there *)
(* is one lemma for each event of rtr_fsm() on a session, and one for each *)
(* way a handler puts the session back: with and without rtr_recalc().     *)
(***************************************************************************)
EXTENDS Rtr, FiniteSetTheorems, TLAPS

\* The sessions that hold the semaphore
Held(r) == {i \in Live(r) : r[i].lock = 1}

\* The invariant of struct rtr_session: the lock is held in an exchange, or
\* until its error is written, with the activity timer running; a session
\* with parts of an exchange and without the lock lost it to that timer, which
\* is not running any more and so cannot clear late; an error discards them.
\* Before an exchange, the retry timer runs exactly while there is no connection.
SessionOK(s) ==
    /\ s.lock = 1 => s.state \in {"EXCHANGE", "ERROR"} /\ "Active" \in s.timers
    /\ s.lock = 0 /\ (s.part \/ s.state = "EXCHANGE") =>
          s.late /\ "Active" \notin s.timers
    /\ s.state = "ERROR" => ~s.part
    /\ s.state \in {"CLOSED", "NEGOTIATION"} /\ ~s.open => "Retry" \in s.timers
    /\ s.state \in {"CLOSED", "NEGOTIATION"} /\ s.open =>
          s.state = "NEGOTIATION" /\ "Retry" \notin s.timers

Good(s) == s \in Session /\ SessionOK(s)

\* The sessions, the semaphore and the table
Engine ==
    /\ rs \in [Ids -> Session \cup {NoSession}]
    /\ \A i \in Live(rs) : SessionOK(rs[i])
    /\ sem = Cardinality(Held(rs))
    /\ conf \in Records /\ table \in Records
    /\ TableFresh

\* Messages from the parent
Msg == [type : {"SOCKET"}, id : Ids]
       \cup [type : {"CONF"}, rtrs : UNION {[s -> MinVersions] : s \in SUBSET Ids},
             recs : StaticConfs]
       \cup [type : {"DONE"}]

\* At most one IMSG_RECONF_DONE is on its way, and only while the engine has
\* the configuration that it completes.
Pipe ==
    /\ toRtr \in Seq(Msg)
    /\ nconf \in Records \cup {None}
    /\ main \in [rtrs : SUBSET Ids, used : SUBSET Ids, phase : {"idle", "sent", "done"},
                 reloads : 0 .. MaxReloads, connect : [Ids -> Nat]]
    /\ \A k \in 1 .. Len(toRtr) : toRtr[k].type = "DONE" =>
          /\ main.phase = "done" /\ nconf # None
          /\ \A l \in 1 .. Len(toRtr) : toRtr[l].type = "DONE" => l = k

\* A read buffer that is not worked off is that of a session in ERROR.
Reading == cur \in Ids \cup {None} /\ (cur # None => rs[cur].state = "ERROR")

Inv == Engine /\ Pipe /\ Reading

-----------------------------------------------------------------------------
\* A session of the engine is a session.
LEMMA LiveIsSession ==
    ASSUME NEW r \in [Ids -> Session \cup {NoSession}], NEW i \in Ids
    PROVE  /\ i \in Live(r) <=> r[i] \in Session
           /\ r[i] \in Session => r[i].state # "NONE"
           /\ r[i].state = "NONE" => r[i] = NoSession
BY DEF Live, Session, NoSession

\* The set of sessions that hold the semaphore is finite.
LEMMA HeldFinite ==
    ASSUME NEW r
    PROVE  IsFiniteSet(Held(r)) /\ Cardinality(Held(r)) \in Nat
<1>1. Held(r) \in SUBSET Ids
  BY DEF Held, Live
<1> QED
  BY <1>1, FS_Subset, FS_CardinalityType, RtrAssumption

\* rtr_sem_acquire(), rtr_sem_release(): when one session changes, the number
\* of holders changes by the difference of its lock.
LEMMA HeldUpdate ==
    ASSUME NEW r \in [Ids -> Session \cup {NoSession}], NEW i \in Live(r), NEW s \in Session,
           NEW q, q = [r EXCEPT ![i] = s]
    PROVE  /\ q \in [Ids -> Session \cup {NoSession}]
           /\ Live(q) = Live(r)
           /\ Cardinality(Held(q)) = Cardinality(Held(r)) - r[i].lock + s.lock
<1>0. i \in Ids /\ r[i] \in Session /\ s.state # "NONE" /\ r[i].state # "NONE"
  BY LiveIsSession DEF Live, Session
<1>1. q \in [Ids -> Session \cup {NoSession}] /\ q[i] = s
      /\ \A j \in Ids : j # i => q[j] = r[j]
  BY <1>0
<1>2. Live(q) = Live(r)
  BY <1>0, <1>1 DEF Live
<1>3. r[i].lock \in 0 .. 1 /\ s.lock \in 0 .. 1
  BY <1>0 DEF Session
<1>4. IsFiniteSet(Held(r)) /\ Cardinality(Held(r)) \in Nat
  BY HeldFinite
<1>5. i \in Held(r) <=> r[i].lock = 1
  BY DEF Held
<1>6. CASE s.lock = 1
  <2>1. Held(q) = Held(r) \cup {i}
    BY <1>0, <1>1, <1>2, <1>6 DEF Held
  <2>2. Cardinality(Held(q)) = IF i \in Held(r) THEN Cardinality(Held(r))
                               ELSE Cardinality(Held(r)) + 1
    BY Zenon, <2>1, <1>4, FS_AddElement
  <2> QED
    BY SMTT(30), <2>2, <1>1, <1>2, <1>3, <1>4, <1>5, <1>6
<1>7. CASE s.lock = 0
  <2>1. Held(q) = Held(r) \ {i}
    BY <1>0, <1>1, <1>2, <1>7 DEF Held
  <2>2. Cardinality(Held(q)) = IF i \in Held(r) THEN Cardinality(Held(r)) - 1
                               ELSE Cardinality(Held(r))
    BY Zenon, <2>1, <1>4, FS_RemoveElement
  <2> QED
    BY <2>2, <1>1, <1>2, <1>3, <1>4, <1>5, <1>7
<1> QED
  BY <1>3, <1>6, <1>7

\* No session holds the semaphore when it is zero.
LEMMA NobodyHolds ==
    ASSUME NEW r \in [Ids -> Session \cup {NoSession}], Cardinality(Held(r)) = 0,
           NEW i \in Live(r)
    PROVE  r[i].lock = 0
<1>1. Held(r) = {}
  BY HeldFinite, FS_EmptySet
<1>2. r[i].lock \in 0 .. 1
  BY LiveIsSession DEF Live, Session
<1> QED
  BY <1>1, <1>2 DEF Held

\* rtr_recalc() makes records.
LEMMA MergedType ==
    ASSUME NEW r \in [Ids -> Session \cup {NoSession}], NEW c \in Records
    PROVE  Merged(r, c) \in Records
<1>1. \A i \in Live(r) : r[i] \in Session /\ r[i].roa \subseteq Roas
                         /\ r[i].aspa \in [Customers -> SUBSET Providers]
  BY LiveIsSession DEF Live, Session
<1>2. rtr_roa_merge(r, c) \in SUBSET Roas
  BY <1>1 DEF rtr_roa_merge, Records
<1>3. ASSUME NEW a \in Customers
      PROVE  c.aspa[a] \cup UNION {r[i].aspa[a] : i \in Live(r)} \in SUBSET Providers
  BY <1>1 DEF Records
<1>4. rtr_aspa_merge(r, c) \in [Customers -> SUBSET Providers]
  BY <1>3 DEF rtr_aspa_merge
<1> QED
  BY <1>2, <1>4 DEF Merged, Records

\* The table depends on the records of the sessions only.
LEMMA MergedSame ==
    ASSUME NEW r \in [Ids -> Session \cup {NoSession}], NEW i \in Live(r), NEW s \in Session,
           s.roa = r[i].roa, s.aspa = r[i].aspa, NEW c
    PROVE  Merged([r EXCEPT ![i] = s], c) = Merged(r, c)
<1> DEFINE q == [r EXCEPT ![i] = s]
<1>1. Live(q) = Live(r)
  BY Zenon, HeldUpdate
<1>2. \A j \in Live(r) : q[j].roa = r[j].roa /\ q[j].aspa = r[j].aspa
  BY DEF Live
<1>3. {q[j].roa : j \in Live(q)} = {r[j].roa : j \in Live(r)}
  BY <1>1, <1>2
<1>4. \A a \in Customers : {q[j].aspa[a] : j \in Live(q)} = {r[j].aspa[a] : j \in Live(r)}
  BY <1>1, <1>2
<1> HIDE DEF q
<1>5. rtr_roa_merge(q, c) = rtr_roa_merge(r, c)
  BY Zenon, <1>3 DEF rtr_roa_merge
<1>6. rtr_aspa_merge(q, c) = rtr_aspa_merge(r, c)
  BY Zenon, <1>4 DEF rtr_aspa_merge
<1> QED
  BY <1>5, <1>6 DEF Merged, q

-----------------------------------------------------------------------------
(***************************************************************************)
(* The events of rtr_fsm() on a session.                                   *)
(***************************************************************************)

\* The session's records, and what is said of them, are as before.
Same(s, q) == /\ q.roa = s.roa /\ q.aspa = s.aspa
              /\ q.part = s.part /\ q.late = s.late

\* The values of active_lock.
LEMMA LockValues == 0 \in 0 .. 1 /\ 1 \in 0 .. 1 /\ 0 # 1
BY SMTT(30)

\* rtr_new(): a new session is closed and will ask for a connection.
LEMMA NewGood ==
    ASSUME NEW min \in MinVersions
    PROVE  LET s == rtr_new(min)
           IN  Good(s) /\ s.lock = 0 /\ s.roa = {} /\ s.aspa = NoAspa /\ ~s.part
BY RtrAssumption DEF rtr_new, Good, SessionOK, Session, Timers, NoAspa, RTR_DEFAULT_VERSION

\* RTR_EVNT_CON_CLOSE and RTR_EVNT_RESET_AND_CLOSE drop the lock, if held,
\* together with the records; otherwise they keep both.
LEMMA CloseGood ==
    ASSUME NEW s, Good(s), NEW event
    PROVE  LET q == fsm_close(s, event)
           IN  /\ Good(q) /\ q.lock = 0
               /\ q.state \in {"CLOSED", "NEGOTIATION"} /\ (~CloseResets(s, event) => Same(s, q))
               /\ q.min = s.min
<1> DEFINE x == IF CloseResets(s, event) THEN [rtr_reset_cache(s) EXCEPT !.lock = 0] ELSE s
           q == fsm_close(s, event)
<1>1. x \in Session /\ x.lock = 0 /\ x.min = s.min /\ (x.part => x.late /\ "Active" \notin x.timers)
  <2>1. CASE CloseResets(s, event)
    BY Zenon, <2>1, LockValues DEF rtr_reset_cache, Good, Session, Timers, NoAspa
  <2>2. CASE ~CloseResets(s, event)
    BY <2>2 DEF CloseResets, Good, SessionOK, Session
  <2> QED
    BY <2>1, <2>2
<1>2. ~CloseResets(s, event) => x = s
  OBVIOUS
<1>3. q = [x EXCEPT !.timers = @ \cup {"Retry"}, !.open = FALSE,
                    !.state = IF @ = "NEGOTIATION" THEN @ ELSE "CLOSED"]
  BY <1>1 DEF fsm_close, timer_set, Session
<1> HIDE DEF x, q
<1>4. x.timers \cup {"Retry"} \in SUBSET Timers
  BY <1>1 DEF Session, Timers
<1>5. /\ q \in Session /\ q.lock = 0 /\ q.state \in {"CLOSED", "NEGOTIATION"}
      /\ q.min = x.min /\ Same(x, q) /\ q.timers = x.timers \cup {"Retry"}
      /\ q.open = FALSE
  BY ZenonT(30), <1>1, <1>3, <1>4 DEF Session, Same
<1>6. SessionOK(q)
  BY <1>1, <1>5 DEF SessionOK, Same
<1> QED
  BY <1>1, <1>2, <1>5, <1>6 DEF Good, q

\* RTR_EVNT_SEND_ERROR keeps the lock and drops the records.
LEMMA ErrorGood ==
    ASSUME NEW s, Good(s)
    PROVE  Good(fsm_send_error(s)) /\ fsm_send_error(s).lock = s.lock
BY Zenon DEF fsm_send_error, rtr_reset_cache, Good, SessionOK, Session, Timers, NoAspa

\* rtr_reset_cache() keeps the lock.
LEMMA ResetGood ==
    ASSUME NEW s, Good(s)
    PROVE  Good(rtr_reset_cache(s)) /\ rtr_reset_cache(s).lock = s.lock
BY ZenonT(30) DEF rtr_reset_cache, Good, SessionOK, Session, Timers, NoAspa

\* A timer other than the activity timer is started.
LEMMA SetRetryGood ==
    ASSUME NEW s, Good(s), s.state = "ESTABLISHED"
    PROVE  Good(timer_set(s, "Retry")) /\ timer_set(s, "Retry").lock = s.lock
BY DEF timer_set, Good, SessionOK, Session, Timers

\* RTR_EVNT_CACHE_RESPONSE takes the lock.
LEMMA ResponseGood ==
    ASSUME NEW s, Good(s), s.state = "ESTABLISHED"
    PROVE  Good(fsm_cache_response(s)) /\ fsm_cache_response(s).lock = 1 /\ s.lock = 0
<1> DEFINE q == fsm_cache_response(s)
<1>0. (s.timers \ {"Retry"}) \cup {"Active"} \in SUBSET Timers
  BY DEF Good, Session, Timers
<1>1. q \in Session
  BY Zenon, <1>0, LockValues DEF fsm_cache_response, Good, Session
<1>2. q.lock = 1 /\ q.state = "EXCHANGE" /\ "Active" \in q.timers
  BY DEF fsm_cache_response, Good, Session
<1>3. s.lock = 0
  BY DEF Good, SessionOK, Session
<1> HIDE DEF q
<1>4. SessionOK(q)
  BY <1>2 DEF SessionOK
<1> QED
  BY <1>1, <1>2, <1>3, <1>4 DEF Good, q

\* RTR_EVNT_END_OF_DATA drops it.
LEMMA EndGood ==
    ASSUME NEW s, Good(s)
    PROVE  Good(fsm_end_of_data(s)) /\ fsm_end_of_data(s).lock = 0
<1> DEFINE q == fsm_end_of_data(s)
<1>0. (s.timers \ {"Active"}) \cup {"Expire"} \in SUBSET Timers
  BY DEF Good, Session, Timers
<1>1. q \in Session
  BY Zenon, <1>0, LockValues DEF fsm_end_of_data, Good, Session
<1>2. q.lock = 0 /\ q.state = "ESTABLISHED" /\ q.part = FALSE
  BY DEF fsm_end_of_data, Good, Session
<1> HIDE DEF q
<1>3. SessionOK(q)
  BY <1>2 DEF SessionOK
<1> QED
  BY <1>1, <1>2, <1>3 DEF Good, q

\* RTR_EVNT_NO_DATA, when it answers a query
LEMMA NoDataGood ==
    ASSUME NEW s, Good(s), s.state \in {"NEGOTIATION", "ESTABLISHED"}
    PROVE  Good(fsm_no_data(s)) /\ fsm_no_data(s).lock = s.lock /\ Same(s, fsm_no_data(s))
BY Zenon DEF fsm_no_data, Good, SessionOK, Session, Timers, Same

\* The version may be lowered and the session id learned at any time.
LEMMA HeaderGood ==
    ASSUME NEW s, Good(s), NEW ver \in Versions, NEW sid \in SessIds
    PROVE  /\ Good(Lowered(s, ver)) /\ Good(Header(s, ver))
           /\ Good(Learned(s, sid)) /\ Good(Learned(Header(s, ver), sid))
           /\ Lowered(s, ver).lock = s.lock /\ Header(s, ver).lock = s.lock
           /\ Learned(s, sid).lock = s.lock /\ Learned(Header(s, ver), sid).lock = s.lock
           /\ Same(s, Learned(s, sid)) /\ Same(s, Lowered(s, ver))
           /\ Lowered(s, ver).state = s.state
<1>1. ver \in 0 .. 2
  BY RtrAssumption
<1>2. Good(Lowered(s, ver)) /\ Lowered(s, ver).lock = s.lock
      /\ Same(s, Lowered(s, ver)) /\ Lowered(s, ver).state = s.state
  BY ZenonT(30), <1>1 DEF Lowered, Good, SessionOK, Session, Same
<1>3. Good(Header(s, ver)) /\ Header(s, ver).lock = s.lock
  BY ZenonT(30), <1>1 DEF Header, Lowered, Good, SessionOK, Session
<1>4. ASSUME NEW q, Good(q)
      PROVE  Good(Learned(q, sid)) /\ Learned(q, sid).lock = q.lock /\ Same(q, Learned(q, sid))
  BY <1>4 DEF Learned, Good, SessionOK, Session, Same
<1>5. Good(Learned(Header(s, ver), sid)) /\ Learned(Header(s, ver), sid).lock = s.lock
  BY <1>3, <1>4
<1> QED
  BY <1>2, <1>3, <1>4, <1>5

-----------------------------------------------------------------------------
(***************************************************************************)
(* The ways a handler puts a session back.                                 *)
(***************************************************************************)

\* The table changes only when nobody holds the semaphore.
Held_back == sem' > 0 => table' = table

\* A session without its lock whose records do not change, or are those of an
\* exchange that lost it to the activity timer, needs no rtr_recalc(); nor
\* does one that has the lock.
LEMMA QuietStep ==
    ASSUME Engine, NEW i \in Live(rs), NEW s, Good(s), s.lock = rs[i].lock,
           Same(rs[i], s) \/ s.part, Quietly(i, s), conf' = conf
    PROVE  Engine' /\ Held_back
<1>1. rs' = [rs EXCEPT ![i] = s] /\ sem' = sem /\ table' = table
  BY DEF Quietly
<1>2. rs \in [Ids -> Session \cup {NoSession}] /\ s \in Session /\ SessionOK(s)
      /\ i \in Ids /\ rs[i] \in Session
  BY LiveIsSession DEF Engine, Good, Live
<1>3. /\ rs' \in [Ids -> Session \cup {NoSession}] /\ Live(rs') = Live(rs)
      /\ Cardinality(Held(rs')) = Cardinality(Held(rs)) - rs[i].lock + s.lock
  <2>1. rs' = [rs EXCEPT ![i] = s]
    BY <1>1
  <2> QED
    BY ONLY ZenonT(30), i \in Live(rs), <2>1, <1>2, HeldUpdate
<1>4. Cardinality(Held(rs)) \in Nat /\ s.lock \in 0 .. 1
  BY <1>2, HeldFinite DEF Session
<1>5. sem' = Cardinality(Held(rs'))
  BY <1>1, <1>3, <1>4 DEF Engine
<1>6. \A j \in Live(rs') : SessionOK(rs'[j])
  BY <1>1, <1>2, <1>3 DEF Engine, Live
<1>7. rs'[i] = s /\ i \in Live(rs') /\ \A j \in Live(rs) : j # i => rs'[j] = rs[j]
  BY <1>1, <1>2, <1>3 DEF Live
<1>8. TableFresh'
  <2> SUFFICES ASSUME sem' = 0, \A j \in Live(rs') : ~(rs'[j].part /\ rs'[j].late)
               PROVE  table' = Merged(rs', conf')
    BY DEF TableFresh
  <2>1. s.lock = 0
    BY SMTT(30), <1>3, <1>5, <1>7, NobodyHolds
  <2>2. ~s.part
    BY <2>1, <1>2, <1>7 DEF SessionOK
  <2>3. Same(rs[i], s)
    BY <2>2
  <2>4. \A j \in Live(rs) : ~(rs[j].part /\ rs[j].late)
    BY SMTT(30), <2>3, <1>3, <1>7 DEF Same
  <2>5. table = Merged(rs, conf)
    BY <2>4, <1>1 DEF Engine, TableFresh
  <2>6. Merged(rs', conf) = Merged(rs, conf)
    BY Zenon, <2>3, <1>1, <1>2, MergedSame DEF Same
  <2> QED
    BY <2>5, <2>6, <1>1
<1> QED
  BY Zenon, <1>1, <1>3, <1>5, <1>6, <1>8 DEF Engine, Held_back

\* A session changes in any way, its lock is released or taken with the
\* semaphore, and rtr_recalc() follows.
LEMMA RecalcStep ==
    ASSUME Engine, NEW i \in Live(rs), NEW s, Good(s), sem' = sem - rs[i].lock + s.lock,
           rs' = [rs EXCEPT ![i] = s], rtr_recalc(rs', conf, sem'), conf' = conf
    PROVE  Engine' /\ Held_back
<1>2. rs \in [Ids -> Session \cup {NoSession}] /\ s \in Session /\ SessionOK(s)
      /\ i \in Ids /\ rs[i] \in Session
  BY LiveIsSession DEF Engine, Good, Live
<1>3. /\ rs' \in [Ids -> Session \cup {NoSession}] /\ Live(rs') = Live(rs)
      /\ Cardinality(Held(rs')) = Cardinality(Held(rs)) - rs[i].lock + s.lock
  BY ZenonT(30), <1>2, HeldUpdate
<1>5. sem' = Cardinality(Held(rs')) /\ sem' \in Nat
  BY <1>3, HeldFinite DEF Engine
<1>6. \A j \in Live(rs') : SessionOK(rs'[j])
  BY <1>2, <1>3 DEF Engine, Live
<1>7. (sem' > 0 => table' = table) /\ (~(sem' > 0) => table' = Merged(rs', conf'))
  BY DEF rtr_recalc
<1>8. table' \in Records /\ conf' \in Records
  BY Zenon, <1>3, <1>7, MergedType DEF Engine
<1>9. TableFresh'
  BY <1>5, <1>7 DEF TableFresh
<1> QED
  BY Zenon, <1>3, <1>5, <1>6, <1>7, <1>8, <1>9 DEF Engine, Held_back

\* A session of the engine satisfies its invariant.
LEMMA LiveGood ==
    ASSUME Engine, NEW i \in Live(rs)
    PROVE  /\ Good(rs[i]) /\ rs[i].lock \in 0 .. 1 /\ sem \in Nat /\ i \in Ids
           /\ rs[i] \in Session
<1>1. i \in Ids /\ rs[i] \in Session
  BY LiveIsSession DEF Engine, Live
<1> QED
  BY <1>1, HeldFinite DEF Engine, Good, Session

\* rtr_fsm(CON_CLOSE), rtr_fsm(RESET_AND_CLOSE)
LEMMA CloseStep ==
    ASSUME Engine, NEW i \in Live(rs), NEW event, CloseSession(i, event), conf' = conf
    PROVE  Engine' /\ Held_back
<1>1. Good(rs[i]) /\ rs[i].lock \in 0 .. 1 /\ sem \in Nat
  BY LiveGood
<1>2. Good(fsm_close(rs[i], event)) /\ fsm_close(rs[i], event).lock = 0
      /\ (~CloseResets(rs[i], event) => Same(rs[i], fsm_close(rs[i], event)))
  BY <1>1, CloseGood
<1>3. CASE CloseResets(rs[i], event)
  BY SMTT(30), <1>1, <1>2, <1>3, RecalcStep DEF CloseSession, Recalculated
<1>4. CASE ~CloseResets(rs[i], event)
  <2>1. rs[i].lock = 0
    BY <1>1, <1>4 DEF CloseResets
  <2> QED
    BY SMTT(30), <2>1, <1>2, <1>4, QuietStep DEF CloseSession
<1> QED
  BY <1>3, <1>4

\* rtr_send_error() of a session that changed before
LEMMA SendErrorStep ==
    ASSUME Engine, NEW i \in Live(rs), NEW s, Good(s), s.lock = rs[i].lock,
           SendError(i, s), conf' = conf
    PROVE  Engine' /\ Held_back
<1>1. rs[i].lock \in 0 .. 1 /\ sem \in Nat
  BY LiveGood
<1>2. Good(fsm_send_error(s)) /\ fsm_send_error(s).lock = rs[i].lock
  BY ErrorGood
<1>3. sem' = sem - rs[i].lock + fsm_send_error(s).lock
  BY <1>1, <1>2 DEF SendError
<1>4. /\ rs' = [rs EXCEPT ![i] = fsm_send_error(s)]
      /\ rtr_recalc(rs', conf, sem')
  BY DEF SendError, Recalculated
<1> QED
  BY Zenon, <1>2, <1>3, <1>4, RecalcStep

-----------------------------------------------------------------------------
(***************************************************************************)
(* PDUs.                                                                   *)
(***************************************************************************)

\* rtr_parse_notify()
LEMMA NotifyStep ==
    ASSUME Engine, NEW i \in Live(rs), NEW sid \in SessIds, SerialNotify(i, sid), conf' = conf
    PROVE  Engine' /\ Held_back
<1> DEFINE q == Learned(rs[i], sid)
<1>1. Good(rs[i]) /\ Same(rs[i], rs[i])
  BY LiveGood DEF Same
<1>2. Good(q) /\ q.lock = rs[i].lock /\ Same(rs[i], q)
  <2>1. CASE rs[i].sid = None
    BY <2>1, <1>1 DEF Learned, Good, SessionOK, Session, Same
  <2>2. CASE rs[i].sid # None
    BY <2>2, <1>1 DEF Learned
  <2> QED
    BY <2>1, <2>2
<1>3. Quietly(i, rs[i]) \/ SendError(i, q) \/ Quietly(i, q)
  BY DEF SerialNotify
<1> HIDE DEF q
<1>4. CASE Quietly(i, rs[i])
  BY SMTT(30), <1>1, <1>4, QuietStep
<1>5. CASE SendError(i, q)
  BY SMTT(30), <1>2, <1>5, SendErrorStep
<1>6. CASE Quietly(i, q)
  BY SMTT(30), <1>2, <1>6, QuietStep
<1> QED
  BY <1>3, <1>4, <1>5, <1>6

\* rtr_parse_cache_response(): the semaphore is taken.
LEMMA ResponseStep ==
    ASSUME Engine, NEW i \in Live(rs), NEW sid \in SessIds, NEW ver \in Versions,
           CacheResponse(i, sid, ver), conf' = conf
    PROVE  Engine' /\ Held_back
<1> DEFINE q == Learned(Header(rs[i], ver), sid)
<1>1. Good(rs[i]) /\ rs[i].lock \in 0 .. 1 /\ sem \in Nat /\ rs[i] \in Session
  BY LiveGood
<1>2. Good(q) /\ q.lock = rs[i].lock
  BY <1>1, HeaderGood
<1>3. \/ SendError(i, rs[i])
      \/ SendError(i, q)
      \/ /\ q.state = "ESTABLISHED" /\ sem' = sem + 1 /\ table' = table
         /\ rs' = [rs EXCEPT ![i] = fsm_cache_response(q)]
  BY DEF CacheResponse
<1> HIDE DEF q
<1>4. CASE SendError(i, rs[i])
  BY SMTT(30), <1>1, <1>4, SendErrorStep
<1>5. CASE SendError(i, q)
  BY SMTT(30), <1>2, <1>5, SendErrorStep
<1>6. CASE /\ q.state = "ESTABLISHED" /\ sem' = sem + 1 /\ table' = table
           /\ rs' = [rs EXCEPT ![i] = fsm_cache_response(q)]
  <2> DEFINE s == fsm_cache_response(q)
  <2>1. Good(s) /\ s.lock = 1 /\ rs[i].lock = 0
    BY <1>2, <1>6, ResponseGood
  <2>2. sem' = sem - rs[i].lock + s.lock /\ sem' > 0
    BY <2>1, <1>1, <1>6
  <2>3. rs' = [rs EXCEPT ![i] = s] /\ table' = table
    BY <1>6
  <2> HIDE DEF s
  <2>4. rtr_recalc(rs', conf, sem')
    BY <2>2, <2>3 DEF rtr_recalc
  <2> QED
    BY Zenon, <2>1, <2>2, <2>3, <2>4, RecalcStep
<1> QED
  BY SMTT(30), <1>3, <1>4, <1>5, <1>6

\* rtr_parse_cache_reset()
LEMMA CacheResetStep ==
    ASSUME Engine, NEW i \in Live(rs), NEW ver \in Versions, CacheReset(i, ver), conf' = conf
    PROVE  Engine' /\ Held_back
<1> DEFINE q == Header(rs[i], ver)
           s == timer_set(rtr_reset_cache(q), "Retry")
<1>1. Good(rs[i]) /\ rs[i].lock \in 0 .. 1 /\ sem \in Nat
  BY LiveGood
<1>2. Good(q) /\ q.lock = rs[i].lock
  <2>1. ver \in 0 .. 2
    BY RtrAssumption
  <2> QED
    BY ZenonT(30), <1>1, <2>1 DEF Header, Lowered, Good, SessionOK, Session
<1>3. \/ SendError(i, rs[i])
      \/ SendError(i, q)
      \/ /\ q.state = "ESTABLISHED" /\ sem' = sem /\ rs' = [rs EXCEPT ![i] = s]
         /\ rtr_recalc(rs', conf, sem')
  BY DEF CacheReset, Recalculated
<1> HIDE DEF q
<1>4. ASSUME q.state = "ESTABLISHED" PROVE Good(s) /\ s.lock = rs[i].lock
  <2>1. rtr_reset_cache(q).state = "ESTABLISHED"
    BY <1>2, <1>4 DEF rtr_reset_cache, Good, Session
  <2> QED
    BY <1>2, <2>1, ResetGood, SetRetryGood
<1> HIDE DEF s
<1>5. CASE SendError(i, rs[i])
  BY <1>1, <1>5, SendErrorStep
<1>6. CASE SendError(i, q)
  BY <1>2, <1>6, SendErrorStep
<1>7. CASE /\ q.state = "ESTABLISHED" /\ sem' = sem /\ rs' = [rs EXCEPT ![i] = s]
           /\ rtr_recalc(rs', conf, sem')
  <2>1. sem' = sem - rs[i].lock + s.lock
    BY <1>1, <1>4, <1>7
  <2> QED
    BY Zenon, <1>4, <1>7, <2>1, RecalcStep
<1> QED
  BY SMTT(30), <1>3, <1>5, <1>6, <1>7

\* rtr_parse_ipv4_prefix(), rtr_parse_ipv6_prefix(): records change without a
\* recalculation, in an exchange only.
LEMMA PrefixStep ==
    ASSUME Engine, NEW i \in Live(rs), NEW announce \in BOOLEAN, NEW roa \in Feeds[i].roa,
           Prefix(i, announce, roa), conf' = conf
    PROVE  Engine' /\ Held_back
<1> DEFINE roas == IF announce THEN rs[i].roa \cup {roa} ELSE rs[i].roa \ {roa}
           q == [rs[i] EXCEPT !.roa = roas, !.part = TRUE]
<1>1. Good(rs[i]) /\ rs[i] \in Session /\ i \in Ids
  BY LiveGood
<1>2. SendError(i, rs[i]) \/ (rs[i].state = "EXCHANGE" /\ Quietly(i, q))
  BY DEF Prefix
<1>3. CASE SendError(i, rs[i])
  BY SMTT(30), <1>1, <1>3, SendErrorStep
<1>4. CASE rs[i].state = "EXCHANGE" /\ Quietly(i, q)
  <2>1. roa \in Roas
    BY SMTT(30), <1>1, RtrAssumption
  <2>2. roas \in SUBSET Roas
    BY SMTT(30), <2>1, <1>1 DEF Session
  <2> HIDE DEF roas
  <2>3. q \in Session /\ q.part = TRUE /\ q.lock = rs[i].lock /\ q.state = rs[i].state
        /\ q.timers = rs[i].timers /\ q.late = rs[i].late /\ q.open = rs[i].open
    BY Zenon, <2>2, <1>1 DEF Session
  <2> HIDE DEF q
  <2>4. SessionOK(q)
    BY <2>3, <1>1, <1>4 DEF Good, SessionOK
  <2> QED
    BY SMTT(30), <2>3, <2>4, <1>4, QuietStep DEF Good
<1> QED
  BY <1>2, <1>3, <1>4

\* rtr_parse_aspa()
LEMMA AspaStep ==
    ASSUME Engine, NEW i \in Live(rs), NEW as \in Customers, NEW tas \in Feeds[i].aspa,
           Aspa(i, as, tas), conf' = conf
    PROVE  Engine' /\ Held_back
<1> DEFINE tas0 == IF Cardinality(tas) > MaxSpas THEN {} ELSE tas
           aspa == [rs[i].aspa EXCEPT ![as] = tas0]
           q == [rs[i] EXCEPT !.aspa = aspa, !.part = TRUE]
<1>1. Good(rs[i]) /\ rs[i] \in Session /\ i \in Ids
  BY LiveGood
<1>2. SendError(i, rs[i]) \/ (rs[i].state = "EXCHANGE" /\ Quietly(i, q))
  BY Zenon DEF Aspa
<1>3. CASE SendError(i, rs[i])
  BY <1>1, <1>3, SendErrorStep
<1>4. CASE rs[i].state = "EXCHANGE" /\ Quietly(i, q)
  <2>1. tas \in SUBSET Providers
    BY <1>1, RtrAssumption
  <2>2. aspa \in [Customers -> SUBSET Providers]
    BY Zenon, <2>1, <1>1 DEF Session
  <2> HIDE DEF aspa
  <2>3. q \in Session /\ q.part = TRUE /\ q.lock = rs[i].lock /\ q.state = rs[i].state
        /\ q.timers = rs[i].timers /\ q.late = rs[i].late /\ q.open = rs[i].open
    BY Zenon, <2>2, <1>1 DEF Session
  <2> HIDE DEF q
  <2>4. SessionOK(q)
    BY <2>3, <1>1, <1>4 DEF Good, SessionOK
  <2> QED
    BY <2>3, <2>4, <1>4, QuietStep DEF Good
<1> QED
  BY <1>2, <1>3, <1>4

\* rtr_parse_end_of_data(): the semaphore is released, if held.
LEMMA EndStep ==
    ASSUME Engine, NEW i \in Live(rs), NEW sid \in SessIds, NEW valid \in BOOLEAN,
           EndOfData(i, sid, valid), conf' = conf
    PROVE  Engine' /\ Held_back
<1> DEFINE s == fsm_end_of_data(rs[i])
<1>1. Good(rs[i]) /\ rs[i].lock \in 0 .. 1 /\ sem \in Nat
  BY LiveGood
<1>2. \/ SendError(i, rs[i])
      \/ /\ sem' = sem - rs[i].lock /\ rs' = [rs EXCEPT ![i] = s]
         /\ rtr_recalc(rs', conf, sem')
  BY DEF EndOfData, Recalculated
<1>3. Good(s) /\ s.lock = 0
  BY <1>1, EndGood
<1> HIDE DEF s
<1>4. CASE SendError(i, rs[i])
  BY SMTT(30), <1>1, <1>4, SendErrorStep
<1>5. CASE /\ sem' = sem - rs[i].lock /\ rs' = [rs EXCEPT ![i] = s]
           /\ rtr_recalc(rs', conf, sem')
  <2>1. sem' = sem - rs[i].lock + s.lock
    BY <1>1, <1>3, <1>5
  <2> QED
    BY Zenon, <1>3, <1>5, <2>1, RecalcStep
<1> QED
  BY SMTT(30), <1>2, <1>4, <1>5

\* rtr_parse_error()
LEMMA ErrorReportStep ==
    ASSUME ~NoDataAnytime, Engine, NEW i \in Live(rs), NEW code, NEW ver \in Versions,
           ErrorReport(i, code, ver), conf' = conf
    PROVE  Engine' /\ Held_back
<1> DEFINE q == IF rs[i].state = "NEGOTIATION" /\ code \in {"UNSUPP_PROTOCOL_VERS", "NO_DATA"}
                THEN Lowered(rs[i], ver) ELSE rs[i]
           x == [q EXCEPT !.version = rtr_max_session_version(q)]
<1>1. Good(rs[i]) /\ Same(rs[i], rs[i])
  BY LiveGood DEF Same
<1>2. Good(Lowered(rs[i], ver)) /\ Lowered(rs[i], ver).lock = rs[i].lock
      /\ Same(rs[i], Lowered(rs[i], ver)) /\ Lowered(rs[i], ver).state = rs[i].state
  <2>1. ver \in 0 .. 2
    BY RtrAssumption
  <2> QED
    BY ZenonT(30), <1>1, <2>1 DEF Lowered, Good, SessionOK, Session, Same
<1>3. Good(q) /\ q.lock = rs[i].lock /\ Same(rs[i], q) /\ q.state = rs[i].state
  BY <1>1, <1>2
<1>4. \/ Quietly(i, rs[i])
      \/ rs[i].state \in {"NEGOTIATION", "ESTABLISHED"} /\ Quietly(i, fsm_no_data(q))
      \/ SendError(i, x)
      \/ Quietly(i, q)
      \/ CloseSession(i, "RESET_AND_CLOSE")
  BY DEF ErrorReport
<1> HIDE DEF q
<1>5. CASE Quietly(i, rs[i])
  BY <1>1, <1>5, QuietStep
<1>6. CASE rs[i].state \in {"NEGOTIATION", "ESTABLISHED"} /\ Quietly(i, fsm_no_data(q))
  <2>1. Good(fsm_no_data(q)) /\ fsm_no_data(q).lock = rs[i].lock /\ Same(rs[i], fsm_no_data(q))
    BY SMTT(30), <1>3, <1>6, NoDataGood DEF Same
  <2> QED
    BY SMTT(30), <2>1, <1>6, QuietStep
<1>7. CASE SendError(i, x)
  <2>1. q.min \in 0 .. 2
    BY Zenon, <1>3, RtrAssumption DEF Good, Session
  <2>2. rtr_max_session_version(q) \in 0 .. 2
    BY <2>1 DEF rtr_max_session_version, RTR_DEFAULT_VERSION
  <2>3. Good(x) /\ x.lock = rs[i].lock
    BY <2>2, <1>3 DEF Good, SessionOK, Session
  <2> QED
    BY Zenon, <2>3, <1>7, SendErrorStep
<1>8. CASE Quietly(i, q)
  BY <1>3, <1>8, QuietStep
<1>9. CASE CloseSession(i, "RESET_AND_CLOSE")
  BY <1>9, CloseStep
<1> QED
  BY <1>4, <1>5, <1>6, <1>7, <1>8, <1>9

\* rtr_process_msg()
LEMMA ProcessStep ==
    ASSUME ~NoDataAnytime, Engine, Reading, NEW i \in Ids, rtr_process_msg(i)
    PROVE  Engine' /\ Held_back /\ Reading'
<1>1. i \in Live(rs)
  BY Zenon, RtrAssumption DEF rtr_process_msg, Reading, Polled, Live
<1>2. conf' = conf
  BY ZenonT(30) DEF rtr_process_msg
<1>3. Engine' /\ Held_back
  <2>1. CASE \E sid \in SessIds : SerialNotify(i, sid)
    BY SMTT(30), <2>1, <1>1, <1>2, NotifyStep
  <2>2. CASE \E sid \in SessIds, ver \in Versions : CacheResponse(i, sid, ver)
    BY Zenon, <2>2, <1>1, <1>2, ResponseStep
  <2>3. CASE \E ver \in Versions : CacheReset(i, ver)
    BY <2>3, <1>1, <1>2, CacheResetStep
  <2>4. CASE \E announce \in BOOLEAN, roa \in Feeds[i].roa : Prefix(i, announce, roa)
    BY SMTT(30), <2>4, <1>1, <1>2, PrefixStep
  <2>5. CASE \E as \in Customers, tas \in Feeds[i].aspa : Aspa(i, as, tas)
    BY Zenon, <2>5, <1>1, <1>2, AspaStep
  <2>6. CASE \E sid \in SessIds, valid \in BOOLEAN : EndOfData(i, sid, valid)
    BY <2>6, <1>1, <1>2, EndStep
  <2>7. CASE \E code \in ErrorCodes, ver \in Versions : ErrorReport(i, code, ver)
    BY <2>7, <1>1, <1>2, ErrorReportStep
  <2>8. CASE Garbled(i)
    BY ZenonT(30), <2>8, <1>1, <1>2, LiveGood, SendErrorStep DEF Garbled
  <2> QED
    BY SMTT(30), <2>1, <2>2, <2>3, <2>4, <2>5, <2>6, <2>7, <2>8 DEF rtr_process_msg
<1>4. cur' \in IF rs'[i].state = "ERROR" THEN {i, None} ELSE {None}
  BY DEF rtr_process_msg
<1>5. Reading'
  BY <1>4 DEF Reading
<1> QED
  BY Zenon, <1>3, <1>5

-----------------------------------------------------------------------------
(***************************************************************************)
(* Connections and timers.                                                 *)
(***************************************************************************)

\* Only a session in an exchange or an error holds the lock.
LEMMA Unlocked ==
    ASSUME NEW s, Good(s), s.state \in {"CLOSED", "NEGOTIATION"}
    PROVE  s.lock = 0
  BY DEF Good, SessionOK, Session

\* rtr_open(): a socket may come in any state.
LEMMA OpenStep ==
    ASSUME Engine, toRtr \in Seq(Msg), rtr_open
    PROVE  Engine' /\ Held_back
<1> DEFINE i == Head(toRtr).id
           bad == rs[i].state \notin {"CLOSED", "NEGOTIATION"}
           q == IF bad THEN fsm_close(rs[i], "CON_CLOSE") ELSE rs[i]
           v == rtr_max_session_version(rs[i])
           o == IF q.state = "CLOSED" THEN [q EXCEPT !.version = v, !.prev = v] ELSE q
           s == fsm_open([o EXCEPT !.open = TRUE])
<1>1. i \in Ids
  <2>1. Head(toRtr) \in Msg /\ Head(toRtr).type = "SOCKET"
    <3>1. toRtr # <<>> /\ Head(toRtr).type = "SOCKET"
      BY Zenon DEF rtr_open
    <3> QED
      BY ONLY <3>1, toRtr \in Seq(Msg)
  <2> QED
    BY ZenonT(30), <2>1 DEF Msg
<1>2. CASE rs[i].state = "NONE"
  <2>1. rs' = rs /\ sem' = sem /\ table' = table /\ conf' = conf
    BY <1>2 DEF rtr_open
  <2> QED
    BY <2>1 DEF Engine, Held_back, TableFresh
<1>3. CASE rs[i].state # "NONE"
  <2>1. i \in Live(rs)
    BY SMTT(30), <1>1, <1>3 DEF Live
  <2>2. Good(rs[i]) /\ rs[i].lock \in 0 .. 1 /\ sem \in Nat
    BY SMTT(30), <2>1, LiveGood
  <2>3. /\ rs' = [rs EXCEPT ![i] = s] /\ conf' = conf
        /\ IF bad /\ rs[i].lock = 1
           THEN sem' = sem - 1 /\ rtr_recalc(rs', conf, sem')
           ELSE sem' = sem /\ table' = table
    BY Zenon, <1>3 DEF rtr_open
  <2>4. /\ Good(q) /\ q.lock = 0 /\ q.state \in {"CLOSED", "NEGOTIATION"}
        /\ (~(bad /\ rs[i].lock = 1) => Same(rs[i], q))
    <3>1. CASE bad
      BY ZenonT(30), <3>1, <2>2, CloseGood DEF CloseResets
    <3>2. CASE ~bad
      <4>1. q = rs[i] /\ q.state \in {"CLOSED", "NEGOTIATION"}
        BY Zenon, <3>2
      <4>2. Same(rs[i], q) /\ Good(q)
        BY Zenon, <4>1, <2>2 DEF Same
      <4>3. q.lock = 0
        BY Zenon, <4>1, <4>2, Unlocked
      <4> QED
        BY Zenon, <4>1, <4>2, <4>3
    <3> QED
      BY Zenon, <3>1, <3>2
  <2>5. v \in 0 .. 2
    <3>1. rs[i].min \in 0 .. 2
      BY Zenon, <2>2, RtrAssumption DEF Good, Session
    <3> QED
      BY SMTT(30), <3>1 DEF rtr_max_session_version, RTR_DEFAULT_VERSION
  <2> HIDE DEF q, v
  <2>6. Good(o) /\ o.lock = 0 /\ o.state \in {"CLOSED", "NEGOTIATION"} /\ Same(q, o)
    BY ZenonT(30), <2>4, <2>5 DEF Good, SessionOK, Session, Same
  <2> HIDE DEF o
  <2>7. /\ s \in Session /\ s.lock = 0 /\ Same(o, s) /\ s.open = TRUE
        /\ s.state = "NEGOTIATION" /\ s.timers = o.timers \ {"Retry"}
    BY Zenon, <2>6 DEF fsm_open, timer_stop, Good, Session, Same
  <2> HIDE DEF s
  <2>8. Good(s)
    BY <2>6, <2>7 DEF Good, SessionOK, Same
  <2>9. CASE bad /\ rs[i].lock = 1
    <3>1. sem' = sem - rs[i].lock + s.lock /\ rtr_recalc(rs', conf, sem')
      BY SMTT(30), <2>2, <2>3, <2>7, <2>9
    <3> QED
      BY ZenonT(30), <2>1, <2>3, <2>8, <3>1, RecalcStep
  <2>10. CASE ~(bad /\ rs[i].lock = 1)
    <3>1. rs[i].lock = 0
      BY SMTT(30), <2>2, <2>10 DEF Good, SessionOK
    <3>2. Same(rs[i], s)
      BY ZenonT(30), <2>4, <2>6, <2>7, <2>10 DEF Same
    <3>3. Quietly(i, s)
      BY SMTT(30), <2>3, <2>10 DEF Quietly
    <3> QED
      BY ZenonT(30), <2>1, <2>3, <2>7, <2>8, <3>1, <3>2, <3>3, QuietStep
  <2> QED
    BY <2>9, <2>10
<1> QED
  BY <1>2, <1>3

\* rtr_check_events(): the retry timer
LEMMA RetryStep ==
    ASSUME Engine, NEW i \in Ids, TimerRetry(i)
    PROVE  Engine' /\ Held_back
<1> DEFINE q == timer_stop(rs[i], "Retry")
<1>1. i \in Live(rs) /\ conf' = conf
  BY DEF TimerRetry, Fires, Live
<1>2. Good(rs[i]) /\ Same(rs[i], rs[i])
  BY SMTT(30), <1>1, LiveGood DEF Same
<1>3. \/ CloseSession(i, "CON_CLOSE")
      \/ Quietly(i, rs[i])
      \/ rs[i].state \in {"ESTABLISHED", "EXCHANGE"} /\ Quietly(i, q)
  BY DEF TimerRetry
<1>4. CASE CloseSession(i, "CON_CLOSE")
  BY SMTT(30), <1>1, <1>4, CloseStep
<1>5. CASE Quietly(i, rs[i])
  BY Zenon, <1>1, <1>2, <1>5, QuietStep
<1>6. CASE rs[i].state \in {"ESTABLISHED", "EXCHANGE"} /\ Quietly(i, q)
  <2>1. /\ q \in Session /\ q.lock = rs[i].lock /\ Same(rs[i], q) /\ q.state = rs[i].state
        /\ q.timers = rs[i].timers \ {"Retry"}
    BY Zenon, <1>2 DEF timer_stop, Good, Session, Same
  <2> HIDE DEF q
  <2>2. SessionOK(q)
    BY SMTT(30), <2>1, <1>2, <1>6 DEF Good, SessionOK, Same
  <2> QED
    BY SMTT(30), <2>1, <2>2, <1>1, <1>6, QuietStep DEF Good
<1> QED
  BY SMTT(30), <1>3, <1>4, <1>5, <1>6

\* The expire timer
LEMMA ExpireStep ==
    ASSUME Engine, NEW i \in Ids, TimerExpire(i)
    PROVE  Engine' /\ Held_back
<1> DEFINE s == rtr_reset_cache(rs[i])
<1>1. i \in Live(rs) /\ conf' = conf
  BY DEF TimerExpire, Fires, Live
<1>2. Good(rs[i]) /\ rs[i].lock \in 0 .. 1 /\ sem \in Nat
  BY <1>1, LiveGood
<1>3. Good(s) /\ s.lock = rs[i].lock
  BY <1>2, ResetGood
<1>4. sem' = sem /\ rs' = [rs EXCEPT ![i] = s] /\ rtr_recalc(rs', conf, sem')
  BY DEF TimerExpire, Recalculated
<1> HIDE DEF s
<1>5. sem' = sem - rs[i].lock + s.lock
  BY SMTT(30), <1>2, <1>3, <1>4
<1> QED
  BY Zenon, <1>1, <1>3, <1>4, <1>5, RecalcStep

\* The activity timer takes the lock away and remembers it.
LEMMA ActiveStep ==
    ASSUME Engine, NEW i \in Ids, TimerActive(i)
    PROVE  Engine' /\ Held_back
<1> DEFINE s == [timer_stop(rs[i], "Active") EXCEPT !.lock = 0,
                                                  !.late = rs[i].state = "EXCHANGE"]
<1>1. i \in Live(rs) /\ conf' = conf /\ "Active" \in rs[i].timers
  BY DEF TimerActive, Fires, Live
<1>2. Good(rs[i]) /\ rs[i].lock \in 0 .. 1 /\ sem \in Nat
  BY <1>1, LiveGood
<1>3. /\ s.lock = 0 /\ s.state = rs[i].state /\ s.part = rs[i].part /\ s.open = rs[i].open
      /\ s.late = (rs[i].state = "EXCHANGE") /\ s.timers = rs[i].timers \ {"Active"}
  BY <1>2 DEF timer_stop, Good, Session
<1>4. s \in Session
  <2>1. (rs[i].state = "EXCHANGE") \in BOOLEAN /\ rs[i].timers \ {"Active"} \in SUBSET Timers
    BY <1>2 DEF Good, Session
  <2> QED
    BY Zenon, <2>1, <1>2, LockValues DEF timer_stop, Good, Session
<1>5. sem' = sem - rs[i].lock /\ rs' = [rs EXCEPT ![i] = s] /\ rtr_recalc(rs', conf, sem')
  BY DEF TimerActive, Recalculated
<1> HIDE DEF s
<1>6. rs[i].part => rs[i].state = "EXCHANGE"
  BY <1>1, <1>2 DEF Good, SessionOK, Session
<1>7. Good(s)
  <2>1. (s.part \/ s.state = "EXCHANGE" => s.late) /\ "Active" \notin s.timers
    BY Zenon, <1>3, <1>6
  <2>2. s.state = "ERROR" => ~s.part
    BY SMTT(30), <1>2, <1>3 DEF Good, SessionOK
  <2>3. s.state \in {"CLOSED", "NEGOTIATION"} =>
            IF s.open THEN s.state = "NEGOTIATION" /\ "Retry" \notin s.timers
            ELSE "Retry" \in s.timers
    BY <1>2, <1>3 DEF Good, SessionOK
  <2> QED
    BY SMTT(30), <2>1, <2>2, <2>3, <1>3, <1>4, LockValues DEF Good, SessionOK
<1>8. sem' = sem - rs[i].lock + s.lock
  BY <1>2, <1>3, <1>5
<1> QED
  BY Zenon, <1>1, <1>5, <1>7, <1>8, RecalcStep

-----------------------------------------------------------------------------
(***************************************************************************)
(* The configuration.                                                      *)
(***************************************************************************)

\* rtr_expire_roas(), rtr_expire_aspa()
LEMMA ExpireStaticStep ==
    ASSUME Engine, ExpireStatic
    PROVE  Engine' /\ Held_back
<1>1. /\ rs' = rs /\ sem' = sem /\ conf' \in Records
      /\ rtr_recalc(rs, conf', sem)
  BY RtrAssumption DEF ExpireStatic
<1>2. sem \in Nat
  BY HeldFinite DEF Engine
<1>3. (sem > 0 => table' = table) /\ (~(sem > 0) => table' = Merged(rs, conf'))
  BY <1>1 DEF rtr_recalc
<1>4. table' \in Records
  BY SMTT(30), <1>1, <1>3, MergedType DEF Engine
<1>5. TableFresh'
  BY SMTT(30), <1>1, <1>2, <1>3 DEF TableFresh
<1> QED
  BY Zenon, <1>1, <1>3, <1>4, <1>5 DEF Engine, Held_back

\* IMSG_RECONF_CONF and what follows it: no session changes its records or
\* its lock, and new ones have neither.
LEMMA RecvConfStep ==
    ASSUME Engine, toRtr \in Seq(Msg), RecvConf
    PROVE  Engine' /\ Held_back
<1> DEFINE m == Head(toRtr)
           wanted == DOMAIN m.rtrs
           new == wanted \ Live(rs)
<1>1. wanted \in SUBSET Ids /\ m.rtrs \in [wanted -> MinVersions]
  <2>0. toRtr # <<>> /\ m.type = "CONF"
    BY Zenon DEF RecvConf
  <2>1. m \in Msg /\ m.type = "CONF"
    BY ONLY <2>0, toRtr \in Seq(Msg)
  <2> HIDE DEF m
  <2>2. m.rtrs \in UNION {[s -> MinVersions] : s \in SUBSET Ids}
    <3>1. m \notin [type : {"SOCKET"}, id : Ids] /\ m \notin [type : {"DONE"}]
      BY <2>1
    <3> QED
      BY <2>1, <3>1 DEF Msg
  <2>3. PICK s \in SUBSET Ids : m.rtrs \in [s -> MinVersions]
    BY Zenon, <2>2
  <2> QED
    BY SMTT(30), <2>3
<1>2. /\ rs' = [i \in Ids |->
                    IF i \in new THEN rtr_new(m.rtrs[i])
                    ELSE IF i \in wanted
                    THEN [rs[i] EXCEPT !.min = m.rtrs[i], !.delete = FALSE]
                    ELSE IF i \in Live(rs) THEN [rs[i] EXCEPT !.delete = TRUE]
                    ELSE rs[i]]
      /\ sem' = sem /\ conf' = conf /\ table' = table
  BY Zenon DEF RecvConf
<1> HIDE DEF m
<1>3. rs \in [Ids -> Session \cup {NoSession}]
  BY DEF Engine
<1>4. ASSUME NEW i \in new
      PROVE  /\ Good(rs'[i]) /\ rs'[i].lock = 0 /\ rs'[i].roa = {} /\ rs'[i].aspa = NoAspa
             /\ ~rs'[i].part
  <2>1. rs'[i] = rtr_new(m.rtrs[i]) /\ m.rtrs[i] \in MinVersions
    BY Zenon, <1>1, <1>2
  <2> QED
    BY SMTT(30), <2>1, NewGood
<1>5. ASSUME NEW i \in Live(rs)
      PROVE  Good(rs'[i]) /\ rs'[i].lock = rs[i].lock /\ Same(rs[i], rs'[i])
  <2>1. Good(rs[i]) /\ i \in Ids
    BY SMTT(30), LiveGood
  <2>2. CASE i \in wanted
    <3>1. m.rtrs[i] \in MinVersions
      BY <1>1, <2>2
    <3>2. rs'[i] = [rs[i] EXCEPT !.min = m.rtrs[i], !.delete = FALSE]
      BY Zenon, <1>2, <2>1, <2>2
    <3> QED
      BY ZenonT(30), <2>1, <3>1, <3>2 DEF Good, SessionOK, Session, Same
  <2>3. CASE i \notin wanted
    <3>1. rs'[i] = [rs[i] EXCEPT !.delete = TRUE]
      BY Zenon, <1>2, <2>1, <2>3
    <3> QED
      BY ZenonT(30), <2>1, <3>1 DEF Good, SessionOK, Session, Same
  <2> QED
    BY SMTT(30), <2>2, <2>3
<1>6. ASSUME NEW i \in Ids, i \notin new, i \notin Live(rs)
      PROVE  rs'[i] = rs[i] /\ rs[i] = NoSession
  BY Zenon, <1>2, <1>3, <1>6, LiveIsSession DEF Live
<1>7. rs' \in [Ids -> Session \cup {NoSession}]
  <2>1. \A i \in Ids : rs'[i] \in Session \cup {NoSession}
    BY SMTT(30), <1>4, <1>5, <1>6 DEF Good
  <2>2. rs' = [i \in Ids |-> rs'[i]]
    BY Zenon, <1>2
  <2> QED
    BY SMTT(30), <2>1, <2>2
<1>8. Live(rs') = Live(rs) \cup new
  <2>1. \A i \in Live(rs) \cup new : i \in Ids /\ rs'[i] \in Session
    BY SMTT(30), <1>1, <1>4, <1>5 DEF Good, Live
  <2>2. \A i \in Ids : i \notin Live(rs) \cup new => rs'[i].state = "NONE"
    BY <1>6 DEF NoSession
  <2>3. \A i \in Ids : i \in Live(rs') <=> rs'[i] \in Session
    BY <1>7, LiveIsSession
  <2>4. \A i \in Live(rs') : i \in Ids /\ rs'[i].state # "NONE"
    BY DEF Live
  <2> QED
    BY Zenon, <2>1, <2>2, <2>3, <2>4
<1>9. Held(rs') = Held(rs)
  BY SMTT(30), <1>4, <1>5, <1>8 DEF Held
<1>10. \A i \in Live(rs') : SessionOK(rs'[i])
  BY SMTT(30), <1>4, <1>5, <1>8 DEF Good
<1>11. Merged(rs', conf) = Merged(rs, conf)
  <2>1. UNION {rs'[i].roa : i \in Live(rs')} = UNION {rs[i].roa : i \in Live(rs)}
    <3>1. \A i \in Live(rs) : rs'[i].roa = rs[i].roa
      BY <1>5 DEF Same
    <3>2. \A i \in new : rs'[i].roa = {}
      BY SMTT(30), <1>4
    <3> QED
      BY SMTT(30), <3>1, <3>2, <1>8
  <2>2. ASSUME NEW a \in Customers
        PROVE  UNION {rs'[i].aspa[a] : i \in Live(rs')} = UNION {rs[i].aspa[a] : i \in Live(rs)}
    <3>1. \A i \in Live(rs) : rs'[i].aspa[a] = rs[i].aspa[a]
      BY <1>5 DEF Same
    <3>2. \A i \in new : rs'[i].aspa[a] = {}
      BY <1>4 DEF NoAspa
    <3> QED
      BY SMTT(30), <3>1, <3>2, <1>8
  <2>3. rtr_roa_merge(rs', conf) = rtr_roa_merge(rs, conf)
    BY Zenon, <2>1 DEF rtr_roa_merge
  <2>4. rtr_aspa_merge(rs', conf) = rtr_aspa_merge(rs, conf)
    BY Zenon, <2>2 DEF rtr_aspa_merge
  <2> QED
    BY SMTT(30), <2>3, <2>4 DEF Merged
<1>12. TableFresh'
  <2>1. (\A i \in Live(rs') : ~(rs'[i].part /\ rs'[i].late))
        => \A i \in Live(rs) : ~(rs[i].part /\ rs[i].late)
    BY SMTT(30), <1>5, <1>8 DEF Same
  <2> QED
    BY Zenon, <2>1, <1>2, <1>11 DEF Engine, TableFresh
<1> QED
  BY Zenon, <1>2, <1>7, <1>9, <1>10, <1>12 DEF Engine, Held_back

\* IMSG_RECONF_DONE: deleted sessions give their locks back.
LEMMA RecvDoneStep ==
    ASSUME Engine, nconf \in Records, RecvDone
    PROVE  Engine' /\ Held_back
<1> DEFINE gone == {i \in Live(rs) : rs[i].delete}
           held == {i \in gone : rs[i].lock = 1}
<1>1. /\ rs' = [i \in Ids |-> IF i \in gone THEN NoSession ELSE rs[i]]
      /\ sem' = sem - Cardinality(held) /\ conf' = nconf
      /\ rtr_recalc(rs', nconf, sem')
  BY DEF RecvDone
<1>2. rs \in [Ids -> Session \cup {NoSession}]
  BY DEF Engine
<1>3. rs' \in [Ids -> Session \cup {NoSession}]
  BY SMTT(30), <1>1, <1>2
<1>4. Live(rs') = Live(rs) \ gone /\ \A i \in Live(rs') : rs'[i] = rs[i]
  BY <1>1 DEF Live, NoSession
<1> HIDE DEF gone
<1>5. gone \subseteq Live(rs)
  BY DEF gone
<1>6. Held(rs') = Held(rs) \ held /\ Held(rs) \cap held = held
  BY SMTT(30), <1>4, <1>5 DEF Held
<1> HIDE DEF held
<1>7. sem' = Cardinality(Held(rs')) /\ sem' \in Nat
  <2>1. Cardinality(Held(rs) \ held) = Cardinality(Held(rs)) - Cardinality(Held(rs) \cap held)
    BY Zenon, HeldFinite, FS_Difference
  <2> QED
    BY Zenon, <2>1, <1>1, <1>6, HeldFinite DEF Engine
<1>8. \A i \in Live(rs') : SessionOK(rs'[i])
  BY <1>4 DEF Engine
<1>9. (sem' > 0 => table' = table) /\ (~(sem' > 0) => table' = Merged(rs', conf'))
  BY <1>1 DEF rtr_recalc
<1>10. table' \in Records /\ conf' \in Records
  BY SMTT(30), <1>1, <1>3, <1>9, MergedType DEF Engine
<1>11. TableFresh'
  BY <1>7, <1>9 DEF TableFresh
<1> QED
  BY SMTT(30), <1>3, <1>7, <1>8, <1>9, <1>10, <1>11 DEF Engine, Held_back

-----------------------------------------------------------------------------
(***************************************************************************)
(* The pipe from the parent.                                               *)
(***************************************************************************)

\* Reading the first message of a pipe
LEMMA TailOf ==
    ASSUME NEW q \in Seq(Msg), q # <<>>
    PROVE  /\ Tail(q) \in Seq(Msg) /\ Len(q) > 0 /\ Head(q) = q[1] /\ Head(q) \in Msg
           /\ \A k \in 1 .. Len(Tail(q)) : k + 1 \in 1 .. Len(q) /\ Tail(q)[k] = q[k + 1]
OBVIOUS

\* Adding a message that is no IMSG_RECONF_DONE
LEMMA AppendKeeps ==
    ASSUME Pipe, NEW m \in Msg, m.type # "DONE", toRtr' = Append(toRtr, m), nconf' = nconf,
           main' \in [rtrs : SUBSET Ids, used : SUBSET Ids, phase : {"idle", "sent", "done"},
                      reloads : 0 .. MaxReloads, connect : [Ids -> Nat]],
           main.phase = "done" => main'.phase = "done"
    PROVE  Pipe'
<1>1. toRtr \in Seq(Msg) /\ nconf \in Records \cup {None}
  BY DEF Pipe
<1>2. /\ toRtr' \in Seq(Msg) /\ Len(toRtr') = Len(toRtr) + 1
      /\ \A k \in 1 .. Len(toRtr') :
            toRtr'[k].type = "DONE" => k \in 1 .. Len(toRtr) /\ toRtr[k].type = "DONE"
  BY SMTT(30), <1>1
<1> QED
  BY SMTT(30), <1>1, <1>2 DEF Pipe

\* Reading a message that is no IMSG_RECONF_DONE
LEMMA TailKeeps ==
    ASSUME Pipe, toRtr # <<>>, toRtr' = Tail(toRtr), main' = main,
           nconf' \in Records \cup {None}, nconf # None => nconf' # None
    PROVE  Pipe'
<1>1. toRtr \in Seq(Msg)
  BY DEF Pipe
<1>2. /\ toRtr' \in Seq(Msg)
      /\ \A k \in 1 .. Len(toRtr') : k + 1 \in 1 .. Len(toRtr) /\ toRtr'[k] = toRtr[k + 1]
  BY SMTT(30), <1>1, TailOf
<1>3. ASSUME NEW k \in 1 .. Len(toRtr'), toRtr'[k].type = "DONE"
      PROVE  /\ main'.phase = "done" /\ nconf' # None
             /\ \A l \in 1 .. Len(toRtr') : toRtr'[l].type = "DONE" => l = k
  <2>1. k + 1 \in 1 .. Len(toRtr) /\ toRtr[k + 1].type = "DONE"
    BY SMTT(30), <1>2, <1>3
  <2>2. /\ main.phase = "done" /\ nconf # None
        /\ \A l \in 1 .. Len(toRtr) : toRtr[l].type = "DONE" => l = k + 1
    BY <2>1 DEF Pipe
  <2> QED
    BY SMTT(30), <1>2, <2>2
<1> QED
  BY SMTT(30), <1>2, <1>3 DEF Pipe

\* IMSG_RECONF_DONE completes a configuration and is the only one on its way.
LEMMA DonePipe ==
    ASSUME Pipe, RecvDone
    PROVE  nconf \in Records /\ Pipe'
<1>1. /\ toRtr # <<>> /\ Head(toRtr).type = "DONE" /\ toRtr' = Tail(toRtr) /\ nconf' = None
      /\ main' = [main EXCEPT !.phase = "idle"]
  BY DEF RecvDone
<1>2. toRtr \in Seq(Msg) /\ nconf \in Records \cup {None}
  BY DEF Pipe
<1>3. /\ toRtr' \in Seq(Msg) /\ 1 \in 1 .. Len(toRtr) /\ toRtr[1].type = "DONE"
      /\ \A k \in 1 .. Len(toRtr') : k + 1 \in 1 .. Len(toRtr) /\ toRtr'[k] = toRtr[k + 1]
  BY <1>1, <1>2, TailOf
<1>4. nconf # None /\ \A l \in 1 .. Len(toRtr) : toRtr[l].type = "DONE" => l = 1
  BY <1>3 DEF Pipe
<1>5. \A k \in 1 .. Len(toRtr') : toRtr'[k].type # "DONE"
  BY <1>3, <1>4
<1>6. main' \in [rtrs : SUBSET Ids, used : SUBSET Ids, phase : {"idle", "sent", "done"},
                 reloads : 0 .. MaxReloads, connect : [Ids -> Nat]]
  BY Zenon, <1>1 DEF Pipe
<1> QED
  BY Zenon, <1>1, <1>2, <1>3, <1>4, <1>5, <1>6 DEF Pipe

\* Counting a pending connection up or down
LEMMA ConnectType ==
    ASSUME NEW q \in [rtrs : SUBSET Ids, used : SUBSET Ids, phase : {"idle", "sent", "done"},
                      reloads : 0 .. MaxReloads, connect : [Ids -> Nat]],
           NEW i \in Ids, NEW n \in Nat
    PROVE  /\ [q EXCEPT !.connect[i] = n]
                \in [rtrs : SUBSET Ids, used : SUBSET Ids, phase : {"idle", "sent", "done"},
                     reloads : 0 .. MaxReloads, connect : [Ids -> Nat]]
           /\ [q EXCEPT !.connect[i] = n].phase = q.phase
<1> DEFINE f == [q.connect EXCEPT ![i] = n]
<1>1. f \in [Ids -> Nat]
  OBVIOUS
<1>2. [q EXCEPT !.connect[i] = n] = [q EXCEPT !.connect = f]
  OBVIOUS
<1> HIDE DEF f
<1> QED
  BY <1>1, <1>2

\* The parent's steps and the engine's reading of its messages
LEMMA PipeStep ==
    ASSUME Pipe, Next
    PROVE  Pipe'
<1> DEFINE M == [rtrs : SUBSET Ids, used : SUBSET Ids, phase : {"idle", "sent", "done"},
                 reloads : 0 .. MaxReloads, connect : [Ids -> Nat]]
<1>0. /\ toRtr \in Seq(Msg) /\ nconf \in Records \cup {None} /\ main \in M
  BY DEF Pipe
<1>1. CASE UNCHANGED <<nconf, toRtr, main>>
  BY SMTT(30), <1>1 DEF Pipe
<1>2. CASE rtr_open
  <2>1. toRtr # <<>> /\ toRtr' = Tail(toRtr) /\ main' = main /\ nconf' = nconf
    BY Zenon, <1>2 DEF rtr_open
  <2> QED
    BY Zenon, <1>0, <2>1, TailKeeps
<1>3. CASE RecvConf
  <2>1. /\ toRtr # <<>> /\ toRtr' = Tail(toRtr) /\ Head(toRtr).type = "CONF"
        /\ nconf' = Head(toRtr).recs /\ main' = main
    BY Zenon, <1>3 DEF RecvConf
  <2>2. Head(toRtr) \in Msg
    BY SMTT(30), <1>0, <2>1, TailOf
  <2>3. nconf' \in StaticConfs
    BY SMTT(30), <2>1, <2>2 DEF Msg
  <2>4. nconf' \in Records /\ nconf' # None
    BY <2>3, RtrAssumption
  <2> QED
    BY SMTT(30), <2>1, <2>4, TailKeeps
<1>4. CASE RecvDone
  BY <1>4, DonePipe
<1>5. CASE Reload
  <2>1. PICK ids \in SUBSET (main.rtrs \cup (Ids \ main.used)), c \in StaticConfs :
             \E min \in [ids -> MinVersions] :
                /\ toRtr' = Append(toRtr, [type |-> "CONF", rtrs |-> min, recs |-> c])
                /\ main' = [main EXCEPT !.rtrs = ids, !.used = @ \cup ids,
                                        !.phase = "sent", !.reloads = @ + 1]
    BY Zenon, <1>5 DEF Reload
  <2>2. PICK min \in [ids -> MinVersions] :
                /\ toRtr' = Append(toRtr, [type |-> "CONF", rtrs |-> min, recs |-> c])
                /\ main' = [main EXCEPT !.rtrs = ids, !.used = @ \cup ids,
                                        !.phase = "sent", !.reloads = @ + 1]
    BY Zenon, <2>1
  <2>3. ids \in SUBSET Ids
    BY <1>0
  <2>4. main' \in M
    <3>1. main.reloads < MaxReloads
      BY <1>5 DEF Reload
    <3>2. main.reloads + 1 \in 0 .. MaxReloads
      BY SMTT(30), <1>0, <3>1, RtrAssumption
    <3>3. main.used \cup ids \in SUBSET Ids
      BY SMTT(30), <1>0, <2>3
    <3> QED
      BY Zenon, <1>0, <2>2, <2>3, <3>2, <3>3
  <2>5. [type |-> "CONF", rtrs |-> min, recs |-> c] \in Msg
    BY <2>3 DEF Msg
  <2>6. main.phase = "idle" /\ nconf' = nconf
    BY <1>5 DEF Reload
  <2> QED
    BY SMTT(30), <2>2, <2>4, <2>5, <2>6, AppendKeeps
<1>6. CASE ReloadDone
  <2>1. /\ main.phase = "sent" /\ nconf # None /\ toRtr' = Append(toRtr, [type |-> "DONE"])
        /\ main' = [main EXCEPT !.phase = "done"] /\ nconf' = nconf
    BY <1>6 DEF ReloadDone
  <2>2. \A k \in 1 .. Len(toRtr) : toRtr[k].type # "DONE"
    BY <2>1 DEF Pipe
  <2>3. [type |-> "DONE"] \in Msg
    BY DEF Msg
  <2>4. toRtr' \in Seq(Msg) /\ Len(toRtr') = Len(toRtr) + 1
        /\ \A k \in 1 .. Len(toRtr') : toRtr'[k].type = "DONE" => k = Len(toRtr) + 1
    BY <1>0, <2>1, <2>2, <2>3
  <2>5. main' \in M /\ main'.phase = "done"
    BY Zenon, <1>0, <2>1
  <2> QED
    BY ZenonT(30), <1>0, <2>1, <2>4, <2>5 DEF Pipe
<1>7. ASSUME NEW i \in main.rtrs, NEW m \in M, Connected(i, m), nconf' = nconf,
             m.phase = main.phase
      PROVE  Pipe'
  <2>1. imsg("SOCKET", i) \in Msg /\ imsg("SOCKET", i).type # "DONE"
    BY Zenon, <1>0 DEF imsg, Msg
  <2> QED
    BY <1>7, <2>1, AppendKeeps DEF Connected
<1>8. ASSUME NEW m \in M, main' = m, toRtr' = toRtr, nconf' = nconf, m.phase = main.phase
      PROVE  Pipe'
  BY <1>0, <1>8 DEF Pipe
<1>9. CASE bgpd_rtr_conn_setup
  <2> DEFINE i == Head(toMain)
             m == [main EXCEPT !.connect[i] = @ + 1]
  <2>1. nconf' = nconf
    BY <1>9 DEF bgpd_rtr_conn_setup
  <2>2. \/ UNCHANGED <<toRtr, main>>
        \/ i \in main.rtrs /\ Connected(i, main)
        \/ i \in main.rtrs /\ main' = m /\ toRtr' = toRtr
    BY <1>9 DEF bgpd_rtr_conn_setup
  <2>3. ASSUME i \in main.rtrs PROVE m \in M /\ m.phase = main.phase
    <3>1. i \in Ids /\ main.connect[i] + 1 \in Nat
      BY <1>0, <2>3
    <3> QED
      BY Zenon, <1>0, <3>1, ConnectType
  <2> QED
    BY Zenon, <1>0, <1>1, <1>7, <1>8, <2>1, <2>2, <2>3
<1>10. CASE \E i \in Ids : bgpd_rtr_conn_setup_done(i)
  <2>1. PICK i \in Ids : bgpd_rtr_conn_setup_done(i)
    BY <1>10
  <2> DEFINE m == [main EXCEPT !.connect[i] = @ - 1]
  <2>2. /\ main.connect[i] > 0 /\ nconf' = nconf
        /\ (main' = m /\ toRtr' = toRtr) \/ (i \in main.rtrs /\ Connected(i, m))
    BY <2>1 DEF bgpd_rtr_conn_setup_done
  <2>3. main.connect[i] - 1 \in Nat
    <3>1. main.connect[i] \in Nat
      BY <1>0
    <3> QED
      BY <2>2, <3>1
  <2>4. m \in M /\ m.phase = main.phase
    BY Zenon, <1>0, <2>3, ConnectType
  <2> QED
    BY <1>7, <1>8, <2>2, <2>4
<1>11. CASE \/ ExpireStatic
            \/ \E i \in Ids : \/ Hangup(i) \/ ErrorWritten(i) \/ rtr_process_msg(i)
                               \/ TimerRetry(i) \/ TimerExpire(i) \/ TimerActive(i)
  BY Zenon, <1>1, <1>11 DEF ExpireStatic, Hangup, ErrorWritten, rtr_process_msg, TimerRetry,
                     TimerExpire, TimerActive, Fires
<1> QED
  BY SMTT(30), <1>2, <1>3, <1>4, <1>5, <1>6, <1>9, <1>10, <1>11 DEF Next

-----------------------------------------------------------------------------
(***************************************************************************)
(* The invariant.                                                          *)
(***************************************************************************)

\* The engine is started with the sessions of the first configuration.
LEMMA InitInv == Init => Inv
<1> SUFFICES ASSUME Init PROVE Inv
  OBVIOUS
<1>1. PICK min \in [Boot -> MinVersions] :
           rs = [i \in Ids |-> IF i \in Boot THEN rtr_new(min[i]) ELSE NoSession]
  BY SMTT(30) DEF Init
<1>2. ASSUME NEW i \in Ids
      PROVE  \/ rs[i] = NoSession
             \/ Good(rs[i]) /\ rs[i].lock = 0
  <2>1. CASE i \in Boot
    <3>1. min[i] \in MinVersions /\ rs[i] = rtr_new(min[i])
      BY <1>1, <2>1
    <3> QED
      BY SMTT(30), <3>1, NewGood
  <2>2. CASE i \notin Boot
    BY <1>1, <2>2
  <2> QED
    BY SMTT(30), <2>1, <2>2
<1>3. rs \in [Ids -> Session \cup {NoSession}]
  <2>1. \A i \in Ids : rs[i] \in Session \cup {NoSession}
    BY <1>2 DEF Good
  <2>2. rs = [i \in Ids |-> rs[i]]
    BY <1>1
  <2> QED
    BY SMTT(30), <2>1, <2>2
<1>4. \A i \in Live(rs) : SessionOK(rs[i]) /\ rs[i].lock = 0
  BY SMTT(30), <1>2 DEF Live, Good, NoSession
<1>5. sem = Cardinality(Held(rs))
  <2>1. Held(rs) = {}
    BY <1>4 DEF Held
  <2> QED
    BY Zenon, <2>1, FS_EmptySet DEF Init
<1>6. conf \in Records /\ table \in Records /\ TableFresh
  <2>1. conf \in Records /\ table = Merged(rs, conf)
    BY RtrAssumption DEF Init
  <2> QED
    BY SMTT(30), <2>1, <1>3, MergedType DEF TableFresh
<1>7. Pipe
  <2>1. toRtr \in Seq(Msg) /\ Len(toRtr) = 0
    BY DEF Init
  <2>2. main \in [rtrs : SUBSET Ids, used : SUBSET Ids, phase : {"idle", "sent", "done"},
                  reloads : 0 .. MaxReloads, connect : [Ids -> Nat]]
    BY SMTT(30), RtrAssumption DEF Init
  <2> QED
    BY SMTT(30), <2>1, <2>2 DEF Init, Pipe
<1>8. Reading
  BY DEF Init, Reading
<1> QED
  BY SMTT(30), <1>3, <1>4, <1>5, <1>6, <1>7, <1>8 DEF Inv, Engine

\* A step that leaves the engine's variables alone
LEMMA EngineSame ==
    ASSUME Engine, UNCHANGED <<rs, sem, conf, table>>
    PROVE  Engine' /\ Held_back
BY DEF Engine, TableFresh, Held_back

\* Every step keeps the invariant, and gives the RDE a new table only when
\* nobody holds the semaphore.
LEMMA NextInv ==
    ASSUME ~NoDataAnytime, Inv, [Next]_vars
    PROVE  Inv' /\ Held_back
<1>0. Engine /\ Pipe /\ Reading /\ toRtr \in Seq(Msg)
  BY DEF Inv, Pipe
<1>1. CASE UNCHANGED vars
  <2>1. Engine' /\ Held_back
    BY Zenon, <1>0, <1>1, EngineSame DEF vars
  <2>2. Pipe' /\ Reading'
    BY SMTT(30), <1>0, <1>1 DEF vars, Pipe, Reading
  <2> QED
    BY SMTT(30), <2>1, <2>2 DEF Inv
<1>2. ASSUME Next PROVE Engine' /\ Held_back /\ Reading'
  <2>1. ASSUME Idle, cur' = cur PROVE Reading'
    BY SMTT(30), <1>0, <2>1 DEF Idle, Reading
  <2>2. ASSUME UNCHANGED <<rs, sem, conf, table, cur>>
        PROVE  Engine' /\ Held_back /\ Reading'
    BY SMTT(30), <1>0, <2>2, EngineSame DEF Reading
  <2>3. ASSUME NEW i \in Ids, Hangup(i) \/ ErrorWritten(i)
        PROVE  Engine' /\ Held_back /\ Reading'
    <3>1. i \in Live(rs) /\ CloseSession(i, "CON_CLOSE") /\ conf' = conf
      BY SMTT(30), <2>3 DEF Hangup, ErrorWritten, Polled, Live
    <3>2. Idle /\ cur' = cur
      BY <2>3 DEF Hangup, ErrorWritten
    <3> QED
      BY SMTT(30), <1>0, <2>1, <3>1, <3>2, CloseStep
  <2>4. ASSUME NEW i \in Ids, rtr_process_msg(i)
        PROVE  Engine' /\ Held_back /\ Reading'
    BY SMTT(30), <1>0, <2>4, ProcessStep
  <2>5. ASSUME NEW i \in Ids, TimerRetry(i) \/ TimerExpire(i) \/ TimerActive(i)
        PROVE  Engine' /\ Held_back /\ Reading'
    <3>1. Idle /\ cur' = cur
      BY <2>5 DEF TimerRetry, TimerExpire, TimerActive, Fires
    <3> QED
      BY SMTT(30), <1>0, <2>1, <2>5, <3>1, RetryStep, ExpireStep, ActiveStep
  <2>6. ASSUME NEW i \in Ids, bgpd_rtr_conn_setup_done(i)
        PROVE  Engine' /\ Held_back /\ Reading'
    BY SMTT(30), <2>2, <2>6 DEF bgpd_rtr_conn_setup_done
  <2>7. CASE rtr_open
    <3>1. Idle /\ cur' = cur
      BY Zenon, <2>7 DEF rtr_open
    <3> QED
      BY SMTT(30), <1>0, <2>1, <2>7, <3>1, OpenStep
  <2>8. CASE ExpireStatic
    <3>1. Idle /\ cur' = cur
      BY SMTT(30), <2>8 DEF ExpireStatic
    <3> QED
      BY SMTT(30), <1>0, <2>1, <2>8, <3>1, ExpireStaticStep
  <2>9. CASE RecvConf
    <3>1. Idle /\ cur' = cur
      BY Zenon, <2>9 DEF RecvConf
    <3> QED
      BY <1>0, <2>1, <2>9, <3>1, RecvConfStep
  <2>10. CASE RecvDone
    <3>1. Idle /\ cur' = cur
      BY SMTT(30), <2>10 DEF RecvDone
    <3> QED
      BY SMTT(30), <1>0, <2>1, <2>10, <3>1, DonePipe, RecvDoneStep
  <2>11. CASE Reload \/ ReloadDone \/ bgpd_rtr_conn_setup
    BY Zenon, <2>2, <2>11 DEF Reload, ReloadDone, bgpd_rtr_conn_setup
  <2> QED
    BY SMTT(30), <1>2, <2>3, <2>4, <2>5, <2>6, <2>7, <2>8, <2>9, <2>10, <2>11 DEF Next
<1>3. ASSUME Next PROVE Inv' /\ Held_back
  BY SMTT(30), <1>0, <1>2, <1>3, PipeStep DEF Inv
<1> QED
  BY SMTT(30), <1>1, <1>3

\* A new table is given out with the semaphore at zero.
LEMMA TableStep ==
    ASSUME Engine', Held_back, table' # table
    PROVE  \A i \in Live(rs') : rs'[i].part => rs'[i].late
<1>1. sem' = 0
  BY HeldFinite DEF Engine, Held_back
<1>2. rs' \in [Ids -> Session \cup {NoSession}] /\ Cardinality(Held(rs')) = 0
  BY <1>1 DEF Engine
<1>3. \A i \in Live(rs') : rs'[i].lock = 0 /\ SessionOK(rs'[i])
  BY SMTT(30), <1>2, NobodyHolds DEF Engine
<1> QED
  BY <1>3 DEF SessionOK

\* What the invariant says of the semaphore and of the retry timers
LEMMA InvRight ==
    ASSUME Inv
    PROVE  LockRight /\ TableFresh /\ ClosedRetries
<1>1. sem \in Nat
  BY SMTT(30), HeldFinite DEF Inv, Engine
<1>2. TypeOK
  BY ZenonT(30), <1>1 DEF Inv, Engine, Pipe, Reading, TypeOK
<1>3. SemaphoreBalanced /\ LockTimed /\ ClosedRetries
  BY DEF Inv, Engine, Held, SessionOK, SemaphoreBalanced, LockTimed, ClosedRetries
<1> QED
  BY SMTT(30), <1>2, <1>3 DEF Inv, Engine, LockRight

LEMMA AlwaysInv ==
    ASSUME ~NoDataAnytime
    PROVE  Spec => []Inv
<1>1. Inv /\ [Next]_vars => Inv'
  BY NextInv
<1> QED
  BY InitInv, <1>1, PTL DEF Spec

-----------------------------------------------------------------------------
\* rtr_sem_acquire(), rtr_sem_release(): for any number of caches the
\* semaphore counts the sessions that hold active_lock, it never underflows,
\* and each holder is in an exchange, or waits for its error to be written,
\* with the activity timer running.
THEOREM SemaphoreKept ==
    ASSUME ~NoDataAnytime
    PROVE  Spec => []LockRight
BY AlwaysInv, InvRight, PTL

\* rtr_recalc(): whenever nobody holds the semaphore the RDE has all records
\* of the configuration and of the sessions.
THEOREM TableKept ==
    ASSUME ~NoDataAnytime
    PROVE  Spec => []TableFresh
BY AlwaysInv, InvRight, PTL

\* rtr_recalc(): a table given to the RDE contains no part of an exchange that
\* has not outlasted its activity timer.
THEOREM NothingPartial ==
    ASSUME ~NoDataAnytime
    PROVE  Spec => PartialNotPublished
<1>1. Inv /\ [Next]_vars
      => [table' # table => \A i \in Live(rs') : rs'[i].part => rs'[i].late]_vars
  BY SMTT(30), NextInv, TableStep DEF Inv
<1> QED
  BY AlwaysInv, <1>1, PTL DEF Spec, PartialNotPublished

\* RTR_EVNT_CON_CLOSE: a session without a connection will ask for one.
THEOREM RetryKept ==
    ASSUME ~NoDataAnytime
    PROVE  Spec => []ClosedRetries
BY AlwaysInv, InvRight, PTL

-----------------------------------------------------------------------------
(***************************************************************************)
(* Connections are asked for once.  With a retry interval longer than any  *)
(* connect(), a session asks only when nothing is on its way to it, and a  *)
(* request is at one place at a time: in the pipe to the parent, at the    *)
(* parent, or in the pipe back.                                            *)
(***************************************************************************)

\* What every event but rtr_open() keeps: no connection appears.
Kept(s, q) == q.state # "NONE" /\ q.delete = s.delete /\ (q.open => s.open)

LEMMA CloseKept ==
    ASSUME NEW s \in Session, NEW event
    PROVE  Kept(s, fsm_close(s, event))
BY DEF fsm_close, timer_set, rtr_reset_cache, Session, Kept

LEMMA ErrorKept ==
    ASSUME NEW s \in Session
    PROVE  Kept(s, fsm_send_error(s))
BY DEF fsm_send_error, rtr_reset_cache, Session, Kept

LEMMA ResetKept ==
    ASSUME NEW s \in Session
    PROVE  Kept(s, rtr_reset_cache(s)) /\ Kept(s, timer_set(rtr_reset_cache(s), "Retry"))
BY DEF timer_set, rtr_reset_cache, Session, Kept

LEMMA ExchangeKept ==
    ASSUME NEW s \in Session
    PROVE  /\ Kept(s, fsm_cache_response(s)) /\ Kept(s, fsm_end_of_data(s))
           /\ Kept(s, fsm_no_data(s)) /\ Kept(s, timer_stop(s, "Retry")) /\ Kept(s, s)
BY DEF fsm_cache_response, fsm_end_of_data, fsm_no_data, timer_stop, Session, Kept

LEMMA HeaderKept ==
    ASSUME NEW s \in Session, NEW ver \in Versions, NEW sid \in SessIds
    PROVE  /\ Kept(s, Lowered(s, ver)) /\ Kept(s, Header(s, ver)) /\ Kept(s, Learned(s, sid))
           /\ Lowered(s, ver) \in Session /\ Header(s, ver) \in Session
           /\ Learned(s, sid) \in Session
<1>1. ver \in 0 .. 2
  BY RtrAssumption
<1> QED
  BY ZenonT(30), <1>1 DEF Lowered, Header, Learned, Session, Kept

LEMMA KeptAgain ==
    ASSUME NEW s, NEW q, NEW x, Kept(s, q), Kept(q, x)
    PROVE  Kept(s, x)
BY Zenon DEF Kept

\* rtr_process_msg()
LEMMA ProcessKept ==
    ASSUME NEW i \in Live(rs), rs[i] \in Session, rtr_process_msg(i)
    PROVE  \E q : Kept(rs[i], q) /\ rs' = [rs EXCEPT ![i] = q]
<1> DEFINE s == rs[i]
           Goal == \E q : Kept(s, q) /\ rs' = [rs EXCEPT ![i] = q]
<1>1. ASSUME NEW q, Kept(s, q), Quietly(i, q) PROVE Goal
  BY Zenon, <1>1 DEF Quietly
<1>2. ASSUME NEW q \in Session, Kept(s, q), SendError(i, q) PROVE Goal
  <2>1. Kept(s, fsm_send_error(q))
    BY <1>2, ErrorKept, KeptAgain
  <2> QED
    BY Zenon, <1>2, <2>1 DEF SendError, Recalculated
<1>3. Kept(s, s) /\ s \in Session
  BY ExchangeKept
<1> SUFFICES Goal
  BY Zenon
<1> HIDE DEF Goal, s
<1>4. CASE \E sid \in SessIds : SerialNotify(i, sid)
  <2>1. PICK sid \in SessIds : SerialNotify(i, sid)
    BY <1>4
  <2> DEFINE q == Learned(s, sid)
  <2>2. Kept(s, q) /\ q \in Session
    <3>1. CASE s.sid = None
      BY <1>3, <3>1 DEF Learned, Session, Kept
    <3>2. CASE s.sid # None
      BY Zenon, <3>2, <1>3 DEF Learned
    <3> QED
      BY <3>1, <3>2
  <2>3. Quietly(i, s) \/ SendError(i, q) \/ Quietly(i, q)
    BY <2>1 DEF SerialNotify, s
  <2> QED
    BY SMTT(30), <1>1, <1>2, <1>3, <2>2, <2>3
<1>5. CASE \E sid \in SessIds, ver \in Versions : CacheResponse(i, sid, ver)
  <2>1. PICK sid \in SessIds, ver \in Versions : CacheResponse(i, sid, ver)
    BY SMTT(30), <1>5
  <2> DEFINE h == Header(s, ver)
             q == Learned(h, sid)
  <2>2. Kept(s, h) /\ h \in Session
    BY SMTT(30), <1>3, HeaderKept
  <2>3. Kept(h, q) /\ q \in Session
    <3> HIDE DEF h
    <3> QED
      BY SMTT(30), <2>2, HeaderKept
  <2>4. Kept(s, q)
    BY SMTT(30), <2>2, <2>3, KeptAgain
  <2>5. SendError(i, s) \/ SendError(i, q) \/ rs' = [rs EXCEPT ![i] = fsm_cache_response(q)]
    BY SMTT(30), <2>1 DEF CacheResponse, s
  <2> HIDE DEF q
  <2>6. Kept(s, fsm_cache_response(q))
    BY Zenon, <2>3, <2>4, ExchangeKept, KeptAgain
  <2> QED
    BY SMTT(30), <1>2, <1>3, <2>3, <2>4, <2>5, <2>6 DEF Goal
<1>6. CASE \E ver \in Versions : CacheReset(i, ver)
  <2>1. PICK ver \in Versions : CacheReset(i, ver)
    BY <1>6
  <2> DEFINE q == Header(s, ver)
             x == timer_set(rtr_reset_cache(q), "Retry")
  <2>2. Kept(s, q) /\ q \in Session
    <3>1. ver \in 0 .. 2
      BY RtrAssumption
    <3> QED
      BY ZenonT(30), <1>3, <3>1 DEF Lowered, Header, Session, Kept
  <2>3. SendError(i, s) \/ SendError(i, q) \/ rs' = [rs EXCEPT ![i] = x]
    BY <2>1 DEF CacheReset, Recalculated, s
  <2> HIDE DEF q
  <2>4. Kept(s, x)
    BY <2>2, ResetKept, KeptAgain
  <2> QED
    BY SMTT(30), <1>2, <1>3, <2>2, <2>3, <2>4 DEF Goal
<1>7. CASE \E announce \in BOOLEAN, roa \in Feeds[i].roa : Prefix(i, announce, roa)
  <2>1. PICK announce \in BOOLEAN, roa \in Feeds[i].roa : Prefix(i, announce, roa)
    BY <1>7
  <2> DEFINE q == [s EXCEPT !.roa = IF announce THEN @ \cup {roa} ELSE @ \ {roa},
                            !.part = TRUE]
  <2>2. Kept(s, q)
    BY <1>3 DEF Session, Kept
  <2>3. SendError(i, s) \/ Quietly(i, q)
    BY <2>1 DEF Prefix, s
  <2> QED
    BY ZenonT(30), <1>1, <1>2, <1>3, <2>2, <2>3
<1>8. CASE \E as \in Customers, tas \in Feeds[i].aspa : Aspa(i, as, tas)
  <2>1. PICK as \in Customers, tas \in Feeds[i].aspa : Aspa(i, as, tas)
    BY Zenon, <1>8
  <2> DEFINE tas0 == IF Cardinality(tas) > MaxSpas THEN {} ELSE tas
             q == [s EXCEPT !.aspa[as] = tas0, !.part = TRUE]
  <2>2. Kept(s, q)
    BY <1>3 DEF Session, Kept
  <2>3. SendError(i, s) \/ Quietly(i, q)
    BY Zenon, <2>1 DEF Aspa, s
  <2> QED
    BY SMTT(30), <1>1, <1>2, <1>3, <2>2, <2>3
<1>9. CASE \E sid \in SessIds, valid \in BOOLEAN : EndOfData(i, sid, valid)
  <2>1. SendError(i, s) \/ rs' = [rs EXCEPT ![i] = fsm_end_of_data(s)]
    BY <1>9 DEF EndOfData, Recalculated, s
  <2>2. Kept(s, fsm_end_of_data(s))
    BY SMTT(30), <1>3, ExchangeKept
  <2> QED
    BY SMTT(30), <1>2, <1>3, <2>1, <2>2 DEF Goal
<1>10. CASE \E code \in ErrorCodes, ver \in Versions : ErrorReport(i, code, ver)
  <2>1. PICK code \in ErrorCodes, ver \in Versions : ErrorReport(i, code, ver)
    BY SMTT(30), <1>10
  <2> DEFINE q == IF s.state = "NEGOTIATION" /\ code \in {"UNSUPP_PROTOCOL_VERS", "NO_DATA"}
                  THEN Lowered(s, ver) ELSE s
             x == [q EXCEPT !.version = rtr_max_session_version(q)]
  <2>2. Kept(s, q) /\ q \in Session
    <3>1. ver \in 0 .. 2
      BY RtrAssumption
    <3>2. Kept(s, Lowered(s, ver)) /\ Lowered(s, ver) \in Session
      BY ZenonT(30), <1>3, <3>1 DEF Lowered, Session, Kept
    <3> QED
      BY SMTT(30), <1>3, <3>2
  <2>3. \/ Quietly(i, s) \/ Quietly(i, fsm_no_data(q)) \/ SendError(i, x)
        \/ Quietly(i, q) \/ CloseSession(i, "RESET_AND_CLOSE")
    BY <2>1 DEF ErrorReport, s
  <2> HIDE DEF q
  <2>4. x \in Session /\ Kept(q, x)
    <3>1. q.min \in 0 .. 2
      BY ZenonT(30), <2>2, RtrAssumption DEF Session
    <3>2. rtr_max_session_version(q) \in 0 .. 2
      BY <3>1 DEF rtr_max_session_version, RTR_DEFAULT_VERSION
    <3> QED
      BY <2>2, <3>2 DEF Session, Kept
  <2> HIDE DEF x
  <2>5. Kept(s, x) /\ Kept(s, fsm_no_data(q))
    BY SMTT(30), <2>2, <2>4, ExchangeKept, KeptAgain
  <2>6. CASE CloseSession(i, "RESET_AND_CLOSE")
    BY SMTT(30), <1>3, <2>6, CloseKept DEF CloseSession, Recalculated, Quietly, Goal, s
  <2> QED
    BY SMTT(30), <1>1, <1>2, <1>3, <2>2, <2>3, <2>4, <2>5, <2>6
<1>11. CASE Garbled(i)
  BY SMTT(30), <1>2, <1>3, <1>11 DEF Garbled, s
<1> QED
  BY Zenon, <1>4, <1>5, <1>6, <1>7, <1>8, <1>9, <1>10, <1>11 DEF rtr_process_msg

-----------------------------------------------------------------------------
\* Where the request of session i is: in the pipe q to the parent, or on its
\* way back with a socket.
Asked(q, i) == \E k \in 1 .. Len(q) : q[k] = i
SocketAt(q, k, i) == q[k].type = "SOCKET" /\ q[k].id = i
Sent(q, i) == \E k \in 1 .. Len(q) : SocketAt(q, k, i)

AskedOnce(q, i) == \A k, l \in 1 .. Len(q) : q[k] = i /\ q[l] = i => k = l
SentOnce(q, i) == \A k, l \in 1 .. Len(q) : SocketAt(q, k, i) /\ SocketAt(q, l, i) => k = l

LEMMA PendingIs ==
    ASSUME NEW i \in Ids, toMain \in Seq(Ids), toRtr \in Seq(Msg)
    PROVE  SetupPending(i) <=> main.connect[i] > 0 \/ Asked(toMain, i) \/ Sent(toRtr, i)
BY DEF SetupPending, Asked, Sent, SocketAt

LEMMA AskedTail ==
    ASSUME NEW q \in Seq(Ids), q # <<>>
    PROVE  /\ Tail(q) \in Seq(Ids) /\ Head(q) \in Ids /\ Asked(q, Head(q))
           /\ \A i : Asked(Tail(q), i) => Asked(q, i)
           /\ \A i : AskedOnce(q, i) => AskedOnce(Tail(q), i)
           /\ AskedOnce(q, Head(q)) => ~Asked(Tail(q), Head(q))
<1>1. /\ Tail(q) \in Seq(Ids) /\ 1 \in 1 .. Len(q) /\ Head(q) = q[1] /\ Head(q) \in Ids
      /\ \A k \in 1 .. Len(Tail(q)) : k + 1 \in 1 .. Len(q) /\ Tail(q)[k] = q[k + 1]
  OBVIOUS
<1> DEFINE t == Tail(q)
<1> HIDE DEF t
<1>2. \A k \in 1 .. Len(t) : k \in Int /\ k + 1 # 1
  BY <1>1 DEF t
<1>3. \A k \in 1 .. Len(t) : k + 1 \in 1 .. Len(q) /\ t[k] = q[k + 1]
  BY <1>1 DEF t
<1>4. \A i : Asked(t, i) => Asked(q, i)
  BY <1>3 DEF Asked
<1>5. ASSUME NEW i, AskedOnce(q, i) PROVE AskedOnce(t, i)
  <2> SUFFICES ASSUME NEW k \in 1 .. Len(t), NEW l \in 1 .. Len(t), t[k] = i, t[l] = i
               PROVE  k = l
    BY DEF AskedOnce
  <2>1. q[k + 1] = i /\ q[l + 1] = i /\ k + 1 \in 1 .. Len(q) /\ l + 1 \in 1 .. Len(q)
    BY <1>3
  <2>2. k + 1 = l + 1
    BY SMTT(30), <1>5, <2>1 DEF AskedOnce
  <2> QED
    BY SMTT(30), <1>2, <2>2
<1>6. ASSUME AskedOnce(q, Head(q)) PROVE ~Asked(t, Head(q))
  BY SMTT(30), <1>1, <1>2, <1>3, <1>6 DEF Asked, AskedOnce
<1> QED
  BY SMTT(30), <1>1, <1>4, <1>5, <1>6 DEF Asked, t

LEMMA AskedAppend ==
    ASSUME NEW q \in Seq(Ids), NEW j \in Ids
    PROVE  /\ Append(q, j) \in Seq(Ids)
           /\ \A i : Asked(Append(q, j), i) <=> Asked(q, i) \/ i = j
           /\ \A i : AskedOnce(q, i) /\ (i = j => ~Asked(q, i)) => AskedOnce(Append(q, j), i)
<1>1. /\ Append(q, j) \in Seq(Ids) /\ Len(Append(q, j)) = Len(q) + 1 /\ Len(q) \in Nat
      /\ \A k \in 1 .. Len(q) : Append(q, j)[k] = q[k]
      /\ Append(q, j)[Len(q) + 1] = j
  OBVIOUS
<1> DEFINE t == Append(q, j)
           n == Len(q)
<1>2. /\ Len(t) = n + 1 /\ n \in Nat /\ t[n + 1] = j
      /\ \A k \in 1 .. n : t[k] = q[k]
  BY SMTT(30), <1>1
<1> HIDE DEF t, n
<1>3. \A k : k \in 1 .. Len(t) <=> k \in 1 .. n \/ k = n + 1
  BY <1>2
<1>4. \A i : Asked(t, i) <=> Asked(q, i) \/ i = j
  BY SMTT(30), <1>2, <1>3 DEF Asked, n
<1>5. ASSUME NEW i, AskedOnce(q, i), i = j => ~Asked(q, i) PROVE AskedOnce(t, i)
  BY SMTT(30), <1>2, <1>3, <1>5 DEF Asked, AskedOnce, n
<1> QED
  BY SMTT(30), <1>1, <1>4, <1>5 DEF t

LEMMA SentTail ==
    ASSUME NEW q \in Seq(Msg), q # <<>>
    PROVE  /\ \A i : Sent(Tail(q), i) => Sent(q, i)
           /\ \A i : SentOnce(q, i) => SentOnce(Tail(q), i)
           /\ \A i : Head(q).type = "SOCKET" /\ Head(q).id = i =>
                 Sent(q, i) /\ (SentOnce(q, i) => ~Sent(Tail(q), i))
<1> DEFINE t == Tail(q)
<1>1. /\ t \in Seq(Msg) /\ 1 \in 1 .. Len(q) /\ Head(q) = q[1]
      /\ \A k \in 1 .. Len(t) : k + 1 \in 1 .. Len(q) /\ t[k] = q[k + 1]
  BY TailOf
<1> HIDE DEF t
<1>2. \A k \in 1 .. Len(t) : k \in Int /\ k + 1 # 1
  BY SMTT(30), <1>1
<1>3. \A k \in 1 .. Len(t) : \A i : SocketAt(t, k, i) <=> SocketAt(q, k + 1, i)
  BY <1>1 DEF SocketAt
<1>4. \A i : Sent(t, i) => Sent(q, i)
  BY SMTT(30), <1>1, <1>3 DEF Sent
<1>5. ASSUME NEW i, SentOnce(q, i) PROVE SentOnce(t, i)
  BY SMTT(30), <1>1, <1>2, <1>3, <1>5 DEF SentOnce
<1>6. ASSUME NEW i, Head(q).type = "SOCKET", Head(q).id = i
      PROVE  Sent(q, i) /\ (SentOnce(q, i) => ~Sent(t, i))
  <2>1. SocketAt(q, 1, i)
    BY SMTT(30), <1>1, <1>6 DEF SocketAt
  <2> QED
    BY SMTT(30), <1>1, <1>2, <1>3, <2>1 DEF Sent, SentOnce
<1> QED
  BY SMTT(30), <1>4, <1>5, <1>6 DEF t

LEMMA SentAppend ==
    ASSUME NEW q \in Seq(Msg), NEW m \in Msg
    PROVE  /\ \A i : Sent(Append(q, m), i) <=> Sent(q, i) \/ (m.type = "SOCKET" /\ m.id = i)
           /\ \A i : SentOnce(q, i) /\ (m.type = "SOCKET" /\ m.id = i => ~Sent(q, i))
                     => SentOnce(Append(q, m), i)
<1> DEFINE t == Append(q, m)
           n == Len(q)
<1>1. /\ Len(t) = n + 1 /\ n \in Nat /\ t[n + 1] = m
      /\ \A k \in 1 .. n : t[k] = q[k]
  OBVIOUS
<1> HIDE DEF t, n
<1>2. \A k : k \in 1 .. Len(t) <=> k \in 1 .. n \/ k = n + 1
  BY SMTT(30), <1>1
<1>3. /\ \A k \in 1 .. n : \A i : SocketAt(t, k, i) <=> SocketAt(q, k, i)
      /\ \A i : SocketAt(t, n + 1, i) <=> m.type = "SOCKET" /\ m.id = i
  BY SMTT(30), <1>1 DEF SocketAt
<1>4. \A i : Sent(t, i) <=> Sent(q, i) \/ (m.type = "SOCKET" /\ m.id = i)
  BY ZenonT(30), <1>1, <1>2, <1>3 DEF Sent, n
<1>5. ASSUME NEW i, SentOnce(q, i), m.type = "SOCKET" /\ m.id = i => ~Sent(q, i)
      PROVE  SentOnce(t, i)
  BY SMTT(30), <1>1, <1>2, <1>3, <1>5 DEF Sent, SentOnce, n
<1> QED
  BY SMTT(30), <1>4, <1>5 DEF t

\* The requests of a set of new sessions: one for each, in some order.
LEMMA InOrderOnce ==
    ASSUME NEW S \in SUBSET Ids
    PROVE  /\ InSomeOrder(S) \in Seq(S)
           /\ \A i : AskedOnce(InSomeOrder(S), i) /\ (Asked(InSomeOrder(S), i) => i \in S)
<1>1. IsFiniteSet(S)
  BY SMTT(30), FS_Subset, RtrAssumption
<1> DEFINE n == Cardinality(S)
           D == 1 .. n
<1>2. n \in Nat /\ ExistsBijection(1 .. n, S)
  BY SMTT(30), <1>1, FS_CardinalityType
<1> HIDE DEF n
<1>3. \E f \in [1 .. n -> S] : IsInjective(f)
  BY <1>2 DEF ExistsBijection, Bijection, Injection
<1>4. InSomeOrder(S) = CHOOSE f \in [1 .. n -> S] : IsInjective(f)
  BY DEF InSomeOrder, n
<1>5. InSomeOrder(S) \in [1 .. n -> S] /\ IsInjective(InSomeOrder(S))
  BY SMTT(30), <1>3, <1>4
<1> DEFINE f == InSomeOrder(S)
<1> HIDE DEF f
<1>6. f \in [1 .. n -> S] /\ IsInjective(f)
  BY <1>5 DEF f
<1>7. f \in Seq(S) /\ Len(f) = n
  BY SMTT(30), <1>2, <1>6
<1>8. \A k, l \in 1 .. n : f[k] = f[l] => k = l
  BY SMTT(30), <1>6 DEF IsInjective
<1>9. \A i : AskedOnce(f, i) /\ (Asked(f, i) => i \in S)
  BY SMTT(30), <1>6, <1>7, <1>8 DEF AskedOnce, Asked
<1> QED
  BY SMTT(30), <1>7, <1>9 DEF f

LEMMA AskedMany ==
    ASSUME NEW q \in Seq(Ids), NEW p \in Seq(Ids)
    PROVE  /\ q \o p \in Seq(Ids)
           /\ \A i : Asked(q \o p, i) => Asked(q, i) \/ Asked(p, i)
           /\ \A i : AskedOnce(q, i) /\ AskedOnce(p, i) /\ ~(Asked(q, i) /\ Asked(p, i))
                     => AskedOnce(q \o p, i)
<1> DEFINE t == q \o p
           n == Len(q)
           m == Len(p)
<1>1. /\ t \in Seq(Ids) /\ n \in Nat /\ m \in Nat /\ Len(t) = n + m
      /\ \A k \in 1 .. n + m : t[k] = IF k <= n THEN q[k] ELSE p[k - n]
  OBVIOUS
<1> HIDE DEF t, n, m
<1>2. \A k \in 1 .. Len(t) :
         /\ k \in Int
         /\ \/ k \in 1 .. n /\ t[k] = q[k]
            \/ k - n \in 1 .. m /\ t[k] = p[k - n]
  BY SMTT(30), <1>1
<1>3. \A i : Asked(t, i) => Asked(q, i) \/ Asked(p, i)
  BY Zenon, <1>2 DEF Asked, n, m
<1>4. ASSUME NEW i, AskedOnce(q, i), AskedOnce(p, i), ~(Asked(q, i) /\ Asked(p, i)),
             NEW k \in 1 .. Len(t), NEW l \in 1 .. Len(t), t[k] = i, t[l] = i
      PROVE  k = l
  <2>1. CASE k \in 1 .. n /\ q[k] = i /\ l \in 1 .. n /\ q[l] = i
    BY Zenon, <1>4, <2>1 DEF AskedOnce, n
  <2>2. CASE k - n \in 1 .. m /\ p[k - n] = i /\ l - n \in 1 .. m /\ p[l - n] = i
    <3>1. k - n = l - n
      BY SMTT(30), <1>4, <2>2 DEF AskedOnce, m
    <3> QED
      BY SMTT(30), <1>1, <1>2, <3>1
  <2>3. ~(k \in 1 .. n /\ q[k] = i /\ l - n \in 1 .. m /\ p[l - n] = i)
    BY SMTT(30), <1>4 DEF Asked, n, m
  <2>4. ~(l \in 1 .. n /\ q[l] = i /\ k - n \in 1 .. m /\ p[k - n] = i)
    BY SMTT(30), <1>4 DEF Asked, n, m
  <2> QED
    BY Zenon, <1>2, <1>4, <2>1, <2>2, <2>3, <2>4
<1>5. \A i : AskedOnce(q, i) /\ AskedOnce(p, i) /\ ~(Asked(q, i) /\ Asked(p, i))
             => AskedOnce(t, i)
  BY SMTT(30), <1>4 DEF AskedOnce
<1> QED
  BY SMTT(30), <1>1, <1>3, <1>5 DEF t

-----------------------------------------------------------------------------
\* The request of a session is at one place, and there is none while the
\* session has a connection.
Coming(i) == main.connect[i] > 0 \/ Asked(toMain, i) \/ Sent(toRtr, i)

OnePlace(i) ==
    /\ main.connect[i] <= 1 /\ AskedOnce(toMain, i) /\ SentOnce(toRtr, i)
    /\ main.connect[i] > 0 => ~Asked(toMain, i) /\ ~Sent(toRtr, i)
    /\ Asked(toMain, i) => ~Sent(toRtr, i)

Sockets ==
    /\ toMain \in Seq(Ids)
    /\ \A i \in Ids : OnePlace(i)
    /\ \A i \in Live(rs) : rs[i].open => ~Coming(i)

\* insert_rtr() hands out an id once, so nothing can be on its way to a
\* session that a configuration still in the pipe will start.
ConfRight(k) ==
    toRtr[k].type = "CONF" =>
        /\ main.phase = "sent" /\ nconf = None /\ DOMAIN toRtr[k].rtrs = main.rtrs
        /\ \A l \in 1 .. Len(toRtr) : toRtr[l].type = "CONF" => l = k
        /\ \A i \in main.rtrs \ Live(rs) : ~Coming(i)

Confs ==
    /\ Live(rs) \subseteq main.used /\ main.rtrs \subseteq main.used
    /\ \A i \in Ids \ main.used : ~Coming(i)
    /\ main.phase = "idle" => nconf = None /\ main.rtrs \subseteq Live(rs)
    /\ nconf # None => \A i \in main.rtrs : i \in Live(rs) /\ ~rs[i].delete
    /\ \A k \in 1 .. Len(toRtr) : ConfRight(k)

\* An event of one session
LEMMA EventSockets ==
    ASSUME rs \in [Ids -> Session \cup {NoSession}], Sockets, Confs, NEW i \in Live(rs), NEW q,
           Kept(rs[i], q), rs' = [rs EXCEPT ![i] = q], UNCHANGED <<nconf, toMain, toRtr, main>>
    PROVE  Sockets' /\ Confs'
<1>1. Live(rs') = Live(rs)
  BY DEF Live, Kept
<1>2. \A j \in Live(rs) : (rs'[j].open => rs[j].open) /\ rs'[j].delete = rs[j].delete
  BY SMTT(30) DEF Kept, Live
<1>3. \A j : (Coming(j)' <=> Coming(j)) /\ (OnePlace(j)' <=> OnePlace(j))
  BY SMTT(30) DEF Coming, OnePlace
<1>4. Sockets'
  BY SMTT(30), <1>1, <1>2, <1>3 DEF Sockets
<1>5. \A k \in 1 .. Len(toRtr) : ConfRight(k)'
  BY SMTT(30), <1>1, <1>3 DEF Confs, ConfRight
<1> QED
  BY ZenonT(30), <1>1, <1>2, <1>3, <1>4, <1>5 DEF Confs

\* rtr_fsm(CON_CLOSE or RESET_AND_CLOSE)
LEMMA CloseEvent ==
    ASSUME NEW i, rs[i] \in Session, NEW event, CloseSession(i, event)
    PROVE  \E q : Kept(rs[i], q) /\ rs' = [rs EXCEPT ![i] = q]
BY SMTT(30), CloseKept DEF CloseSession, Recalculated, Quietly

\* rtr_dispatch_msg() and the timers that do not ask for a connection
LEMMA EventStep ==
    ASSUME Inv, Sockets, Confs, NEW i \in Ids,
           \/ Hangup(i) \/ ErrorWritten(i) \/ rtr_process_msg(i)
           \/ TimerExpire(i) \/ TimerActive(i)
    PROVE  Sockets' /\ Confs'
<1>1. rs \in [Ids -> Session \cup {NoSession}]
  BY DEF Inv, Engine
<1>2. i \in Live(rs)
  <2>1. CASE Hangup(i) \/ ErrorWritten(i)
    BY Zenon, <2>1 DEF Hangup, ErrorWritten, Polled, Live
  <2>2. CASE rtr_process_msg(i)
    BY Zenon, <2>2, RtrAssumption DEF rtr_process_msg, Polled, Live, Inv, Reading
  <2>3. CASE TimerExpire(i) \/ TimerActive(i)
    BY SMTT(30), <2>3 DEF TimerExpire, TimerActive, Fires, Live
  <2> QED
    BY Zenon, <2>1, <2>2, <2>3
<1>3. rs[i] \in Session
  BY SMTT(30), <1>1, <1>2, LiveIsSession
<1>4. \E q : Kept(rs[i], q) /\ rs' = [rs EXCEPT ![i] = q]
  <2>1. CASE Hangup(i) \/ ErrorWritten(i)
    BY SMTT(30), <1>3, <2>1, CloseEvent DEF Hangup, ErrorWritten
  <2>2. CASE rtr_process_msg(i)
    BY SMTT(30), <1>2, <1>3, <2>2, ProcessKept
  <2>3. CASE TimerExpire(i)
    BY Zenon, <1>3, <2>3, ResetKept DEF TimerExpire, Recalculated
  <2>4. CASE TimerActive(i)
    <3> DEFINE q == [timer_stop(rs[i], "Active") EXCEPT !.lock = 0,
                                                       !.late = rs[i].state = "EXCHANGE"]
    <3>1. rs' = [rs EXCEPT ![i] = q]
      BY <2>4 DEF TimerActive, Recalculated
    <3>2. /\ q.state = rs[i].state /\ q.delete = rs[i].delete /\ q.open = rs[i].open
      BY <1>3 DEF Session, timer_stop
    <3> HIDE DEF q
    <3> QED
      BY Zenon, <1>2, <3>1, <3>2 DEF Kept, Live
  <2> QED
    BY ZenonT(30), <2>1, <2>2, <2>3, <2>4
<1>5. UNCHANGED <<nconf, toMain, toRtr, main>>
  BY ZenonT(30) DEF Hangup, ErrorWritten, rtr_process_msg, TimerExpire, TimerActive, Fires
<1> QED
  BY ZenonT(30), <1>1, <1>2, <1>4, <1>5, EventSockets

\* The retry timer asks for a connection when there is none and none is coming.
LEMMA RetrySockets ==
    ASSUME ~RetryOverlaps, Inv, Sockets, Confs, NEW i \in Ids, TimerRetry(i)
    PROVE  Sockets' /\ Confs'
<1>1. rs \in [Ids -> Session \cup {NoSession}] /\ toRtr \in Seq(Msg) /\ toMain \in Seq(Ids)
  BY SMTT(30) DEF Inv, Engine, Pipe, Sockets
<1>2. i \in Live(rs) /\ UNCHANGED <<nconf, toRtr, main>> /\ "Retry" \in rs[i].timers
  BY SMTT(30) DEF TimerRetry, Fires, Live
<1>3. rs[i] \in Session /\ SessionOK(rs[i])
  BY SMTT(30), <1>1, <1>2, LiveIsSession DEF Inv, Engine
<1>4. CASE rs[i].state = "ERROR" /\ CloseSession(i, "CON_CLOSE") /\ UNCHANGED toMain
  BY SMTT(30), <1>1, <1>2, <1>3, <1>4, CloseEvent, EventSockets
<1>5. CASE Quietly(i, timer_stop(rs[i], "Retry")) /\ UNCHANGED toMain
  <2>1. Kept(rs[i], timer_stop(rs[i], "Retry"))
    BY ZenonT(30), <1>3 DEF Session, timer_stop, Kept
  <2> QED
    BY ZenonT(30), <1>1, <1>2, <1>5, <2>1, EventSockets DEF Quietly
<1>6. CASE /\ rs[i].state \in {"CLOSED", "NEGOTIATION"} /\ ~SetupPending(i)
           /\ Quietly(i, rs[i]) /\ toMain' = Append(toMain, i)
  <2>1. ~rs[i].open
    BY SMTT(30), <1>2, <1>3, <1>6 DEF SessionOK, Session
  <2>2. rs' = rs
    BY SMTT(30), <1>1, <1>6 DEF Quietly
  <2>3. ~Coming(i)
    BY SMTT(30), <1>1, <1>6, PendingIs DEF Coming
  <2>4. /\ toMain' \in Seq(Ids)
        /\ \A j : Asked(toMain', j) <=> Asked(toMain, j) \/ j = i
        /\ \A j : AskedOnce(toMain, j) /\ (j = i => ~Asked(toMain, j)) => AskedOnce(toMain', j)
    BY SMTT(30), <1>1, <1>6, AskedAppend
  <2>5. \A j : j # i => (Coming(j)' <=> Coming(j))
    BY ZenonT(30), <1>2, <2>4 DEF Coming
  <2>6. \A j \in Ids : OnePlace(j)'
    <3> SUFFICES ASSUME NEW j \in Ids PROVE OnePlace(j)'
      OBVIOUS
    <3>1. OnePlace(j)
      BY DEF Sockets
    <3> QED
      BY SMTT(30), <1>2, <2>3, <2>4, <3>1 DEF OnePlace, Coming
  <2>7. Sockets'
    BY SMTT(30), <2>1, <2>2, <2>4, <2>5, <2>6 DEF Sockets
  <2>8. i \in main.used
    BY SMTT(30), <1>2 DEF Confs
  <2>9. \A k \in 1 .. Len(toRtr) : ConfRight(k)'
    BY ZenonT(30), <1>2, <2>2, <2>5 DEF Confs, ConfRight
  <2> QED
    BY SMTT(30), <1>2, <2>2, <2>5, <2>7, <2>8, <2>9 DEF Confs
<1> QED
  BY SMTT(30), <1>4, <1>5, <1>6 DEF TimerRetry

-----------------------------------------------------------------------------
\* Reading another message leaves a configuration in the pipe as it is.
LEMMA ConfTail ==
    ASSUME toRtr \in Seq(Msg), toRtr # <<>>, toRtr' = Tail(toRtr), UNCHANGED <<nconf, main>>,
           Live(rs') = Live(rs), \A j : Coming(j)' => Coming(j), Confs
    PROVE  \A k \in 1 .. Len(toRtr') : ConfRight(k)'
<1>1. \A k \in 1 .. Len(toRtr') :
         k \in Int /\ k + 1 \in 1 .. Len(toRtr) /\ toRtr'[k] = toRtr[k + 1]
  BY SMTT(30), TailOf
<1> SUFFICES ASSUME NEW k \in 1 .. Len(toRtr'), toRtr'[k].type = "CONF"
             PROVE  ConfRight(k)'
  BY SMTT(30) DEF ConfRight
<1>2. ConfRight(k + 1) /\ toRtr[k + 1].type = "CONF"
  BY SMTT(30), <1>1 DEF Confs
<1>3. ASSUME NEW l \in 1 .. Len(toRtr'), toRtr'[l].type = "CONF" PROVE l = k
  <2>1. l + 1 = k + 1
    BY SMTT(30), <1>1, <1>2, <1>3 DEF ConfRight
  <2> QED
    BY SMTT(30), <1>1, <2>1
<1> QED
  BY Zenon, <1>1, <1>2, <1>3 DEF ConfRight

\* So does a message of another type behind it.
LEMMA ConfAppend ==
    ASSUME toRtr \in Seq(Msg), NEW m, m.type # "CONF", toRtr' = Append(toRtr, m),
           nconf' = nconf, main'.phase = main.phase, main'.rtrs = main.rtrs,
           main.rtrs \in SUBSET Ids,
           Live(rs') = Live(rs), \A j \in Ids : Coming(j)' => Coming(j), Confs
    PROVE  \A k \in 1 .. Len(toRtr') : ConfRight(k)'
<1>1. \A k \in 1 .. Len(toRtr') :
         toRtr'[k].type = "CONF" => k \in 1 .. Len(toRtr) /\ toRtr'[k] = toRtr[k]
  BY SMTT(30)
<1> QED
  BY SMTT(30), <1>1 DEF Confs, ConfRight

\* rtr_open(): the connection that arrives is the one asked for.
LEMMA OpenSockets ==
    ASSUME Inv, Sockets, Confs, rtr_open
    PROVE  Sockets' /\ Confs'
<1>1. rs \in [Ids -> Session \cup {NoSession}] /\ toRtr \in Seq(Msg)
  BY SMTT(30) DEF Inv, Engine, Pipe
<1>2. /\ toRtr # <<>> /\ Head(toRtr).type = "SOCKET" /\ toRtr' = Tail(toRtr)
      /\ UNCHANGED <<nconf, toMain, main>>
  BY DEF rtr_open
<1>3. PICK i \in Ids : i = Head(toRtr).id
  <2>1. Head(toRtr) \in Msg
    BY ZenonT(30), <1>1, <1>2, TailOf
  <2> QED
    BY SMTT(30), <1>2, <2>1 DEF Msg
<1>4. /\ \A j : Sent(toRtr', j) => Sent(toRtr, j)
      /\ \A j : SentOnce(toRtr, j) => SentOnce(toRtr', j)
      /\ Sent(toRtr, i) /\ (SentOnce(toRtr, i) => ~Sent(toRtr', i))
  BY SMTT(30), <1>1, <1>2, <1>3, SentTail
<1>5. /\ Live(rs') = Live(rs)
      /\ \A j \in Live(rs) : rs'[j].delete = rs[j].delete /\ (j # i => rs'[j].open = rs[j].open)
  <2>1. CASE rs' = rs
    BY SMTT(30), <2>1
  <2>2. CASE rs[i].state # "NONE"
    <3> DEFINE s == rs[i]
               bad == s.state \notin {"CLOSED", "NEGOTIATION"}
               q == IF bad THEN fsm_close(s, "CON_CLOSE") ELSE s
               v == rtr_max_session_version(s)
               o == IF q.state = "CLOSED" THEN [q EXCEPT !.version = v, !.prev = v] ELSE q
               x == fsm_open([o EXCEPT !.open = TRUE])
    <3>1. rs' = [rs EXCEPT ![i] = x]
      BY SMTT(30), <1>3, <2>2 DEF rtr_open
    <3>2. s \in Session /\ SessionOK(s)
      BY ZenonT(30), <1>1, <2>2, LiveIsSession DEF Live, Inv, Engine
    <3> HIDE DEF s
    <3>3. q \in Session /\ q.delete = s.delete
      BY SMTT(30), <3>2, CloseGood, CloseKept DEF Good, Kept
    <3> HIDE DEF q
    <3>4. x.state = "NEGOTIATION" /\ x.delete = s.delete
      BY Zenon, <3>3 DEF fsm_open, timer_stop, Session
    <3> HIDE DEF x
    <3> QED
      BY SMTT(30), <1>1, <1>3, <2>2, <3>1, <3>4 DEF Live, s
  <2> QED
    BY SMTT(30), <1>3, <2>1, <2>2 DEF rtr_open
<1>6. \A j : Coming(j)' => Coming(j)
  BY Zenon, <1>2, <1>4 DEF Coming
<1>7. \A j \in Ids : OnePlace(j)'
  BY Zenon, <1>2, <1>4 DEF OnePlace, Sockets
<1>8. ~Coming(i)'
  BY ZenonT(30), <1>2, <1>3, <1>4 DEF Coming, OnePlace, Sockets
<1>9. Sockets'
  BY SMTT(30), <1>2, <1>5, <1>6, <1>7, <1>8 DEF Sockets
<1>10. \A k \in 1 .. Len(toRtr') : ConfRight(k)'
  BY ZenonT(30), <1>1, <1>2, <1>5, <1>6, ConfTail
<1> QED
  BY ZenonT(30), <1>2, <1>5, <1>6, <1>9, <1>10 DEF Confs

-----------------------------------------------------------------------------
\* The parent moves a request on, or drops it.
LEMMA MovedOn ==
    ASSUME Sockets, Confs, UNCHANGED <<rs, nconf>>, toMain' \in Seq(Ids),
           main'.rtrs = main.rtrs, main'.used = main.used, main'.phase = main.phase,
           \A j \in Ids : (Coming(j)' => Coming(j)) /\ OnePlace(j)',
           \A k \in 1 .. Len(toRtr') : ConfRight(k)'
    PROVE  Sockets' /\ Confs'
<1>1. Sockets'
  BY DEF Sockets, Live
<1> QED
  BY SMTT(30), <1>1 DEF Confs

\* Counting a pending connection
LEMMA ConnectIs ==
    ASSUME Pipe, NEW i \in Ids, NEW n \in Nat, main' = [main EXCEPT !.connect[i] = n]
    PROVE  /\ main'.rtrs = main.rtrs /\ main'.used = main.used /\ main'.phase = main.phase
           /\ main'.connect[i] = n /\ \A j \in Ids : j # i => main'.connect[j] = main.connect[j]
<1> DEFINE f == [main.connect EXCEPT ![i] = n]
<1>1. main.connect \in [Ids -> Nat]
  BY DEF Pipe
<1>2. f[i] = n /\ \A j \in Ids : j # i => f[j] = main.connect[j]
  BY <1>1
<1>3. main' = [main EXCEPT !.connect = f]
  OBVIOUS
<1> HIDE DEF f
<1> QED
  BY SMTT(30), <1>2, <1>3 DEF Pipe

\* An answer of the parent to session i
LEMMA SocketSent ==
    ASSUME Pipe, NEW i \in Ids, toRtr' = Append(toRtr, imsg("SOCKET", i))
    PROVE  /\ imsg("SOCKET", i).type # "CONF"
           /\ \A j : Sent(toRtr', j) <=> Sent(toRtr, j) \/ j = i
           /\ \A j : SentOnce(toRtr, j) /\ (j = i => ~Sent(toRtr, j)) => SentOnce(toRtr', j)
<1> DEFINE m == imsg("SOCKET", i)
<1>1. m \in Msg /\ m.type = "SOCKET" /\ m.id = i
  BY Zenon DEF Msg, imsg
<1>2. toRtr \in Seq(Msg)
  BY DEF Pipe
<1> HIDE DEF m
<1>3. toRtr' = Append(toRtr, m)
  BY DEF m
<1>4. /\ \A j : Sent(toRtr', j) <=> Sent(toRtr, j) \/ j = i
      /\ \A j : SentOnce(toRtr, j) /\ (j = i => ~Sent(toRtr, j)) => SentOnce(toRtr', j)
  BY SMTT(30), <1>1, <1>2, <1>3, SentAppend
<1> QED
  BY Zenon, <1>1, <1>4 DEF m

\* bgpd_rtr_conn_setup()
LEMMA SetupSockets ==
    ASSUME Pipe, Sockets, Confs, bgpd_rtr_conn_setup
    PROVE  Sockets' /\ Confs'
<1>1. /\ toMain # <<>> /\ toMain' = Tail(toMain) /\ UNCHANGED <<rs, nconf>>
      /\ toMain \in Seq(Ids) /\ toRtr \in Seq(Msg) /\ main.rtrs \in SUBSET Ids
      /\ main.connect \in [Ids -> Nat]
  BY DEF bgpd_rtr_conn_setup, Sockets, Pipe
<1>2. PICK i \in Ids : i = Head(toMain)
  BY ZenonT(30), <1>1, AskedTail
<1>3. /\ toMain' \in Seq(Ids) /\ Asked(toMain, i)
      /\ \A j : Asked(toMain', j) => Asked(toMain, j)
      /\ \A j : AskedOnce(toMain, j) => AskedOnce(toMain', j)
      /\ AskedOnce(toMain, i) => ~Asked(toMain', i)
  BY SMTT(30), <1>1, <1>2, AskedTail
<1>4. \A j \in Ids : OnePlace(j)
  BY ZenonT(30) DEF Sockets
<1>5. main.connect[i] = 0 /\ ~Sent(toRtr, i) /\ ~Asked(toMain', i) /\ Coming(i)
  BY SMTT(30), <1>1, <1>3, <1>4 DEF OnePlace, Coming
<1>6. CASE UNCHANGED <<toRtr, main>>
  <2>1. \A j \in Ids : (Coming(j)' => Coming(j)) /\ OnePlace(j)'
    BY Zenon, <1>3, <1>4, <1>6 DEF Coming, OnePlace
  <2>2. \A k \in 1 .. Len(toRtr') : ConfRight(k)'
    BY Zenon, <1>1, <1>6, <2>1 DEF Confs, ConfRight
  <2> QED
    BY Zenon, <1>1, <1>3, <1>6, <2>1, <2>2, MovedOn
<1>7. CASE Connected(i, main)
  <2>1. toRtr' = Append(toRtr, imsg("SOCKET", i)) /\ main' = main
    BY SMTT(30), <1>7 DEF Connected
  <2>2. /\ imsg("SOCKET", i).type # "CONF"
        /\ \A j : Sent(toRtr', j) <=> Sent(toRtr, j) \/ j = i
        /\ \A j : SentOnce(toRtr, j) /\ (j = i => ~Sent(toRtr, j)) => SentOnce(toRtr', j)
    BY SMTT(30), <2>1, SocketSent
  <2>3. ASSUME NEW j \in Ids PROVE (Coming(j)' => Coming(j)) /\ OnePlace(j)'
    <3>1. CASE j = i
      BY ZenonT(30), <1>3, <1>4, <1>5, <2>1, <2>2, <3>1 DEF OnePlace
    <3>2. CASE j # i
      BY Zenon, <1>3, <1>4, <2>1, <2>2, <3>2 DEF Coming, OnePlace
    <3> QED
      BY SMTT(30), <3>1, <3>2
  <2>4. \A k \in 1 .. Len(toRtr') : ConfRight(k)'
    BY ZenonT(30), <1>1, <2>1, <2>2, <2>3, ConfAppend
  <2> QED
    BY ZenonT(30), <1>1, <1>3, <2>1, <2>3, <2>4, MovedOn
<1>8. CASE main' = [main EXCEPT !.connect[i] = @ + 1] /\ UNCHANGED toRtr
  <2>1. /\ main'.rtrs = main.rtrs /\ main'.used = main.used /\ main'.phase = main.phase
        /\ main'.connect[i] = 1 /\ \A j \in Ids : j # i => main'.connect[j] = main.connect[j]
    <3>1. main' = [main EXCEPT !.connect[i] = 1]
      BY SMTT(30), <1>5, <1>8
    <3> QED
      BY SMTT(30), <3>1, ConnectIs
  <2>2. ASSUME NEW j \in Ids PROVE (Coming(j)' => Coming(j)) /\ OnePlace(j)'
    <3>1. CASE j = i
      BY SMTT(30), <1>3, <1>4, <1>5, <1>8, <2>1, <3>1 DEF OnePlace
    <3>2. CASE j # i
      BY SMTT(30), <1>3, <1>4, <1>8, <2>1, <3>2 DEF Coming, OnePlace
    <3> QED
      BY <3>1, <3>2
  <2>3. \A k \in 1 .. Len(toRtr') : ConfRight(k)'
    BY SMTT(30), <1>1, <1>8, <2>1, <2>2 DEF Confs, ConfRight
  <2> QED
    BY ZenonT(30), <1>1, <1>3, <2>1, <2>2, <2>3, MovedOn
<1> QED
  BY SMTT(30), <1>2, <1>6, <1>7, <1>8 DEF bgpd_rtr_conn_setup

\* bgpd_rtr_conn_setup_done()
LEMMA SetupDoneSockets ==
    ASSUME Pipe, Sockets, Confs, NEW i \in Ids, bgpd_rtr_conn_setup_done(i)
    PROVE  Sockets' /\ Confs'
<1>1. /\ UNCHANGED <<rs, nconf, toMain>> /\ main.connect[i] > 0
      /\ toMain \in Seq(Ids) /\ toRtr \in Seq(Msg) /\ main.rtrs \in SUBSET Ids
      /\ main.connect \in [Ids -> Nat]
  BY DEF bgpd_rtr_conn_setup_done, Sockets, Pipe
<1>2. \A j \in Ids : OnePlace(j)
  BY SMTT(30) DEF Sockets
<1>3. main.connect[i] = 1 /\ ~Sent(toRtr, i) /\ ~Asked(toMain, i) /\ Coming(i)
  BY SMTT(30), <1>1, <1>2 DEF OnePlace, Coming
<1>4. main' = [main EXCEPT !.connect[i] = 0]
  BY <1>3 DEF bgpd_rtr_conn_setup_done, Connected
<1>5. /\ main'.rtrs = main.rtrs /\ main'.used = main.used /\ main'.phase = main.phase
      /\ main'.connect[i] = 0 /\ \A j \in Ids : j # i => main'.connect[j] = main.connect[j]
  BY SMTT(30), <1>4, ConnectIs
<1>6. CASE UNCHANGED toRtr
  <2>1. ASSUME NEW j \in Ids PROVE (Coming(j)' => Coming(j)) /\ OnePlace(j)'
    <3>1. CASE j = i
      BY SMTT(30), <1>1, <1>2, <1>3, <1>5, <1>6, <3>1 DEF OnePlace
    <3>2. CASE j # i
      BY Zenon, <1>1, <1>2, <1>5, <1>6, <3>2 DEF Coming, OnePlace
    <3> QED
      BY ZenonT(30), <3>1, <3>2
  <2>2. \A k \in 1 .. Len(toRtr') : ConfRight(k)'
    BY ZenonT(30), <1>1, <1>5, <1>6, <2>1 DEF Confs, ConfRight
  <2> QED
    BY SMTT(30), <1>1, <1>5, <2>1, <2>2, MovedOn
<1>7. CASE toRtr' = Append(toRtr, imsg("SOCKET", i))
  <2>1. /\ imsg("SOCKET", i).type # "CONF"
        /\ \A j : Sent(toRtr', j) <=> Sent(toRtr, j) \/ j = i
        /\ \A j : SentOnce(toRtr, j) /\ (j = i => ~Sent(toRtr, j)) => SentOnce(toRtr', j)
    BY SMTT(30), <1>7, SocketSent
  <2>2. ASSUME NEW j \in Ids PROVE (Coming(j)' => Coming(j)) /\ OnePlace(j)'
    <3>1. CASE j = i
      <4>1. /\ AskedOnce(toMain, i) /\ SentOnce(toRtr, i)
            /\ toMain' = toMain /\ main'.connect[i] = 0
            /\ ~(main'.connect[i] > 0) /\ main'.connect[i] <= 1
        BY SMTT(30), <1>1, <1>2, <1>5 DEF OnePlace
      <4>2. SentOnce(toRtr', i) /\ ~Asked(toMain', i)
        BY Zenon, <1>3, <2>1, <4>1
      <4> QED
        BY ZenonT(30), <1>3, <3>1, <4>1, <4>2 DEF OnePlace
    <3>2. CASE j # i
      BY Zenon, <1>1, <1>2, <1>5, <2>1, <3>2 DEF Coming, OnePlace
    <3> QED
      BY <3>1, <3>2
  <2>3. \A k \in 1 .. Len(toRtr') : ConfRight(k)'
    BY ZenonT(30), <1>1, <1>5, <1>7, <2>1, <2>2, ConfAppend
  <2> QED
    BY <1>1, <1>5, <2>2, <2>3, MovedOn
<1> QED
  BY SMTT(30), <1>6, <1>7 DEF bgpd_rtr_conn_setup_done, Connected

-----------------------------------------------------------------------------
\* IMSG_RECONF_CONF and what follows it: the new sessions ask for their first
\* connection.
LEMMA RecvConfSockets ==
    ASSUME Inv, Sockets, Confs, RecvConf
    PROVE  Sockets' /\ Confs'
<1>1. /\ rs \in [Ids -> Session \cup {NoSession}] /\ toRtr \in Seq(Msg) /\ toMain \in Seq(Ids)
      /\ main.rtrs \in SUBSET Ids /\ main' = main /\ toRtr # <<>> /\ toRtr' = Tail(toRtr)
  BY ZenonT(30) DEF Inv, Engine, Pipe, Sockets, RecvConf
<1>2. PICK m \in Msg : m = Head(toRtr) /\ m = toRtr[1] /\ m.type = "CONF"
  BY Zenon, <1>1, TailOf DEF RecvConf
<1>3. /\ 1 \in 1 .. Len(toRtr)
      /\ \A k \in 1 .. Len(toRtr') :
            k \in Int /\ k + 1 # 1 /\ k + 1 \in 1 .. Len(toRtr) /\ toRtr'[k] = toRtr[k + 1]
  BY SMTT(30), <1>1, TailOf
<1>4. /\ main.phase = "sent" /\ DOMAIN m.rtrs = main.rtrs
      /\ \A l \in 1 .. Len(toRtr) : toRtr[l].type = "CONF" => l = 1
      /\ \A i \in main.rtrs \ Live(rs) : ~Coming(i)
  BY SMTT(30), <1>2, <1>3 DEF Confs, ConfRight
<1>5. \A k \in 1 .. Len(toRtr') : toRtr'[k].type # "CONF"
  BY SMTT(30), <1>3, <1>4
<1>6. PICK new \in SUBSET Ids : new = main.rtrs \ Live(rs)
  BY Zenon, <1>1
<1>7. /\ rs' = [i \in Ids |->
                    IF i \in new THEN rtr_new(m.rtrs[i])
                    ELSE IF i \in main.rtrs
                    THEN [rs[i] EXCEPT !.min = m.rtrs[i], !.delete = FALSE]
                    ELSE IF i \in Live(rs) THEN [rs[i] EXCEPT !.delete = TRUE]
                    ELSE rs[i]]
      /\ toMain' = toMain \o InSomeOrder(new)
  BY ZenonT(30), <1>2, <1>4, <1>6 DEF RecvConf
<1>8. ASSUME NEW i \in new
      PROVE  rs'[i].state # "NONE" /\ rs'[i].open = FALSE /\ rs'[i].delete = FALSE
  BY Zenon, <1>7 DEF rtr_new
<1>9. ASSUME NEW i \in Live(rs)
      PROVE  /\ i \in Ids /\ rs'[i].state # "NONE" /\ rs'[i].open = rs[i].open
             /\ i \in main.rtrs => rs'[i].delete = FALSE
  <2>1. i \in Ids /\ i \notin new /\ rs[i].state # "NONE"
    BY SMTT(30), <1>6 DEF Live
  <2>2. rs[i] \in Session
    BY SMTT(30), <1>1, <2>1, LiveIsSession
  <2>3. CASE i \in main.rtrs
    <3>1. rs'[i] = [rs[i] EXCEPT !.min = m.rtrs[i], !.delete = FALSE]
      BY Zenon, <1>7, <2>1, <2>3
    <3> QED
      BY SMTT(30), <2>1, <2>2, <3>1 DEF Session
  <2>4. CASE i \notin main.rtrs
    <3>1. rs'[i] = [rs[i] EXCEPT !.delete = TRUE]
      BY ZenonT(30), <1>7, <2>1, <2>4
    <3> QED
      BY SMTT(30), <2>1, <2>2, <2>4, <3>1 DEF Session
  <2> QED
    BY Zenon, <2>3, <2>4
<1>10. Live(rs') = Live(rs) \cup new
  <2>1. \A i \in Ids : i \notin Live(rs) \cup new => rs'[i].state = "NONE"
    BY Zenon, <1>6, <1>7 DEF Live
  <2> QED
    BY Zenon, <1>8, <1>9, <2>1 DEF Live
<1> DEFINE p == InSomeOrder(new)
<1>11. p \in Seq(Ids) /\ \A i : AskedOnce(p, i) /\ (Asked(p, i) => i \in new)
  <2>1. p \in Seq(new) /\ \A i : AskedOnce(p, i) /\ (Asked(p, i) => i \in new)
    BY SMTT(30), InOrderOnce
  <2> HIDE DEF p
  <2> QED
    BY SMTT(30), <2>1
<1>12. toMain' = toMain \o p
  BY ZenonT(30), <1>7
<1> HIDE DEF p
<1>13. /\ toMain' \in Seq(Ids)
       /\ \A i : Asked(toMain', i) => Asked(toMain, i) \/ i \in new
       /\ \A i : AskedOnce(toMain, i) /\ (i \in new => ~Asked(toMain, i)) => AskedOnce(toMain', i)
  BY ZenonT(30), <1>1, <1>11, <1>12, AskedMany
<1>14. /\ \A i : Sent(toRtr', i) => Sent(toRtr, i)
       /\ \A i : SentOnce(toRtr, i) => SentOnce(toRtr', i)
  BY SMTT(30), <1>1, SentTail
<1>15. \A i : Coming(i)' => Coming(i) \/ i \in new
  BY SMTT(30), <1>1, <1>13, <1>14 DEF Coming
<1>16. ASSUME NEW i \in Ids PROVE OnePlace(i)'
  <2>1. OnePlace(i)
    BY SMTT(30) DEF Sockets
  <2>2. CASE i \in new
    <3>1. ~Coming(i)
      BY SMTT(30), <1>4, <1>6, <2>2
    <3> QED
      BY SMTT(30), <1>1, <1>13, <1>14, <2>1, <3>1 DEF Coming, OnePlace
  <2>3. CASE i \notin new
    BY SMTT(30), <1>1, <1>13, <1>14, <2>1, <2>3 DEF OnePlace
  <2> QED
    BY SMTT(30), <2>2, <2>3
<1>17. Sockets'
  <2>1. ASSUME NEW i \in Live(rs'), rs'[i].open PROVE ~Coming(i)'
    BY ZenonT(30), <1>6, <1>8, <1>9, <1>10, <1>15, <2>1 DEF Sockets
  <2> QED
    BY SMTT(30), <1>13, <1>16, <2>1 DEF Sockets
<1>18. \A k \in 1 .. Len(toRtr') : ConfRight(k)'
  BY <1>5 DEF ConfRight
<1>19. \A i \in main'.rtrs : i \in Live(rs') /\ ~rs'[i].delete
  BY Zenon, <1>1, <1>6, <1>8, <1>9, <1>10
<1>20. \A i \in Ids \ main'.used : ~Coming(i)'
  BY Zenon, <1>1, <1>6, <1>15 DEF Confs
<1> QED
  BY SMTT(30), <1>1, <1>4, <1>6, <1>10, <1>17, <1>18, <1>19, <1>20 DEF Confs

\* IMSG_RECONF_DONE: the sessions of the new configuration stay.
LEMMA RecvDoneSockets ==
    ASSUME Inv, Sockets, Confs, RecvDone
    PROVE  Sockets' /\ Confs'
<1>1. /\ rs \in [Ids -> Session \cup {NoSession}] /\ toRtr \in Seq(Msg)
      /\ main' = [main EXCEPT !.phase = "idle"] /\ toRtr # <<>> /\ toRtr' = Tail(toRtr)
      /\ toMain' = toMain /\ nconf' = None
      /\ rs' = [i \in Ids |-> IF i \in {j \in Live(rs) : rs[j].delete} THEN NoSession ELSE rs[i]]
  BY DEF Inv, Engine, Pipe, RecvDone
<1>2. /\ main'.phase = "idle" /\ main'.rtrs = main.rtrs /\ main'.used = main.used
      /\ main'.connect = main.connect
  BY <1>1 DEF Inv, Pipe
<1>3. 1 \in 1 .. Len(toRtr) /\ toRtr[1].type = "DONE"
  BY SMTT(30), <1>1, TailOf DEF RecvDone
<1>4. main.phase = "done" /\ nconf # None
  BY SMTT(30), <1>3 DEF Inv, Pipe
<1>5. \A k \in 1 .. Len(toRtr) : toRtr[k].type # "CONF"
  BY <1>4 DEF Confs, ConfRight
<1>6. \A k \in 1 .. Len(toRtr') : toRtr'[k].type # "CONF"
  BY SMTT(30), <1>1, <1>5, TailOf
<1>7. \A i \in Ids : i \in Live(rs') <=> i \in Live(rs) /\ ~rs[i].delete
  BY <1>1 DEF Live, NoSession
<1>8. Live(rs') \subseteq Live(rs) /\ \A i \in Live(rs') : rs'[i] = rs[i]
  BY SMTT(30), <1>1, <1>7 DEF Live, NoSession
<1>9. main.rtrs \subseteq Live(rs')
  BY SMTT(30), <1>4, <1>7 DEF Confs, Live
<1>10. /\ \A i : Sent(toRtr', i) => Sent(toRtr, i)
       /\ \A i : SentOnce(toRtr, i) => SentOnce(toRtr', i)
  BY SMTT(30), <1>1, SentTail
<1>11. \A i : Coming(i)' => Coming(i)
  BY SMTT(30), <1>1, <1>2, <1>10 DEF Coming
<1>12. \A i \in Ids : OnePlace(i)'
  BY SMTT(30), <1>1, <1>2, <1>10 DEF OnePlace, Sockets
<1>13. Sockets'
  BY SMTT(30), <1>1, <1>8, <1>11, <1>12 DEF Sockets
<1>14. \A k \in 1 .. Len(toRtr') : ConfRight(k)'
  BY SMTT(30), <1>6 DEF ConfRight
<1> QED
  BY SMTT(30), <1>1, <1>2, <1>8, <1>9, <1>11, <1>13, <1>14 DEF Confs

\* reconfigure(): the ids of new caches were never used before.
LEMMA ReloadSockets ==
    ASSUME Pipe, Sockets, Confs, Reload
    PROVE  Sockets' /\ Confs'
<1>1. /\ toRtr \in Seq(Msg) /\ main.phase = "idle" /\ UNCHANGED <<rs, nconf, toMain>>
      /\ main.rtrs \in SUBSET Ids /\ main.used \in SUBSET Ids
  BY SMTT(30) DEF Pipe, Reload
<1>2. PICK ids \in SUBSET (main.rtrs \cup (Ids \ main.used)), c \in StaticConfs :
         \E min \in [ids -> MinVersions] :
            /\ toRtr' = Append(toRtr, [type |-> "CONF", rtrs |-> min, recs |-> c])
            /\ main' = [main EXCEPT !.rtrs = ids, !.used = @ \cup ids,
                                    !.phase = "sent", !.reloads = @ + 1]
  BY Zenon DEF Reload
<1>3. PICK min \in [ids -> MinVersions] :
         /\ toRtr' = Append(toRtr, [type |-> "CONF", rtrs |-> min, recs |-> c])
         /\ main' = [main EXCEPT !.rtrs = ids, !.used = @ \cup ids,
                                 !.phase = "sent", !.reloads = @ + 1]
  BY Zenon, <1>2
<1>4. /\ main'.rtrs = ids /\ main'.used = main.used \cup ids /\ main'.phase = "sent"
      /\ main'.connect = main.connect
  BY SMTT(30), <1>3 DEF Pipe
<1> DEFINE m == [type |-> "CONF", rtrs |-> min, recs |-> c]
<1>5. m \in Msg /\ m.type = "CONF" /\ DOMAIN m.rtrs = ids
  <2>1. ids \in SUBSET Ids
    BY SMTT(30), <1>1, <1>2
  <2>2. min \in UNION {[s -> MinVersions] : s \in SUBSET Ids}
    BY <2>1
  <2> QED
    BY <2>2 DEF Msg
<1>6. toRtr' = Append(toRtr, m)
  BY Zenon, <1>3
<1> HIDE DEF m
<1>7. /\ \A i : Sent(toRtr', i) <=> Sent(toRtr, i)
      /\ \A i : SentOnce(toRtr, i) => SentOnce(toRtr', i)
  BY ZenonT(30), <1>1, <1>5, <1>6, SentAppend
<1>8. \A i : (Coming(i)' <=> Coming(i)) /\ (OnePlace(i) => OnePlace(i)')
  BY SMTT(30), <1>1, <1>4, <1>7 DEF Coming, OnePlace
<1>9. Sockets'
  BY SMTT(30), <1>1, <1>8 DEF Sockets
<1>10. nconf = None /\ main.rtrs \subseteq Live(rs)
  BY SMTT(30), <1>1 DEF Confs
<1>11. \A k \in 1 .. Len(toRtr) : toRtr[k].type # "CONF"
  BY SMTT(30), <1>1 DEF Confs, ConfRight
<1>12. \A k \in 1 .. Len(toRtr') : toRtr'[k].type = "CONF" => k = Len(toRtr) + 1 /\ toRtr'[k] = m
  BY SMTT(30), <1>1, <1>6, <1>11
<1>13. \A i \in ids \ Live(rs) : ~Coming(i)
  BY ZenonT(30), <1>1, <1>2, <1>10 DEF Confs
<1>14. \A k \in 1 .. Len(toRtr') : ConfRight(k)'
  BY SMTT(30), <1>1, <1>4, <1>5, <1>8, <1>10, <1>12, <1>13 DEF ConfRight
<1> QED
  BY SMTT(30), <1>1, <1>4, <1>8, <1>9, <1>10, <1>14 DEF Confs

\* The last message of a reconfiguration
LEMMA ReloadDoneSockets ==
    ASSUME Pipe, Sockets, Confs, ReloadDone
    PROVE  Sockets' /\ Confs'
<1> DEFINE m == [type |-> "DONE"]
<1>1. /\ toRtr \in Seq(Msg) /\ nconf # None /\ UNCHANGED <<rs, nconf, toMain>>
      /\ toRtr' = Append(toRtr, m)
  BY DEF Pipe, ReloadDone
<1>2. /\ main'.rtrs = main.rtrs /\ main'.used = main.used /\ main'.phase = "done"
      /\ main'.connect = main.connect
  BY SMTT(30) DEF Pipe, ReloadDone
<1>3. m \in Msg /\ m.type = "DONE"
  BY DEF Msg
<1> HIDE DEF m
<1>4. /\ \A i : Sent(toRtr', i) <=> Sent(toRtr, i)
      /\ \A i : SentOnce(toRtr, i) => SentOnce(toRtr', i)
  BY SMTT(30), <1>1, <1>3, SentAppend
<1>5. \A i : (Coming(i)' <=> Coming(i)) /\ (OnePlace(i) => OnePlace(i)')
  BY SMTT(30), <1>1, <1>2, <1>4 DEF Coming, OnePlace
<1>6. Sockets'
  BY SMTT(30), <1>1, <1>5 DEF Sockets
<1>7. \A k \in 1 .. Len(toRtr) : toRtr[k].type # "CONF"
  BY SMTT(30), <1>1 DEF Confs, ConfRight
<1>8. \A k \in 1 .. Len(toRtr') : toRtr'[k].type # "CONF"
  BY SMTT(30), <1>1, <1>3, <1>7
<1>9. \A k \in 1 .. Len(toRtr') : ConfRight(k)'
  BY <1>8 DEF ConfRight
<1> QED
  BY SMTT(30), <1>1, <1>2, <1>5, <1>6, <1>9 DEF Confs

-----------------------------------------------------------------------------
\* The sessions of the first configuration have asked for their connections.
LEMMA InitSockets == Init => Sockets /\ Confs
<1> SUFFICES ASSUME Init PROVE Sockets /\ Confs
  BY SMTT(30)
<1>1. PICK min \in [Boot -> MinVersions] :
           rs = [i \in Ids |-> IF i \in Boot THEN rtr_new(min[i]) ELSE NoSession]
  BY DEF Init
<1>2. \A i \in Ids : i \in Live(rs) <=> i \in Boot
  BY ZenonT(30), <1>1 DEF Live, rtr_new, NoSession
<1>3. Live(rs) = Boot /\ \A i \in Live(rs) : ~rs[i].open
  BY SMTT(30), <1>1, <1>2, RtrAssumption DEF Live, rtr_new
<1>4. /\ toMain = InSomeOrder(Boot) /\ toRtr = <<>> /\ nconf = None
      /\ main.rtrs = Boot /\ main.used = Boot /\ main.phase = "idle"
      /\ \A i \in Ids : main.connect[i] = 0
  BY DEF Init
<1>5. Boot \in SUBSET Ids
  BY SMTT(30), RtrAssumption
<1>6. /\ toMain \in Seq(Boot)
      /\ \A i : AskedOnce(toMain, i) /\ (Asked(toMain, i) => i \in Boot)
  BY SMTT(30), <1>4, <1>5, InOrderOnce
<1>7. toMain \in Seq(Ids)
  BY SMTT(30), <1>5, <1>6
<1>8. Len(toRtr) = 0 /\ \A i : SentOnce(toRtr, i) /\ ~Sent(toRtr, i)
  BY SMTT(30), <1>4 DEF SentOnce, Sent
<1>9. ASSUME NEW i \in Ids
      PROVE  OnePlace(i) /\ (Coming(i) => i \in Boot)
  <2>1. main.connect[i] <= 1 /\ ~(main.connect[i] > 0)
    BY <1>4
  <2> QED
    BY ZenonT(30), <1>6, <1>8, <2>1 DEF OnePlace, Coming
<1>10. Sockets
  BY <1>3, <1>7, <1>9 DEF Sockets
<1> QED
  BY SMTT(30), <1>3, <1>4, <1>8, <1>9, <1>10 DEF Confs

LEMMA NextSockets ==
    ASSUME ~RetryOverlaps, Inv, Sockets, Confs, [Next]_vars
    PROVE  Sockets' /\ Confs'
<1>1. CASE UNCHANGED <<rs, nconf, toMain, toRtr, main>>
  <2>1. \A i : (Coming(i)' <=> Coming(i)) /\ (OnePlace(i)' <=> OnePlace(i))
    BY SMTT(30), <1>1 DEF Coming, OnePlace
  <2>2. \A k \in 1 .. Len(toRtr) : ConfRight(k)'
    BY SMTT(30), <1>1, <2>1 DEF Confs, ConfRight
  <2> QED
    BY ZenonT(30), <1>1, <2>1, <2>2 DEF Sockets, Confs
<1>2. Pipe
  BY SMTT(30) DEF Inv
<1>3. CASE vars' = vars \/ ExpireStatic
  BY SMTT(30), <1>1, <1>3 DEF vars, ExpireStatic
<1>4. CASE \E i \in Ids : \/ Hangup(i) \/ ErrorWritten(i) \/ rtr_process_msg(i)
                          \/ TimerExpire(i) \/ TimerActive(i)
  BY SMTT(30), <1>4, EventStep
<1>5. CASE \E i \in Ids : TimerRetry(i)
  BY SMTT(30), <1>5, RetrySockets
<1>6. CASE \E i \in Ids : bgpd_rtr_conn_setup_done(i)
  BY SMTT(30), <1>2, <1>6, SetupDoneSockets
<1>7. CASE rtr_open \/ RecvConf \/ RecvDone
  BY SMTT(30), <1>7, OpenSockets, RecvConfSockets, RecvDoneSockets
<1>8. CASE Reload \/ ReloadDone \/ bgpd_rtr_conn_setup
  BY SMTT(30), <1>2, <1>8, ReloadSockets, ReloadDoneSockets, SetupSockets
<1> QED
  BY ZenonT(30), <1>3, <1>4, <1>5, <1>6, <1>7, <1>8 DEF Next

\* rtr_open(): every session without a connection will ask for one, and a
\* connection that arrives from the parent never replaces one in use, whatever
\* reloads add and delete sessions meanwhile.
THEOREM ReconnectsKept ==
    ASSUME ~NoDataAnytime, ~RetryOverlaps
    PROVE  Spec => []Reconnects
<1>1. Init => Inv /\ Sockets /\ Confs
  BY SMTT(30), InitInv, InitSockets
<1>2. Inv /\ Sockets /\ Confs /\ [Next]_vars => Inv' /\ Sockets' /\ Confs'
  BY SMTT(30), NextInv, NextSockets
<1>3. Inv /\ Sockets /\ Confs => Reconnects
  <2> SUFFICES ASSUME Inv, Sockets, Confs PROVE Reconnects
    BY SMTT(30)
  <2>1. toRtr \in Seq(Msg) /\ toMain \in Seq(Ids)
    BY SMTT(30) DEF Inv, Pipe, Sockets
  <2>2. ASSUME NEW k \in DOMAIN toRtr, toRtr[k].type = "SOCKET", toRtr[k].id \in Live(rs)
        PROVE  ~rs[toRtr[k].id].open
    <3>1. Sent(toRtr, toRtr[k].id)
      BY <2>1, <2>2 DEF Sent, SocketAt
    <3> QED
      BY SMTT(30), <2>2, <3>1 DEF Sockets, Coming
  <2> QED
    BY SMTT(30), <2>2, InvRight DEF Reconnects, NoSocketReplaced
<1> QED
  BY <1>1, <1>2, <1>3, PTL DEF Spec
=============================================================================
